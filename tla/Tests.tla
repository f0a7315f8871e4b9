------------------------------- MODULE Tests --------------------------------
(***************************************************************************)
(* test.cpp: main calls func, which TEST sets when the program is built to *)
(* the one test that is wanted.  The tests that move data out of the       *)
(* machine are rcmain, netmain (in two processes, a client and a server)   *)
(* and diskmain; they share no state.  The tests of the caches are in      *)
(* MemBench.                                                               *)
(***************************************************************************)
EXTENDS RcResources, EchoNet, DiskWrite

VARIABLE func    \* the test that was built

testVars == <<func, vars, echoVars, diskVars>>

\* A test that was not built stays in one of its initial states.
TestInit ==
    /\ Init /\ NetInit /\ DiskInit
    /\ \/ func = "rcmain" /\ fileSize = 0
       \/ func = "netmain" /\ role = "server" /\ stdin = (TRUE \in Stdins) /\ fileSize = 0
       \/ func = "diskmain" /\ role = "server" /\ stdin = (TRUE \in Stdins)

RcTest == func = "rcmain" /\ Next /\ UNCHANGED <<func, echoVars, diskVars>>

Netmain(A) == func = "netmain" /\ A /\ UNCHANGED <<func, vars, diskVars>>

NetTest == Netmain(NetNext)

\* The server may wait in accept for ever, and both may have ended.
NetIdle == Netmain(UNCHANGED echoVars)

DiskTest == func = "diskmain" /\ DiskNext /\ UNCHANGED <<func, vars, echoVars>>

main == RcTest \/ NetTest \/ NetIdle \/ DiskTest

\* The fairness of EchoNet.
TestSpec ==
    /\ TestInit /\ [][main]_testVars
    /\ WF_testVars(Netmain(Client)) /\ WF_testVars(Netmain(Receiver))
    /\ WF_testVars(Netmain(serverThread_join))
=============================================================================
