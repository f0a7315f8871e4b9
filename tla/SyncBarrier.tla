---------------------------- MODULE SyncBarrier ----------------------------
(***************************************************************************)
(* What rc_example.c needs of sock_sync_data: a rendezvous of the two      *)
(* processes, used Rounds times.  A process arrives at its next exchange,  *)
(* and leaves it only after its peer has arrived there too.  A process may *)
(* also stop for ever at any point: leaving a round is never forced.       *)
(***************************************************************************)
EXTENDS Naturals

CONSTANT Rounds   \* exchanges of one run

Members == {"server", "client"}
Other(p) == IF p = "server" THEN "client" ELSE "server"

VARIABLES
    arrived,   \* exchanges a process has begun
    passed     \* exchanges it has completed

Init == arrived = [p \in Members |-> 0] /\ passed = [p \in Members |-> 0]

Arrive(p) ==
    /\ arrived[p] = passed[p]
    /\ arrived[p] < Rounds
    /\ arrived' = [arrived EXCEPT ![p] = @ + 1]
    /\ UNCHANGED passed

Pass(p) ==
    /\ passed[p] < arrived[p]
    /\ passed[p] < arrived[Other(p)]
    /\ passed' = [passed EXCEPT ![p] = @ + 1]
    /\ UNCHANGED arrived

Next == \E p \in Members : Arrive(p) \/ Pass(p)

Spec == Init /\ [][Next]_<<arrived, passed>>
=============================================================================
