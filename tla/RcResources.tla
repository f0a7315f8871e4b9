---------------------------- MODULE RcResources ----------------------------
(***************************************************************************)
(* rdma/rc_example.c, one process: what resources_create acquires, what    *)
(* its failure path gives back, and what resources_destroy gives back.     *)
(* Any call may fail; file descriptors are numbers handed out lowest       *)
(* first, because sock_connect closes descriptor 0 in client mode.         *)
(***************************************************************************)
EXTENDS Integers, Sequences

CONSTANTS
    Stdins,    \* may the process start with descriptor 0 open, closed, or both?
    MaxFd      \* highest descriptor number

ASSUME StdinsAssumption == Stdins \subseteq BOOLEAN /\ Stdins # {}
ASSUME MaxFdAssumption == MaxFd \in Nat /\ MaxFd >= 5

Fds == 0..MaxFd

\* What `struct resources` and resources_create's dev_list point to.
Objects == {"devlist", "ctx", "pd", "cq", "buf", "mr", "qp"}

\* The calls of resources_create after sock_connect, in their order; "device",
\* "freelist" and "port" acquire nothing.
CreateSteps == <<"devlist", "device", "ctx", "freelist", "port", "pd", "cq",
                 "buf", "mr", "qp">>

\* Mutations of the orders: the PD before its users; the buffer before its
\* memory region; the device context forgotten.
CleanupOrderPdFirst == <<"qp", "pd", "mr", "buf", "cq", "devlist", "sock">>
DestroyOrderBufFirst == <<"qp", "buf", "mr", "cq", "pd", "ctx", "sock">>
DestroyOrderNoCtx == <<"qp", "mr", "buf", "cq", "pd", "sock">>

\* The order of the failure path of resources_create, and of resources_destroy.
CleanupOrder == <<"qp", "mr", "buf", "cq", "pd", "devlist", "sock">>
DestroyOrder == <<"qp", "mr", "buf", "cq", "pd", "ctx", "sock">>

\* The verbs that refuse to release an object while another one uses it.
UsersOf(r) ==
    CASE r = "pd" -> {"mr", "qp"}
      [] r = "cq" -> {"qp"}
      [] OTHER    -> {}

VARIABLES
    role,     \* "server" or "client"
    stdin,    \* was descriptor 0 open at the start?
    pc,       \* connect, create, cleanup, use, destroy, exit, aborted
    at,       \* index of the next call in CreateSteps or in the release order
    fds,      \* what each descriptor refers to
    sock,     \* res->sock
    ptr,      \* the fields of res (and dev_list) that are not NULL
    held,     \* the objects that exist
    failed,   \* the objects whose release failed of itself
    busy,     \* the objects whose release was refused because of a user
    stray,    \* what was released although it was not (or no longer) there
    rc        \* rcmain's result

vars == <<role, stdin, pc, at, fds, sock, ptr, held, failed, busy, stray, rc>>

Init ==
    /\ role \in {"server", "client"}
    /\ stdin \in Stdins
    /\ pc = "connect"
    /\ at = 1
    /\ fds = [i \in Fds |-> IF i \in {1, 2} \/ (i = 0 /\ stdin) THEN "std"
                            ELSE "free"]
    /\ sock = -1
    /\ ptr = {} /\ held = {} /\ failed = {} /\ busy = {} /\ stray = {}
    /\ rc = 1

\* The kernel's choice of a new descriptor.
LowestFree(f) == CHOOSE i \in Fds : f[i] = "free" /\ \A j \in Fds : f[j] = "free" => i <= j

-----------------------------------------------------------------------------
(* sock_connect                                                             *)

\* Mutation of ListenFd: the connection is closed in place of listenfd.
ListenFdIsSock == LowestFree(fds)

\* listenfd is 0 in client mode, and assert(listenfd > 0) stands in server mode.
ListenFd == IF role = "client" THEN 0 ELSE LowestFree(fds)

AfterListen == IF role = "client" THEN fds ELSE [fds EXCEPT ![ListenFd] = "listen"]

\* The socket is made (client) or accepted (server); listenfd is closed.
sock_connect ==
    /\ pc = "connect"
    /\ role = "server" => ListenFd > 0
    /\ LET s == LowestFree(AfterListen) IN
        /\ fds' = [[AfterListen EXCEPT ![s] = "sock"] EXCEPT ![ListenFd] = "free"]
        /\ sock' = s
    /\ pc' = "create" /\ at' = 1
    /\ UNCHANGED <<role, stdin, ptr, held, failed, busy, stray, rc>>

\* connect() or accept() fails; listenfd is closed all the same.
sock_connect_fails ==
    /\ pc = "connect"
    /\ role = "server" => ListenFd > 0
    /\ fds' = [AfterListen EXCEPT ![ListenFd] = "free"]
    /\ pc' = "cleanup" /\ at' = 1
    /\ UNCHANGED <<role, stdin, sock, ptr, held, failed, busy, stray, rc>>

\* In server mode socket() fails, or returns the legal descriptor 0:
\* assert(listenfd > 0).
sock_connect_asserts ==
    /\ pc = "connect"
    /\ role = "server"
    /\ pc' = "aborted"
    /\ UNCHANGED <<role, stdin, at, fds, sock, ptr, held, failed, busy, stray, rc>>

-----------------------------------------------------------------------------
(* resources_create                                                         *)

Call == CreateSteps[at]

\* The next call succeeds.  ibv_open_device opens a descriptor of its own;
\* dev_list is freed as soon as the device is open.
resources_create ==
    /\ pc = "create"
    /\ IF Call \in Objects
       THEN ptr' = ptr \cup {Call} /\ held' = held \cup {Call}
       ELSE LET gone == IF Call = "freelist" THEN {"devlist"} ELSE {} IN
            ptr' = ptr \ gone /\ held' = held \ gone
    /\ fds' = IF Call = "ctx" THEN [fds EXCEPT ![LowestFree(fds)] = "ctx"] ELSE fds
    /\ IF at = Len(CreateSteps) THEN pc' = "use" /\ at' = 1
       ELSE at' = at + 1 /\ UNCHANGED pc
    /\ UNCHANGED <<role, stdin, sock, failed, busy, stray, rc>>

\* The next call fails.  An empty device list is a list all the same.
resources_create_fails ==
    /\ pc = "create"
    /\ Call # "freelist"
    /\ \/ UNCHANGED <<ptr, held>>
       \/ Call = "devlist" /\ ptr' = {"devlist"} /\ held' = {"devlist"}
    /\ pc' = "cleanup" /\ at' = 1
    /\ UNCHANGED <<role, stdin, fds, sock, failed, busy, stray, rc>>

-----------------------------------------------------------------------------
(* Releasing                                                                *)

InUse(r) == UsersOf(r) \cap held # {}

\* Descriptors after r is gone.
FdsWithout(r) == [i \in Fds |-> IF fds[i] = r THEN "free" ELSE fds[i]]

\* One release call.  ok says whether it returned 0.
Release(r, ok) ==
    /\ stray' = IF r \in held THEN stray ELSE stray \cup {r}
    /\ IF ok
       THEN held' = held \ {r} /\ fds' = FdsWithout(r) /\ UNCHANGED <<failed, busy>>
       ELSE /\ UNCHANGED <<held, fds>>
            /\ IF InUse(r) THEN busy' = busy \cup {r} /\ UNCHANGED failed
               ELSE failed' = failed \cup {r} /\ UNCHANGED busy

\* A call may fail of itself, must fail when the object is in use; free() and
\* ibv_free_device_list() return nothing.
MayReturn(r, ok) == /\ ok => ~InUse(r)
                    /\ r \in {"buf", "devlist"} => ok

\* close(res->sock) gives the descriptor back whatever it returns.
CloseSock ==
    /\ fds' = [fds EXCEPT ![sock] = "free"]
    /\ stray' = IF fds[sock] = "sock" THEN stray ELSE stray \cup {"sock"}
    /\ UNCHANGED <<held, failed, busy>>

Advance(order, next) ==
    IF at = Len(order) THEN pc' = next /\ at' = 1 ELSE at' = at + 1 /\ UNCHANGED pc

\* Mutation of Nulled: the pointer keeps its value.
NulledNot(r) == ptr

\* The pointer to r is set to NULL.
Nulled(r) == ptr \ {r}

\* The failure path of resources_create: results are ignored and the pointers
\* set to NULL; ib_ctx is left to resources_destroy.
resources_create_exit ==
    /\ pc = "cleanup"
    /\ LET r == CleanupOrder[at] IN
        \/ /\ r \in ptr
           /\ \E ok \in BOOLEAN : MayReturn(r, ok) /\ Release(r, ok)
           /\ ptr' = Nulled(r)
           /\ UNCHANGED sock
        \/ /\ r = "sock" /\ sock >= 0
           /\ CloseSock
           /\ sock' = -1
           /\ UNCHANGED ptr
        \/ /\ r \notin ptr /\ (r = "sock" => sock < 0)
           /\ UNCHANGED <<fds, sock, ptr, held, failed, busy, stray>>
    /\ Advance(CleanupOrder, "destroy")
    /\ UNCHANGED <<role, stdin, rc>>

\* The transfer of module RcExample: rcmain has rc = 0 at its end, or not.
transfer ==
    /\ pc = "use"
    /\ rc' \in {0, 1}
    /\ pc' = "destroy" /\ at' = 1
    /\ UNCHANGED <<role, stdin, fds, sock, ptr, held, failed, busy, stray>>

\* resources_destroy goes on after a failure and reports it in its result.
resources_destroy ==
    /\ pc = "destroy"
    /\ LET r == DestroyOrder[at] IN
        \/ /\ r \in ptr
           /\ \E ok \in BOOLEAN :
                /\ MayReturn(r, ok)
                /\ Release(r, ok)
                /\ rc' = IF ok THEN rc ELSE 1
        \/ /\ r = "sock" /\ sock >= 0
           /\ CloseSock
           /\ rc' \in {rc, 1}
        \/ /\ r \notin ptr /\ (r = "sock" => sock < 0)
           /\ UNCHANGED <<fds, held, failed, busy, stray, rc>>
    /\ Advance(DestroyOrder, "exit")
    /\ UNCHANGED <<role, stdin, sock, ptr>>

Finished == pc \in {"exit", "aborted"} /\ UNCHANGED vars

Next ==
    \/ sock_connect \/ sock_connect_fails \/ sock_connect_asserts
    \/ resources_create \/ resources_create_fails \/ resources_create_exit
    \/ transfer \/ resources_destroy
    \/ Finished

Spec == Init /\ [][Next]_vars

-----------------------------------------------------------------------------
(* Properties                                                               *)

\* Nothing is released twice and no descriptor of somebody else is closed by
\* close(res->sock), on any path through resources_create's failure exit and
\* resources_destroy, when the process starts with descriptor 0 open.
NoStrayRelease == stdin => stray = {}

\* The release orders respect the dependencies: the verbs refuse a release
\* only as a consequence of another release that failed before.
BusyHasCause == busy # {} => failed # {}

\* The registered memory outlives its registration: res.buf is freed under a
\* memory region only when ibv_dereg_mr itself failed.
MrBacked == "mr" \in held => "buf" \in held \/ "mr" \in failed

\* Whatever call of resources_create failed, at the end everything has been
\* released except what a failing release left, and then rcmain reports 1.
AllReleased ==
    pc = "exit" =>
        /\ held \subseteq failed \cup busy
        /\ \A i \in Fds : \/ fds[i] \in {"free", "std"}
                          \/ fds[i] = "ctx" /\ "ctx" \in failed
        /\ held # {} => rc = 1

\* "TCP connection was established": the socket that sock_connect returned is the
\* connection until the process ends its use, unless it is descriptor 0, which a
\* client that was started without standard input gets, and closes as listenfd.
SockLive == pc \in {"create", "use"} => (fds[sock] = "sock" <=> sock # 0)
=============================================================================
