--------------------------- MODULE AsyncCounters ----------------------------
(***************************************************************************)
(* AsynchronCounterState of pcm/cpuasynchcounter.h: the owner constructs   *)
(* the object, a thread (UpdateCounters) renews two snapshots of every     *)
(* counter group once a second, other threads take the difference of the   *)
(* two, and the owner destroys the object.                                 *)
(*                                                                         *)
(* The groups are numbered in the order of the update: the cores, the      *)
(* sockets, the system.  A snapshot is the reading of a counter that only  *)
(* grows; 0 is what the default constructors leave.  The object is not     *)
(* used by readers once its destructor has begun: that is the contract of  *)
(* a C++ object, and the guard of pthread_cancel.                          *)
(***************************************************************************)
EXTENDS Integers

CONSTANTS
    NumCores, NumSockets,   \* m->getNumCores(), m->getNumSockets()
    Readers,                \* threads that call get, getSocket, getSystem
    MaxNow                  \* bound on the counters

ASSUME TopologyAssumption == NumCores \in Nat \ {0} /\ NumSockets \in Nat \ {0}
ASSUME MaxNowAssumption == MaxNow \in Nat \ {0}
ASSUME ReadersAssumption == {"free", "updater", "destroyed"} \cap Readers = {}

System == NumCores + NumSockets + 1
Groups == 1..System
Blank == 0

VARIABLES
    now,      \* the hardware counters, one value for all
    main,     \* where the owner is in the constructor or the destructor
    k,        \* the constructor's loop index
    states1,  \* cstates1, skstates1, sstate1
    states2,  \* cstates2, skstates2, sstate2
    mutex,    \* the holder of CounterMutex, "free" or "destroyed"
    upd, j,   \* where the updating thread is, and its loop index
    cancel,   \* where the updating thread was when it was cancelled, or "no"
    fault,    \* whether released memory was touched, or the process died of it
    rd        \* the readers: place, group, and the two values they have loaded

vars == <<now, main, k, states1, states2, mutex, upd, j, cancel, fault, rd>>
owner == <<main, k>>
updater == <<upd, j>>

ReaderStates == [pc : {"idle", "lock", "load1", "load2", "unlock"},
                 group : Groups, a : 0..MaxNow, b : 0..MaxNow]

Idle == [pc |-> "idle", group |-> 1, a |-> Blank, b |-> Blank]

Init ==
    /\ now = 1
    /\ main = "program" /\ k = 1
    /\ states1 = [g \in Groups |-> Blank]
    /\ states2 = [g \in Groups |-> Blank]
    /\ mutex = "free"
    /\ upd = "none" /\ j = 1
    /\ cancel = "no"
    /\ fault = "none"
    /\ rd = [r \in Readers |-> Idle]

Alive == fault # "crashed" /\ main # "exit"

-----------------------------------------------------------------------------
(* The hardware. *)

Count ==
    /\ Alive
    /\ now < MaxNow
    /\ now' = now + 1
    /\ UNCHANGED <<owner, states1, states2, mutex, updater, cancel, fault, rd>>

-----------------------------------------------------------------------------
(* The owner.  The constructor reads every core and socket twice; the      *)
(* system's snapshots stay as their constructors left them.                *)

Step(from, to) == Alive /\ main = from /\ main' = to

program ==
    /\ Step("program", "read1") \/ Step("program", "exit")
    /\ UNCHANGED <<now, k, states1, states2, mutex, updater, cancel, fault, rd>>

construct_read1 ==
    /\ Step("read1", "read2")
    /\ states1' = [states1 EXCEPT ![k] = now]
    /\ UNCHANGED <<now, k, states2, mutex, updater, cancel, fault, rd>>

\* Mutation of LastRead: the loop over the sockets is forgotten.
LastReadCores == k = NumCores

LastRead == k = System - 1

construct_read2 ==
    /\ Step("read2", IF LastRead THEN "create" ELSE "read1")
    /\ k' = k + 1
    /\ states2' = [states2 EXCEPT ![k] = now]
    /\ UNCHANGED <<now, states1, mutex, updater, cancel, fault, rd>>

\* pthread_create: its result is not tested.
create ==
    /\ Step("create", "running")
    /\ upd' \in {"lock", "none"}
    /\ UNCHANGED <<now, k, states1, states2, mutex, j, cancel, fault, rd>>

\* Mutation of pthread_cancel: the thread is left to itself.
pthread_cancel_omitted ==
    /\ Step("running", "destroy")
    /\ \A r \in Readers : rd[r].pc = "idle"
    /\ UNCHANGED <<now, k, states1, states2, mutex, updater, cancel, fault, rd>>

\* Without a thread the id is uninitialized, and the call may crash.
pthread_cancel ==
    /\ Step("running", "destroy")
    /\ \A r \in Readers : rd[r].pc = "idle"
    /\ cancel' = upd
    /\ fault' \in IF upd = "none" THEN {"none", "crashed"} ELSE {fault}
    /\ UNCHANGED <<now, k, states1, states2, mutex, updater, rd>>

mutex_destroy ==
    /\ Step("destroy", "cleanup")
    /\ mutex' = "destroyed"
    /\ UNCHANGED <<now, k, states1, states2, updater, cancel, fault, rd>>

cleanup ==
    /\ Step("cleanup", "delete")
    /\ UNCHANGED <<now, k, states1, states2, mutex, updater, cancel, fault, rd>>

delete ==
    /\ Step("delete", "done")
    /\ UNCHANGED <<now, k, states1, states2, mutex, updater, cancel, fault, rd>>

-----------------------------------------------------------------------------
(* UpdateCounters.  sleep() is a cancellation point, and so are the reads  *)
(* of the counter files inside getCoreCounterState and the like; locking   *)
(* and unlocking are not.  Every other step uses the object: after delete  *)
(* that is undefined, and the process may live on or die.                  *)

Touch ==
    fault' \in IF main = "done" THEN {"touched", "crashed"} ELSE {fault}

lock ==
    /\ Alive
    /\ upd = "lock"
    /\ mutex \in {"free", "destroyed"}
    /\ mutex' = IF mutex = "free" THEN "updater" ELSE mutex
    /\ upd' = "copy" /\ j' = 1
    /\ Touch
    /\ UNCHANGED <<now, owner, states1, states2, cancel, rd>>

\* Mutation of copy: the old snapshot is overwritten by a new reading.
copy_reads ==
    /\ Alive
    /\ upd = "copy"
    /\ states1' = [states1 EXCEPT ![j] = now]
    /\ upd' = "read"
    /\ Touch
    /\ UNCHANGED <<now, owner, states2, mutex, j, cancel, rd>>

copy ==
    /\ Alive
    /\ upd = "copy"
    /\ states1' = [states1 EXCEPT ![j] = states2[j]]
    /\ upd' = "read"
    /\ Touch
    /\ UNCHANGED <<now, owner, states2, mutex, j, cancel, rd>>

LastGroup == j = System

\* Mutation of read: the new reading goes to the old snapshot.
read_into_old ==
    /\ Alive
    /\ upd = "read"
    /\ states1' = [states1 EXCEPT ![j] = now]
    /\ j' = j + 1
    /\ upd' = IF LastGroup THEN "unlock" ELSE "copy"
    /\ Touch
    /\ UNCHANGED <<now, owner, states2, mutex, cancel, rd>>

read ==
    /\ Alive
    /\ upd = "read"
    /\ states2' = [states2 EXCEPT ![j] = now]
    /\ j' = j + 1
    /\ upd' = IF LastGroup THEN "unlock" ELSE "copy"
    /\ Touch
    /\ UNCHANGED <<now, owner, states1, mutex, cancel, rd>>

\* Mutation of unlock: the mutex is given back after the loop only.
unlock_after_loop ==
    /\ Alive
    /\ upd = "unlock"
    /\ upd' = "copy" /\ j' = 1
    /\ Touch
    /\ UNCHANGED <<now, owner, states1, states2, mutex, cancel, rd>>

unlock ==
    /\ Alive
    /\ upd = "unlock"
    /\ mutex' = IF mutex = "updater" THEN "free" ELSE mutex
    /\ upd' = "sleep"
    /\ Touch
    /\ UNCHANGED <<now, owner, states1, states2, j, cancel, rd>>

wake ==
    /\ Alive
    /\ upd = "sleep" /\ cancel = "no"
    /\ upd' = "lock"
    /\ UNCHANGED <<now, owner, states1, states2, mutex, j, cancel, fault, rd>>

\* The thread ends at a cancellation point, with the mutex if it holds it.
cancelled ==
    /\ Alive
    /\ upd \in {"read", "sleep"} /\ cancel # "no"
    /\ upd' = "ended"
    /\ UNCHANGED <<now, owner, states1, states2, mutex, j, cancel, fault, rd>>

UpdateCounters == lock \/ copy \/ read \/ unlock \/ wake \/ cancelled

-----------------------------------------------------------------------------
(* The readers: get, getSocket and getSystem are one operation on a group. *)
(* func(states1, states2) loads one after the other.                       *)

Goto(r, from, to) == Alive /\ rd[r].pc = from /\ rd' = [rd EXCEPT ![r] = to]

get(r) ==
    /\ main = "running"
    /\ \E g \in Groups : Goto(r, "idle", [Idle EXCEPT !.pc = "lock", !.group = g])
    /\ UNCHANGED <<now, owner, states1, states2, mutex, updater, cancel, fault>>

\* Mutation of get_lock: the reader does not take the mutex.
get_lock_omitted(r) ==
    /\ Goto(r, "lock", [rd[r] EXCEPT !.pc = "load1"])
    /\ UNCHANGED <<now, owner, states1, states2, mutex, updater, cancel, fault>>

get_lock(r) ==
    /\ mutex = "free"
    /\ mutex' = r
    /\ Goto(r, "lock", [rd[r] EXCEPT !.pc = "load1"])
    /\ UNCHANGED <<now, owner, states1, states2, updater, cancel, fault>>

get_load1(r) ==
    /\ Goto(r, "load1", [rd[r] EXCEPT !.pc = "load2", !.a = states1[rd[r].group]])
    /\ UNCHANGED <<now, owner, states1, states2, mutex, updater, cancel, fault>>

get_load2(r) ==
    /\ Goto(r, "load2", [rd[r] EXCEPT !.pc = "unlock", !.b = states2[rd[r].group]])
    /\ UNCHANGED <<now, owner, states1, states2, mutex, updater, cancel, fault>>

get_unlock(r) ==
    /\ mutex' = "free"
    /\ Goto(r, "unlock", Idle)
    /\ UNCHANGED <<now, owner, states1, states2, updater, cancel, fault>>

Reader(r) == get(r) \/ get_lock(r) \/ get_load1(r) \/ get_load2(r) \/ get_unlock(r)

-----------------------------------------------------------------------------

\* exit(-1), a crash, or an object that is gone with its thread.
Finished ==
    /\ ~Alive \/ (main = "done" /\ upd \in {"ended", "none"})
    /\ UNCHANGED vars

Owner ==
    \/ program \/ construct_read1 \/ construct_read2 \/ create
    \/ pthread_cancel \/ mutex_destroy \/ cleanup \/ delete

Next ==
    \/ Count
    \/ Owner
    \/ UpdateCounters
    \/ \E r \in Readers : Reader(r)
    \/ Finished

Spec == Init /\ [][Next]_vars

\* The threads are scheduled.  The updater is away from the mutex for a second
\* after every pass, so a waiting reader gets it at one of these times.
FairSpec ==
    /\ Spec
    /\ WF_vars(UpdateCounters)
    /\ \A r \in Readers :
        /\ SF_vars(get_lock(r))
        /\ WF_vars(get_load1(r) \/ get_load2(r) \/ get_unlock(r))

-----------------------------------------------------------------------------
(* Properties *)

\* The state is well typed; no index leaves its array.
TypeOK ==
    /\ now \in 1..MaxNow
    /\ main \in {"program", "exit", "read1", "read2", "create", "running",
                 "destroy", "cleanup", "delete", "done"}
    /\ k \in Groups
    /\ states1 \in [Groups -> 0..MaxNow]
    /\ states2 \in [Groups -> 0..MaxNow]
    /\ mutex \in {"free", "updater", "destroyed"} \cup Readers
    /\ upd \in {"none", "lock", "copy", "read", "unlock", "sleep", "ended"}
    /\ j \in 1..(System + 1)
    /\ upd \in {"copy", "read"} => j \in Groups
    /\ cancel \in {"no", "none", "lock", "copy", "read", "unlock", "sleep", "ended"}
    /\ fault \in {"none", "touched", "crashed"}
    /\ rd \in [Readers -> ReaderStates]

\* Reading the two snapshots under the mutex gives the pair of one moment,
\* however the updating thread is interleaved with get.
SnapshotPair ==
    \A r \in Readers : rd[r].pc = "unlock" =>
        /\ rd[r].a = states1[rd[r].group]
        /\ rd[r].b = states2[rd[r].group]

\* The difference a reader computes is never negative (the counters are
\* unsigned: a negative one would be close to 2^64), from the constructor's two
\* readings on.
NoNegative == \A r \in Readers : rd[r].pc = "unlock" => rd[r].a <= rd[r].b

\* A difference for a core or a socket never starts at a snapshot that was not
\* taken: the constructor has read both before anyone can call get.  The system's
\* does until the second pass of UpdateCounters, since the constructor leaves it
\* out.
NoBlankStart ==
    \A r \in Readers :
        rd[r].pc = "unlock" /\ rd[r].group # System => rd[r].a # Blank

\* The intervals of all groups have a common moment once the first pass is over:
\* every one of them starts before any of them ends, so values of different cores
\* and of the system can be compared.
IntervalsOverlap ==
    mutex \in {"free"} \cup Readers /\ states2[System] # Blank =>
        \A g, h \in Groups : states1[g] <= states2[h]

\* The destructor cancels the updating thread and does not wait for it.  The
\* thread uses the released object only if it was not asleep when the destructor
\* began.
TouchCause == fault # "none" => cancel \notin {"no", "sleep"}

\* Every call of get, getSocket or getSystem returns: neither the updating thread
\* nor another reader keeps the mutex.
GetReturns == \A r \in Readers : rd[r].pc # "idle" ~> rd[r].pc = "idle"
=============================================================================
