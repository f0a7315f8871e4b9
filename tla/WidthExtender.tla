--------------------------- MODULE WidthExtender ----------------------------
(***************************************************************************)
(* CounterWidthExtender of pcm/width_extender.h: a counter of W values in  *)
(* hardware is extended in software.  internal_read adds the difference to *)
(* the last raw value, and takes a smaller raw value for one wrap.  It is  *)
(* called by the readers (read) and by a watchdog thread that must come by *)
(* at least once per W events.  The destructor cancels the watchdog and    *)
(* releases what it uses.                                                  *)
(*                                                                         *)
(* WatchDogProc is in the binary of the library: it sleeps and calls       *)
(* internal_read, for ever.  The hardware counts at any pace, so the       *)
(* watchdog may also be late.                                              *)
(***************************************************************************)
EXTENDS Integers

CONSTANTS
    W,          \* 2^32: the values of the hardware counter
    Readers,    \* threads that call read()
    MaxCount    \* bound on the events counted

ASSUME WAssumption == W \in Nat \ {0} /\ MaxCount \in Nat /\ W <= MaxCount
ASSUME ReadersAssumption == {"free", "watchdog", "destroyed"} \cap Readers = {}

Threads == Readers \cup {"watchdog"}

VARIABLES
    source,     \* the raw counter: a register (msr) or mapped memory (client)
    raw,        \* its value
    main,       \* where the owner is in the constructor or the destructor
    last_raw_value, extended_value,
    mutex,      \* the holder of CounterMutex, "free" or "destroyed"
    th,         \* per thread: place, new_raw_value, result, count at the call
    cancel,     \* where the watchdog was when it was cancelled, or "no"
    fault,      \* whether released memory was touched, or the process died of it
    count,      \* the true count: the first raw value and all events since
    seenAt,     \* the true count at the last read of the raw counter
    sound       \* no read of the raw counter has failed or come too late

vars == <<source, raw, main, last_raw_value, extended_value, mutex, th, cancel,
          fault, count, seenAt, sound>>
hardware == <<source, raw, count>>
values == <<last_raw_value, extended_value>>
ghosts == <<seenAt, sound>>

Places == {"none", "out", "lock", "raw", "extend", "unlock", "ended"}

ThreadStates == [pc : Places, new : 0..(W - 1), res : Int, lo : Nat]

Frame(place, new, res, lo) == [pc |-> place, new |-> new, res |-> res, lo |-> lo]
Outside(place) == Frame(place, 0, 0, 0)

Init ==
    /\ source \in {"msr", "client"}
    /\ raw \in 0..(W - 1)
    /\ main = "new"
    /\ last_raw_value = 0 /\ extended_value = 0
    /\ mutex = "free"
    /\ th = [p \in Threads |-> Outside(IF p = "watchdog" THEN "none" ELSE "out")]
    /\ cancel = "no" /\ fault = "none"
    /\ count = 0 /\ seenAt = 0 /\ sound = TRUE

Alive == fault # "crashed"

-----------------------------------------------------------------------------
(* The hardware. *)

Increment ==
    /\ Alive /\ main # "new"
    /\ count < MaxCount
    /\ count' = count + 1
    /\ raw' = IF raw = W - 1 THEN 0 ELSE raw + 1
    /\ UNCHANGED <<source, main, values, mutex, th, cancel, fault, ghosts>>

\* What (*raw_counter)() may return: a register that cannot be read leaves the 0
\* of MsrHandleCounter.  Bound: at most one such failure, and none after a late
\* read.
RawValues == IF source = "msr" /\ sound THEN {raw, 0} ELSE {raw}

-----------------------------------------------------------------------------
(* The owner. *)

Step(from, to) == Alive /\ main = from /\ main' = to

construct ==
    /\ Step("new", "create")
    /\ last_raw_value' \in RawValues
    /\ extended_value' = last_raw_value'
    /\ count' = raw /\ seenAt' = raw
    /\ sound' = (last_raw_value' = raw)
    /\ UNCHANGED <<source, raw, mutex, th, cancel, fault>>

\* The result of pthread_create is not tested: there may be no watchdog.
create ==
    /\ Step("create", "running")
    /\ \E place \in {"none", "out"} : th' = [th EXCEPT !["watchdog"] = Outside(place)]
    /\ UNCHANGED <<hardware, values, mutex, cancel, fault, ghosts>>

\* Mutation of pthread_cancel: the watchdog is left to itself.
pthread_cancel_omitted ==
    /\ Step("running", "destroy")
    /\ \A r \in Readers : th[r].pc = "out"
    /\ UNCHANGED <<hardware, values, mutex, th, cancel, fault, ghosts>>

\* No reader is left: the contract of an object that is destroyed.  Without a
\* watchdog the thread id is uninitialized, and the call may crash.
pthread_cancel ==
    /\ Step("running", "destroy")
    /\ \A r \in Readers : th[r].pc = "out"
    /\ cancel' = th["watchdog"].pc
    /\ fault' \in IF cancel' = "none" THEN {"none", "crashed"} ELSE {fault}
    /\ UNCHANGED <<hardware, values, mutex, th, ghosts>>

mutex_destroy ==
    /\ Step("destroy", "delete")
    /\ mutex' = "destroyed"
    /\ UNCHANGED <<hardware, values, th, cancel, fault, ghosts>>

delete_raw_counter ==
    /\ Step("delete", "done")
    /\ UNCHANGED <<hardware, values, mutex, th, cancel, fault, ghosts>>

-----------------------------------------------------------------------------
(* internal_read, by a reader or by the watchdog. *)

Go(p, from, to) == Alive /\ th[p].pc = from /\ th' = [th EXCEPT ![p] = to]

\* A use of the object: after its release the process may live on or die.
Touch == fault' \in IF main = "done" THEN {"touched", "crashed"} ELSE {fault}

\* Mutation of lock: the mutex is not taken.
lock_omitted(p) ==
    /\ Go(p, "lock", Frame("raw", 0, 0, th[p].lo))
    /\ Touch
    /\ UNCHANGED <<hardware, main, values, mutex, cancel, ghosts>>

lock(p) ==
    /\ mutex \in {"free", "destroyed"}
    /\ mutex' = IF mutex = "free" THEN p ELSE mutex
    /\ Go(p, "lock", Frame("raw", 0, 0, th[p].lo))
    /\ Touch
    /\ UNCHANGED <<hardware, main, values, cancel, ghosts>>

read_raw(p) ==
    /\ \E v \in RawValues :
        /\ Go(p, "raw", Frame("extend", v, 0, th[p].lo))
        /\ sound' = (sound /\ v = raw /\ count - seenAt < W)
    /\ seenAt' = count
    /\ Touch
    /\ UNCHANGED <<hardware, main, values, mutex, cancel>>

\* Mutation of Difference: the largest raw value in place of their number.
DifferenceMask(new, last) == IF new < last THEN (W - 1 - last) + new ELSE new - last

Difference(new, last) == IF new < last THEN (W - last) + new ELSE new - last

extend(p) ==
    /\ extended_value' = extended_value + Difference(th[p].new, last_raw_value)
    /\ last_raw_value' = th[p].new
    /\ Go(p, "extend", Frame("unlock", 0, extended_value', th[p].lo))
    /\ Touch
    /\ UNCHANGED <<hardware, main, mutex, cancel, ghosts>>

unlock(p) ==
    /\ mutex' = IF mutex = p THEN "free" ELSE mutex
    /\ Go(p, "unlock", Outside("out"))
    /\ Touch
    /\ UNCHANGED <<hardware, main, values, cancel, ghosts>>

internal_read(p) == lock(p) \/ read_raw(p) \/ extend(p) \/ unlock(p)

\* read(): a reader calls internal_read.
read(r) ==
    /\ main = "running"
    /\ Go(r, "out", Frame("lock", 0, 0, count))
    /\ UNCHANGED <<hardware, main, values, mutex, cancel, fault, ghosts>>

-----------------------------------------------------------------------------
(* WatchDogProc *)

wake ==
    /\ cancel = "no"
    /\ Go("watchdog", "out", Frame("lock", 0, 0, count))
    /\ UNCHANGED <<hardware, main, values, mutex, cancel, fault, ghosts>>

\* Deferred cancellation: sleep() is a cancellation point, and so is the read of
\* a register, where the thread holds the mutex; a load from memory is not.
cancelled ==
    /\ cancel # "no"
    /\ \E from \in {"out"} \cup (IF source = "msr" THEN {"raw"} ELSE {}) :
        Go("watchdog", from, Outside("ended"))
    /\ UNCHANGED <<hardware, main, values, mutex, cancel, fault, ghosts>>

WatchDogProc == wake \/ internal_read("watchdog") \/ cancelled

-----------------------------------------------------------------------------

\* A crash, or an object that is gone with its thread.
Finished ==
    /\ ~Alive \/ (main = "done" /\ th["watchdog"].pc \in {"none", "ended"})
    /\ UNCHANGED vars

Owner ==
    construct \/ create \/ pthread_cancel \/ mutex_destroy \/ delete_raw_counter

Next ==
    \/ Increment
    \/ Owner
    \/ \E r \in Readers : read(r) \/ internal_read(r)
    \/ WatchDogProc
    \/ Finished

Spec == Init /\ [][Next]_vars

\* The watchdog is scheduled and its sleep ends; a free mutex is given to
\* somebody, not necessarily to the one who waits longest.
FairSpec ==
    /\ Spec
    /\ WF_vars(wake \/ cancelled)
    /\ WF_vars(\E p \in Threads : lock(p))
    /\ \A p \in Threads : WF_vars(read_raw(p) \/ extend(p) \/ unlock(p))

-----------------------------------------------------------------------------
(* Properties *)

\* The state is well typed.
TypeOK ==
    /\ source \in {"msr", "client"}
    /\ raw \in 0..(W - 1)
    /\ main \in {"new", "create", "running", "destroy", "delete", "done"}
    /\ last_raw_value \in 0..(W - 1) /\ extended_value \in Nat
    /\ mutex \in {"free", "destroyed"} \cup Threads
    /\ th \in [Threads -> ThreadStates]
    /\ cancel \in {"no"} \cup Places
    /\ fault \in {"none", "touched", "crashed"}
    /\ count \in Nat /\ seenAt \in Nat /\ sound \in BOOLEAN

\* What read() returns is the true count at some moment between its call and its
\* return, whoever else reads in between and however often the hardware counter
\* wraps, as long as nobody comes later than W events after the one before and no
\* register read fails.
ReadLinearizable ==
    \A r \in Readers :
        th[r].pc = "unlock" /\ sound => th[r].lo <= th[r].res /\ th[r].res <= count

\* The destructor cancels the watchdog and does not wait for it.  The watchdog
\* uses the released object only if it was inside internal_read, and not asleep,
\* when the destructor began; the other way to die is to cancel a thread that
\* was never created.
TeardownCause ==
    fault # "none" =>
        \/ cancel \in {"lock", "raw", "extend", "unlock"}
        \/ cancel = "none" /\ fault = "crashed"

\* Once the hardware counter rests, the extended value reaches the true count
\* without any reader: the watchdog brings it there.
CatchesUp ==
    <>[](main = "running" /\ th["watchdog"].pc # "none")
        => <>[](sound => extended_value = count)
=============================================================================
