------------------------ MODULE WidthExtenderProofs -------------------------
(***************************************************************************)
(* TypeOK, ReadLinearizable and TeardownCause of WidthExtender for every   *)
(* width of the hardware counter and any number of readers.                *)
(*                                                                         *)
(* LockInv says that while the object lives the mutex keeps the threads    *)
(* apart between the raw read and the return.  ValueInv ties the extended  *)
(* value to the true count at the last raw read, and the hardware counter  *)
(* to the raw value kept, modulo one wrap.  ResultInv follows a reader     *)
(* from its call to its result.  CancelInv remembers what the watchdog can *)
(* still do after it was cancelled asleep, or was never there.             *)
(***************************************************************************)
EXTENDS WidthExtender, TLAPS

Living == {"create", "running"}

LockInv ==
    /\ main \in {"new", "create"} =>
        mutex = "free" /\ th["watchdog"].pc = "none"
    /\ main # "running" => \A r \in Readers : th[r].pc = "out"
    /\ main = "running" =>
        /\ mutex # "destroyed"
        /\ \A p \in Threads : th[p].pc \in {"raw", "extend", "unlock"} => mutex = p

\* The hardware counter has moved on from base by the events since the last raw
\* read, with at most one wrap.
Ahead(base) ==
    count - seenAt < W =>
        \/ raw = base + (count - seenAt)
        \/ raw = base + (count - seenAt) - W

ValueInv ==
    main \in Living /\ sound =>
        /\ seenAt <= count
        /\ (\A p \in Threads : th[p].pc # "extend") =>
            /\ extended_value = seenAt
            /\ Ahead(last_raw_value)
        /\ \A p \in Threads : th[p].pc = "extend" =>
            /\ extended_value + Difference(th[p].new, last_raw_value) = seenAt
            /\ Ahead(th[p].new)

ReaderInv(r) ==
    /\ th[r].pc \in {"lock", "raw"} => th[r].lo <= count
    /\ th[r].pc = "extend" => th[r].lo <= seenAt
    /\ th[r].pc = "unlock" => th[r].lo <= th[r].res /\ th[r].res <= count

ResultInv == main = "running" /\ sound => \A r \in Readers : ReaderInv(r)

\* A watchdog that was asleep when it was cancelled does not wake again, and one
\* that was never created does not appear; it ends only after the cancellation.
CancelInv ==
    /\ main \in {"new", "create", "running"} <=> cancel = "no"
    /\ cancel = "no" => th["watchdog"].pc # "ended"
    /\ cancel = "none" => th["watchdog"].pc = "none"
    /\ cancel = "out" => th["watchdog"].pc \in {"out", "ended"}
    /\ cancel # "ended"
    /\ TeardownCause

\* The width is positive.
LEMMA WNat == W \in Nat /\ W > 0
BY WAssumption

\* The difference of two raw values is a count.
LEMMA DifferenceNat ==
    ASSUME NEW a \in 0..(W - 1), NEW b \in 0..(W - 1)
    PROVE Difference(a, b) \in Nat
BY WNat DEF Difference

\* When fewer than W events have happened, the difference counts them.
LEMMA DifferenceCounts ==
    ASSUME NEW a \in 0..(W - 1), NEW b \in 0..(W - 1), NEW d \in Nat, d < W,
           a = b + d \/ a = b + d - W
    PROVE Difference(a, b) = d
BY WNat DEF Difference

\* A record of a thread has the fields of its type.
LEMMA ThreadFields ==
    ASSUME NEW p \in Threads, th \in [Threads -> ThreadStates]
    PROVE /\ th[p] \in ThreadStates
          /\ th[p].pc \in Places /\ th[p].new \in 0..(W - 1)
          /\ th[p].res \in Int /\ th[p].lo \in Nat
BY DEF ThreadStates

\* A frame is well typed and has the fields it was given.
LEMMA FrameType ==
    ASSUME NEW place \in Places, NEW a \in 0..(W - 1), NEW b \in Int, NEW c \in Nat
    PROVE /\ Frame(place, a, b, c) \in ThreadStates
          /\ Frame(place, a, b, c).pc = place /\ Frame(place, a, b, c).new = a
          /\ Frame(place, a, b, c).res = b /\ Frame(place, a, b, c).lo = c
BY DEF Frame, ThreadStates

\* An idle record is well typed.
LEMMA OutsideType ==
    ASSUME NEW place \in Places
    PROVE Outside(place) \in ThreadStates /\ Outside(place).pc = place
BY WNat, FrameType DEF Outside

\* The watchdog is no reader.
LEMMA WatchdogThread ==
    /\ "watchdog" \in Threads /\ "watchdog" \notin Readers
    /\ "free" \notin Threads /\ "destroyed" \notin Threads
    /\ \A r \in Readers : r \in Threads
BY ReadersAssumption DEF Threads

\* The initial state satisfies the invariant.
LEMMA InitInv == Init => TypeOK /\ LockInv /\ ValueInv /\ ResultInv
<1> SUFFICES ASSUME Init PROVE TypeOK /\ LockInv /\ ValueInv /\ ResultInv
    OBVIOUS
<1>1. \A p \in Threads : th[p] \in ThreadStates
    BY OutsideType DEF Init, Places
<1>2. th["watchdog"].pc = "none" /\ \A r \in Readers : th[r].pc = "out"
    BY WatchdogThread, OutsideType DEF Init, Places
<1>3. TypeOK
    BY <1>1, WNat DEF Init, TypeOK
<1> QED
    BY <1>1, <1>2, <1>3 DEF Init, LockInv, ValueInv, ResultInv, Living

\* A step of thread p changes the record of p only.
LEMMA GoEffect ==
    ASSUME NEW p \in Threads, NEW from, NEW to \in ThreadStates, Go(p, from, to),
           th \in [Threads -> ThreadStates]
    PROVE /\ th' \in [Threads -> ThreadStates]
          /\ th[p].pc = from /\ th'[p] = to
          /\ \A q \in Threads : q # p => th'[q] = th[q]
BY DEF Go

\* The effect of each step of internal_read on the records of the threads.
LEMMA LockEffect ==
    ASSUME NEW p \in Threads, TypeOK, lock(p)
    PROVE /\ th' \in [Threads -> ThreadStates]
          /\ th[p].pc = "lock" /\ th'[p].pc = "raw" /\ th'[p].lo = th[p].lo
          /\ \A q \in Threads : q # p => th'[q] = th[q]
<1> DEFINE t == Frame("raw", 0, 0, th[p].lo)
<1>1. th \in [Threads -> ThreadStates] /\ th[p].lo \in Nat /\ "raw" \in Places
    BY ThreadFields DEF TypeOK, Places
<1>2. t \in ThreadStates /\ t.pc = "raw" /\ t.lo = th[p].lo
    BY <1>1, WNat, FrameType
<1>3. Go(p, "lock", t)
    BY Zenon DEF lock
<1> HIDE DEF t
<1>4. /\ th' \in [Threads -> ThreadStates] /\ th[p].pc = "lock" /\ th'[p] = t
      /\ \A q \in Threads : q # p => th'[q] = th[q]
    BY <1>1, <1>2, <1>3, GoEffect
<1> QED
    BY <1>2, <1>4

LEMMA RawEffect ==
    ASSUME NEW p \in Threads, TypeOK, read_raw(p)
    PROVE /\ th' \in [Threads -> ThreadStates]
          /\ th[p].pc = "raw" /\ th'[p].pc = "extend" /\ th'[p].lo = th[p].lo
          /\ sound' \in BOOLEAN
          /\ sound' => sound /\ th'[p].new = raw /\ count - seenAt < W
          /\ \A q \in Threads : q # p => th'[q] = th[q]
<1>1. th \in [Threads -> ThreadStates] /\ th[p].lo \in Nat /\ "extend" \in Places
    BY ThreadFields DEF TypeOK, Places
<1>2. PICK v \in RawValues :
        /\ Go(p, "raw", Frame("extend", v, 0, th[p].lo))
        /\ sound' = (sound /\ v = raw /\ count - seenAt < W)
    BY Zenon DEF read_raw
<1> DEFINE t == Frame("extend", v, 0, th[p].lo)
<1>3. v \in 0..(W - 1)
    BY WNat DEF RawValues, TypeOK
<1>4. t \in ThreadStates /\ t.pc = "extend" /\ t.new = v /\ t.lo = th[p].lo
    BY <1>1, <1>3, WNat, FrameType
<1>5. Go(p, "raw", t)
    BY <1>2, Zenon
<1> HIDE DEF t
<1>6. /\ th' \in [Threads -> ThreadStates] /\ th[p].pc = "raw" /\ th'[p] = t
      /\ \A q \in Threads : q # p => th'[q] = th[q]
    BY <1>1, <1>4, <1>5, GoEffect
<1>7. sound' \in BOOLEAN /\ (sound' => sound /\ v = raw /\ count - seenAt < W)
    BY <1>2, Zenon
<1> QED
    BY <1>4, <1>6, <1>7

LEMMA ExtendEffect ==
    ASSUME NEW p \in Threads, TypeOK, extend(p)
    PROVE /\ th' \in [Threads -> ThreadStates]
          /\ th[p].pc = "extend" /\ th'[p].pc = "unlock" /\ th'[p].lo = th[p].lo
          /\ extended_value' = extended_value + Difference(th[p].new, last_raw_value)
          /\ last_raw_value' = th[p].new /\ th[p].new \in 0..(W - 1)
          /\ th'[p].res = extended_value'
          /\ \A q \in Threads : q # p => th'[q] = th[q]
<1> DEFINE t == Frame("unlock", 0, extended_value', th[p].lo)
<1>1. /\ th \in [Threads -> ThreadStates] /\ th[p].lo \in Nat
      /\ th[p].new \in 0..(W - 1) /\ "unlock" \in Places
    BY ThreadFields DEF TypeOK, Places
<1>2. /\ Go(p, "extend", t)
      /\ extended_value' = extended_value + Difference(th[p].new, last_raw_value)
      /\ last_raw_value' = th[p].new
    BY Zenon DEF extend
<1> HIDE DEF t
<1>3. Difference(th[p].new, last_raw_value) \in Nat
    BY <1>1, DifferenceNat DEF TypeOK
<1>4. extended_value' \in Int
    BY <1>2, <1>3 DEF TypeOK
<1>5. t \in ThreadStates /\ t.pc = "unlock" /\ t.res = extended_value' /\ t.lo = th[p].lo
    BY <1>1, <1>4, WNat, FrameType DEF t
<1>6. /\ th' \in [Threads -> ThreadStates] /\ th[p].pc = "extend" /\ th'[p] = t
      /\ \A q \in Threads : q # p => th'[q] = th[q]
    BY <1>1, <1>2, <1>5, GoEffect
<1> QED
    BY <1>1, <1>2, <1>5, <1>6

LEMMA UnlockEffect ==
    ASSUME NEW p \in Threads, TypeOK, unlock(p)
    PROVE /\ th' \in [Threads -> ThreadStates]
          /\ th[p].pc = "unlock" /\ th'[p].pc = "out"
          /\ \A q \in Threads : q # p => th'[q] = th[q]
<1> DEFINE t == Outside("out")
<1>1. t \in ThreadStates /\ t.pc = "out"
    BY OutsideType DEF Places
<1>2. Go(p, "unlock", t) /\ th \in [Threads -> ThreadStates]
    BY DEF unlock, TypeOK
<1> HIDE DEF t
<1>3. /\ th' \in [Threads -> ThreadStates] /\ th[p].pc = "unlock" /\ th'[p] = t
      /\ \A q \in Threads : q # p => th'[q] = th[q]
    BY <1>1, <1>2, GoEffect
<1> QED
    BY <1>1, <1>3

\* The effect of a call of internal_read: read() or the end of the sleep.
LEMMA CallEffect ==
    ASSUME NEW p \in Threads, TypeOK,
           Go(p, "out", Frame("lock", 0, 0, count))
    PROVE /\ th' \in [Threads -> ThreadStates]
          /\ th[p].pc = "out" /\ th'[p].pc = "lock" /\ th'[p].lo = count
          /\ \A q \in Threads : q # p => th'[q] = th[q]
<1> DEFINE t == Frame("lock", 0, 0, count)
<1>1. th \in [Threads -> ThreadStates] /\ count \in Nat /\ "lock" \in Places
    BY DEF TypeOK, Places
<1>2. t \in ThreadStates /\ t.pc = "lock" /\ t.lo = count
    BY <1>1, WNat, FrameType
<1>3. Go(p, "out", t)
    BY Zenon
<1> HIDE DEF t
<1>4. /\ th' \in [Threads -> ThreadStates] /\ th[p].pc = "out" /\ th'[p] = t
      /\ \A q \in Threads : q # p => th'[q] = th[q]
    BY <1>1, <1>2, <1>3, GoEffect
<1> QED
    BY <1>2, <1>4

\* The effect of the end of the watchdog.
LEMMA CancelEffect ==
    ASSUME TypeOK, cancelled
    PROVE /\ th' \in [Threads -> ThreadStates]
          /\ th["watchdog"].pc \in {"out", "raw"} /\ th'["watchdog"].pc = "ended"
          /\ \A q \in Threads : q # "watchdog" => th'[q] = th[q]
<1> DEFINE t == Outside("ended")
<1>1. PICK from \in {"out", "raw"} : Go("watchdog", from, t)
    BY DEF cancelled
<1>2. t \in ThreadStates /\ t.pc = "ended" /\ th \in [Threads -> ThreadStates]
    BY OutsideType DEF Places, TypeOK
<1> HIDE DEF t
<1>3. /\ th' \in [Threads -> ThreadStates] /\ th["watchdog"].pc = from /\ th'["watchdog"] = t
      /\ \A q \in Threads : q # "watchdog" => th'[q] = th[q]
    BY <1>1, <1>2, GoEffect, WatchdogThread
<1> QED
    BY <1>1, <1>2, <1>3

\* Every step keeps the types.
LEMMA TypeStep == TypeOK /\ [Next]_vars => TypeOK'
<1> SUFFICES ASSUME TypeOK, [Next]_vars PROVE TypeOK'
    OBVIOUS
<1> USE WNat, WatchdogThread
<1>0. \A v \in RawValues : v \in 0..(W - 1)
    BY DEF RawValues, TypeOK
<1>1. CASE Increment
    BY <1>1 DEF Increment, values, ghosts, TypeOK
<1>2. CASE Owner
    <2>1. CASE construct
        BY <2>1, <1>0 DEF construct, Step, TypeOK
    <2>2. CASE create
        BY <2>2, OutsideType DEF create, Step, hardware, values, ghosts, Places, TypeOK
    <2>3. CASE pthread_cancel
        BY <2>3, ThreadFields DEF pthread_cancel, Step, hardware, values, ghosts, TypeOK
    <2>4. CASE mutex_destroy
        BY <2>4 DEF mutex_destroy, Step, hardware, values, ghosts, TypeOK
    <2>5. CASE delete_raw_counter
        BY <2>5 DEF delete_raw_counter, Step, hardware, values, ghosts, TypeOK
    <2> QED
        BY <1>2, <2>1, <2>2, <2>3, <2>4, <2>5 DEF Owner
<1>3. ASSUME NEW p \in Threads, internal_read(p) PROVE TypeOK'
    <2>1. CASE lock(p)
        <3>1. th' \in [Threads -> ThreadStates]
            BY <2>1, LockEffect
        <3>2. /\ mutex' = (IF mutex = "free" THEN p ELSE mutex) /\ Touch
              /\ UNCHANGED <<hardware, main, values, cancel, ghosts>>
            BY <2>1 DEF lock
        <3> QED
            BY <3>1, <3>2 DEF Touch, hardware, values, ghosts, TypeOK
    <2>2. CASE read_raw(p)
        <3>1. th' \in [Threads -> ThreadStates] /\ sound' \in BOOLEAN
            BY <2>2, RawEffect
        <3>2. seenAt' = count /\ Touch /\ UNCHANGED <<hardware, main, values, mutex, cancel>>
            BY <2>2, Zenon DEF read_raw
        <3> QED
            BY <3>1, <3>2 DEF Touch, hardware, values, TypeOK
    <2>3. CASE extend(p)
        <3>1. /\ th' \in [Threads -> ThreadStates]
              /\ th[p].new \in 0..(W - 1) /\ last_raw_value' = th[p].new
              /\ extended_value' = extended_value + Difference(th[p].new, last_raw_value)
            BY <2>3, ExtendEffect
        <3>2. Difference(th[p].new, last_raw_value) \in Nat
            BY <3>1, DifferenceNat DEF TypeOK
        <3>3. Touch /\ UNCHANGED <<hardware, main, mutex, cancel, ghosts>>
            BY <2>3, Zenon DEF extend
        <3> QED
            BY <3>1, <3>2, <3>3 DEF Touch, hardware, ghosts, TypeOK
    <2>4. CASE unlock(p)
        <3>1. th' \in [Threads -> ThreadStates]
            BY <2>4, UnlockEffect
        <3> QED
            BY <2>4, <3>1 DEF unlock, Touch, hardware, values, ghosts, TypeOK
    <2> QED
        BY <1>3, <2>1, <2>2, <2>3, <2>4 DEF internal_read
<1>4. ASSUME NEW r \in Readers, read(r) PROVE TypeOK'
    <2>1. th' \in [Threads -> ThreadStates]
        BY <1>4, CallEffect, Zenon DEF read
    <2>2. UNCHANGED <<hardware, main, values, mutex, cancel, fault, ghosts>>
        BY <1>4, Zenon DEF read
    <2> QED
        BY <2>1, <2>2 DEF hardware, values, ghosts, TypeOK
<1>5. CASE wake
    <2>1. th' \in [Threads -> ThreadStates]
        BY <1>5, CallEffect, Zenon DEF wake
    <2>2. UNCHANGED <<hardware, main, values, mutex, cancel, fault, ghosts>>
        BY <1>5, Zenon DEF wake
    <2> QED
        BY <2>1, <2>2 DEF hardware, values, ghosts, TypeOK
<1>6. CASE cancelled
    <2>1. th' \in [Threads -> ThreadStates]
        BY <1>6, CancelEffect
    <2>2. UNCHANGED <<hardware, main, values, mutex, cancel, fault, ghosts>>
        BY <1>6, Zenon DEF cancelled
    <2> QED
        BY <2>1, <2>2 DEF hardware, values, ghosts, TypeOK
<1>7. CASE Finished \/ UNCHANGED vars
    BY <1>7 DEF Finished, vars, TypeOK
<1> QED
    BY <1>1, <1>2, <1>3, <1>4, <1>5, <1>6, <1>7 DEF Next, WatchDogProc

\* The mutex keeps the threads apart, in every step.
LEMMA LockStep == TypeOK /\ LockInv /\ [Next]_vars => LockInv'
<1> SUFFICES ASSUME TypeOK, LockInv, [Next]_vars PROVE LockInv'
    OBVIOUS
<1> USE WatchdogThread
<1>1. CASE Increment
    BY <1>1 DEF Increment, LockInv
<1>2. CASE Owner
    <2>1. CASE construct
        BY <2>1 DEF construct, Step, LockInv
    <2>2. CASE create
        <3>1. main = "create" /\ main' = "running" /\ mutex' = mutex /\ mutex = "free"
            BY <2>2 DEF create, Step, LockInv
        <3>2. \A p \in Threads : th'[p].pc \in {"none", "out"}
            <4>1. PICK place \in {"none", "out"} :
                    th' = [th EXCEPT !["watchdog"] = Outside(place)]
                BY <2>2 DEF create
            <4>2. Outside(place).pc = place
                BY OutsideType DEF Places
            <4>3. \A r \in Readers : th[r].pc = "out"
                BY <3>1 DEF LockInv
            <4> QED
                BY <4>1, <4>2, <4>3 DEF TypeOK, Threads
        <3> QED
            BY <3>1, <3>2 DEF LockInv
    <2>3. CASE pthread_cancel
        BY <2>3 DEF pthread_cancel, Step, LockInv
    <2>4. CASE mutex_destroy
        BY <2>4 DEF mutex_destroy, Step, LockInv
    <2>5. CASE delete_raw_counter
        BY <2>5 DEF delete_raw_counter, Step, LockInv
    <2> QED
        BY <1>2, <2>1, <2>2, <2>3, <2>4, <2>5 DEF Owner
<1>3. ASSUME NEW p \in Threads, internal_read(p) PROVE LockInv'
    <2>1. CASE lock(p)
        <3>1. /\ main' = main /\ mutex \in {"free", "destroyed"}
              /\ mutex' = IF mutex = "free" THEN p ELSE mutex
            BY <2>1 DEF lock
        <3>2. /\ th[p].pc = "lock" /\ th'[p].pc = "raw"
              /\ \A q \in Threads : q # p => th'[q] = th[q]
            BY <2>1, LockEffect
        <3>3. CASE main = "running"
            <4>1. mutex = "free" /\ mutex' = p
                BY <3>1, <3>3 DEF LockInv
            <4> QED
                BY <3>1, <3>2, <3>3, <4>1 DEF LockInv
        <3>4. CASE main # "running"
            <4>1. p = "watchdog" /\ main \notin {"new", "create"}
                BY <3>2, <3>4 DEF LockInv, Threads
            <4>2. \A r \in Readers : th'[r] = th[r]
                BY <3>2, <4>1
            <4> QED
                BY <3>1, <3>4, <4>1, <4>2 DEF LockInv
        <3> QED
            BY <3>3, <3>4
    <2>2. CASE read_raw(p)
        <3>1. main' = main /\ mutex' = mutex
            BY <2>2 DEF read_raw
        <3> QED
            BY <2>2, <3>1, RawEffect DEF LockInv
    <2>3. CASE extend(p)
        <3>1. main' = main /\ mutex' = mutex
            BY <2>3 DEF extend
        <3> QED
            BY <2>3, <3>1, ExtendEffect DEF LockInv
    <2>4. CASE unlock(p)
        <3>1. main' = main /\ mutex' = IF mutex = p THEN "free" ELSE mutex
            BY <2>4 DEF unlock
        <3> QED
            BY <2>4, <3>1, UnlockEffect DEF LockInv
    <2> QED
        BY <1>3, <2>1, <2>2, <2>3, <2>4 DEF internal_read
<1>4. ASSUME NEW r \in Readers, read(r) PROVE LockInv'
    <2>1. main = "running" /\ main' = main /\ mutex' = mutex
        BY <1>4 DEF read
    <2>2. /\ th[r].pc = "out" /\ th'[r].pc = "lock"
          /\ \A q \in Threads : q # r => th'[q] = th[q]
        BY <1>4, CallEffect DEF read
    <2> QED
        BY <2>1, <2>2 DEF LockInv
<1>5. CASE wake
    <2>1. main' = main /\ mutex' = mutex
        BY <1>5 DEF wake
    <2>2. /\ th["watchdog"].pc = "out" /\ th'["watchdog"].pc = "lock"
          /\ \A q \in Threads : q # "watchdog" => th'[q] = th[q]
        BY <1>5, CallEffect DEF wake
    <2> QED
        BY <2>1, <2>2 DEF LockInv
<1>6. CASE cancelled
    <2>1. main' = main /\ mutex' = mutex
        BY <1>6 DEF cancelled
    <2> QED
        BY <1>6, <2>1, CancelEffect DEF LockInv
<1>7. CASE Finished \/ UNCHANGED vars
    BY <1>7 DEF Finished, vars, LockInv
<1> QED
    BY <1>1, <1>2, <1>3, <1>4, <1>5, <1>6, <1>7 DEF Next, WatchDogProc

\* A thread at its raw read, at its update or at its return is alone there.
LEMMA Alone ==
    ASSUME LockInv, main = "running", NEW p \in Threads,
           th[p].pc \in {"raw", "extend", "unlock"}
    PROVE \A q \in Threads : q # p => th[q].pc \notin {"raw", "extend", "unlock"}
BY DEF LockInv

\* A step that leaves the values alone and moves no thread to or from its update
\* keeps ValueInv.
LEMMA ValueKept ==
    ASSUME ValueInv, UNCHANGED <<main, values, hardware, ghosts>>,
           \A q \in Threads : /\ th'[q].pc = "extend" <=> th[q].pc = "extend"
                              /\ th[q].pc = "extend" => th'[q] = th[q]
    PROVE ValueInv'
BY DEF ValueInv, Ahead, values, hardware, ghosts

\* The extended value follows the true count, in every step.
LEMMA ValueStep == TypeOK /\ TypeOK' /\ LockInv /\ ValueInv /\ [Next]_vars => ValueInv'
<1> SUFFICES ASSUME TypeOK, TypeOK', LockInv, ValueInv, [Next]_vars PROVE ValueInv'
    OBVIOUS
<1> USE WatchdogThread, WNat
<1>1. CASE Increment
    <2>1. /\ main' = main /\ last_raw_value' = last_raw_value /\ th' = th
          /\ extended_value' = extended_value /\ seenAt' = seenAt /\ sound' = sound
          /\ count' = count + 1 /\ raw' = IF raw = W - 1 THEN 0 ELSE raw + 1
        BY <1>1 DEF Increment, values, ghosts
    <2>2. ASSUME NEW b \in 0..(W - 1), Ahead(b), seenAt <= count PROVE Ahead(b)'
        BY <2>1, <2>2 DEF Ahead, TypeOK
    <2>3. \A p \in Threads : th[p].new \in 0..(W - 1)
        BY ThreadFields DEF TypeOK
    <2> QED
        BY <2>1, <2>2, <2>3 DEF ValueInv, TypeOK
<1>2. CASE Owner
    <2>1. CASE construct
        <3>1. /\ main = "new" /\ main' = "create" /\ th' = th /\ raw' = raw
              /\ extended_value' = last_raw_value' /\ count' = raw /\ seenAt' = raw
              /\ sound' => last_raw_value' = raw
            BY <2>1, Zenon DEF construct, Step
        <3>2. \A p \in Threads : th[p].pc # "extend"
            BY <3>1 DEF LockInv, Threads
        <3>3. raw \in Int /\ raw - raw = 0 /\ raw + 0 = raw
            BY DEF TypeOK
        <3> QED
            BY <3>1, <3>2, <3>3 DEF ValueInv, Ahead
    <2>2. CASE create
        <3>1. PICK place \in {"none", "out"} :
                th' = [th EXCEPT !["watchdog"] = Outside(place)]
            BY <2>2 DEF create
        <3>2. Outside(place).pc = place
            BY OutsideType DEF Places
        <3>3. main = "create" /\ main' = "running"
            BY <2>2 DEF create, Step
        <3>4. \A q \in Threads : th[q].pc # "extend" /\ th'[q].pc # "extend"
            BY <3>1, <3>2, <3>3 DEF LockInv, TypeOK, Threads
        <3>5. UNCHANGED <<values, hardware, ghosts>>
            BY <2>2 DEF create
        <3> QED
            BY <3>3, <3>4, <3>5 DEF ValueInv, Ahead, Living, values, hardware, ghosts
    <2>3. CASE pthread_cancel \/ mutex_destroy \/ delete_raw_counter
        BY <2>3 DEF pthread_cancel, mutex_destroy, delete_raw_counter, Step, ValueInv, Living
    <2> QED
        BY <1>2, <2>1, <2>2, <2>3 DEF Owner
<1>3. ASSUME NEW p \in Threads, internal_read(p) PROVE ValueInv'
    <2>0. CASE main # "running"
        <3>1. main' = main
            BY <1>3 DEF internal_read, lock, read_raw, extend, unlock
        <3>2. main # "create"
            <4>1. th[p].pc \in {"lock", "raw", "extend", "unlock"}
                BY <1>3, LockEffect, RawEffect, ExtendEffect, UnlockEffect DEF internal_read
            <4> QED
                BY <2>0, <4>1 DEF LockInv, Threads
        <3> QED
            BY <2>0, <3>1, <3>2 DEF ValueInv, Living
    <2>1. CASE lock(p)
        <3>1. UNCHANGED <<main, values, hardware, ghosts>>
            BY <2>1 DEF lock
        <3> QED
            BY <2>1, <3>1, LockEffect, ValueKept
    <2>2. CASE main = "running" /\ read_raw(p)
        <3>1. /\ main' = main /\ seenAt' = count
              /\ last_raw_value' = last_raw_value /\ extended_value' = extended_value
              /\ raw' = raw /\ count' = count
            BY <2>2, Zenon DEF read_raw, values, hardware
        <3>2. /\ th[p].pc = "raw" /\ th'[p].pc = "extend"
              /\ sound' => sound /\ th'[p].new = raw /\ count - seenAt < W
              /\ \A q \in Threads : q # p => th'[q] = th[q]
            BY <2>2, RawEffect
        <3>3. \A q \in Threads : th[q].pc # "extend"
            BY <2>2, <3>2, Alone
        <3>4. \A q \in Threads : th'[q].pc = "extend" => q = p
            BY <3>2, <3>3
        <3>5. ASSUME sound' PROVE extended_value + Difference(raw, last_raw_value) = count
            <4>1. /\ extended_value = seenAt /\ Ahead(last_raw_value)
                  /\ seenAt <= count /\ count - seenAt < W
                BY <2>2, <3>2, <3>3, <3>5 DEF ValueInv, Living
            <4>2. count - seenAt \in Nat
                BY <4>1 DEF TypeOK
            <4>3. Difference(raw, last_raw_value) = count - seenAt
                BY <4>1, <4>2, DifferenceCounts DEF Ahead, TypeOK
            <4> QED
                BY <4>1, <4>3 DEF TypeOK
        <3> QED
            BY <3>1, <3>2, <3>4, <3>5 DEF ValueInv, Ahead, TypeOK
    <2>3. CASE main = "running" /\ extend(p)
        <3>1. /\ main' = main /\ seenAt' = seenAt /\ sound' = sound
              /\ raw' = raw /\ count' = count
            BY <2>3, Zenon DEF extend, hardware, ghosts
        <3>2. /\ th[p].pc = "extend" /\ th'[p].pc = "unlock"
              /\ extended_value' = extended_value + Difference(th[p].new, last_raw_value)
              /\ last_raw_value' = th[p].new
              /\ \A q \in Threads : q # p => th'[q] = th[q]
            BY <2>3, ExtendEffect
        <3>3. \A q \in Threads : th'[q].pc # "extend"
            BY <2>3, <3>2, Alone
        <3> QED
            BY <2>3, <3>1, <3>2, <3>3 DEF ValueInv, Ahead, Living
    <2>4. CASE unlock(p)
        <3>1. UNCHANGED <<main, values, hardware, ghosts>>
            BY <2>4 DEF unlock
        <3> QED
            BY <2>4, <3>1, UnlockEffect, ValueKept
    <2> QED
        BY <1>3, <2>0, <2>1, <2>2, <2>3, <2>4 DEF internal_read
<1>4. ASSUME NEW p \in Threads, Go(p, "out", Frame("lock", 0, 0, count)),
             UNCHANGED <<main, values, hardware, ghosts>>
      PROVE ValueInv'
    BY <1>4, CallEffect, ValueKept
<1>5. (\E r \in Readers : read(r)) \/ wake => ValueInv'
    BY <1>4 DEF read, wake
<1>6. CASE cancelled
    <2>1. UNCHANGED <<main, values, hardware, ghosts>>
        BY <1>6 DEF cancelled
    <2> QED
        BY <1>6, <2>1, CancelEffect, ValueKept
<1>7. CASE Finished \/ UNCHANGED vars
    BY <1>7 DEF Finished, vars, ValueInv, Ahead
<1> QED
    BY <1>1, <1>2, <1>3, <1>5, <1>6, <1>7 DEF Next, WatchDogProc

\* A step that leaves a reader and the last raw read alone keeps its invariant.
LEMMA ReaderKept ==
    ASSUME NEW r \in Readers, ReaderInv(r), TypeOK, th'[r] = th[r],
           count' = count \/ count' = count + 1,
           seenAt' = seenAt \/ th[r].pc # "extend"
    PROVE ReaderInv(r)'
<1>1. th[r].lo \in Nat /\ th[r].res \in Int /\ count \in Nat
    BY ThreadFields, WatchdogThread DEF TypeOK
<1> QED
    BY <1>1 DEF ReaderInv

\* What a reader returns lies between its call and its return, in every step.
LEMMA ResultStep ==
    TypeOK /\ LockInv /\ ValueInv /\ ResultInv /\ [Next]_vars => ResultInv'
<1> SUFFICES ASSUME TypeOK, LockInv, ValueInv, ResultInv, [Next]_vars,
                    main' = "running", sound', NEW r \in Readers
             PROVE ReaderInv(r)'
    BY DEF ResultInv
<1> USE WatchdogThread
<1>0. ASSUME main = "running", sound PROVE ReaderInv(r)
    BY <1>0 DEF ResultInv
<1>1. CASE Increment
    <2>1. /\ main' = main /\ th' = th /\ seenAt' = seenAt /\ sound' = sound
          /\ count' = count + 1
        BY <1>1 DEF Increment, ghosts
    <2> QED
        BY <1>0, <2>1, ReaderKept
<1>2. CASE Owner
    <2>1. create
        BY <1>2 DEF Owner, construct, pthread_cancel, mutex_destroy, delete_raw_counter, Step
    <2>2. th[r].pc = "out"
        BY <2>1 DEF create, Step, LockInv
    <2>3. th'[r] = th[r]
        BY <2>1 DEF create, TypeOK
    <2> QED
        BY <2>2, <2>3 DEF ReaderInv
<1>3. ASSUME NEW p \in Threads, internal_read(p) PROVE ReaderInv(r)'
    <2>1. CASE lock(p)
        <3>1. main' = main /\ count' = count /\ seenAt' = seenAt /\ sound' = sound
            BY <2>1, Zenon DEF lock, hardware, ghosts
        <3>2. ReaderInv(r)
            BY <1>0, <3>1
        <3>3. /\ th[p].pc = "lock" /\ th'[p].pc = "raw" /\ th'[p].lo = th[p].lo
              /\ \A q \in Threads : q # p => th'[q] = th[q]
            BY <2>1, LockEffect
        <3>4. CASE p = r
            BY <3>1, <3>2, <3>3, <3>4 DEF ReaderInv
        <3>5. CASE p # r
            BY <3>1, <3>2, <3>3, <3>5, ReaderKept
        <3> QED
            BY <3>4, <3>5
    <2>2. CASE read_raw(p)
        <3>1. main' = main /\ count' = count /\ seenAt' = count
            BY <2>2, Zenon DEF read_raw, hardware
        <3>2. /\ sound /\ th[p].pc = "raw" /\ th'[p].pc = "extend" /\ th'[p].lo = th[p].lo
              /\ \A q \in Threads : q # p => th'[q] = th[q]
            BY <2>2, RawEffect
        <3>3. ReaderInv(r)
            BY <1>0, <3>1, <3>2
        <3>4. CASE p = r
            BY <3>1, <3>2, <3>3, <3>4 DEF ReaderInv
        <3>5. CASE p # r
            <4>1. th[r].pc # "extend"
                BY <3>1, <3>2, <3>5, Alone
            <4> QED
                BY <3>1, <3>2, <3>3, <3>5, <4>1, ReaderKept
        <3> QED
            BY <3>4, <3>5
    <2>3. CASE extend(p)
        <3>1. main' = main /\ count' = count /\ seenAt' = seenAt /\ sound' = sound
            BY <2>3, Zenon DEF extend, hardware, ghosts
        <3>2. ReaderInv(r)
            BY <1>0, <3>1
        <3>3. /\ th[p].pc = "extend" /\ th'[p].pc = "unlock" /\ th'[p].lo = th[p].lo
              /\ extended_value' = extended_value + Difference(th[p].new, last_raw_value)
              /\ th'[p].res = extended_value'
              /\ \A q \in Threads : q # p => th'[q] = th[q]
            BY <2>3, ExtendEffect
        <3>4. CASE p = r
            <4>1. th'[r].res = seenAt /\ seenAt <= count
                BY <3>1, <3>3, <3>4 DEF ValueInv, Living
            <4> QED
                BY <3>1, <3>2, <3>3, <3>4, <4>1 DEF ReaderInv
        <3>5. CASE p # r
            BY <3>1, <3>2, <3>3, <3>5, ReaderKept
        <3> QED
            BY <3>4, <3>5
    <2>4. CASE unlock(p)
        <3>1. main' = main /\ count' = count /\ seenAt' = seenAt /\ sound' = sound
            BY <2>4, Zenon DEF unlock, hardware, ghosts
        <3>2. ReaderInv(r)
            BY <1>0, <3>1
        <3>3. th'[p].pc = "out" /\ \A q \in Threads : q # p => th'[q] = th[q]
            BY <2>4, UnlockEffect
        <3>4. CASE p = r
            BY <3>3, <3>4 DEF ReaderInv
        <3>5. CASE p # r
            BY <3>1, <3>2, <3>3, <3>5, ReaderKept
        <3> QED
            BY <3>4, <3>5
    <2> QED
        BY <1>3, <2>1, <2>2, <2>3, <2>4 DEF internal_read
<1>4. ASSUME NEW p \in Threads, Go(p, "out", Frame("lock", 0, 0, count)),
             UNCHANGED <<main, values, hardware, ghosts>>
      PROVE ReaderInv(r)'
    <2>1. main' = main /\ count' = count /\ seenAt' = seenAt /\ sound' = sound
        BY <1>4, Zenon DEF hardware, ghosts
    <2>2. ReaderInv(r)
        BY <1>0, <2>1
    <2>3. /\ th'[p].pc = "lock" /\ th'[p].lo = count
          /\ \A q \in Threads : q # p => th'[q] = th[q]
        BY <1>4, CallEffect
    <2>4. CASE p = r
        BY <2>1, <2>3, <2>4 DEF ReaderInv, TypeOK
    <2>5. CASE p # r
        BY <2>1, <2>2, <2>3, <2>5, ReaderKept
    <2> QED
        BY <2>4, <2>5
<1>5. (\E q \in Readers : read(q)) \/ wake => ReaderInv(r)'
    BY <1>4 DEF read, wake
<1>6. CASE cancelled
    <2>1. main' = main /\ count' = count /\ seenAt' = seenAt /\ sound' = sound
        BY <1>6, Zenon DEF cancelled, hardware, ghosts
    <2>2. th'[r] = th[r]
        BY <1>6, CancelEffect
    <2> QED
        BY <1>0, <2>1, <2>2, ReaderKept
<1>7. CASE Finished \/ UNCHANGED vars
    <2>1. /\ main' = main /\ count' = count /\ seenAt' = seenAt /\ sound' = sound
          /\ th' = th
        BY <1>7 DEF Finished, vars
    <2> QED
        BY <1>0, <2>1, ReaderKept
<1> QED
    BY <1>1, <1>2, <1>3, <1>5, <1>6, <1>7 DEF Next, WatchDogProc

\* What a watchdog that was cancelled can still do is kept by every step.
LEMMA CancelStep ==
    TypeOK /\ LockInv /\ CancelInv /\ [Next]_vars => CancelInv'
<1> SUFFICES ASSUME TypeOK, LockInv, CancelInv, [Next]_vars PROVE CancelInv'
    OBVIOUS
<1> USE WatchdogThread
<1>0. th["watchdog"].pc \in Places
    BY ThreadFields DEF TypeOK
<1>1. CASE Increment
    BY <1>1 DEF Increment, CancelInv, TeardownCause
<1>2. CASE Owner
    <2>1. CASE construct \/ mutex_destroy \/ delete_raw_counter
        BY <2>1 DEF construct, mutex_destroy, delete_raw_counter, Step, CancelInv,
                    TeardownCause
    <2>2. CASE create
        <3>1. PICK place \in {"none", "out"} :
                th' = [th EXCEPT !["watchdog"] = Outside(place)]
            BY <2>2 DEF create
        <3>2. Outside(place).pc = place
            BY OutsideType DEF Places
        <3>3. th'["watchdog"].pc = place
            BY <3>1, <3>2 DEF TypeOK
        <3>4. main = "create" /\ main' = "running" /\ cancel' = cancel /\ fault' = fault
            BY <2>2 DEF create, Step
        <3> QED
            BY <3>3, <3>4 DEF CancelInv, TeardownCause
    <2>3. CASE pthread_cancel
        <3>1. /\ main = "running" /\ main' = "destroy" /\ th' = th
              /\ cancel' = th["watchdog"].pc
              /\ fault' \in IF cancel' = "none" THEN {"none", "crashed"} ELSE {fault}
            BY <2>3 DEF pthread_cancel, Step
        <3>2. cancel = "no" /\ fault = "none" /\ cancel' # "no" /\ cancel' # "ended"
            BY <1>0, <3>1 DEF CancelInv, TeardownCause, Places
        <3>3. fault' # "none" => cancel' = "none" /\ fault' = "crashed"
            BY <3>1, <3>2
        <3> QED
            BY <3>1, <3>2, <3>3 DEF CancelInv, TeardownCause
    <2> QED
        BY <1>2, <2>1, <2>2, <2>3 DEF Owner
<1>3. ASSUME NEW p \in Threads, internal_read(p) PROVE CancelInv'
    <2>1. main' = main /\ cancel' = cancel /\ Touch
        BY <1>3 DEF internal_read, lock, read_raw, extend, unlock
    <2>2. /\ th[p].pc \in {"lock", "raw", "extend", "unlock"}
          /\ th'[p].pc \in {"raw", "extend", "unlock", "out"}
          /\ \A q \in Threads : q # p => th'[q] = th[q]
        BY <1>3, LockEffect, RawEffect, ExtendEffect, UnlockEffect DEF internal_read
    <2>3. ASSUME main = "done" PROVE cancel \in {"lock", "raw", "extend", "unlock"}
        <3>1. p = "watchdog"
            BY <2>2, <2>3 DEF LockInv, Threads
        <3> QED
            BY <2>2, <2>3, <3>1 DEF CancelInv, TypeOK, Places
    <2>4. TeardownCause'
        <3>1. CASE main = "done"
            BY <2>1, <2>3, <3>1 DEF TeardownCause
        <3>2. CASE main # "done"
            BY <2>1, <3>2 DEF CancelInv, TeardownCause, Touch
        <3> QED
            BY <3>1, <3>2
    <2>5. CASE p = "watchdog"
        BY <2>1, <2>2, <2>4, <2>5 DEF CancelInv
    <2>6. CASE p # "watchdog"
        BY <2>1, <2>2, <2>4, <2>6 DEF CancelInv
    <2> QED
        BY <2>5, <2>6
<1>4. ASSUME NEW r \in Readers, read(r) PROVE CancelInv'
    <2>1. main' = main /\ cancel' = cancel /\ fault' = fault
        BY <1>4 DEF read
    <2>2. th'["watchdog"] = th["watchdog"]
        BY <1>4, CallEffect DEF read
    <2> QED
        BY <2>1, <2>2 DEF CancelInv, TeardownCause
<1>5. CASE wake
    <2>1. main' = main /\ cancel' = cancel /\ fault' = fault /\ cancel = "no"
        BY <1>5 DEF wake
    <2>2. th'["watchdog"].pc = "lock"
        BY <1>5, CallEffect DEF wake
    <2> QED
        BY <2>1, <2>2 DEF CancelInv, TeardownCause
<1>6. CASE cancelled
    <2>1. main' = main /\ cancel' = cancel /\ fault' = fault /\ cancel # "no"
        BY <1>6 DEF cancelled
    <2>2. th["watchdog"].pc \in {"out", "raw"} /\ th'["watchdog"].pc = "ended"
        BY <1>6, CancelEffect
    <2> QED
        BY <2>1, <2>2 DEF CancelInv, TeardownCause
<1>7. CASE Finished \/ UNCHANGED vars
    BY <1>7 DEF Finished, vars, CancelInv, TeardownCause
<1> QED
    BY <1>1, <1>2, <1>3, <1>4, <1>5, <1>6, <1>7 DEF Next, WatchDogProc

\* The state is well typed in every reachable state, for every width of the
\* hardware counter and every set of readers.
THEOREM TypeCorrect == Spec => []TypeOK
<1>1. Init => TypeOK
    BY InitInv
<1> QED
    BY <1>1, TypeStep, PTL DEF Spec

\* read() returns a true count of a moment between its call and its return, for
\* every width of the hardware counter, every number of wraps and readers, and
\* whatever the watchdog and the destructor do meanwhile, unless a raw read
\* failed or came more than a wrap late.
THEOREM ReadLinearizableAlways == Spec => []ReadLinearizable
<1> DEFINE Inv == TypeOK /\ LockInv /\ ValueInv /\ ResultInv
<1>1. Init => Inv
    BY InitInv
<1>2. Inv /\ [Next]_vars => Inv'
    BY TypeStep, LockStep, ValueStep, ResultStep
<1>3. Inv => ReadLinearizable
    BY DEF LockInv, ResultInv, ReaderInv, ReadLinearizable
<1> QED
    BY <1>1, <1>2, <1>3, PTL DEF Spec

\* The released object is used, or the process dies, only when the destructor
\* found the watchdog inside internal_read, or there was no watchdog to cancel;
\* for every width, number of readers and pace of the hardware.
THEOREM TeardownCauseAlways == Spec => []TeardownCause
<1> DEFINE Inv == TypeOK /\ LockInv /\ CancelInv
<1>1. Init => Inv
    <2> SUFFICES ASSUME Init PROVE Inv
        OBVIOUS
    <2>1. th["watchdog"].pc = "none"
        BY WatchdogThread, OutsideType DEF Init, Places
    <2>2. CancelInv
        BY <2>1 DEF Init, CancelInv, TeardownCause
    <2> QED
        BY <2>2, InitInv
<1>2. Inv /\ [Next]_vars => Inv'
    BY TypeStep, LockStep, CancelStep
<1>3. Inv => TeardownCause
    BY DEF CancelInv
<1> QED
    BY <1>1, <1>2, <1>3, PTL DEF Spec
=============================================================================
