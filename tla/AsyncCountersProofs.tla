------------------------ MODULE AsyncCountersProofs -------------------------
(***************************************************************************)
(* The type and all safety invariants of AsyncCounters, for every number   *)
(* of cores, sockets and readers.                                          *)
(*                                                                         *)
(* LockInv says who may touch the snapshots when: the constructor is alone,*)
(* the mutex separates updater and readers while the object lives, and no  *)
(* reader is left when the destructor has begun.  PairInv follows what a   *)
(* reader has loaded, OrderInv the order of the two snapshots of a group,  *)
(* BlankInv which snapshots were taken, OverlapInv the order of snapshots  *)
(* of different groups in the middle of a pass, and CauseInv what the      *)
(* updating thread may still do after it was cancelled.                    *)
(***************************************************************************)
EXTENDS AsyncCounters, TLAPS

Constructing == {"program", "exit", "read1", "read2", "create"}
Destructing == {"destroy", "cleanup", "delete", "done"}

LockInv ==
    /\ main \in {"program", "read1", "read2"} => k < System
    /\ main \in Constructing => upd = "none"
    /\ main \in Constructing \cup Destructing => \A r \in Readers : rd[r].pc = "idle"
    /\ main \in Constructing \cup {"running"} => mutex # "destroyed"
    /\ main = "running" /\ upd \in {"copy", "read", "unlock"} => mutex = "updater"
    /\ \A r \in Readers : rd[r].pc \in {"load1", "load2", "unlock"} => mutex = r

PairInv ==
    \A r \in Readers :
        /\ rd[r].pc \in {"load2", "unlock"} => rd[r].a = states1[rd[r].group]
        /\ rd[r].pc = "unlock" => rd[r].b = states2[rd[r].group]

OrderInv ==
    \A g \in Groups :
        /\ states1[g] <= now /\ states2[g] <= now
        /\ states1[g] <= states2[g] \/ (main = "read2" /\ g = k)

\* The constructor has read both snapshots of every group below its index, and
\* a snapshot that was taken is never blank again.
BlankInv ==
    /\ main \notin {"program", "exit", "read1", "read2"} => k = System
    /\ main = "read2" => states1[k] # Blank
    /\ \A g \in Groups : g < k => states1[g] # Blank /\ states2[g] # Blank

\* The groups whose old, and whose new snapshot this pass has renewed.
Copied == {g \in Groups : g < j \/ (g = j /\ upd = "read")}
Renewed == {g \in Groups : g < j}

\* No pass is over yet, or all intervals have a common moment.
Settled ==
    \/ states2[System] = Blank
    \/ \A g, h \in Groups : states1[g] <= states2[h]

InPass == {"copy", "read", "unlock"}

\* In a pass everything that is, or will be copied to, an old snapshot was read
\* before the new snapshots of this pass; the mutex hides the pass.
OverlapInv ==
    /\ main \in Constructing => states2[System] = Blank
    /\ mutex \in {"free"} \cup Readers => upd \notin InPass
    /\ upd = "unlock" => j = System + 1
    /\ upd \in InPass => \A h \in Renewed :
           /\ \A g \in Copied : states1[g] <= states2[h]
           /\ \A g \in Groups \ Copied : states2[g] <= states2[h]
    /\ upd \in {"none", "lock", "sleep"} \/ mutex \in {"free"} \cup Readers => Settled

\* A thread that was asleep when it was cancelled does not wake up.
CauseInv ==
    /\ TouchCause
    /\ main \in Constructing \cup {"running"} <=> cancel = "no"
    /\ cancel = "sleep" => upd \in {"sleep", "ended"}

\* The number of groups and the constants of TypeOK are naturals.
LEMMA SystemNat ==
    System \in Nat /\ System > 2 /\ MaxNow \in Nat /\ MaxNow >= 1
BY TopologyAssumption, MaxNowAssumption DEF System

\* The initial state is well typed, and nobody has started.
LEMMA InitInv == Init => TypeOK /\ LockInv /\ PairInv /\ OrderInv
BY SystemNat DEF Init, TypeOK, ReaderStates, LockInv, PairInv, OrderInv, Idle, Blank, Groups,
    Constructing, Destructing

\* Every step keeps the types and the indices in their arrays.
LEMMA TypeStep == TypeOK /\ LockInv /\ [Next]_vars => TypeOK'
<1> SUFFICES ASSUME TypeOK, LockInv, [Next]_vars PROVE TypeOK'
    OBVIOUS
<1> USE SystemNat DEF TypeOK, Groups
<1>1. CASE Count
    BY <1>1 DEF Count, owner, updater
<1>2. CASE Owner
    <2>0. CASE program
        BY <2>0 DEF program, Step, updater
    <2>1. CASE construct_read1
        BY <2>1 DEF construct_read1, Step, updater
    <2>2. CASE construct_read2
        BY <2>2 DEF construct_read2, Step, updater, LockInv
    <2>3. CASE create
        BY <2>3 DEF create, Step
    <2>4. CASE pthread_cancel
        BY <2>4 DEF pthread_cancel, Step, updater
    <2>5. CASE mutex_destroy \/ cleanup \/ delete
        BY <2>5 DEF mutex_destroy, cleanup, delete, Step, updater
    <2> QED
        BY <1>2, <2>0, <2>1, <2>2, <2>3, <2>4, <2>5 DEF Owner
<1>3. CASE UpdateCounters
    <2>1. CASE lock
        BY <2>1 DEF lock, Touch, owner
    <2>2. CASE copy
        BY <2>2 DEF copy, Touch, owner
    <2>3. CASE read
        BY <2>3 DEF read, Touch, owner, LastGroup
    <2>4. CASE unlock
        BY <2>4 DEF unlock, Touch, owner
    <2>5. CASE wake \/ cancelled
        BY <2>5 DEF wake, cancelled, owner
    <2> QED
        BY <1>3, <2>1, <2>2, <2>3, <2>4, <2>5 DEF UpdateCounters
<1>4. ASSUME NEW r \in Readers, Reader(r) PROVE TypeOK'
    <2>1. CASE get(r)
        <3>1. PICK g \in Groups :
                rd' = [rd EXCEPT ![r] = [Idle EXCEPT !.pc = "lock", !.group = g]]
            BY <2>1 DEF get, Goto
        <3>2. [Idle EXCEPT !.pc = "lock", !.group = g] \in ReaderStates
            <4>1. Idle \in ReaderStates
                BY DEF Idle, Blank, ReaderStates
            <4> QED
                BY <4>1 DEF ReaderStates
        <3>3. rd' \in [Readers -> ReaderStates]
            BY <3>1, <3>2
        <3>6. UNCHANGED <<now, main, k, states1, states2, mutex, upd, j, cancel, fault>>
            BY <2>1 DEF get, owner, updater
        <3> QED
            BY <3>3, <3>6
    <2>2. CASE get_lock(r)
        <3>1. [rd[r] EXCEPT !.pc = "load1"] \in ReaderStates
            BY DEF ReaderStates
        <3>2. rd' \in [Readers -> ReaderStates]
            BY <2>2, <3>1 DEF get_lock, Goto
        <3>3. mutex' \in Readers /\ UNCHANGED <<now, main, k, states1, states2>>
            BY <2>2 DEF get_lock, owner
        <3>4. UNCHANGED <<upd, j, cancel, fault>>
            BY <2>2 DEF get_lock, updater
        <3> QED
            BY <3>2, <3>3, <3>4
    <2>3. CASE get_load1(r)
        <3>1. states1[rd[r].group] \in 0..MaxNow
            BY DEF ReaderStates
        <3>2. rd' = [rd EXCEPT ![r] = [rd[r] EXCEPT !.pc = "load2",
                                               !.a = states1[rd[r].group]]]
            BY <2>3 DEF get_load1, Goto
        <3>3. rd[r] \in ReaderStates
            OBVIOUS
        <3>4. [rd[r] EXCEPT !.pc = "load2", !.a = states1[rd[r].group]] \in ReaderStates
            BY <3>1, <3>3 DEF ReaderStates
        <3>5. rd' \in [Readers -> ReaderStates]
            BY <3>2, <3>4
        <3>6. UNCHANGED <<now, main, k, states1, states2, mutex, upd, j, cancel, fault>>
            BY <2>3 DEF get_load1, owner, updater
        <3> QED
            BY <3>5, <3>6
    <2>4. CASE get_load2(r)
        <3>1. states2[rd[r].group] \in 0..MaxNow
            BY DEF ReaderStates
        <3>2. rd' = [rd EXCEPT ![r] = [rd[r] EXCEPT !.pc = "unlock",
                                               !.b = states2[rd[r].group]]]
            BY <2>4 DEF get_load2, Goto
        <3>3. rd[r] \in ReaderStates
            OBVIOUS
        <3>4. [rd[r] EXCEPT !.pc = "unlock", !.b = states2[rd[r].group]] \in ReaderStates
            BY <3>1, <3>3 DEF ReaderStates
        <3>5. rd' \in [Readers -> ReaderStates]
            BY <3>2, <3>4
        <3>6. UNCHANGED <<now, main, k, states1, states2, mutex, upd, j, cancel, fault>>
            BY <2>4 DEF get_load2, owner, updater
        <3> QED
            BY <3>5, <3>6
    <2>5. CASE get_unlock(r)
        <3>1. Idle \in ReaderStates
            BY DEF Idle, Blank, ReaderStates
        <3>2. rd' \in [Readers -> ReaderStates]
            BY <2>5, <3>1 DEF get_unlock, Goto
        <3>3. mutex' = "free" /\ UNCHANGED <<now, main, k, states1, states2>>
            BY <2>5 DEF get_unlock, owner
        <3>4. UNCHANGED <<upd, j, cancel, fault>>
            BY <2>5 DEF get_unlock, updater
        <3> QED
            BY <3>2, <3>3, <3>4
    <2> QED
        BY <1>4, <2>1, <2>2, <2>3, <2>4, <2>5 DEF Reader
<1>5. CASE Finished \/ UNCHANGED vars
    BY <1>5 DEF Finished, vars
<1> QED
    BY <1>1, <1>2, <1>3, <1>4, <1>5 DEF Next

\* Every step keeps the discipline of the mutex.
LEMMA LockStep == TypeOK /\ LockInv /\ [Next]_vars => LockInv'
<1> SUFFICES ASSUME TypeOK, LockInv, [Next]_vars PROVE LockInv'
    OBVIOUS
<1> USE SystemNat, ReadersAssumption DEF TypeOK, ReaderStates, LockInv, Groups, Constructing, Destructing
<1>1. CASE Count
    BY <1>1 DEF Count, owner, updater
<1>2. CASE Owner
    <2>1. CASE program \/ construct_read1
        BY <2>1 DEF program, construct_read1, Step, updater
    <2>2. CASE construct_read2
        BY <2>2 DEF construct_read2, Step, updater, LastRead
    <2>3. CASE create
        BY <2>3 DEF create, Step
    <2>4. CASE pthread_cancel
        BY <2>4 DEF pthread_cancel, Step, updater
    <2>5. CASE mutex_destroy \/ cleanup \/ delete
        BY <2>5 DEF mutex_destroy, cleanup, delete, Step, updater
    <2> QED
        BY <1>2, <2>1, <2>2, <2>3, <2>4, <2>5 DEF Owner
<1>3. CASE UpdateCounters
    <2>1. CASE lock
        BY <2>1 DEF lock, owner
    <2>2. CASE copy \/ read
        BY <2>2 DEF copy, read, owner
    <2>3. CASE unlock
        BY <2>3 DEF unlock, owner
    <2>4. CASE wake \/ cancelled
        BY <2>4 DEF wake, cancelled, owner
    <2> QED
        BY <1>3, <2>1, <2>2, <2>3, <2>4 DEF UpdateCounters
<1>4. ASSUME NEW r \in Readers, Reader(r) PROVE LockInv'
    <2>1. CASE get(r)
        BY <2>1 DEF get, Goto, Idle, owner, updater
    <2>2. CASE get_lock(r)
        BY <2>2 DEF get_lock, Goto, owner, updater
    <2>3. CASE get_load1(r) \/ get_load2(r)
        BY <2>3 DEF get_load1, get_load2, Goto, owner, updater
    <2>4. CASE get_unlock(r)
        BY <2>4 DEF get_unlock, Goto, Idle, owner, updater
    <2> QED
        BY <1>4, <2>1, <2>2, <2>3, <2>4 DEF Reader
<1>5. CASE Finished \/ UNCHANGED vars
    BY <1>5 DEF Finished, vars
<1> QED
    BY <1>1, <1>2, <1>3, <1>4, <1>5 DEF Next

\* While a reader holds what it has loaded, nobody changes the snapshots.
LEMMA PairStep == TypeOK /\ LockInv /\ PairInv /\ [Next]_vars => PairInv'
<1> SUFFICES ASSUME TypeOK, LockInv, PairInv, [Next]_vars PROVE PairInv'
    OBVIOUS
<1> USE SystemNat DEF PairInv
<1>1. CASE Count \/ Finished \/ UNCHANGED vars
    BY <1>1 DEF Count, Finished, vars
<1>2. CASE Owner
    <2>1. CASE construct_read1 \/ construct_read2
        BY <2>1 DEF construct_read1, construct_read2, Step, LockInv, Constructing, TypeOK
    <2>2. CASE program \/ create \/ pthread_cancel \/ mutex_destroy \/ cleanup \/ delete
        BY <2>2 DEF program, create, pthread_cancel, mutex_destroy, cleanup, delete
    <2> QED
        BY <1>2, <2>1, <2>2 DEF Owner
<1>3. CASE UpdateCounters
    <2>1. CASE copy \/ read
        <3>1. \A r \in Readers : rd[r].pc \notin {"load2", "unlock"}
            <4>1. CASE main = "running"
                BY <2>1, <4>1, ReadersAssumption DEF copy, read, LockInv
            <4>2. CASE main \in Constructing \cup Destructing
                BY <4>2 DEF LockInv
            <4> QED
                BY <4>1, <4>2 DEF TypeOK, Constructing, Destructing
        <3> QED
            BY <2>1, <3>1 DEF copy, read
    <2>2. CASE lock \/ unlock \/ wake \/ cancelled
        BY <2>2 DEF lock, unlock, wake, cancelled
    <2> QED
        BY <1>3, <2>1, <2>2 DEF UpdateCounters
<1>4. ASSUME NEW r \in Readers, Reader(r) PROVE PairInv'
    <2>1. CASE get(r) \/ get_lock(r)
        BY <2>1 DEF get, get_lock, Goto, Idle, TypeOK, ReaderStates
    <2>2. CASE get_load1(r)
        BY <2>2 DEF get_load1, Goto, TypeOK, ReaderStates
    <2>3. CASE get_load2(r)
        BY <2>3 DEF get_load2, Goto, TypeOK, ReaderStates
    <2>4. CASE get_unlock(r)
        BY <2>4 DEF get_unlock, Goto, Idle, TypeOK, ReaderStates
    <2> QED
        BY <1>4, <2>1, <2>2, <2>3, <2>4 DEF Reader
<1> QED
    BY <1>1, <1>2, <1>3, <1>4 DEF Next

\* The old snapshot of a group is never later than the new one.
LEMMA OrderStep == TypeOK /\ LockInv /\ OrderInv /\ [Next]_vars => OrderInv'
<1> SUFFICES ASSUME TypeOK, LockInv, OrderInv, [Next]_vars PROVE OrderInv'
    OBVIOUS
<1> USE SystemNat DEF OrderInv, Groups, TypeOK
<1>0. CASE Finished \/ UNCHANGED vars
    BY <1>0 DEF Finished, vars
<1>1. CASE Count
    <2>1. now \in Nat /\ now' = now + 1 /\ UNCHANGED <<main, k, states1, states2>>
        BY <1>1 DEF Count, owner
    <2>2. \A g \in Groups : states1[g] \in Nat /\ states2[g] \in Nat
        OBVIOUS
    <2> QED
        BY <2>1, <2>2
<1>2. CASE Owner
    <2>1. CASE construct_read1
        BY <2>1 DEF construct_read1, Step
    <2>2. CASE construct_read2
        BY <2>2 DEF construct_read2, Step
    <2>3. CASE program \/ create \/ pthread_cancel \/ mutex_destroy \/ cleanup \/ delete
        BY <2>3 DEF program, create, pthread_cancel, mutex_destroy, cleanup, delete, Step
    <2> QED
        BY <1>2, <2>1, <2>2, <2>3 DEF Owner
<1>3. CASE UpdateCounters
    <2>1. CASE copy
        BY <2>1 DEF copy, owner
    <2>2. CASE read
        BY <2>2 DEF read, owner
    <2>3. CASE lock \/ unlock \/ wake \/ cancelled
        BY <2>3 DEF lock, unlock, wake, cancelled, owner
    <2> QED
        BY <1>3, <2>1, <2>2, <2>3 DEF UpdateCounters
<1>4. ASSUME NEW r \in Readers, Reader(r) PROVE OrderInv'
    BY <1>4 DEF Reader, get, get_lock, get_load1, get_load2, get_unlock, owner
<1> QED
    BY <1>0, <1>1, <1>2, <1>3, <1>4 DEF Next

\* The four parts of the invariant hold together in every behaviour.
LEMMA Invariance == Spec => [](TypeOK /\ LockInv /\ PairInv /\ OrderInv)
<1>1. TypeOK /\ LockInv /\ PairInv /\ OrderInv /\ [Next]_vars
        => (TypeOK /\ LockInv /\ PairInv /\ OrderInv)'
    BY TypeStep, LockStep, PairStep, OrderStep
<1> QED
    BY <1>1, InitInv, PTL DEF Spec

\* AsynchronCounterState keeps its types, and its loops stay inside the arrays,
\* for every topology and any number of readers.
THEOREM TypeCorrect == Spec => []TypeOK
BY Invariance, PTL

\* A difference returned by get, getSocket or getSystem is taken from the two
\* snapshots of one moment, whatever the updating thread and the destructor do.
THEOREM SnapshotPairAlways == Spec => []SnapshotPair
<1>1. PairInv => SnapshotPair
    BY DEF PairInv, SnapshotPair
<1> QED
    BY <1>1, Invariance, PTL

\* The difference is never negative.
THEOREM NoNegativeAlways == Spec => []NoNegative
<1>1. TypeOK /\ LockInv /\ PairInv /\ OrderInv => NoNegative
    <2> SUFFICES ASSUME TypeOK, LockInv, PairInv, OrderInv,
                        NEW r \in Readers, rd[r].pc = "unlock"
                 PROVE  rd[r].a <= rd[r].b
        BY DEF NoNegative
    <2>1. rd[r].group \in Groups /\ main # "read2"
        BY DEF TypeOK, ReaderStates, LockInv, Constructing
    <2> QED
        BY <2>1 DEF PairInv, OrderInv
<1> QED
    BY <1>1, Invariance, PTL

-----------------------------------------------------------------------------
(* No difference for a core or a socket starts at a blank snapshot          *)

\* Every step keeps the snapshots that were taken.
LEMMA BlankStep == TypeOK /\ LockInv /\ BlankInv /\ [Next]_vars => BlankInv'
<1> SUFFICES ASSUME TypeOK, LockInv, BlankInv, [Next]_vars PROVE BlankInv'
    OBVIOUS
<1>0. /\ System \in Nat /\ k \in 1..System /\ Groups = 1..System
      /\ now \in Nat /\ now # 0 /\ Blank = 0
      /\ states1 \in [1..System -> 0..MaxNow] /\ states2 \in [1..System -> 0..MaxNow]
    BY SystemNat DEF TypeOK, Groups, Blank
<1> USE DEF BlankInv
<1>1. CASE UNCHANGED <<main, k, states1, states2>>
    BY <1>1
<1>2. CASE Owner
    <2>1. CASE program \/ create \/ pthread_cancel \/ mutex_destroy \/ cleanup \/ delete
        BY <2>1 DEF program, create, pthread_cancel, mutex_destroy, cleanup, delete, Step
    <2>2. CASE construct_read1
        <3>1. main' = "read2" /\ k' = k /\ states2' = states2
              /\ states1' = [states1 EXCEPT ![k] = now]
            BY <2>2 DEF construct_read1, Step
        <3> QED
            BY <1>0, <3>1
    <2>3. CASE construct_read2
        <3>1. /\ main = "read2" /\ k' = k + 1 /\ states1' = states1
              /\ main' = IF k = System - 1 THEN "create" ELSE "read1"
              /\ states2' = [states2 EXCEPT ![k] = now]
            BY <2>3 DEF construct_read2, Step, LastRead
        <3>2. main' \in {"create", "read1"} /\ (main' = "create" => k' = System)
            BY <1>0, <3>1
        <3>3. ASSUME NEW g \in Groups, g < k' PROVE states1'[g] # Blank /\ states2'[g] # Blank
            <4>1. g < k \/ g = k
                BY <1>0, <3>1, <3>3
            <4> QED
                BY <1>0, <3>1, <4>1
        <3> QED
            BY <3>2, <3>3
    <2> QED
        BY <1>2, <2>1, <2>2, <2>3 DEF Owner
<1>3. CASE copy
    <2>1. j \in Groups /\ UNCHANGED <<main, k, states2>>
          /\ states1' = [states1 EXCEPT ![j] = states2[j]]
        BY <1>3 DEF copy, owner, TypeOK
    <2>2. main # "read2"
        BY <1>3 DEF copy, LockInv, Constructing
    <2> QED
        BY <1>0, <2>1, <2>2
<1>4. CASE read
    <2>1. j \in Groups /\ UNCHANGED <<main, k, states1>>
          /\ states2' = [states2 EXCEPT ![j] = now]
        BY <1>4 DEF read, owner, TypeOK
    <2> QED
        BY <1>0, <2>1
<1>5. CASE lock \/ unlock \/ wake \/ cancelled
    BY <1>1, <1>5 DEF lock, unlock, wake, cancelled, owner
<1>6. ASSUME NEW r \in Readers, Reader(r) PROVE BlankInv'
    BY <1>1, <1>6 DEF Reader, get, get_lock, get_load1, get_load2, get_unlock, owner
<1>7. CASE Count \/ Finished \/ UNCHANGED vars
    BY <1>1, <1>7 DEF Count, Finished, vars, owner
<1> QED
    BY <1>2, <1>3, <1>4, <1>5, <1>6, <1>7 DEF Next, UpdateCounters

\* A reader's interval for a core or a socket starts at a reading that was
\* taken, for every topology: the constructor has read both snapshots of all of
\* them before it returns.
THEOREM NoBlankStartAlways == Spec => []NoBlankStart
<1>1. Init => BlankInv
    BY DEF Init, BlankInv, Groups
<1>2. TypeOK /\ LockInv /\ PairInv /\ BlankInv => NoBlankStart
    <2> SUFFICES ASSUME TypeOK, LockInv, PairInv, BlankInv,
                        NEW r \in Readers, rd[r].pc = "unlock", rd[r].group # System
                 PROVE  rd[r].a # Blank
        BY DEF NoBlankStart
    <2>1. rd[r].group \in Groups /\ main = "running"
        BY DEF TypeOK, ReaderStates, LockInv, Constructing, Destructing
    <2>2. rd[r].group < k
        BY <2>1, SystemNat DEF BlankInv, Groups
    <2> QED
        BY <2>1, <2>2 DEF PairInv, BlankInv
<1> QED
    BY <1>1, <1>2, BlankStep, Invariance, PTL DEF Spec

-----------------------------------------------------------------------------
(* All intervals have a common moment                                       *)

\* A step of the update keeps OverlapInv.
LEMMA OverlapUpdate ==
    ASSUME TypeOK, LockInv, OrderInv, OverlapInv, UpdateCounters PROVE OverlapInv'
<1>0. /\ System \in Nat /\ System >= 1 /\ Groups = 1..System /\ j \in Nat
      /\ \A g \in Groups : states1[g] \in Nat /\ states2[g] \in Nat /\ now \in Nat
    BY SystemNat DEF TypeOK, Groups
<1>1. main \notin Constructing \/ upd = "none"
    BY DEF LockInv
<1>2. CASE lock
    <2>1. upd' = "copy" /\ j' = 1 /\ mutex' \notin {"free"} \cup Readers
        BY <1>2, ReadersAssumption DEF lock
    <2>2. Renewed' = {}
        BY <1>0, <2>1 DEF Renewed
    <2> QED
        BY <1>1, <1>2, <2>1, <2>2 DEF OverlapInv, lock, owner, InPass
<1>3. CASE copy
    <2>1. /\ upd = "copy" /\ upd' = "read" /\ j' = j /\ j \in Groups
          /\ UNCHANGED <<main, states2, mutex>>
          /\ states1' = [states1 EXCEPT ![j] = states2[j]]
        BY <1>3 DEF copy, owner, TypeOK
    <2>2. Renewed' = Renewed /\ Renewed \subseteq Groups /\ j \notin Renewed
          /\ Copied = Renewed /\ Copied' = Renewed \cup {j}
        BY <1>0, <2>1 DEF Renewed, Copied
    <2>3. states1'[j] = states2[j] /\ \A g \in Groups : g # j => states1'[g] = states1[g]
        BY <2>1 DEF TypeOK
    <2>4. ASSUME NEW h \in Renewed
          PROVE  /\ \A g \in Copied' : states1'[g] <= states2'[h]
                 /\ \A g \in Groups \ Copied' : states2'[g] <= states2'[h]
        BY <2>1, <2>2, <2>3 DEF OverlapInv, InPass
    <2>5. mutex' \notin {"free"} \cup Readers
        BY <2>1 DEF OverlapInv, InPass
    <2> QED
        BY <1>1, <2>1, <2>2, <2>4, <2>5 DEF OverlapInv, InPass
<1>4. CASE read
    <2>1. /\ upd = "read" /\ upd' \in {"copy", "unlock"} /\ j' = j + 1 /\ j \in Groups
          /\ upd' = "unlock" => j = System
          /\ UNCHANGED <<main, states1, mutex>>
          /\ states2' = [states2 EXCEPT ![j] = now]
        BY <1>4 DEF read, owner, TypeOK, LastGroup
    <2>2. Renewed' = Renewed \cup {j} /\ Copied = Renewed \cup {j} /\ Copied' = Copied
          /\ Renewed \subseteq Groups /\ j \notin Renewed
        BY <1>0, <2>1 DEF Renewed, Copied
    <2>3. states2'[j] = now /\ \A g \in Groups : g # j => states2'[g] = states2[g]
        BY <2>1 DEF TypeOK
    <2>4. ASSUME NEW h \in Renewed'
          PROVE  /\ \A g \in Copied' : states1'[g] <= states2'[h]
                 /\ \A g \in Groups \ Copied' : states2'[g] <= states2'[h]
        <3>1. CASE h = j
            BY <2>1, <2>2, <2>3, <3>1 DEF OrderInv
        <3>2. CASE h # j
            BY <2>1, <2>2, <2>3, <3>2 DEF OverlapInv, InPass
        <3> QED
            BY <3>1, <3>2
    <2>5. mutex' \notin {"free"} \cup Readers
        BY <2>1 DEF OverlapInv, InPass
    <2> QED
        BY <1>1, <2>1, <2>4, <2>5 DEF OverlapInv, InPass
<1>5. CASE unlock
    <2>1. /\ upd = "unlock" /\ upd' = "sleep" /\ UNCHANGED <<main, states1, states2>>
        BY <1>5 DEF unlock, owner
    <2>2. Renewed = Groups /\ Copied = Groups
        BY <1>0, <2>1 DEF OverlapInv, Renewed, Copied
    <2>3. Settled
        BY <2>1, <2>2 DEF OverlapInv, InPass, Settled
    <2> QED
        BY <1>1, <2>1, <2>3 DEF OverlapInv, InPass, Settled
<1>6. CASE wake \/ cancelled
    <2>1. /\ upd \in {"read", "sleep"} /\ upd' \in {"lock", "ended"}
          /\ upd' = "lock" => upd = "sleep"
          /\ UNCHANGED <<main, mutex, states1, states2>>
        BY <1>6 DEF wake, cancelled, owner
    <2> QED
        BY <1>1, <2>1 DEF OverlapInv, InPass, Settled
<1> QED
    BY <1>2, <1>3, <1>4, <1>5, <1>6 DEF UpdateCounters

\* Every step keeps OverlapInv.
LEMMA OverlapStep == TypeOK /\ LockInv /\ OrderInv /\ OverlapInv /\ [Next]_vars => OverlapInv'
<1> SUFFICES ASSUME TypeOK, LockInv, OrderInv, OverlapInv, [Next]_vars PROVE OverlapInv'
    OBVIOUS
<1>1. ASSUME UNCHANGED <<states1, states2, upd, j>>, main' \in Constructing => main \in Constructing,
             mutex' \in {"free"} \cup Readers => mutex \in {"free"} \cup Readers
      PROVE  OverlapInv'
    BY <1>1 DEF OverlapInv, Settled, Renewed, Copied
<1>2. CASE Owner
    <2>1. CASE construct_read1 \/ construct_read2
        <3>1. /\ upd = "none" /\ k \in Groups /\ k # System /\ states2[System] = Blank
              /\ System \in Groups /\ main' \in Constructing /\ UNCHANGED <<mutex, upd>>
            BY <2>1, SystemNat
               DEF construct_read1, construct_read2, Step, updater, LockInv, OverlapInv,
                   Constructing, TypeOK, Groups
        <3>2. states2' = states2 \/ states2' = [states2 EXCEPT ![k] = now]
            BY <2>1 DEF construct_read1, construct_read2
        <3>3. states2'[System] = Blank
            BY <3>1, <3>2 DEF TypeOK
        <3> QED
            BY <3>1, <3>3 DEF OverlapInv, Settled, InPass
    <2>2. CASE create
        <3>1. /\ upd = "none" /\ upd' \in {"none", "lock"} /\ main' = "running"
              /\ UNCHANGED <<states1, states2, mutex>>
            BY <2>2 DEF create, Step, LockInv, Constructing
        <3> QED
            BY <3>1 DEF OverlapInv, Settled, InPass, Constructing
    <2>3. CASE program \/ pthread_cancel \/ mutex_destroy \/ cleanup \/ delete
        BY <1>1, <2>3, ReadersAssumption
           DEF program, pthread_cancel, mutex_destroy, cleanup, delete, Step, updater,
               Constructing
    <2> QED
        BY <1>2, <2>1, <2>2, <2>3 DEF Owner
<1>3. ASSUME NEW r \in Readers, Reader(r) PROVE OverlapInv'
    <2>1. mutex \in {"free"} \cup Readers \/ mutex' = mutex
        BY <1>3 DEF Reader, get, get_lock, get_load1, get_load2, get_unlock, Goto, LockInv
    <2>2. UNCHANGED <<main, states1, states2, upd, j>>
        BY <1>3 DEF Reader, get, get_lock, get_load1, get_load2, get_unlock, owner, updater
    <2> QED
        BY <1>1, <2>1, <2>2
<1>4. CASE Count \/ Finished \/ UNCHANGED vars
    BY <1>1, <1>4 DEF Count, Finished, vars, owner, updater
<1> QED
    BY <1>2, <1>3, <1>4, OverlapUpdate DEF Next

\* Once the first pass is over, the intervals of all cores, sockets and the
\* system have a common moment whenever the updating thread is not in a pass.
THEOREM IntervalsOverlapAlways == Spec => []IntervalsOverlap
<1>1. Init => OverlapInv
    <2>1. System \in Groups
        BY SystemNat DEF Groups
    <2> QED
        BY <2>1 DEF Init, OverlapInv, Settled, InPass
<1>2. OverlapInv => IntervalsOverlap
    BY DEF OverlapInv, Settled, IntervalsOverlap
<1> QED
    BY <1>1, <1>2, OverlapStep, Invariance, PTL DEF Spec

-----------------------------------------------------------------------------
(* Who uses the object after the destructor                                 *)

\* Every step keeps CauseInv.
LEMMA CauseStep == TypeOK /\ LockInv /\ CauseInv /\ [Next]_vars => CauseInv'
<1> SUFFICES ASSUME TypeOK, LockInv, CauseInv, [Next]_vars PROVE CauseInv'
    OBVIOUS
<1> USE DEF CauseInv, TouchCause, Constructing
<1>1. CASE Owner
    <2>1. CASE pthread_cancel
        BY <2>1 DEF pthread_cancel, Step, updater, TypeOK
    <2>2. CASE create
        BY <2>2 DEF create, Step
    <2>3. CASE program \/ construct_read1 \/ construct_read2 \/ mutex_destroy \/ cleanup \/ delete
        BY <2>3 DEF program, construct_read1, construct_read2, mutex_destroy, cleanup, delete,
                    Step, updater
    <2> QED
        BY <1>1, <2>1, <2>2, <2>3 DEF Owner
<1>2. CASE UpdateCounters
    <2>1. CASE lock \/ copy \/ read \/ unlock
        <3>1. /\ upd \in {"lock", "copy", "read", "unlock"} /\ Touch
              /\ UNCHANGED <<main, cancel>>
            BY <2>1 DEF lock, copy, read, unlock, owner
        <3> QED
            BY <3>1 DEF Touch
    <2>2. CASE wake \/ cancelled
        BY <2>2 DEF wake, cancelled, owner
    <2> QED
        BY <1>2, <2>1, <2>2 DEF UpdateCounters
<1>3. ASSUME NEW r \in Readers, Reader(r) PROVE CauseInv'
    BY <1>3 DEF Reader, get, get_lock, get_load1, get_load2, get_unlock, owner, updater
<1>4. CASE Count \/ Finished \/ UNCHANGED vars
    BY <1>4 DEF Count, Finished, vars, owner, updater
<1> QED
    BY <1>1, <1>2, <1>3, <1>4 DEF Next

\* Released memory is used, and the process dies of the cancellation, only if
\* the updating thread was not asleep when the destructor cancelled it.
THEOREM TouchCauseAlways == Spec => []TouchCause
<1>1. Init => CauseInv
    BY DEF Init, CauseInv, TouchCause, Constructing
<1>2. CauseInv => TouchCause
    BY DEF CauseInv
<1> QED
    BY <1>1, <1>2, CauseStep, Invariance, PTL DEF Spec
=============================================================================
