--------------------------- MODULE CounterMetrics ---------------------------
(***************************************************************************)
(* The metrics of pcm/cpucounters.h and mem/mypcm.cpp: what they compute   *)
(* from two states of the counters, when the machine goes on while a state *)
(* is being read ("counter dissynchronization" in the comments).           *)
(*                                                                         *)
(* A state of counters is a function from register names to counts.  A     *)
(* double is a fraction <<n, d>>, undefined (NaN, infinity) when d = 0;    *)
(* where the code makes an integer of it, rounding may move the result by  *)
(* one.                                                                    *)
(* The library fills the states in its binary: here a state is read in two *)
(* parts, and the machine may tick between them.  In a tick every online   *)
(* core does one thing of Activities, which stands for what the hardware   *)
(* counts then.  Bounds: MaxTicks ticks, one link per socket, over which   *)
(* one line of 64 bytes and one request go in a tick, one supported deep   *)
(* C-state.                                                                *)
(***************************************************************************)
EXTENDS Integers, FiniteSets, Functions

CONSTANTS
    Cores, Sockets, SocketOf,
    MayDo,              \* bound on what each core does
    Models,             \* of SupportedCPUModels
    NominalFrequency,   \* in ticks per second
    LinkSpeed,          \* of a QPI link, in bytes per second
    LinkFlits,          \* flits a link can send in a tick
    ThreadsPerCore,
    MaxTicks,
    Modulus             \* 2^64: the differences of counts are unsigned

ASSUME TopologyAssumption ==
    /\ IsFiniteSet(Cores) /\ IsFiniteSet(Sockets) /\ Cardinality(Sockets) = 2
    /\ SocketOf \in [Cores -> Sockets]
    /\ \A s \in Sockets : Cardinality({c \in Cores : SocketOf[c] = s /\ "miss" \in MayDo[c]}) <= 1
ASSUME NumbersAssumption ==
    /\ {NominalFrequency, LinkSpeed, ThreadsPerCore, MaxTicks} \subseteq Nat \ {0}
    /\ LinkFlits \in Nat /\ LinkFlits >= 9
    /\ Modulus \in Nat /\ Modulus > 64 * MaxTicks * Cardinality(Cores)

VARIABLES
    cpu_model, mode,    \* the processor and the programmed set of events
    online,             \* the cores that are online
    early,              \* what is read before a tick that disturbs a read
    core, uncore,       \* the registers
    pc,                 \* "idle", "before", "run", "after" or "done"
    before, after,      \* the two states
    did,                \* what each core really did between them
    still,              \* nothing happened while a state was read
    ticks

config == <<cpu_model, mode, online>>
vars == <<config, early, core, uncore, pc, before, after, did, still, ticks>>

-----------------------------------------------------------------------------
(* The hardware. *)

CStates == 2..3         \* 2..MAX_C_STATE, of which 3 has a register
CStateResidency(i) == IF i = 2 THEN "CState2" ELSE "CState3"

CoreRegs == {"InstRetiredAny", "CpuClkUnhaltedThread", "CpuClkUnhaltedRef", "Event0",
             "Event1", "Event2", "Event3", "InvariantTSC", "CState2", "CState3"}
UncoreRegs == {"UncMCFullWrites", "UncMCNormalReads", "UncMCIORequests",
               "PackageEnergyStatus", "DRAMEnergyStatus", "incomingQPIPackets",
               "outgoingQPIIdleFlits", "outgoingQPIDataNonDataFlits", "uncoreTSC",
               "QPIClocks", "QPIL0pTxCycles"}

\* Accesses that are served by the first, second or third cache level, by
\* another core's cache or by the memory of the other socket; waiting in C1 for
\* a device; sleeping in C3.
Accesses == {"l1", "l2", "l3", "l2m", "miss"}
Activities == Accesses \cup {"halt", "sleep"}

\* What the four programmable counters count.
EventSet(i) ==
    CASE mode = "CUSTOM_CORE_EVENTS" -> <<Accesses, {"l1"}, {"l2"}, {"l3"}>>[i + 1]
      [] mode = "DEFAULT_EVENTS" /\ cpu_model = "ATOM" ->
            <<{"l3", "l2m", "miss"}, Accesses \ {"l1"}, {}, {}>>[i + 1]
      [] OTHER -> <<{"miss"}, {"l3"}, {"l2m"}, {"l2"}>>[i + 1]

\* The registers a core advances; a core that hits the second level runs at
\* twice the nominal frequency.
CoreGain(a) == [r \in CoreRegs |->
    CASE r = "InvariantTSC" -> 1
      [] r = "CpuClkUnhaltedThread" -> IF a = "l2" THEN 2 ELSE IF a \in Accesses THEN 1 ELSE 0
      [] r \in {"InstRetiredAny", "CpuClkUnhaltedRef"} -> IF a \in Accesses THEN 1 ELSE 0
      [] r = "CState3" -> IF a = "sleep" THEN 1 ELSE 0
      [] r = "CState2" -> 0
      [] OTHER -> IF \E i \in 0..3 : r = <<"Event0", "Event1", "Event2", "Event3">>[i + 1]
                                     /\ a \in EventSet(i) THEN 1 ELSE 0]

\* The registers a socket advances when act is what the cores do: the cores of
\* the other socket that miss are served from here, with eight flits of data
\* each, and a core that misses here sends a request, one flit without data.
UncoreGain(act, s) ==
    LET Here(a) == Cardinality({c \in DOMAIN act : SocketOf[c] = s /\ act[c] = a})
        served == Cardinality({c \in DOMAIN act : SocketOf[c] # s /\ act[c] = "miss"})
        sent == 8 * served + Here("miss")
    IN  [r \in UncoreRegs |->
            CASE r = "UncMCFullWrites" -> Here("l2m")
              [] r = "UncMCNormalReads" -> served
              [] r = "UncMCIORequests" -> Here("halt")
              [] r = "DRAMEnergyStatus" -> served + Here("l2m")
              [] r = "incomingQPIPackets" -> Here("miss")
              [] r = "outgoingQPIDataNonDataFlits" -> sent
              [] r = "outgoingQPIIdleFlits" -> LinkFlits - sent
              [] r = "uncoreTSC" -> LinkFlits
              [] r = "QPIL0pTxCycles" -> IF served = 0 THEN 1 ELSE 0
              [] OTHER -> 1]

Doable(c) ==
    MayDo[c] \cap (CASE mode = "CUSTOM_CORE_EVENTS" -> Activities \ {"l2m", "sleep"}
                     [] cpu_model = "ATOM" -> {"l2", "miss", "halt", "sleep"}
                     [] OTHER -> Activities \ {"l1"})

Plus(f, g) == [r \in DOMAIN f |-> f[r] + g[r]]

\* What may have been read before the first tick that disturbs a read.
Parts ==
    LET Part(cores, regs, unc) == [cores |-> cores, regs |-> regs, uncore |-> unc]
    IN  {Part(Cores, {}, {}), Part({}, {}, UncoreRegs)}
        \cup {Part({c}, {}, {}) : c \in Cores}
        \cup {Part({}, {r}, {}) :
                r \in {"InvariantTSC", "CpuClkUnhaltedRef", "Event0", "Event1", "CState3"}}
        \cup {Part({}, {}, {r}) :
                r \in {"outgoingQPIIdleFlits", "uncoreTSC", "QPIClocks", "QPIL0pTxCycles"}}

Tick ==
    /\ pc \in {"before", "run", "after"} /\ ticks < MaxTicks
    /\ \E act \in {f \in [online -> Activities] : \A c \in online : f[c] \in Doable(c)} :
        /\ core' = [c \in Cores |->
                      IF c \in online THEN Plus(core[c], CoreGain(act[c])) ELSE core[c]]
        /\ uncore' = [s \in Sockets |-> Plus(uncore[s], UncoreGain(act, s))]
        /\ did' = [c \in Cores |-> [a \in Activities |->
                      did[c][a] + IF c \in online /\ act[c] = a THEN 1 ELSE 0]]
    /\ still' = (still /\ pc = "run")
    /\ early' \in IF still /\ pc # "run" THEN Parts ELSE {early}
    /\ ticks' = ticks + 1
    /\ UNCHANGED <<config, pc, before, after>>

-----------------------------------------------------------------------------
(* Reading the counters. *)

\* SafeMsrHandle::read: a core without a handle reads as 0.
SafeRead(c) == [r \in CoreRegs |-> IF c \in online THEN core[c][r] ELSE 0]

Snapshot == [core |-> [c \in Cores |-> SafeRead(c)], uncore |-> uncore]

\* A read that is disturbed keeps what it had read before; the order in which
\* registers are read is the same in both reads.
Completed(old) ==
    IF still THEN Snapshot
    ELSE [core |-> [c \in Cores |-> [r \in CoreRegs |->
                       IF c \in early.cores \/ r \in early.regs THEN old.core[c][r]
                       ELSE SafeRead(c)[r]]],
          uncore |-> [k \in Sockets |-> [r \in UncoreRegs |->
                       IF r \in early.uncore THEN old.uncore[k][r] ELSE uncore[k][r]]]]

BeginRead ==
    \/ /\ pc = "idle" /\ pc' = "before"
       /\ before' = Snapshot
       /\ UNCHANGED <<config, early, core, uncore, after, did, still, ticks>>
    \/ /\ pc = "run" /\ pc' = "after"
       /\ after' = Snapshot
       /\ UNCHANGED <<config, early, core, uncore, before, did, still, ticks>>

EndRead ==
    \/ /\ pc = "before" /\ pc' = "run"
       /\ before' = Completed(before)
       /\ did' = [c \in Cores |-> [a \in Activities |-> 0]]
       /\ UNCHANGED <<config, early, core, uncore, after, still, ticks>>
    \/ /\ pc = "after" /\ pc' = "done"
       /\ after' = Completed(after)
       /\ UNCHANGED <<config, early, core, uncore, before, did, still, ticks>>

Measured == pc = "done" /\ UNCHANGED vars

Next == Tick \/ BeginRead \/ EndRead \/ Measured

Init ==
    /\ cpu_model \in Models
    /\ mode \in {"DEFAULT_EVENTS", "CUSTOM_CORE_EVENTS"}
    /\ mode = "CUSTOM_CORE_EVENTS" => cpu_model = "HASWELL"
    /\ online \in SUBSET Cores /\ \A s \in Sockets : \E c \in online : SocketOf[c] = s
    /\ core = [c \in Cores |-> [r \in CoreRegs |-> 1]]
    /\ uncore = [s \in Sockets |-> [r \in UncoreRegs |-> 1]]
    /\ pc = "idle"
    /\ early = [cores |-> {}, regs |-> {}, uncore |-> {}]
    /\ before = Snapshot /\ after = Snapshot
    /\ did = [c \in Cores |-> [a \in Activities |-> 0]]
    /\ still = TRUE /\ ticks = 0

Spec == Init /\ [][Next]_vars

-----------------------------------------------------------------------------
(* The counter states that a snapshot s makes. *)

\* operator +=: all registers of the states of a family, added.
Accumulated(regs, states) ==
    [r \in regs |-> SumFunction([x \in DOMAIN states |-> states[x][r]])]

CoreCounterState(s, c) == [basic |-> s.core[c]]

\* accumulateCoreState
SocketCounterState(s, k) ==
    [basic |-> Accumulated(CoreRegs, [c \in {d \in Cores : SocketOf[d] = k} |->
                                        CoreCounterState(s, c).basic]),
     uncore |-> s.uncore[k]]

\* accumulateSocketState; the links and the uncore clock are not accumulated.
SystemCounterState(s) ==
    [basic |-> Accumulated(CoreRegs, [k \in Sockets |-> SocketCounterState(s, k).basic]),
     uncore |-> Accumulated(UncoreRegs, [k \in Sockets |-> SocketCounterState(s, k).uncore]),
     link |-> s.uncore,
     uncoreTSC |-> s.uncore[CHOOSE k \in Sockets : TRUE]["uncoreTSC"]]

-----------------------------------------------------------------------------
(* The metrics, of a state b before and a state a after. *)

None == <<-1, 1>>       \* the -1 a metric returns when it has no answer
Zero == <<0, 1>>
One == <<1, 1>>

Over(n, d) == IF d # 0 THEN <<n, d>> ELSE None

\* The unsigned difference of a register.
Diff(b, a, r) == (a.basic[r] - b.basic[r]) % Modulus
DiffUncore(b, a, r) == (a.uncore[r] - b.uncore[r]) % Modulus

getInstructionsRetired(b, a) == Diff(b, a, "InstRetiredAny")
getCycles(b, a) == Diff(b, a, "CpuClkUnhaltedThread")
getRefCycles(b, a) == Diff(b, a, "CpuClkUnhaltedRef")
getInvariantTSC(b, a) == Diff(b, a, "InvariantTSC")
getNumberOfCustomEvents(i, b, a) ==
    Diff(b, a, <<"Event0", "Event1", "Event2", "Event3">>[i + 1])

getIPC(b, a) == Over(getInstructionsRetired(b, a), getCycles(b, a))
getExecUsage(b, a) == Over(getInstructionsRetired(b, a), getInvariantTSC(b, a))
getAverageFrequency(b, a) ==
    Over(NominalFrequency * getCycles(b, a), getInvariantTSC(b, a))
getActiveAverageFrequency(b, a) ==
    Over(NominalFrequency * getCycles(b, a), getRefCycles(b, a))
getRelativeFrequency(b, a) == Over(getCycles(b, a), getInvariantTSC(b, a))
getActiveRelativeFrequency(b, a) == Over(getCycles(b, a), getRefCycles(b, a))

\* The threads of a core together: only when every core is counted.
PerCore(f) ==
    IF f[1] >= 0 /\ online = Cores THEN <<f[1] * ThreadsPerCore, f[2]>> ELSE None
getCoreIPC(b, a) == PerCore(getIPC(b, a))
getTotalExecUsage(b, a) == PerCore(getExecUsage(b, a))

L3Miss(b, a) == Diff(b, a, "Event0")
L3UnsharedHit(b, a) == Diff(b, a, "Event1")
L2HitM(b, a) == Diff(b, a, "Event2")
L2Hit(b, a) == Diff(b, a, "Event3")
ArchLLCMiss(b, a) == Diff(b, a, "Event0")
ArchLLCRef(b, a) == Diff(b, a, "Event1")
Atom == cpu_model = "ATOM"

getL3CacheMisses(b, a) == IF Atom THEN 0 ELSE L3Miss(b, a)
getL3CacheHitsNoSnoop(b, a) == IF Atom THEN 0 ELSE L3UnsharedHit(b, a)
getL3CacheHitsSnoop(b, a) == IF Atom THEN 0 ELSE L2HitM(b, a)
getL3CacheHits(b, a) == getL3CacheHitsSnoop(b, a) + getL3CacheHitsNoSnoop(b, a)

\* Mutation of getL2CacheMisses: the lines that come from another core's cache
\* are forgotten.
L2MissesUnsnooped(b, a) ==
    IF Atom THEN ArchLLCMiss(b, a) ELSE L3UnsharedHit(b, a) + L3Miss(b, a)

getL2CacheMisses(b, a) ==
    IF Atom THEN ArchLLCMiss(b, a) ELSE L2HitM(b, a) + L3UnsharedHit(b, a) + L3Miss(b, a)
getL2CacheHits(b, a) ==
    IF Atom THEN (ArchLLCRef(b, a) - ArchLLCMiss(b, a)) % Modulus ELSE L2Hit(b, a)

\* A ratio of accesses: 1 when there were none.
HitRatio(hits, all) == IF all # 0 THEN <<hits, all>> ELSE One
getL2CacheHitRatio(b, a) ==
    IF Atom THEN HitRatio(ArchLLCRef(b, a) - ArchLLCMiss(b, a), ArchLLCRef(b, a))
    ELSE HitRatio(L2Hit(b, a), L2Hit(b, a) + getL2CacheMisses(b, a))
getL3CacheHitRatio(b, a) ==
    IF Atom THEN None ELSE HitRatio(getL3CacheHits(b, a), getL2CacheMisses(b, a))
getCyclesLostDueL3CacheMisses(b, a) ==
    IF Atom THEN None ELSE Over(180 * L3Miss(b, a), getCycles(b, a))
getCyclesLostDueL2CacheMisses(b, a) ==
    IF Atom THEN None
    ELSE Over(35 * L3UnsharedHit(b, a) + 74 * L2HitM(b, a), getCycles(b, a))

\* mypcm.cpp: the custom events are loads and the hits of three levels.
getL1CacheHit(b, a) == <<getNumberOfCustomEvents(1, b, a), getNumberOfCustomEvents(0, b, a)>>
getL2CacheHit(b, a) == <<getNumberOfCustomEvents(2, b, a), getNumberOfCustomEvents(0, b, a)>>
getL3CacheHit(b, a) == <<getNumberOfCustomEvents(3, b, a), getNumberOfCustomEvents(0, b, a)>>

\* What is left of the time when C0 and the deeper states are taken from it.
Leftover(b, a) ==
    getInvariantTSC(b, a) - getRefCycles(b, a)
        - SumFunction([i \in CStates |-> Diff(b, a, CStateResidency(i))])

\* Mutation of getCoreCStateResidency: C1 is not kept within 0..1.
ResidencyUnclamped(state, b, a) ==
    LET tsc == getInvariantTSC(b, a)
    IN  CASE state = 0 -> <<getRefCycles(b, a), tsc>>
          [] state = 1 -> <<Leftover(b, a), tsc>>
          [] OTHER -> <<Diff(b, a, CStateResidency(state)), tsc>>

getCoreCStateResidency(state, b, a) ==
    LET tsc == getInvariantTSC(b, a)
    IN  CASE state = 0 -> <<getRefCycles(b, a), tsc>>
          [] state = 1 -> IF tsc # 0 /\ Leftover(b, a) < 0 THEN Zero
                          ELSE IF tsc # 0 /\ Leftover(b, a) > tsc THEN One
                          ELSE <<Leftover(b, a), tsc>>
          [] OTHER -> <<Diff(b, a, CStateResidency(state)), tsc>>

getBytesReadFromMC(b, a) == DiffUncore(b, a, "UncMCNormalReads") * 64
getBytesWrittenToMC(b, a) == DiffUncore(b, a, "UncMCFullWrites") * 64
getIORequestBytesFromMC(b, a) == DiffUncore(b, a, "UncMCIORequests") * 64
getConsumedEnergy(b, a) == DiffUncore(b, a, "PackageEnergyStatus")
getDRAMConsumedEnergy(b, a) == DiffUncore(b, a, "DRAMEnergyStatus")

-----------------------------------------------------------------------------
(* The links between the sockets. *)

hasBecktonUncore == cpu_model \in {"NEHALEM_EX", "WESTMERE_EX"}
hasPCICFGUncore == cpu_model \in {"JAKETOWN", "IVYTOWN", "HASWELLX"}
outgoingQPITrafficMetricsAvailable == hasBecktonUncore \/ hasPCICFGUncore

\* The sockets with links.  Bound: one link, where getQPILinksPerSocket says one
\* or more; on some models the outgoing traffic of the links is not counted.
Linked ==
    IF outgoingQPITrafficMetricsAvailable
       \/ cpu_model \in {"NEHALEM_EP", "WESTMERE_EP", "CLARKDALE"}
    THEN Sockets ELSE {}

\* A difference that is kept from wrapping: "prevent overflows due to counter
\* dissynchronisation".
Forward(x, y) == IF y > x THEN y - x ELSE 0
LinkDiff(k, b, a, r) == Forward(b.link[k][r], a.link[k][r])

getQPIClocks(k, b, a) == (a.link[k]["QPIClocks"] - b.link[k]["QPIClocks"]) % Modulus
getQPIL0pTxCycles(k, b, a) ==
    (a.link[k]["QPIL0pTxCycles"] - b.link[k]["QPIL0pTxCycles"]) % Modulus
getNormalizedQPIL0pTxCycles(k, b, a) == <<getQPIL0pTxCycles(k, b, a), getQPIClocks(k, b, a)>>

\* The bytes a link can carry: the time is the sum over all cores, divided by
\* the number of cores, the ones offline included.
MaxBytes(b, a) ==
    <<LinkSpeed * getInvariantTSC(b, a), Cardinality(Cores) * NominalFrequency>>

getIncomingQPILinkBytes(k, b, a) == 64 * LinkDiff(k, b, a, "incomingQPIPackets")

getIncomingQPILinkUtilization(k, b, a) ==
    IF ~outgoingQPITrafficMetricsAvailable THEN Zero
    ELSE <<getIncomingQPILinkBytes(k, b, a) * MaxBytes(b, a)[2], MaxBytes(b, a)[1]>>

\* Mutation of getOutgoingQPILinkUtilization: flits of four bytes.
OutgoingShortFlits(k, b, a) ==
    <<LinkDiff(k, b, a, "outgoingQPIDataNonDataFlits") * 4 * MaxBytes(b, a)[2],
      MaxBytes(b, a)[1]>>

\* A flit is eight bytes.
getOutgoingQPILinkUtilization(k, b, a) ==
    LET idle == LinkDiff(k, b, a, "outgoingQPIIdleFlits")
        tsc == Forward(b.uncoreTSC, a.uncoreTSC)
        flits == LinkDiff(k, b, a, "outgoingQPIDataNonDataFlits") * 8 * MaxBytes(b, a)[2]
    IN  CASE hasBecktonUncore -> IF idle > tsc THEN Zero ELSE <<tsc - idle, tsc>>
          [] hasPCICFGUncore ->
                IF flits > MaxBytes(b, a)[1] THEN One ELSE <<flits, MaxBytes(b, a)[1]>>
          [] OTHER -> Zero

\* The conversion to an integer drops the fraction, of a double that is less than
\* one byte off: the result is off by e, one or none.
Roundings == {-1, 0, 1}
Truncated(n, d, e) == IF n = 0 \/ (n \div d) + e < 0 THEN 0 ELSE (n \div d) + e

getOutgoingQPILinkBytes(k, b, a, e) ==
    LET util == getOutgoingQPILinkUtilization(k, b, a)
        max == MaxBytes(b, a)
    IN  IF outgoingQPITrafficMetricsAvailable
        THEN Truncated(max[1] * util[1], max[2] * util[2], e) ELSE 0

getAllIncomingQPILinkBytes(b, a) ==
    SumFunction([k \in Linked |-> getIncomingQPILinkBytes(k, b, a)])
getAllOutgoingQPILinkBytes(b, a, e) ==
    SumFunction([k \in Linked |-> getOutgoingQPILinkBytes(k, b, a, e[k])])
getQPItoMCTrafficRatio(b, a) ==
    <<getAllIncomingQPILinkBytes(b, a), getBytesReadFromMC(b, a) + getBytesWrittenToMC(b, a)>>

-----------------------------------------------------------------------------
(* Properties *)

Defined(f) == f[2] # 0
InUnit(f) == Defined(f) => 0 <= f[1] /\ f[1] <= f[2]
Equal(f, n, d) == f[1] * d = n * f[2]

\* How often the cores of C did one of the activities A.
Did(C, A) == SumFunction([c \in C |-> SumFunctionOnSet(did[c], A)])

ExactCore(C, b, a) ==
    LET time == Did(C, Activities)
        work == Did(C, Accesses)
        cycles == work + Did(C, {"l2"})
        N(A) == Did(C, A)
    IN  /\ getInstructionsRetired(b, a) = work
        /\ getCycles(b, a) = cycles
        /\ getInvariantTSC(b, a) = time
        /\ cycles > 0 =>
            /\ Equal(getIPC(b, a), work, cycles)
            /\ Equal(getActiveAverageFrequency(b, a), NominalFrequency * cycles, work)
            /\ Equal(getActiveRelativeFrequency(b, a), cycles, work)
        /\ time > 0 =>
            /\ Equal(getExecUsage(b, a), work, time)
            /\ Equal(getAverageFrequency(b, a), NominalFrequency * cycles, time)
            /\ Equal(getRelativeFrequency(b, a), cycles, time)
            /\ Equal(getCoreCStateResidency(0, b, a), work, time)
            /\ Equal(getCoreCStateResidency(1, b, a), N({"halt"}), time)
            /\ Equal(getCoreCStateResidency(2, b, a), 0, time)
            /\ Equal(getCoreCStateResidency(3, b, a), N({"sleep"}), time)
        /\ mode = "DEFAULT_EVENTS" =>
            /\ getL2CacheHits(b, a) = N({"l2"})
            /\ getL2CacheMisses(b, a) = N({"l3", "l2m", "miss"})
            /\ work > 0 => Equal(getL2CacheHitRatio(b, a), N({"l2"}), work)
            /\ ~Atom => /\ getL3CacheHits(b, a) = N({"l3", "l2m"})
                        /\ getL3CacheMisses(b, a) = N({"miss"})
                        /\ N({"l3", "l2m", "miss"}) > 0 =>
                            Equal(getL3CacheHitRatio(b, a), N({"l3", "l2m"}),
                                  N({"l3", "l2m", "miss"}))
                        /\ cycles > 0 =>
                            /\ Equal(getCyclesLostDueL3CacheMisses(b, a), 180 * N({"miss"}), cycles)
                            /\ Equal(getCyclesLostDueL2CacheMisses(b, a),
                                     35 * N({"l3"}) + 74 * N({"l2m"}), cycles)
        /\ mode = "CUSTOM_CORE_EVENTS" /\ work > 0 =>
            /\ Equal(getL1CacheHit(b, a), N({"l1"}), work)
            /\ Equal(getL2CacheHit(b, a), N({"l2"}), work)
            /\ Equal(getL3CacheHit(b, a), N({"l3"}), work)

\* When nothing happens while the counters are read, the metrics of a core, of a
\* socket and of the system say what the cores that are online really did between
\* the two reads: their counts, ratios, frequencies and residencies, and the bytes
\* that went to and from the memory controllers.
MetricsExact ==
    pc = "done" /\ still =>
        LET b == SystemCounterState(before)
            a == SystemCounterState(after)
            work == Did(Cores, Accesses)
        IN  /\ \A c \in Cores :
                ExactCore({c}, CoreCounterState(before, c), CoreCounterState(after, c))
            /\ \A k \in Sockets :
                ExactCore({c \in Cores : SocketOf[c] = k},
                          SocketCounterState(before, k), SocketCounterState(after, k))
            /\ ExactCore(Cores, b, a)
            /\ online # Cores => getCoreIPC(b, a) = None /\ getTotalExecUsage(b, a) = None
            /\ online = Cores /\ work > 0 =>
                /\ Equal(getCoreIPC(b, a), ThreadsPerCore * work, work + Did(Cores, {"l2"}))
                /\ Equal(getTotalExecUsage(b, a), ThreadsPerCore * work, Did(Cores, Activities))
            /\ getBytesReadFromMC(b, a) = 64 * Did(Cores, {"miss"})
            /\ getBytesWrittenToMC(b, a) = 64 * Did(Cores, {"l2m"})
            /\ getIORequestBytesFromMC(b, a) = 64 * Did(Cores, {"halt"})
            /\ getDRAMConsumedEnergy(b, a) = Did(Cores, {"miss", "l2m"})
            /\ getConsumedEnergy(b, a) * Cardinality(online)
                = Did(Cores, Activities) * Cardinality(Sockets)

\* However the reads are disturbed, the metrics that are documented as 0..1 and
\* kept there by the code stay there.  The others leave 0..1 only if something
\* happens between the reading of a count and of the whole it is a part of: the
\* residency in C0 or in a deep C-state of the time, the cycles in L0p of the
\* cycles of the link, the misses of an Atom of its references (it then reports a
\* huge number of hits).  That whole cores are read at different moments does
\* no harm.
RatiosInRange ==
    pc = "done" =>
        LET b == SystemCounterState(before)
            a == SystemCounterState(after)
        IN  /\ InUnit(getCoreCStateResidency(1, b, a))
            /\ ~Atom => InUnit(getL2CacheHitRatio(b, a)) /\ InUnit(getL3CacheHitRatio(b, a))
            /\ Atom /\ (still \/ early.regs \notin {{"Event0"}, {"Event1"}}) =>
                /\ InUnit(getL2CacheHitRatio(b, a))
                /\ getL2CacheHits(b, a) <= getInstructionsRetired(b, a)
            /\ \A k \in Linked : InUnit(getOutgoingQPILinkUtilization(k, b, a))
            /\ still \/ early.regs \cap {"InvariantTSC", "CpuClkUnhaltedRef"} = {} =>
                InUnit(getCoreCStateResidency(0, b, a))
            /\ still \/ early.regs \cap {"InvariantTSC", "CState3"} = {} =>
                InUnit(getCoreCStateResidency(3, b, a))
            /\ still \/ early.uncore \notin {{"QPIClocks"}, {"QPIL0pTxCycles"}} =>
                \A k \in Sockets : InUnit(getNormalizedQPIL0pTxCycles(k, b, a))

\* q is n / d without its fraction, or one more, or one less.
Near(q, n, d) == (q - 1) * d <= n /\ n < (q + 2) * d

\* What arrives over the links is what the misses read from the memory of the
\* other socket.  The outgoing bytes of a link, data and requests, go through a
\* utilization: the Beckton uncore measures it in its own clock and so reports
\* the bytes sent, scaled by the speed of the link and by the share of the cores
\* that are online; the PCICFG uncore reports the bytes sent or what the link can
\* carry in the time, whichever is less; other models report none.  With all
\* cores online and a link as fast as its flits, what leaves is what arrives and
\* a request of eight bytes for each line, up to one byte per link.
LinksBalance ==
    pc = "done" /\ still /\ Did(Cores, Activities) > 0 =>
        LET b == SystemCounterState(before)
            a == SystemCounterState(after)
            misses == Did(Cores, {"miss"})
            arrived == getAllIncomingQPILinkBytes(b, a)
            allCores == Cardinality(Cores) * NominalFrequency
            capacity == LinkSpeed * Did(Cores, Activities)
        IN  /\ Linked # {} => arrived = 64 * misses
            /\ \A k \in Linked, e \in Roundings :
                LET here == {c \in Cores : SocketOf[c] = k}
                    sent == 64 * Did(Cores \ here, {"miss"}) + 8 * Did(here, {"miss"})
                    bytes == getOutgoingQPILinkBytes(k, b, a, e)
                IN  /\ hasBecktonUncore =>
                        Near(bytes, LinkSpeed * Cardinality(online) * sent,
                             8 * LinkFlits * allCores)
                    /\ hasPCICFGUncore =>
                        IF sent * allCores > capacity THEN Near(bytes, capacity, allCores)
                        ELSE Near(bytes, sent, 1)
                    /\ ~outgoingQPITrafficMetricsAvailable => bytes = 0
            /\ online = Cores /\ LinkSpeed = 8 * LinkFlits * NominalFrequency
               /\ outgoingQPITrafficMetricsAvailable =>
                \A e \in [Linked -> Roundings] :
                    getAllOutgoingQPILinkBytes(b, a, e) - (arrived + 8 * misses) \in -2..2
            /\ Linked # {} /\ Did(Cores, {"miss", "l2m"}) > 0 =>
                InUnit(getQPItoMCTrafficRatio(b, a))

\* "Get data utilization of incoming QPI link (0..1)", of reads that nothing
\* disturbs and links that carry no more than they can.
IncomingUtilizationInUnit ==
    pc = "done" /\ still =>
        \A k \in Linked : InUnit(getIncomingQPILinkUtilization(k, SystemCounterState(before),
                                                                SystemCounterState(after)))
=============================================================================
