------------------------------ MODULE MemBench ------------------------------
(***************************************************************************)
(* mem/permutate.cpp, mem/numatest.cpp and mem/smptest.cpp: pointer        *)
(* chasing through an array that is rewritten for each cache level.  A     *)
(* builder (l1h, l1ml2h, l2ml3h, l3m) overwrites part of what the level    *)
(* before it left, a warm-up and then the measured loop follow the cells   *)
(* from cell 0.  The CAS variant increments and decrements every cell it   *)
(* follows.  Time and the hardware counters are left out.                  *)
(***************************************************************************)
EXTENDS Integers, Sequences, FiniteSets

CONSTANTS
    LineCells,     \* cells of a cache line: CacheLineSize / sizeof(uint32_t)
    CacheCells,    \* cells of L1, L2, L3: L1CacheSize / sizeof(uint32_t), ...
    Size,          \* cells of the array
    WarmUpRound,   \* WARMUPROUND
    Iters,         \* the values of ITERCASE (-c)
    L4Factor,      \* 32: how many times L3 the last level spans
    M              \* 2^32

ASSUME LinesAssumption ==
    /\ LineCells \in Nat \ {0}
    /\ CacheCells \in [1..3 -> Nat \ {0}]
    /\ \A n \in 1..3 : CacheCells[n] % LineCells = 0
ASSUME SizeAssumption == Size \in Nat /\ M \in Nat /\ Size < M /\ Iters \subseteq Nat
ASSUME FactorAssumption == L4Factor \in Nat \ {0}

Levels == 1..4
Cells == 0..(Size - 1)

\* The content of memory that was never written.
Junk == Size

VARIABLES
    prog,     \* the program: numatest or smptest
    fn,       \* the function it runs, or main, exit, crashed
    ip,       \* the step of that function
    pcm,      \* the performance counters: off, programmed or failed
    ptr,      \* the array is allocated
    array,    \* its cells
    level,    \* the level whose builder ran last
    stage,    \* within a level: build, warm, measure
    op,       \* within a turn of the measured loop: inc, dec or load
    i, j,     \* the loop variables
    seen,     \* cells loaded by the warm-up
    iter      \* ITERCASE

vars == <<prog, fn, ip, pcm, ptr, array, level, stage, op, i, j, seen, iter>>

-----------------------------------------------------------------------------
(* The functions as the list of their steps.                                *)

Builders == <<"l1h", "l1ml2h", "l2ml3h", "l3m">>

OnNode == <<"alloc">> \o Builders \o <<"free">>

memthread == <<"program", "setAffinity">> \o OnNode \o OnNode
casthread == <<"program", "setAffinity">> \o OnNode \o OnNode
smpmemthread == <<"program", "setAffinity">> \o OnNode
cassmpthread == <<"setAffinity">> \o OnNode

Code(f) ==
    CASE f = "memthread"    -> memthread
      [] f = "casthread"    -> casthread
      [] f = "smpmemthread" -> smpmemthread
      [] f = "cassmpthread" -> cassmpthread
      [] OTHER              -> <<>>

\* What main calls after f.
After(f) ==
    CASE f = "memthread"    -> "casthread"
      [] f = "smpmemthread" -> "cassmpthread"
      [] OTHER              -> "exit"

\* f is at its step s.
At(s) == ip <= Len(Code(fn)) /\ Code(fn)[ip] = s

FirstOp == IF fn \in {"casthread", "cassmpthread"} THEN "inc" ELSE "load"

-----------------------------------------------------------------------------
(* permutate.cpp                                                            *)

\* Mutation of Range: the last range counts bytes in place of cells.
RangeBytes(n) == IF n = 4 THEN 4 * CacheCells[3] * L4Factor ELSE CacheCells[n]

\* The `range` of each builder.
Range(n) == IF n = 4 THEN CacheCells[3] * L4Factor ELSE CacheCells[n]

\* Mutations of Stride: lines in place of cells; every third line.
StrideCells == 5
StrideThree == LineCells * 3

\* How far a builder points, in cells.
Stride == LineCells * 5

\* l1h chains every cell of L1 to the next one.
l1h(a) == [c \in Cells |-> IF c < Range(1) THEN (c + 1) % Range(1) ELSE a[c]]

\* The other builders chain the first cells of the lines.
Chain(a, n) ==
    [c \in Cells |-> IF c < Range(n) /\ c % LineCells = 0
                     THEN (c + Stride) % Range(n)
                     ELSE a[c]]

l1ml2h(a) == Chain(a, 2)
l2ml3h(a) == Chain(a, 3)
l3m(a) == Chain(a, 4)

\* The turns of the warm-ups; the first three do nothing if the array is too
\* small, the last one takes as many turns as the array has cells.
Turns(n) == IF Range(n) > Size THEN 0 ELSE Range(n) * WarmUpRound

warmUpL1 == Turns(1)
warmUpL2 == Turns(2)
warmUpL3 == Turns(3)
warmUpL4 == Size

WarmUpTurns(n) == <<warmUpL1, warmUpL2, warmUpL3, warmUpL4>>[n]

-----------------------------------------------------------------------------
Init ==
    /\ prog \in {"numatest", "smptest"}
    /\ iter \in Iters
    /\ fn = "main" /\ ip = 1 /\ pcm = "off" /\ ptr = FALSE
    /\ array = [c \in Cells |-> Junk]
    /\ level = 1 /\ stage = "build" /\ op = "load"
    /\ i = 0 /\ j = 0 /\ seen = {}

\* numa_available() fails, or main calls its first function.
main ==
    /\ fn = "main"
    /\ \/ fn' = "exit"
       \/ fn' = IF prog = "numatest" THEN "memthread" ELSE "smpmemthread"
    /\ UNCHANGED <<prog, ip, pcm, ptr, array, level, stage, op, i, j, seen, iter>>

\* PCM::program (numatest) or initpcm (smptest); a failure is only reported.
program ==
    /\ At("program")
    /\ pcm' \in {"programmed", "failed"}
    /\ ip' = ip + 1
    /\ UNCHANGED <<prog, fn, ptr, array, level, stage, op, i, j, seen, iter>>

\* A failure ends the function.
setAffinity ==
    /\ At("setAffinity")
    /\ \E ok \in BOOLEAN : ip' = IF ok THEN ip + 1 ELSE Len(Code(fn)) + 1
    /\ UNCHANGED <<prog, fn, pcm, ptr, array, level, stage, op, i, j, seen, iter>>

\* numa_alloc_onnode or malloc; the result is not tested.
alloc ==
    /\ At("alloc")
    /\ ptr' \in BOOLEAN
    /\ array' = [c \in Cells |-> Junk]
    /\ ip' = ip + 1
    /\ UNCHANGED <<prog, fn, pcm, level, stage, op, i, j, seen, iter>>

\* The builder of level n: assert(range < size), a store through the pointer.
build(n) ==
    /\ At(Builders[n]) /\ stage = "build"
    /\ ptr /\ Range(n) < Size
    /\ array' = CASE n = 1 -> l1h(array)
                  [] n = 2 -> l1ml2h(array)
                  [] n = 3 -> l2ml3h(array)
                  [] n = 4 -> l3m(array)
    /\ level' = n /\ stage' = "warm" /\ i' = 0 /\ j' = 0 /\ seen' = {}
    /\ UNCHANGED <<prog, fn, ip, pcm, ptr, op, iter>>

\* The assertion fires, or the store hits NULL.
build_crash(n) ==
    /\ At(Builders[n]) /\ stage = "build"
    /\ ~ptr \/ Range(n) >= Size
    /\ fn' = "crashed"
    /\ UNCHANGED <<prog, ip, pcm, ptr, array, level, stage, op, i, j, seen, iter>>

\* One turn of a warm-up.
warmUp ==
    /\ stage = "warm" /\ i < WarmUpTurns(level)
    /\ j' = array[j] /\ seen' = seen \cup {j} /\ i' = i + 1
    /\ UNCHANGED <<prog, fn, ip, pcm, ptr, array, level, stage, op, iter>>

\* The warm-up ends; the measured loop starts again from cell 0.
warmUp_end ==
    /\ stage = "warm" /\ i >= WarmUpTurns(level)
    /\ stage' = "measure" /\ op' = FirstOp /\ i' = 0 /\ j' = 0
    /\ UNCHANGED <<prog, fn, ip, pcm, ptr, array, level, seen, iter>>

\* atomic_inc(&ptr[j])
measure_inc ==
    /\ stage = "measure" /\ i < iter /\ op = "inc"
    /\ array' = [array EXCEPT ![j] = (array[j] + 1) % M]
    /\ op' = "dec"
    /\ UNCHANGED <<prog, fn, ip, pcm, ptr, level, stage, i, j, seen, iter>>

\* --ptr[j]
measure_dec ==
    /\ stage = "measure" /\ op = "dec"
    /\ array' = [array EXCEPT ![j] = (array[j] - 1) % M]
    /\ op' = "load"
    /\ UNCHANGED <<prog, fn, ip, pcm, ptr, level, stage, i, j, seen, iter>>

\* j = ptr[j]
measure_load ==
    /\ stage = "measure" /\ i < iter /\ op = "load"
    /\ j' = array[j] /\ i' = i + 1 /\ op' = FirstOp
    /\ UNCHANGED <<prog, fn, ip, pcm, ptr, array, level, stage, seen, iter>>

\* VOLT_INFO(..., (end - begin) / iter, j): a division by zero when iter is 0.
report ==
    /\ stage = "measure" /\ i = iter /\ op = FirstOp
    /\ IF iter = 0 THEN fn' = "crashed" /\ UNCHANGED ip
       ELSE ip' = ip + 1 /\ UNCHANGED fn
    /\ stage' = "build" /\ op' = "load" /\ i' = 0 /\ j' = 0 /\ seen' = {}
    /\ UNCHANGED <<prog, pcm, ptr, array, level, iter>>

\* numa_free or free.
free ==
    /\ At("free")
    /\ ptr' = FALSE /\ ip' = ip + 1
    /\ UNCHANGED <<prog, fn, pcm, array, level, stage, op, i, j, seen, iter>>

\* The function returns to main, which calls the next one.
return ==
    /\ fn \notin {"main", "exit", "crashed"}
    /\ ip > Len(Code(fn))
    /\ fn' = After(fn) /\ ip' = 1
    /\ UNCHANGED <<prog, pcm, ptr, array, level, stage, op, i, j, seen, iter>>

Finished == fn \in {"exit", "crashed"} /\ UNCHANGED vars

Next ==
    \/ main \/ program \/ setAffinity \/ alloc
    \/ \E n \in Levels : build(n) \/ build_crash(n)
    \/ warmUp \/ warmUp_end
    \/ measure_inc \/ measure_dec \/ measure_load
    \/ report \/ free \/ return
    \/ Finished

Spec == Init /\ [][Next]_vars

-----------------------------------------------------------------------------
(* Properties                                                               *)

\* The cells the builder of level n writes.
Pattern(n) == {c \in Cells : c < Range(n) /\ (n = 1 \/ c % LineCells = 0)}

\* The walk stays on the pattern of its own level: it never follows a cell that
\* an earlier level or nobody has written, nor leaves the range, and the CAS
\* variant leaves every cell as it found it.
WalkOnPattern ==
    stage \in {"warm", "measure"} =>
        /\ j \in Pattern(level)
        /\ op = FirstOp \/ stage = "warm" => array[j] \in Pattern(level)

\* When the measurement starts, the warm-up has loaded every line of the
\* level's range: the chain is one cycle through all of them.
WarmUpTouchesAll ==
    stage = "measure" => Pattern(level) \subseteq seen

\* What the comment on the store of l1ml2h says of its walk: it goes through L2 at
\* twice the step and really visits half of it.
HalfOfL2 ==
    stage = "measure" /\ level = 2 => 2 * Cardinality(seen) <= Cardinality(Pattern(2))

\* The program dies only of -c 0 or of a failed allocation: never of the
\* builders' assertion.
CrashCause == fn = "crashed" => iter = 0 \/ ~ptr
=============================================================================
