--------------------------- MODULE MemBenchProofs ---------------------------
(***************************************************************************)
(* WalkOnPattern, CrashCause and WarmUpTouchesAll of MemBench for every    *)
(* size of the caches, of a line and of the array.                         *)
(*                                                                         *)
(* PlaceInv says that a walk runs at the builder that prepared it, so that *)
(* the array is neither freed nor rebuilt under it.  PatternInv says that  *)
(* the cells of the level's pattern point into the pattern, save the one   *)
(* cell the CAS variant has incremented and not yet decremented.  That a   *)
(* builder's cells point to the first cells of lines is arithmetic: the    *)
(* remainder of a multiple of the line by a multiple of the line is one.   *)
(* ChainInv adds where the warm-up is after each turn.  That it comes to   *)
(* every line needs no induction: FiveReaches computes the turn.           *)
(***************************************************************************)
EXTENDS MemBench, TLAPS

\* The state is well typed.
TypeOK ==
    /\ ip \in Nat \ {0}
    /\ level \in Levels
    /\ stage \in {"build", "warm", "measure"}
    /\ op \in {"inc", "dec", "load"}
    /\ array \in [Cells -> Int]

PlaceInv ==
    /\ stage # "build" => At(Builders[level])
    /\ stage # "measure" => op = "load"

PatternInv ==
    stage # "build" =>
        /\ j \in Pattern(level)
        /\ \A c \in Pattern(level) :
            IF op = "dec" /\ c = j THEN array[c] - 1 \in Pattern(level)
            ELSE array[c] \in Pattern(level)

\* A multiple of L leaves no remainder.
LEMMA MultipleMod ==
    ASSUME NEW L \in Nat, L > 0, NEW m \in Int
    PROVE (L * m) % L = 0
<1> DEFINE t == L * m
<1> DEFINE d == t \div L
<1> DEFINE r == t % L
<1>1. t \in Int
    OBVIOUS
<1>2. d \in Int /\ r \in 0..(L - 1) /\ t = L * d + r
    <2> HIDE DEF t
    <2>1. d \in Int
        BY <1>1
    <2>2. r \in 0..(L - 1)
        BY <1>1
    <2>3. t = L * d + r
        BY <1>1
    <2> QED
        BY <2>1, <2>2, <2>3
<1> DEFINE k == m - d
<1>3. k \in Int /\ r = L * k
    <2>1. t = L * m
        OBVIOUS
    <2> HIDE DEF t, d, r
    <2>2. L * (m - d) = L * m - L * d
        BY <1>2
    <2>3. L * m \in Int /\ L * d \in Int
        BY <1>2
    <2> QED
        BY <1>2, <2>1, <2>2, <2>3
<1> HIDE DEF t, d, r, k
<1>4. ~(k >= 1)
    <2> SUFFICES ASSUME k >= 1 PROVE FALSE
        OBVIOUS
    <2>1. L * k >= L
        BY <1>3
    <2> QED
        BY <1>2, <1>3, <2>1
<1>5. ~(k <= -1)
    <2> SUFFICES ASSUME k <= -1 PROVE FALSE
        OBVIOUS
    <2>1. L * k <= -L
        BY <1>3
    <2> QED
        BY <1>2, <1>3, <2>1
<1>6. k = 0
    BY <1>3, <1>4, <1>5
<1>7. r = 0
    BY <1>3, <1>6
<1> QED
    BY <1>7 DEF r, t

\* What leaves no remainder is a multiple.
LEMMA MultipleOf ==
    ASSUME NEW L \in Nat, L > 0, NEW x \in Nat, x % L = 0
    PROVE \E a \in Int : x = L * a
<1>1. x \div L \in Int
    OBVIOUS
<1>2. x = L * (x \div L) + (x % L)
    OBVIOUS
<1>3. L * (x \div L) \in Int
    BY <1>1
<1>4. x = L * (x \div L)
    BY <1>2, <1>3
<1> QED
    BY <1>1, <1>4

\* The remainder of a multiple of L by a multiple of L is a multiple of L.
LEMMA RemainderOnLine ==
    ASSUME NEW L \in Nat, L > 0, NEW x \in Nat, x % L = 0,
           NEW R \in Nat, R > 0, R % L = 0
    PROVE x % R \in 0..(R - 1) /\ (x % R) % L = 0
<1> DEFINE q == x \div R
<1> DEFINE r == x % R
<1>1. q \in Int
    OBVIOUS
<1>2. r \in 0..(R - 1)
    OBVIOUS
<1>3. x = R * q + r
    OBVIOUS
<1>4. PICK a \in Int : x = L * a
    BY MultipleOf
<1>5. PICK b \in Int : R = L * b
    BY MultipleOf
<1> HIDE DEF q, r
<1>6. r = L * (a - b * q)
    <2>1. r = L * a - (L * b) * q
        BY <1>1, <1>2, <1>3, <1>4, <1>5
    <2>2. (L * b) * q = L * (b * q) /\ b * q \in Int
        BY <1>1
    <2>3. L * (a - b * q) = L * a - L * (b * q)
        BY <2>2
    <2> QED
        BY <2>1, <2>2, <2>3
<1>7. a - b * q \in Int
    BY <1>1
<1>8. (L * (a - b * q)) % L = 0
    BY <1>7, MultipleMod
<1>9. r % L = 0
    BY <1>6, <1>8
<1> QED
    BY <1>2, <1>9 DEF r

\* The range of every builder is a positive number of lines.
LEMMA RangeOnLines ==
    ASSUME NEW n \in Levels
    PROVE Range(n) \in Nat /\ Range(n) > 0 /\ Range(n) % LineCells = 0
<1>0. LineCells \in Nat /\ LineCells > 0 /\ L4Factor \in Nat /\ L4Factor > 0
    BY LinesAssumption, FactorAssumption
<1>1. CASE n # 4
    <2>1. n \in 1..3 /\ Range(n) = CacheCells[n]
        BY <1>1 DEF Levels, Range
    <2> QED
        BY <2>1, LinesAssumption
<1>2. CASE n = 4
    <2> DEFINE L3 == CacheCells[3]
    <2>1. L3 \in Nat /\ L3 > 0 /\ L3 % LineCells = 0
        BY LinesAssumption
    <2>2. Range(n) = L3 * L4Factor
        BY <1>2 DEF Range
    <2> HIDE DEF L3
    <2>3. PICK b \in Int : L3 = LineCells * b
        BY <1>0, <2>1, MultipleOf
    <2>4. L3 * L4Factor \in Nat /\ L3 * L4Factor > 0
        BY <1>0, <2>1
    <2>5. b * L4Factor \in Int /\ L3 * L4Factor = LineCells * (b * L4Factor)
        BY <1>0, <2>3
    <2>6. (LineCells * (b * L4Factor)) % LineCells = 0
        BY <1>0, <2>5, MultipleMod
    <2> QED
        BY <2>2, <2>4, <2>5, <2>6
<1> QED
    BY <1>1, <1>2

\* A line's first cell, one stride further, is the first cell of a line.
LEMMA StrideOnLine ==
    ASSUME NEW c \in Nat, c % LineCells = 0
    PROVE c + Stride \in Nat /\ (c + Stride) % LineCells = 0
<1>0. LineCells \in Nat /\ LineCells > 0
    BY LinesAssumption
<1>1. PICK a \in Int : c = LineCells * a
    BY <1>0, MultipleOf
<1>2. c + Stride = LineCells * (a + 5) /\ a + 5 \in Int
    BY <1>0, <1>1 DEF Stride
<1>3. (LineCells * (a + 5)) % LineCells = 0
    BY <1>0, <1>2, MultipleMod
<1>4. c + Stride \in Nat
    BY <1>0 DEF Stride
<1> QED
    BY <1>2, <1>3, <1>4

\* What the builder of level n writes into its cells are cells of its pattern.
LEMMA Targets ==
    ASSUME NEW n \in Levels, Range(n) < Size, NEW c \in Pattern(n)
    PROVE IF n = 1 THEN (c + 1) % Range(1) \in Pattern(1)
          ELSE (c + Stride) % Range(n) \in Pattern(n)
<1>0. /\ LineCells \in Nat /\ LineCells > 0 /\ Size \in Nat
      /\ Range(n) \in Nat /\ Range(n) > 0 /\ Range(n) % LineCells = 0
    BY LinesAssumption, SizeAssumption, RangeOnLines
<1>1. c \in Cells /\ c \in Nat /\ (n = 1 \/ c % LineCells = 0)
    BY <1>0 DEF Pattern, Cells
<1>2. \A x \in 0..(Range(n) - 1) : x \in Cells /\ x < Range(n)
    BY <1>0 DEF Cells
<1>3. CASE n = 1
    <2>1. (c + 1) % Range(n) \in 0..(Range(n) - 1)
        BY <1>0, <1>1
    <2> QED
        BY <1>2, <1>3, <2>1 DEF Pattern
<1>4. CASE n # 1
    <2> DEFINE x == c + Stride
    <2>1. x \in Nat /\ x % LineCells = 0
        BY <1>1, <1>4, StrideOnLine
    <2> HIDE DEF x
    <2>2. x % Range(n) \in 0..(Range(n) - 1) /\ (x % Range(n)) % LineCells = 0
        BY <1>0, <2>1, RemainderOnLine
    <2>3. x % Range(n) \in Pattern(n)
        BY <1>2, <2>2 DEF Pattern
    <2> QED
        BY <1>4, <2>3 DEF x
<1> QED
    BY <1>3, <1>4

\* The walk can start: cell 0 is on every pattern.
LEMMA StartOnPattern ==
    ASSUME NEW n \in Levels, Range(n) < Size
    PROVE 0 \in Pattern(n)
<1>0. /\ LineCells \in Nat /\ LineCells > 0 /\ Size \in Nat
      /\ Range(n) \in Nat /\ Range(n) > 0
    BY LinesAssumption, SizeAssumption, RangeOnLines
<1>1. 0 \in Cells
    BY <1>0 DEF Cells
<1>2. 0 % LineCells = 0
    BY <1>0
<1> QED
    BY <1>0, <1>1, <1>2 DEF Pattern

\* The array after the builder of level n.
Built(n) ==
    CASE n = 1 -> l1h(array)
      [] n = 2 -> l1ml2h(array)
      [] n = 3 -> l2ml3h(array)
      [] n = 4 -> l3m(array)

\* A builder leaves its pattern chained in itself.
LEMMA BuiltOnPattern ==
    ASSUME TypeOK, NEW n \in Levels, Range(n) < Size
    PROVE /\ Built(n) \in [Cells -> Int]
          /\ \A c \in Pattern(n) : Built(n)[c] \in Pattern(n)
<1>0. /\ array \in [Cells -> Int] /\ Pattern(n) \subseteq Cells /\ LineCells \in Nat
      /\ \A c \in Cells : c \in Nat
    BY LinesAssumption, SizeAssumption DEF TypeOK, Pattern, Cells
<1>1. Range(n) \in Nat /\ Range(n) > 0
    BY RangeOnLines
<1>2. CASE n = 1
    <2>1. Built(n) = l1h(array)
        BY <1>2 DEF Built
    <2>2. \A c \in Cells : (c + 1) % Range(1) \in Int
        BY <1>0, <1>1, <1>2
    <2>3. Built(n) \in [Cells -> Int]
        BY <1>0, <2>1, <2>2 DEF l1h
    <2>4. ASSUME NEW c \in Pattern(n) PROVE Built(n)[c] \in Pattern(n)
        <3>1. c \in Cells /\ c < Range(1)
            BY <1>2 DEF Pattern
        <3>2. Built(n)[c] = (c + 1) % Range(1)
            BY <2>1, <3>1 DEF l1h
        <3> QED
            BY <1>2, <3>2, Targets
    <2> QED
        BY <2>3, <2>4
<1>3. CASE n # 1
    <2>1. Built(n) = Chain(array, n)
        BY <1>3 DEF Built, l1ml2h, l2ml3h, l3m, Levels
    <2>2. \A c \in Cells : (c + Stride) % Range(n) \in Int
        <3>1. \A c \in Cells : c + Stride \in Int
            BY <1>0 DEF Stride
        <3> QED
            BY <1>1, <3>1
    <2>3. Built(n) \in [Cells -> Int]
        BY <1>0, <2>1, <2>2 DEF Chain
    <2>4. ASSUME NEW c \in Pattern(n) PROVE Built(n)[c] \in Pattern(n)
        <3>1. c \in Cells /\ c < Range(n) /\ c % LineCells = 0
            BY <1>3 DEF Pattern
        <3>2. Built(n)[c] = (c + Stride) % Range(n)
            BY <2>1, <3>1 DEF Chain
        <3> QED
            BY <1>3, <3>2, Targets
    <2> QED
        BY <2>3, <2>4
<1> QED
    BY <1>2, <1>3

StepNames ==
    {"program", "setAffinity", "alloc", "l1h", "l1ml2h", "l2ml3h", "l3m", "free"}

\* A function has a number of steps, and outside of one there is none.
LEMMA CodeLength ==
    /\ Len(Code(fn)) \in Nat
    /\ fn \in {"main", "exit", "crashed"} => Len(Code(fn)) = 0
<1>1. /\ memthread \in Seq(StepNames) /\ casthread \in Seq(StepNames)
      /\ smpmemthread \in Seq(StepNames) /\ cassmpthread \in Seq(StepNames)
    <2>1. Builders \in Seq(StepNames) /\ <<"alloc">> \in Seq(StepNames) /\ <<"free">> \in Seq(StepNames)
        BY DEF Builders, StepNames
    <2>2. OnNode \in Seq(StepNames)
        BY <2>1 DEF OnNode
    <2>3. <<"program", "setAffinity">> \in Seq(StepNames) /\ <<"setAffinity">> \in Seq(StepNames)
        BY DEF StepNames
    <2> QED
        BY <2>2, <2>3 DEF memthread, casthread, smpmemthread, cassmpthread
<1>2. <<>> \in Seq(StepNames) /\ Len(<<>>) = 0
    OBVIOUS
<1>3. Code(fn) \in Seq(StepNames)
    BY <1>1, <1>2 DEF Code
<1>4. fn \in {"main", "exit", "crashed"} => Code(fn) = <<>>
    BY DEF Code
<1> QED
    BY <1>2, <1>3, <1>4

\* The steps of the functions that are not a level's are taken between the walks.
LEMMA BetweenWalks ==
    ASSUME TypeOK, PlaceInv,
           main \/ program \/ setAffinity \/ alloc \/ free \/ return
    PROVE stage = "build"
<1> SUFFICES ASSUME stage # "build" PROVE FALSE
    OBVIOUS
<1>1. ip <= Len(Code(fn)) /\ Code(fn)[ip] = Builders[level] /\ ip \in Nat \ {0}
    BY DEF PlaceInv, At, TypeOK
<1>2. Builders[level] \in {"l1h", "l1ml2h", "l2ml3h", "l3m"}
    BY DEF TypeOK, Levels, Builders
<1>3. CASE main
    <2>1. Len(Code(fn)) = 0
        BY <1>3, CodeLength DEF main
    <2> QED
        BY <1>1, <2>1
<1>4. CASE return
    <2>1. ip > Len(Code(fn)) /\ Len(Code(fn)) \in Nat
        BY <1>4, CodeLength DEF return
    <2> QED
        BY <1>1, <2>1
<1>5. CASE program \/ setAffinity \/ alloc \/ free
    BY <1>1, <1>2, <1>5 DEF program, setAffinity, alloc, free, At
<1> QED
    BY <1>3, <1>4, <1>5

Inv == TypeOK /\ PlaceInv /\ PatternInv

\* The initial state satisfies the invariant.
LEMMA InitInv == Init => Inv
<1>1. \A c \in Cells : Junk \in Int
    BY SizeAssumption DEF Junk
<1> QED
    BY <1>1 DEF Init, Inv, TypeOK, PlaceInv, PatternInv, Levels

\* Every step keeps the invariant.
LEMMA InvStep == Inv /\ [Next]_vars => Inv'
<1> SUFFICES ASSUME Inv, [Next]_vars PROVE Inv'
    OBVIOUS
<1> USE DEF Inv
<1>0. /\ Size \in Nat /\ M \in Nat /\ Size < M
      /\ \A n \in Levels : Pattern(n) \subseteq 0..(Size - 1)
      /\ Cells = 0..(Size - 1)
    BY SizeAssumption DEF Pattern, Cells
<1>1. CASE main \/ program \/ setAffinity \/ alloc \/ free \/ return
    <2>1. stage = "build" /\ stage' = stage /\ op' = op /\ level' = level
        BY <1>1, BetweenWalks DEF main, program, setAffinity, alloc, free, return
    <2>2. ip' \in Nat \ {0}
        <3>1. ip \in Nat \ {0} /\ Len(Code(fn)) \in Nat
            BY CodeLength DEF TypeOK
        <3>2. ip' = ip \/ ip' = ip + 1 \/ ip' = Len(Code(fn)) + 1 \/ ip' = 1
            BY <1>1 DEF main, program, setAffinity, alloc, free, return
        <3> QED
            BY <3>1, <3>2
    <2>3. array' \in [Cells -> Int]
        <3>1. array' = array \/ array' = [c \in Cells |-> Junk]
            BY <1>1 DEF main, program, setAffinity, alloc, free, return
        <3> QED
            BY <1>0, <3>1 DEF TypeOK, Junk
    <2> QED
        BY <2>1, <2>2, <2>3 DEF TypeOK, PlaceInv, PatternInv
<1>2. ASSUME NEW n \in Levels, build(n) PROVE Inv'
    <2>1. /\ stage = "build" /\ stage' = "warm" /\ level' = n /\ j' = 0
          /\ fn' = fn /\ ip' = ip /\ op' = op /\ At(Builders[n]) /\ Range(n) < Size
          /\ array' = Built(n)
        BY <1>2 DEF build, Built
    <2>2. op = "load"
        BY <2>1 DEF PlaceInv
    <2>3. array' \in [Cells -> Int] /\ \A c \in Pattern(n) : array'[c] \in Pattern(n)
        BY <2>1, BuiltOnPattern
    <2>4. 0 \in Pattern(n)
        BY <2>1, StartOnPattern
    <2>5. TypeOK'
        BY <2>1, <2>3 DEF TypeOK
    <2>6. PlaceInv'
        BY <2>1, <2>2 DEF PlaceInv, At
    <2>7. PatternInv'
        BY <2>1, <2>2, <2>3, <2>4 DEF PatternInv, Pattern
    <2> QED
        BY <2>5, <2>6, <2>7
<1>3. ASSUME NEW n \in Levels, build_crash(n) PROVE Inv'
    BY <1>3 DEF build_crash, TypeOK, PlaceInv, PatternInv
<1>4. CASE warmUp
    <2>1. /\ stage = "warm" /\ j' = array[j]
          /\ UNCHANGED <<fn, ip, array, level, stage, op>>
        BY <1>4 DEF warmUp
    <2>2. op = "load" /\ array[j] \in Pattern(level)
        BY <2>1 DEF PlaceInv, PatternInv
    <2>3. TypeOK' /\ PlaceInv'
        BY <2>1 DEF TypeOK, PlaceInv, At
    <2>4. PatternInv'
        BY <2>1, <2>2 DEF PatternInv, Pattern
    <2> QED
        BY <2>3, <2>4
<1>5. CASE warmUp_end
    <2>1. /\ stage = "warm" /\ stage' = "measure" /\ j' = 0 /\ op' = FirstOp
          /\ UNCHANGED <<fn, ip, array, level>>
        BY <1>5 DEF warmUp_end
    <2>2. op = "load" /\ FirstOp \in {"inc", "load"}
        BY <2>1 DEF PlaceInv, FirstOp
    <2>3. 0 \in Pattern(level)
        <3>1. j \in Pattern(level) /\ level \in Levels
            BY <2>1 DEF PatternInv, TypeOK
        <3>2. LineCells \in Nat /\ LineCells > 0 /\ Range(level) \in Nat /\ Range(level) > 0
            BY <3>1, LinesAssumption, RangeOnLines
        <3>3. 0 \in Cells
            BY <1>0, <3>1
        <3>4. 0 % LineCells = 0
            BY <3>2
        <3> QED
            BY <3>2, <3>3, <3>4 DEF Pattern
    <2>4. TypeOK' /\ PlaceInv'
        BY <2>1, <2>2 DEF TypeOK, PlaceInv, At
    <2>5. PatternInv'
        BY <2>1, <2>2, <2>3 DEF PatternInv, Pattern
    <2> QED
        BY <2>4, <2>5
<1>6. CASE measure_inc
    <2>1. /\ stage = "measure" /\ op = "inc" /\ op' = "dec"
          /\ array' = [array EXCEPT ![j] = (array[j] + 1) % M]
          /\ UNCHANGED <<fn, ip, level, stage, j>>
        BY <1>6 DEF measure_inc
    <2>2. j \in Pattern(level) /\ \A c \in Pattern(level) : array[c] \in Pattern(level)
        BY <2>1 DEF PatternInv
    <2>3. /\ j \in Cells /\ array[j] \in 0..(Size - 1) /\ Pattern(level) \subseteq Cells
          /\ array \in [Cells -> Int]
        BY <1>0, <2>2 DEF TypeOK
    <2>4. array[j] + 1 \in 0..(M - 1) /\ (array[j] + 1) - 1 = array[j]
        BY <1>0, <2>3
    <2>5. (array[j] + 1) % M = array[j] + 1
        BY <1>0, <2>4
    <2>6. /\ array' \in [Cells -> Int] /\ array'[j] - 1 = array[j]
          /\ \A c \in Cells : c # j => array'[c] = array[c]
        BY <2>1, <2>3, <2>4, <2>5
    <2>7. TypeOK' /\ PlaceInv'
        BY <2>1, <2>6 DEF TypeOK, PlaceInv, At
    <2>8. PatternInv'
        BY <2>1, <2>2, <2>3, <2>6 DEF PatternInv, Pattern
    <2> QED
        BY <2>7, <2>8
<1>7. CASE measure_dec
    <2>1. /\ stage = "measure" /\ op = "dec" /\ op' = "load"
          /\ array' = [array EXCEPT ![j] = (array[j] - 1) % M]
          /\ UNCHANGED <<fn, ip, level, stage, j>>
        BY <1>7 DEF measure_dec
    <2>2. /\ j \in Pattern(level) /\ array[j] - 1 \in Pattern(level)
          /\ \A c \in Pattern(level) : c # j => array[c] \in Pattern(level)
        BY <2>1 DEF PatternInv
    <2>3. /\ j \in Cells /\ array[j] - 1 \in 0..(Size - 1) /\ Pattern(level) \subseteq Cells
          /\ array \in [Cells -> Int]
        BY <1>0, <2>2 DEF TypeOK
    <2>4. array[j] - 1 \in 0..(M - 1)
        BY <1>0, <2>3
    <2>5. (array[j] - 1) % M = array[j] - 1
        BY <1>0, <2>4
    <2>6. /\ array' \in [Cells -> Int] /\ array'[j] = array[j] - 1
          /\ \A c \in Cells : c # j => array'[c] = array[c]
        BY <2>1, <2>3, <2>4, <2>5
    <2>7. TypeOK' /\ PlaceInv'
        BY <2>1, <2>6 DEF TypeOK, PlaceInv, At
    <2>8. PatternInv'
        BY <2>1, <2>2, <2>3, <2>6 DEF PatternInv, Pattern
    <2> QED
        BY <2>7, <2>8
<1>8. CASE measure_load
    <2>1. /\ stage = "measure" /\ op = "load" /\ op' = FirstOp /\ j' = array[j]
          /\ UNCHANGED <<fn, ip, array, level, stage>>
        BY <1>8 DEF measure_load
    <2>2. array[j] \in Pattern(level) /\ \A c \in Pattern(level) : array[c] \in Pattern(level)
        BY <2>1 DEF PatternInv
    <2>3. FirstOp \in {"inc", "load"}
        BY DEF FirstOp
    <2>4. TypeOK' /\ PlaceInv'
        BY <2>1, <2>3 DEF TypeOK, PlaceInv, At
    <2>5. PatternInv'
        BY <2>1, <2>2, <2>3 DEF PatternInv, Pattern
    <2> QED
        BY <2>4, <2>5
<1>9. CASE report
    <2>1. /\ stage' = "build" /\ op' = "load" /\ UNCHANGED <<array, level>>
          /\ ip' = ip \/ ip' = ip + 1
        BY <1>9 DEF report
    <2>2. ip' \in Nat \ {0}
        BY <2>1 DEF TypeOK
    <2> QED
        BY <2>1, <2>2 DEF TypeOK, PlaceInv, PatternInv
<1>10. CASE Finished \/ UNCHANGED vars
    BY <1>10 DEF Finished, vars, TypeOK, PlaceInv, PatternInv, At, Pattern
<1> QED
    BY <1>1, <1>2, <1>3, <1>4, <1>5, <1>6, <1>7, <1>8, <1>9, <1>10 DEF Next

\* The walk of every level stays on the pattern its builder wrote, and the CAS
\* variant leaves the cells as it found them, for every size of a line, of the
\* caches and of the array, every number of rounds, and whatever the levels
\* before have left in the array.
THEOREM WalkOnPatternAlways == Spec => []WalkOnPattern
<1>1. Inv => WalkOnPattern
    <2> SUFFICES ASSUME Inv, stage \in {"warm", "measure"}
                 PROVE /\ j \in Pattern(level)
                       /\ op = FirstOp \/ stage = "warm" => array[j] \in Pattern(level)
        BY DEF WalkOnPattern
    <2>1. FirstOp # "dec"
        BY DEF FirstOp
    <2>2. stage = "warm" => op = "load"
        BY DEF Inv, PlaceInv
    <2> QED
        BY <2>1, <2>2 DEF Inv, PatternInv
<1> QED
    BY <1>1, InitInv, InvStep, PTL DEF Spec

\* The array of numatest and smptest: as many cells as the last level has bytes,
\* and no cache larger than L3.
ArrayOfCode ==
    /\ Size = 4 * (CacheCells[3] * L4Factor)
    /\ CacheCells[1] <= CacheCells[3] /\ CacheCells[2] <= CacheCells[3]

\* Every range is smaller than the array.
LEMMA RangesFit ==
    ASSUME ArrayOfCode, NEW n \in Levels
    PROVE Range(n) < Size
<1> DEFINE L3 == CacheCells[3]
<1> DEFINE last == L3 * L4Factor
<1>1. L3 \in Nat /\ L3 > 0 /\ L4Factor \in Nat /\ L4Factor > 0 /\ Size = 4 * last
    BY LinesAssumption, FactorAssumption DEF ArrayOfCode
<1>2. Range(n) = last \/ (Range(n) \in Nat /\ Range(n) <= L3)
    BY LinesAssumption DEF ArrayOfCode, Range, Levels
<1> HIDE DEF L3
<1>3. last \in Nat /\ last >= L3
    BY <1>1
<1> HIDE DEF last
<1> QED
    BY <1>1, <1>2, <1>3

\* In the array of numatest and smptest no builder's assertion ever fires: the
\* program dies only of a count of 0 or of a failed allocation, whatever the sizes
\* of the caches are.
THEOREM CrashCauseAlways ==
    ASSUME ArrayOfCode
    PROVE Spec => []CrashCause
<1> DEFINE I == Inv /\ CrashCause
<1>1. Init => I
    BY InitInv DEF Init, CrashCause
<1>2. I /\ [Next]_vars => I'
    <2> SUFFICES ASSUME I, [Next]_vars PROVE CrashCause'
        BY InvStep
    <2>1. \A n \in Levels : ~(Range(n) >= Size)
        BY RangesFit, RangeOnLines, SizeAssumption
    <2>2. ASSUME fn = "crashed" PROVE \A s : ~At(s)
        BY <2>2, CodeLength DEF Inv, TypeOK, At
    <2>3. CASE fn = "crashed"
        <3>1. stage = "build"
            BY <2>2, <2>3 DEF Inv, TypeOK, PlaceInv
        <3>2. UNCHANGED <<iter, ptr>>
            BY <2>2, <2>3, <3>1
            DEF Next, main, program, setAffinity, alloc, build, build_crash, warmUp,
                warmUp_end, measure_inc, measure_dec, measure_load, report, free, return,
                Finished, vars
        <3> QED
            BY <2>3, <3>2 DEF CrashCause
    <2>4. CASE fn # "crashed"
        <3>1. ASSUME fn' = "crashed"
              PROVE (iter = 0 /\ iter' = iter) \/ (~ptr /\ ptr' = ptr)
            BY <2>1, <2>4, <3>1
            DEF Next, main, program, setAffinity, alloc, build, build_crash, warmUp,
                warmUp_end, measure_inc, measure_dec, measure_load, report, free, return,
                After, Finished, vars
        <3> QED
            BY <3>1 DEF CrashCause
    <2> QED
        BY <2>3, <2>4
<1>3. I => CrashCause
    OBVIOUS
<1> QED
    BY <1>1, <1>2, <1>3, PTL DEF Spec

-----------------------------------------------------------------------------
(* The warm-ups                                                             *)

\* A remainder is known by its range.
LEMMA RemainderUnique ==
    ASSUME NEW R \in Nat, R > 0, NEW q \in Int, NEW r \in 0..(R - 1),
           NEW x \in Int, x = R * q + r
    PROVE x % R = r
<1> DEFINE d == x \div R
<1> DEFINE m == x % R
<1>1. d \in Int /\ m \in 0..(R - 1) /\ x = R * d + m
    OBVIOUS
<1> DEFINE k == q - d
<1> HIDE DEF d, m
<1>2. k \in Int /\ m - r = R * k
    <2>1. R * (q - d) = R * q - R * d /\ R * q \in Int /\ R * d \in Int
        BY <1>1
    <2> QED
        BY <1>1, <2>1
<1> HIDE DEF k
<1>3. ~(k >= 1)
    <2> SUFFICES ASSUME k >= 1 PROVE FALSE
        OBVIOUS
    <2>1. R * k >= R
        BY <1>2
    <2> QED
        BY <1>1, <1>2, <2>1
<1>4. ~(k <= -1)
    <2> SUFFICES ASSUME k <= -1 PROVE FALSE
        OBVIOUS
    <2>1. R * k <= -R
        BY <1>2
    <2> QED
        BY <1>1, <1>2, <2>1
<1>5. k = 0
    BY <1>2, <1>3, <1>4
<1>6. m = r
    BY <1>1, <1>2, <1>5
<1> QED
    BY <1>6 DEF m

\* A remainder may be taken before an addition.
LEMMA RemainderOfSum ==
    ASSUME NEW R \in Nat, R > 0, NEW a \in Nat, NEW b \in Nat
    PROVE ((a % R) + b) % R = (a + b) % R
<1> DEFINE q == a \div R
<1> DEFINE r == a % R
<1>1. q \in Int /\ r \in 0..(R - 1) /\ a = R * q + r
    OBVIOUS
<1> HIDE DEF q, r
<1> DEFINE y == r + b
<1> DEFINE p == y \div R
<1> DEFINE s == y % R
<1>2. y \in Int
    BY <1>1
<1> HIDE DEF y
<1>3. p \in Int /\ s \in 0..(R - 1) /\ y = R * p + s
    BY <1>2
<1> HIDE DEF p, s
<1>4. R * (q + p) = R * q + R * p /\ R * q \in Int /\ R * p \in Int
    BY <1>1, <1>3
<1>5. a + b = R * (q + p) + s /\ q + p \in Int
    BY <1>1, <1>3, <1>4 DEF y
<1>6. (a + b) % R = s
    BY <1>3, <1>5, RemainderUnique
<1> QED
    BY <1>6 DEF s, y, r

\* 5 and a number it does not divide have every residue as a combination.
LEMMA FiveGenerates ==
    ASSUME NEW r \in 1..4, NEW s \in 0..4
    PROVE \E t \in 0..4, u \in Nat : s + t * r = 5 * u
<1> DEFINE Good(t) == \E u \in Nat : s + t * r = 5 * u
<1>1. CASE r = 1
    <2>1. s = 0 => Good(0)
        BY <1>1
    <2>2. s # 0 => Good(5 - s)
        BY <1>1
    <2> QED
        BY <2>1, <2>2
<1>2. CASE r = 4
    <2>1. Good(s)
        BY <1>2
    <2> QED
        BY <2>1
<1>3. CASE r = 2
    <2>1. s = 0 => Good(0)
        BY <1>3
    <2>2. s = 1 => Good(2)
        BY <1>3
    <2>3. s = 2 => Good(4)
        BY <1>3
    <2>4. s = 3 => Good(1)
        BY <1>3
    <2>5. s = 4 => Good(3)
        BY <1>3
    <2> QED
        BY <2>1, <2>2, <2>3, <2>4, <2>5
<1>4. CASE r = 3
    <2>1. s = 0 => Good(0)
        BY <1>4
    <2>2. s = 1 => Good(3)
        BY <1>4
    <2>3. s = 2 => Good(1)
        BY <1>4
    <2>4. s = 3 => Good(4)
        BY <1>4
    <2>5. s = 4 => Good(2)
        BY <1>4
    <2> QED
        BY <2>1, <2>2, <2>3, <2>4, <2>5
<1> QED
    BY <1>1, <1>2, <1>3, <1>4

\* A walk in steps of five comes to every one of N places in a circle, in less
\* than N steps, unless 5 divides N.
LEMMA FiveReaches ==
    ASSUME NEW N \in Nat, N % 5 # 0, NEW d \in 0..(N - 1)
    PROVE \E k \in 0..(N - 1), t \in 0..4 : 5 * k = d + t * N
<1> DEFINE a == N \div 5
<1> DEFINE r == N % 5
<1>1. a \in Int /\ r \in 1..4 /\ N = 5 * a + r
    OBVIOUS
<1> DEFINE b == d \div 5
<1> DEFINE s == d % 5
<1>2. b \in Int /\ s \in 0..4 /\ d = 5 * b + s
    OBVIOUS
<1> HIDE DEF a, r, b, s
<1>3. PICK t \in 0..4, u \in Nat : s + t * r = 5 * u
    BY <1>1, <1>2, FiveGenerates
<1> DEFINE k == b + t * a + u
<1>4. k \in Int /\ 5 * k = d + t * N
    <2>1. t * N = 5 * (t * a) + t * r /\ t * a \in Int /\ t * r \in Int
        BY <1>1, <1>3
    <2> QED
        BY <1>1, <1>2, <1>3, <2>1
<1> HIDE DEF k
<1>5. 0 <= t * N /\ t * N <= 4 * N
    BY <1>3
<1>6. k \in 0..(N - 1)
    BY <1>4, <1>5
<1> QED
    BY <1>3, <1>4, <1>6

\* How far the walk of level n goes in a turn, and the cell it is at after k.
StrideOf(n) == IF n = 1 THEN 1 ELSE Stride
Visit(n, k) == (k * StrideOf(n)) % Range(n)

\* The sizes of permutate.cpp: no range is a multiple of five lines, and the
\* warm-up goes round at least once.
ChainOfCode ==
    /\ WarmUpRound \in Nat \ {0}
    /\ \A n \in 2..4 : (Range(n) \div LineCells) % 5 # 0

\* In a number of turns that the range has cells, the walk comes to every cell of
\* the pattern.
LEMMA VisitsAll ==
    ASSUME ChainOfCode, NEW n \in Levels, NEW c \in Pattern(n)
    PROVE \E k \in Nat : k < Range(n) /\ Visit(n, k) = c
<1>0. /\ LineCells \in Nat /\ LineCells > 0 /\ Size \in Nat
      /\ Range(n) \in Nat /\ Range(n) > 0 /\ Range(n) % LineCells = 0
    BY LinesAssumption, SizeAssumption, RangeOnLines
<1>1. c \in Nat /\ c < Range(n) /\ (n = 1 \/ c % LineCells = 0)
    BY <1>0 DEF Pattern, Cells
<1>2. CASE n = 1
    <2> DEFINE R == Range(n)
    <2>0. R \in Nat /\ R > 0 /\ c \in Nat /\ c < R
        BY <1>0, <1>1
    <2> HIDE DEF R
    <2>1. c * 1 = c /\ c = R * 0 + c /\ c \in 0..(R - 1) /\ 0 \in Int /\ c \in Int
        BY <2>0
    <2>2. c % R = c
        BY <2>0, <2>1, RemainderUnique
    <2> QED
        BY <1>1, <1>2, <2>1, <2>2 DEF Visit, StrideOf, R
<1>3. CASE n # 1
    <2> DEFINE L == LineCells
    <2> DEFINE R == Range(n)
    <2> DEFINE N == R \div L
    <2>1. N \in Int /\ R = L * N + (R % L)
        BY <1>0
    <2>2. L * N \in Int /\ R = L * N
        BY <1>0, <2>1
    <2>3. N % 5 # 0
        BY <1>3 DEF ChainOfCode, Levels
    <2>4. PICK d \in Int : c = L * d
        BY <1>0, <1>1, <1>3, MultipleOf
    <2>5. L \in Nat /\ L > 0 /\ R \in Nat /\ R > 0
        BY <1>0
    <2>6. c \in Nat /\ c < R
        BY <1>1
    <2> HIDE DEF L, R, N
    <2>7. N \in Nat /\ N <= R
        <3>1. ~(N <= -1)
            <4> SUFFICES ASSUME N <= -1 PROVE FALSE
                OBVIOUS
            <4>1. L * N <= -L
                BY <2>1, <2>5
            <4> QED
                BY <2>2, <2>5, <4>1
        <3>2. N \in Nat
            BY <2>1, <3>1
        <3>3. N <= L * N
            BY <2>5, <3>2
        <3> QED
            BY <2>2, <3>2, <3>3
    <2>8. d \in 0..(N - 1)
        <3>1. ~(d <= -1)
            <4> SUFFICES ASSUME d <= -1 PROVE FALSE
                OBVIOUS
            <4>1. L * d <= -L
                BY <2>4, <2>5
            <4> QED
                BY <2>4, <2>5, <2>6, <4>1
        <3>2. ~(d >= N)
            <4> SUFFICES ASSUME d >= N PROVE FALSE
                OBVIOUS
            <4>1. L * d >= L * N
                BY <2>4, <2>5, <2>7
            <4> QED
                BY <2>2, <2>4, <2>5, <2>6, <4>1
        <3> QED
            BY <2>4, <2>7, <3>1, <3>2
    <2>9. PICK k \in 0..(N - 1), t \in 0..4 : 5 * k = d + t * N
        BY <2>3, <2>7, <2>8, FiveReaches
    <2>10. k * Stride = R * t + c
        <3>1. k * Stride = L * (5 * k)
            BY <2>5, <2>7, <2>9 DEF Stride, L
        <3>2. L * (d + t * N) = L * d + (L * N) * t
            BY <2>4, <2>5, <2>7, <2>9
        <3> QED
            BY <2>2, <2>4, <2>5, <2>9, <3>1, <3>2
    <2>11. c \in 0..(R - 1) /\ t \in Int /\ k * Stride \in Int
        BY <2>5, <2>6, <2>7, <2>9 DEF Stride, L
    <2>12. (k * Stride) % R = c
        BY <2>5, <2>10, <2>11, RemainderUnique
    <2>13. k \in Nat /\ k < R
        BY <2>5, <2>7, <2>9
    <2>14. Visit(n, k) = c
        BY <1>3, <2>12 DEF Visit, StrideOf, R
    <2> QED
        BY <2>13, <2>14 DEF R
<1> QED
    BY <1>2, <1>3

\* One turn more is one stride further.
LEMMA VisitNext ==
    ASSUME NEW n \in Levels, NEW k \in Nat
    PROVE Visit(n, k + 1) = (Visit(n, k) + StrideOf(n)) % Range(n)
<1>0. LineCells \in Nat /\ Range(n) \in Nat /\ Range(n) > 0
    BY LinesAssumption, RangeOnLines
<1>1. StrideOf(n) \in Nat
    BY <1>0 DEF StrideOf, Stride
<1> DEFINE b == StrideOf(n)
<1> DEFINE a == k * b
<1> HIDE DEF b
<1>2. a \in Nat /\ (k + 1) * b = a + b /\ b \in Nat
    BY <1>1 DEF b
<1> HIDE DEF a
<1>3. ((a % Range(n)) + b) % Range(n) = (a + b) % Range(n)
    BY <1>0, <1>2, RemainderOfSum
<1> QED
    BY <1>2, <1>3 DEF Visit, a, b

\* During a warm-up the pattern is as the builder left it, and the walk has been
\* at the cells of all turns so far.
ChainInv ==
    /\ stage # "build" => Range(level) < Size
    /\ stage = "warm" =>
        /\ i \in Nat /\ j = Visit(level, i)
        /\ \A k \in Nat : k < i => Visit(level, k) \in seen
        /\ \A c \in Pattern(level) : array[c] = (c + StrideOf(level)) % Range(level)
    /\ WarmUpTouchesAll

\* A warm-up takes at least as many turns as its range has cells.
LEMMA TurnsSuffice ==
    ASSUME ChainOfCode, NEW n \in Levels, Range(n) < Size
    PROVE WarmUpTurns(n) \in Nat /\ Range(n) <= WarmUpTurns(n)
<1>0. Range(n) \in Nat /\ Size \in Nat /\ WarmUpRound \in Nat /\ WarmUpRound >= 1
    BY SizeAssumption, RangeOnLines DEF ChainOfCode
<1>1. ~(Range(n) > Size)
    BY <1>0
<1>2. CASE n = 4
    BY <1>0, <1>2 DEF WarmUpTurns, warmUpL4
<1>3. CASE n # 4
    <2>1. WarmUpTurns(n) = Range(n) * WarmUpRound
        BY <1>1, <1>3 DEF WarmUpTurns, warmUpL1, warmUpL2, warmUpL3, Turns, Levels
    <2>2. Range(n) * WarmUpRound \in Nat /\ Range(n) <= Range(n) * WarmUpRound
        BY <1>0
    <2> QED
        BY <2>1, <2>2
<1> QED
    BY <1>2, <1>3

\* A builder writes the chain of its level.
LEMMA BuiltChain ==
    ASSUME NEW n \in Levels, NEW c \in Pattern(n)
    PROVE Built(n)[c] = (c + StrideOf(n)) % Range(n)
<1>1. c \in Cells /\ c < Range(n) /\ (n = 1 \/ c % LineCells = 0)
    BY DEF Pattern
<1>2. CASE n = 1
    BY <1>1, <1>2 DEF Built, l1h, StrideOf
<1>3. CASE n # 1
    <2>1. Built(n) = Chain(array, n)
        BY <1>3 DEF Built, l1ml2h, l2ml3h, l3m, Levels
    <2> QED
        BY <1>1, <1>3, <2>1 DEF Chain, StrideOf
<1> QED
    BY <1>2, <1>3

\* Every step keeps ChainInv.
LEMMA ChainStep ==
    ASSUME ChainOfCode, Inv, ChainInv, [Next]_vars
    PROVE ChainInv'
<1>0. TypeOK /\ PlaceInv /\ PatternInv
    BY DEF Inv
<1>1. CASE main \/ program \/ setAffinity \/ alloc \/ free \/ return
    <2>1. stage = "build"
        BY <1>0, <1>1, BetweenWalks
    <2>2. stage' = stage
        BY <1>1 DEF main, program, setAffinity, alloc, free, return
    <2> QED
        BY <2>1, <2>2 DEF ChainInv, WarmUpTouchesAll
<1>2. ASSUME NEW n \in Levels, build(n) PROVE ChainInv'
    <2>1. /\ array' = Built(n) /\ level' = n /\ stage' = "warm" /\ i' = 0 /\ j' = 0
          /\ Range(n) < Size
        BY <1>2 DEF build, Built
    <2>2. Range(n) \in Nat /\ Range(n) > 0 /\ LineCells \in Nat
        BY RangeOnLines, LinesAssumption
    <2>3. StrideOf(n) \in Nat
        BY <2>2 DEF StrideOf, Stride
    <2>4. 0 * StrideOf(n) = 0
        BY <2>3
    <2>5. 0 % Range(n) = 0
        BY <2>2
    <2>6. Visit(n, 0) = 0
        BY <2>4, <2>5 DEF Visit
    <2>7. \A k \in Nat : ~(k < 0)
        OBVIOUS
    <2>8. \A c \in Pattern(n) : Built(n)[c] = (c + StrideOf(n)) % Range(n)
        BY BuiltChain
    <2> QED
        BY <2>1, <2>6, <2>7, <2>8 DEF ChainInv, WarmUpTouchesAll
<1>3. ASSUME NEW n \in Levels, build_crash(n) PROVE ChainInv'
    BY <1>3 DEF build_crash, ChainInv, WarmUpTouchesAll
<1>4. CASE warmUp
    <2>1. /\ stage = "warm" /\ stage' = stage /\ level' = level /\ array' = array
          /\ j' = array[j] /\ seen' = seen \cup {j} /\ i' = i + 1
        BY <1>4 DEF warmUp
    <2>2. i \in Nat /\ j = Visit(level, i) /\ level \in Levels /\ j \in Pattern(level)
        BY <1>0, <2>1 DEF ChainInv, TypeOK, PatternInv
    <2>3. j' = Visit(level, i + 1)
        BY <2>1, <2>2, VisitNext DEF ChainInv
    <2>4. ASSUME NEW k \in Nat, k < i + 1 PROVE Visit(level, k) \in seen'
        <3>1. k < i \/ k = i
            BY <2>2, <2>4
        <3> QED
            BY <2>1, <2>2, <3>1 DEF ChainInv
    <2>5. i + 1 \in Nat
        BY <2>2
    <2> QED
        BY <2>1, <2>3, <2>4, <2>5 DEF ChainInv, WarmUpTouchesAll
<1>5. CASE warmUp_end
    <2>1. /\ stage = "warm" /\ i >= WarmUpTurns(level) /\ stage' = "measure"
          /\ level' = level /\ seen' = seen
        BY <1>5 DEF warmUp_end
    <2>2. /\ level \in Levels /\ Range(level) < Size /\ i \in Nat
          /\ \A k \in Nat : k < i => Visit(level, k) \in seen
        BY <1>0, <2>1 DEF ChainInv, TypeOK
    <2>3. WarmUpTurns(level) \in Nat /\ Range(level) <= WarmUpTurns(level)
        BY <2>2, TurnsSuffice
    <2>4. ASSUME NEW c \in Pattern(level) PROVE c \in seen
        <3>1. PICK k \in Nat : k < Range(level) /\ Visit(level, k) = c
            BY <2>2, VisitsAll
        <3>2. Range(level) \in Nat
            BY <2>2, RangeOnLines
        <3>3. k < i
            BY <2>1, <2>2, <2>3, <3>1, <3>2
        <3> QED
            BY <2>2, <3>1, <3>3
    <2>5. Pattern(level)' = Pattern(level)
        BY <2>1 DEF Pattern
    <2>6. Pattern(level) \subseteq seen
        BY <2>4
    <2> QED
        BY <2>1, <2>2, <2>5, <2>6 DEF ChainInv, WarmUpTouchesAll
<1>6. CASE measure_inc \/ measure_dec \/ measure_load
    <2>1. /\ stage = "measure" /\ stage' = stage /\ level' = level /\ seen' = seen
        BY <1>6 DEF measure_inc, measure_dec, measure_load
    <2>2. Pattern(level)' = Pattern(level)
        BY <2>1 DEF Pattern
    <2> QED
        BY <2>1, <2>2 DEF ChainInv, WarmUpTouchesAll
<1>7. CASE report
    BY <1>7 DEF report, ChainInv, WarmUpTouchesAll
<1>8. CASE Finished \/ UNCHANGED vars
    BY <1>8 DEF Finished, vars, ChainInv, WarmUpTouchesAll, Pattern
<1> QED
    BY <1>1, <1>2, <1>3, <1>4, <1>5, <1>6, <1>7, <1>8 DEF Next

\* When a measurement starts, its warm-up has loaded every line of the range,
\* for every size of a line, of the caches and of the array, if no range is a
\* multiple of five lines.
THEOREM WarmUpTouchesAllAlways ==
    ASSUME ChainOfCode
    PROVE Spec => []WarmUpTouchesAll
<1> DEFINE I == Inv /\ ChainInv
<1>1. Init => I
    BY InitInv DEF Init, ChainInv, WarmUpTouchesAll
<1>2. I /\ [Next]_vars => I'
    BY InvStep, ChainStep
<1>3. I => WarmUpTouchesAll
    BY DEF ChainInv
<1> QED
    BY <1>1, <1>2, <1>3, PTL DEF Spec
=============================================================================
