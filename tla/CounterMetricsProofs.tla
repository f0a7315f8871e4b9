------------------------ MODULE CounterMetricsProofs ------------------------
(***************************************************************************)
(* MetricsExact, RatiosInRange and LinksBalance of CounterMetrics for any  *)
(* number of cores on the two sockets, any set of them online, any number  *)
(* of ticks and threads per core, any nominal frequency, and links of any  *)
(* speed that can send nine flits or more in a tick.                       *)
(*                                                                         *)
(* TypeOK and BoundInv keep the registers within the ticks, so that no     *)
(* difference wraps.  OrderInv says that what was read first is behind     *)
(* what is read later and behind the registers, also for the differences   *)
(* of the registers that are read together.  WorkInv says who did nothing, *)
(* and ExactInv that the registers have advanced since the first read, if  *)
(* nothing disturbed it, by what each activity done since then counts for. *)
(* The metrics add registers up over cores, so the proofs need a theory of *)
(* sums over finite sets; it comes first.                                  *)
(***************************************************************************)
EXTENDS CounterMetrics, FiniteSetTheorems, TLAPS

-----------------------------------------------------------------------------
(* Sums over finite sets *)

\* The element the sum of a set takes first.
First(s) == CHOOSE x \in s : TRUE

\* g is the table of the sums of f over the subsets of S.
IsTable(f, S, g) ==
    g = [s \in SUBSET S |-> IF s = {} THEN 0 ELSE f[First(s)] + g[s \ {First(s)}]]

\* The table of the sums of f over the subsets of S.
Table(f, S) == CHOOSE g : IsTable(f, S, g)

\* SumFunctionOnSet folds f over S: it is the last entry of the table.
LEMMA SumIsTable ==
    ASSUME NEW f, NEW S
    PROVE SumFunctionOnSet(f, S) = Table(f, S)[S]
BY DEF SumFunctionOnSet, FoldFunctionOnSet, MapThenFoldSet, Table, IsTable, First

\* What holds of a set when it holds of its proper subsets holds of all subsets
\* of a finite set.
LEMMA SubsetInduction ==
    ASSUME NEW S, IsFiniteSet(S), NEW G,
           \A s \in SUBSET S : (\A u \in SUBSET s : u # s => u \in G) => s \in G
    PROVE \A s \in SUBSET S : s \in G
<1> DEFINE T == (SUBSET S) \ G
<1> SUFFICES ASSUME T # {} PROVE FALSE
    OBVIOUS
<1>1. IsWellFoundedOn(StrictSubsetOrdering(S), SUBSET S)
    <2>1. IsWellFoundedOn(StrictSubsetOrdering(S), FiniteSubsetsOf(S))
        BY FS_StrictSubsetOrderingWellFounded
    <2>2. FiniteSubsetsOf(S) = SUBSET S
        BY FS_FiniteSubsetsOfFinite
    <2> QED
        BY <2>1, <2>2
<1>2. PICK x \in T : \A y \in T : ~(<<y, x>> \in StrictSubsetOrdering(S))
    <2> HIDE DEF T
    <2>1. T \subseteq SUBSET S
        BY DEF T
    <2> QED
        BY <1>1, <2>1, WFMin
<1>3. ASSUME NEW u \in SUBSET x, u # x PROVE u \in G
    BY <1>2, <1>3 DEF StrictSubsetOrdering
<1> QED
    BY <1>2, <1>3

\* First takes an element.
LEMMA FirstIn ==
    ASSUME NEW s, s # {}
    PROVE First(s) \in s
BY DEF First

\* g is right for the subsets of S of at most n elements.
RightUpTo(f, S, n, g) ==
    /\ g \in [SUBSET S -> Int]
    /\ \A s \in SUBSET S : Cardinality(s) <= n =>
        g[s] = IF s = {} THEN 0 ELSE f[First(s)] + g[s \ {First(s)}]

\* A table of sums exists.
LEMMA TableExists ==
    ASSUME NEW S, IsFiniteSet(S), NEW f, \A x \in S : f[x] \in Int
    PROVE IsTable(f, S, Table(f, S)) /\ Table(f, S) \in [SUBSET S -> Int]
<1> DEFINE G == {s \in SUBSET S : \E g : RightUpTo(f, S, Cardinality(s), g)}
<1>0. \A s \in SUBSET S : IsFiniteSet(s) /\ Cardinality(s) \in Nat
    BY FS_Subset, FS_CardinalityType
<1>1. ASSUME NEW s \in SUBSET S, \A u \in SUBSET s : u # s => u \in G
      PROVE s \in G
    <2>1. CASE s = {}
        <3> DEFINE g == [u \in SUBSET S |-> 0]
        <3>1. Cardinality(s) = 0
            BY <2>1, FS_EmptySet
        <3>2. \A u \in SUBSET S : Cardinality(u) <= 0 => u = {}
            BY <1>0, FS_EmptySet
        <3>3. RightUpTo(f, S, 0, g)
            BY <3>2 DEF RightUpTo
        <3> QED
            BY <3>1, <3>3
    <2>2. CASE s # {}
        <3> DEFINE v == s \ {First(s)}
        <3> DEFINE n == Cardinality(v)
        <3>1. First(s) \in s /\ v \in SUBSET s /\ v # s /\ v \in SUBSET S
            BY <2>2, FirstIn
        <3>2. n \in Nat /\ Cardinality(s) = n + 1
            BY <1>0, <3>1, FS_RemoveElement
        <3>3. PICK g : RightUpTo(f, S, n, g)
            BY <1>1, <3>1
        <3> HIDE DEF n, v
        <3> DEFINE Sum(u) == IF u = {} THEN 0 ELSE f[First(u)] + g[u \ {First(u)}]
        <3> DEFINE h == [u \in SUBSET S |-> IF Cardinality(u) <= n THEN g[u] ELSE Sum(u)]
        <3>4. \A u \in SUBSET S : Sum(u) \in Int
            BY <3>3, FirstIn DEF RightUpTo
        <3>5. h \in [SUBSET S -> Int]
            BY <3>3, <3>4 DEF RightUpTo
        <3>6. ASSUME NEW u \in SUBSET S, Cardinality(u) <= n + 1
              PROVE h[u] = IF u = {} THEN 0 ELSE f[First(u)] + h[u \ {First(u)}]
            <4>1. h[u] = Sum(u)
                BY <3>3 DEF RightUpTo
            <4>2. CASE u = {}
                BY <4>1, <4>2
            <4>3. CASE u # {}
                <5>1. First(u) \in u /\ u \ {First(u)} \in SUBSET S
                    BY <4>3, FirstIn
                <5>2. Cardinality(u \ {First(u)}) = Cardinality(u) - 1
                    BY <1>0, <5>1, FS_RemoveElement
                <5>3. Cardinality(u \ {First(u)}) <= n
                    BY <1>0, <3>2, <3>6, <5>2
                <5>4. h[u \ {First(u)}] = g[u \ {First(u)}]
                    BY <5>1, <5>3
                <5> HIDE DEF h
                <5> QED
                    BY <4>1, <4>3, <5>4
            <4> QED
                BY <4>2, <4>3
        <3>7. RightUpTo(f, S, n + 1, h)
            <4> HIDE DEF h
            <4> QED
                BY <3>5, <3>6 DEF RightUpTo
        <3> QED
            BY <3>2, <3>7
    <2> QED
        BY <2>1, <2>2
<1>2. S \in G
    <2> HIDE DEF G
    <2>1. \A s \in SUBSET S : s \in G
        BY <1>1, SubsetInduction
    <2> QED
        BY <2>1
<1>3. PICK g : RightUpTo(f, S, Cardinality(S), g)
    BY <1>2
<1>4. \A s \in SUBSET S : Cardinality(s) <= Cardinality(S)
    BY FS_Subset
<1>5. IsTable(f, S, g)
    <2>1. \A s \in SUBSET S : g[s] = IF s = {} THEN 0 ELSE f[First(s)] + g[s \ {First(s)}]
        BY <1>3, <1>4 DEF RightUpTo
    <2>2. g = [s \in SUBSET S |-> g[s]]
        BY <1>3 DEF RightUpTo
    <2> QED
        BY <2>1, <2>2 DEF IsTable
<1>6. IsTable(f, S, Table(f, S))
    BY <1>5 DEF Table
<1> DEFINE t == Table(f, S)
<1> HIDE DEF t
<1>7. t = [s \in SUBSET S |-> IF s = {} THEN 0 ELSE f[First(s)] + t[s \ {First(s)}]]
    BY <1>6 DEF t, IsTable
<1>8. \A s \in SUBSET S : t[s] \in Int
    <2> DEFINE H == {s \in SUBSET S : t[s] \in Int}
    <2>1. ASSUME NEW s \in SUBSET S, \A u \in SUBSET s : u # s => u \in H
          PROVE s \in H
        <3>1. t[s] = IF s = {} THEN 0 ELSE f[First(s)] + t[s \ {First(s)}]
            BY <1>7
        <3>2. CASE s = {}
            BY <3>1, <3>2
        <3>3. CASE s # {}
            <4>1. First(s) \in s
                BY <3>3, FirstIn
            <4>2. t[s \ {First(s)}] \in Int /\ f[First(s)] \in Int
                BY <2>1, <4>1
            <4> QED
                BY <3>1, <3>3, <4>2
        <3> QED
            BY <3>2, <3>3
    <2>2. \A s \in SUBSET S : s \in H
        <3> HIDE DEF H
        <3> QED
            BY <2>1, SubsetInduction
    <2> QED
        BY <2>2
<1>9. t \in [SUBSET S -> Int]
    BY <1>7, <1>8
<1> QED
    BY <1>6, <1>9 DEF t

\* The table of the sums, an element at a time.
LEMMA TableStep ==
    ASSUME NEW S, IsFiniteSet(S), NEW f, \A x \in S : f[x] \in Int, NEW s \in SUBSET S
    PROVE /\ Table(f, S)[s] \in Int
          /\ Table(f, S)[s] =
                IF s = {} THEN 0 ELSE f[First(s)] + Table(f, S)[s \ {First(s)}]
<1> DEFINE t == Table(f, S)
<1> HIDE DEF t
<1>1. t = [u \in SUBSET S |-> IF u = {} THEN 0 ELSE f[First(u)] + t[u \ {First(u)}]]
    BY TableExists DEF t, IsTable
<1>2. t \in [SUBSET S -> Int]
    BY TableExists DEF t
<1>3. t[s] \in Int /\ t[s] = IF s = {} THEN 0 ELSE f[First(s)] + t[s \ {First(s)}]
    BY <1>1, <1>2
<1> QED
    BY <1>3 DEF t

\* The order in which elements are taken does not matter.
LEMMA TableAny ==
    ASSUME NEW S, IsFiniteSet(S), NEW f, \A x \in S : f[x] \in Int
    PROVE \A s \in SUBSET S : \A x \in s :
              Table(f, S)[s] = f[x] + Table(f, S)[s \ {x}]
<1> DEFINE t == Table(f, S)
<1> HIDE DEF t
<1>0. \A s \in SUBSET S : /\ t[s] \in Int
                          /\ s # {} => t[s] = f[First(s)] + t[s \ {First(s)}]
    BY TableStep DEF t
<1> DEFINE G == {s \in SUBSET S : \A x \in s : t[s] = f[x] + t[s \ {x}]}
<1>1. ASSUME NEW s \in SUBSET S, \A u \in SUBSET s : u # s => u \in G
      PROVE s \in G
    <2>1. ASSUME NEW x \in s PROVE t[s] = f[x] + t[s \ {x}]
        <3> DEFINE p == First(s)
        <3>1. p \in s /\ t[s] = f[p] + t[s \ {p}]
            BY <1>0, FirstIn
        <3> HIDE DEF p
        <3>2. CASE x = p
            BY <3>1, <3>2
        <3>3. CASE x # p
            <4> DEFINE r == (s \ {p}) \ {x}
            <4>1. s \ {p} \in G /\ s \ {x} \in G
                BY <1>1, <3>1
            <4>2. t[s \ {p}] = f[x] + t[r]
                BY <3>3, <4>1
            <4>3. t[s \ {x}] = f[p] + t[(s \ {x}) \ {p}]
                BY <3>1, <3>3, <4>1
            <4>4. (s \ {x}) \ {p} = r
                OBVIOUS
            <4>5. f[x] \in Int /\ f[p] \in Int /\ t[r] \in Int
                BY <1>0, <3>1
            <4> HIDE DEF r
            <4>6. t[s \ {x}] = f[p] + t[r]
                BY <4>3, <4>4
            <4> QED
                BY <3>1, <4>2, <4>5, <4>6
        <3> QED
            BY <3>2, <3>3
    <2> QED
        BY <2>1
<1>2. \A s \in SUBSET S : s \in G
    <2> HIDE DEF G
    <2> QED
        BY <1>1, SubsetInduction
<1> QED
    BY <1>2 DEF t

\* The sums over the subsets of a part are the same in the table of the part.
LEMMA TablePart ==
    ASSUME NEW S, IsFiniteSet(S), NEW f, \A x \in S : f[x] \in Int, NEW T \in SUBSET S
    PROVE Table(f, T)[T] = Table(f, S)[T]
<1> DEFINE t == Table(f, S)
<1> DEFINE v == Table(f, T)
<1> HIDE DEF t, v
<1>0. IsFiniteSet(T) /\ \A x \in T : f[x] \in Int
    BY FS_Subset
<1>1. \A s \in SUBSET T : /\ v[s] = IF s = {} THEN 0 ELSE f[First(s)] + v[s \ {First(s)}]
                          /\ t[s] = IF s = {} THEN 0 ELSE f[First(s)] + t[s \ {First(s)}]
    <2>1. ASSUME NEW s \in SUBSET T
          PROVE v[s] = IF s = {} THEN 0 ELSE f[First(s)] + v[s \ {First(s)}]
        BY <1>0, TableStep DEF v
    <2>2. ASSUME NEW s \in SUBSET T
          PROVE t[s] = IF s = {} THEN 0 ELSE f[First(s)] + t[s \ {First(s)}]
        <3>1. s \in SUBSET S
            OBVIOUS
        <3> QED
            BY <3>1, TableStep DEF t
    <2> QED
        BY <2>1, <2>2
<1> DEFINE G == {s \in SUBSET T : v[s] = t[s]}
<1>2. ASSUME NEW s \in SUBSET T, \A u \in SUBSET s : u # s => u \in G
      PROVE s \in G
    <2>1. CASE s = {}
        BY <1>1, <2>1
    <2>2. CASE s # {}
        <3>1. s \ {First(s)} \in G
            BY <1>2, <2>2, FirstIn
        <3> QED
            BY <1>1, <2>2, <3>1
    <2> QED
        BY <2>1, <2>2
<1>3. \A s \in SUBSET T : s \in G
    <2> HIDE DEF G
    <2> QED
        BY <1>0, <1>2, SubsetInduction
<1> QED
    BY <1>3 DEF t, v

\* The sum of f over S.
Sum(f, S) == SumFunctionOnSet(f, S)

\* A sum of integers is an integer, 0 for the empty set.
LEMMA SumInt ==
    ASSUME NEW S, IsFiniteSet(S), NEW f, \A x \in S : f[x] \in Int
    PROVE Sum(f, S) \in Int /\ (S = {} => Sum(f, S) = 0)
<1>1. S \in SUBSET S
    OBVIOUS
<1>2. /\ Table(f, S)[S] \in Int
      /\ Table(f, S)[S] = IF S = {} THEN 0 ELSE f[First(S)] + Table(f, S)[S \ {First(S)}]
    BY <1>1, TableStep
<1> QED
    BY <1>2, SumIsTable DEF Sum

\* An element can be taken out of a sum.
LEMMA SumRemove ==
    ASSUME NEW S, IsFiniteSet(S), NEW f, \A x \in S : f[x] \in Int, NEW x \in S
    PROVE Sum(f, S) = f[x] + Sum(f, S \ {x})
<1>1. Table(f, S)[S] = f[x] + Table(f, S)[S \ {x}]
    BY TableAny
<1>2. Table(f, S \ {x})[S \ {x}] = Table(f, S)[S \ {x}]
    BY TablePart
<1> QED
    BY <1>1, <1>2, SumIsTable DEF Sum

\* The sum of one element.
LEMMA SumOne ==
    ASSUME NEW x, NEW f, f[x] \in Int
    PROVE Sum(f, {x}) = f[x]
<1>1. IsFiniteSet({x}) /\ IsFiniteSet({})
    BY FS_Singleton, FS_EmptySet
<1>2. Sum(f, {x}) = f[x] + Sum(f, {x} \ {x})
    BY <1>1, SumRemove
<1>3. {x} \ {x} = {} /\ Sum(f, {}) = 0
    BY <1>1, SumInt
<1> QED
    BY <1>2, <1>3

\* An element can be added to a sum.
LEMMA SumAdd ==
    ASSUME NEW S, IsFiniteSet(S), NEW x, x \notin S,
           NEW f, f[x] \in Int, \A y \in S : f[y] \in Int
    PROVE IsFiniteSet(S \cup {x}) /\ Sum(f, S \cup {x}) = f[x] + Sum(f, S)
<1>1. IsFiniteSet(S \cup {x})
    BY FS_AddElement
<1>2. (S \cup {x}) \ {x} = S
    OBVIOUS
<1>3. \A y \in S \cup {x} : f[y] \in Int
    OBVIOUS
<1>4. Sum(f, S \cup {x}) = f[x] + Sum(f, (S \cup {x}) \ {x})
    BY <1>1, <1>3, SumRemove
<1> QED
    BY <1>1, <1>2, <1>4

\* A sum of integers that are a combination of others, element by element, is the
\* combination of the sums.
LEMMA SumLinear ==
    ASSUME NEW S, IsFiniteSet(S),
           NEW f, \A x \in S : f[x] \in Int,
           NEW g, \A x \in S : g[x] \in Int,
           NEW m \in Int, NEW n \in Int,
           NEW h, \A x \in S : h[x] = m * f[x] + n * g[x]
    PROVE Sum(h, S) = m * Sum(f, S) + n * Sum(g, S)
<1> DEFINE G == {s \in SUBSET S : Sum(h, s) = m * Sum(f, s) + n * Sum(g, s)}
<1>0. \A x \in S : h[x] \in Int
    OBVIOUS
<1>1. ASSUME NEW s \in SUBSET S, \A u \in SUBSET s : u # s => u \in G
      PROVE s \in G
    <2>0. IsFiniteSet(s)
        BY FS_Subset
    <2>1. CASE s = {}
        <3>1. Sum(h, s) = 0 /\ Sum(f, s) = 0 /\ Sum(g, s) = 0
            BY <1>0, <2>0, <2>1, SumInt
        <3> QED
            BY <3>1
    <2>2. CASE s # {}
        <3>1. PICK x \in s : TRUE
            BY <2>2
        <3> DEFINE u == s \ {x}
        <3>2. u \in G /\ IsFiniteSet(u)
            BY <1>1, <2>0, <3>1, FS_RemoveElement
        <3>3. Sum(f, s) = f[x] + Sum(f, u)
            BY <2>0, SumRemove
        <3>4. Sum(g, s) = g[x] + Sum(g, u)
            BY <2>0, SumRemove
        <3>5. Sum(h, s) = h[x] + Sum(h, u)
            BY <1>0, <2>0, SumRemove
        <3>6. Sum(f, u) \in Int /\ Sum(g, u) \in Int
            BY <3>2, SumInt
        <3>7. Sum(h, u) = m * Sum(f, u) + n * Sum(g, u)
            BY <3>2
        <3>8. f[x] \in Int /\ g[x] \in Int /\ h[x] = m * f[x] + n * g[x]
            OBVIOUS
        <3>9. /\ m * (f[x] + Sum(f, u)) = m * f[x] + m * Sum(f, u)
              /\ n * (g[x] + Sum(g, u)) = n * g[x] + n * Sum(g, u)
              /\ m * f[x] \in Int /\ m * Sum(f, u) \in Int
              /\ n * g[x] \in Int /\ n * Sum(g, u) \in Int
            BY <3>6, <3>8
        <3>10. Sum(h, s) = m * Sum(f, s) + n * Sum(g, s)
            BY <3>3, <3>4, <3>5, <3>7, <3>8, <3>9
        <3> QED
            BY <3>10
    <2> QED
        BY <2>1, <2>2
<1>2. \A s \in SUBSET S : s \in G
    <2> HIDE DEF G
    <2> QED
        BY <1>1, SubsetInduction
<1> QED
    BY <1>2

\* A sum grows with its elements.
LEMMA SumLe ==
    ASSUME NEW S, IsFiniteSet(S),
           NEW f, \A x \in S : f[x] \in Int,
           NEW g, \A x \in S : g[x] \in Int,
           \A x \in S : f[x] <= g[x]
    PROVE Sum(f, S) <= Sum(g, S)
<1> DEFINE G == {s \in SUBSET S : Sum(f, s) <= Sum(g, s)}
<1>1. ASSUME NEW s \in SUBSET S, \A u \in SUBSET s : u # s => u \in G
      PROVE s \in G
    <2>0. IsFiniteSet(s)
        BY FS_Subset
    <2>1. CASE s = {}
        BY <2>0, <2>1, SumInt
    <2>2. CASE s # {}
        <3>1. PICK x \in s : TRUE
            BY <2>2
        <3> DEFINE u == s \ {x}
        <3>2. u \in G /\ IsFiniteSet(u)
            BY <1>1, <2>0, <3>1, FS_RemoveElement
        <3>3. Sum(f, s) = f[x] + Sum(f, u)
            BY <2>0, SumRemove
        <3>4. Sum(g, s) = g[x] + Sum(g, u)
            BY <2>0, SumRemove
        <3>5. Sum(f, u) \in Int /\ Sum(g, u) \in Int
            BY <3>2, SumInt
        <3>6. Sum(f, u) <= Sum(g, u) /\ f[x] \in Int /\ g[x] \in Int /\ f[x] <= g[x]
            BY <3>2
        <3> QED
            BY <3>3, <3>4, <3>5, <3>6
    <2> QED
        BY <2>1, <2>2
<1>2. \A s \in SUBSET S : s \in G
    <2> HIDE DEF G
    <2> QED
        BY <1>1, SubsetInduction
<1> QED
    BY <1>2

\* A sum is known by its elements.
LEMMA SumSame ==
    ASSUME NEW S, IsFiniteSet(S), NEW f, \A x \in S : f[x] \in Int,
           NEW g, \A x \in S : g[x] = f[x]
    PROVE Sum(g, S) = Sum(f, S)
<1>1. \A x \in S : g[x] \in Int /\ f[x] <= g[x] /\ g[x] <= f[x]
    OBVIOUS
<1>2. Sum(f, S) <= Sum(g, S)
    BY <1>1, SumLe
<1>3. Sum(g, S) <= Sum(f, S)
    BY <1>1, SumLe
<1>4. Sum(f, S) \in Int /\ Sum(g, S) \in Int
    BY <1>1, SumInt
<1> QED
    BY <1>2, <1>3, <1>4

\* The sum over a union of disjoint sets.
LEMMA SumUnion ==
    ASSUME NEW S, IsFiniteSet(S), NEW f, \A x \in S : f[x] \in Int, NEW A \in SUBSET S
    PROVE Sum(f, S) = Sum(f, A) + Sum(f, S \ A)
<1> DEFINE G == {s \in SUBSET S : Sum(f, S) = Sum(f, s) + Sum(f, S \ s)}
<1>1. ASSUME NEW s \in SUBSET S, \A u \in SUBSET s : u # s => u \in G
      PROVE s \in G
    <2>0. IsFiniteSet(s) /\ IsFiniteSet(S \ s)
        BY FS_Subset
    <2>1. CASE s = {}
        <3>1. S \ s = S
            BY <2>1
        <3>2. Sum(f, s) = 0 /\ Sum(f, S) \in Int
            BY <2>0, <2>1, SumInt
        <3>3. Sum(f, S \ s) = Sum(f, S)
            BY <3>1
        <3>4. Sum(f, S) = Sum(f, s) + Sum(f, S \ s)
            BY <3>2, <3>3
        <3> QED
            BY <3>4
    <2>2. CASE s # {}
        <3>1. PICK x \in s : TRUE
            BY <2>2
        <3> DEFINE u == s \ {x}
        <3> DEFINE v == S \ u
        <3>2. u \in G /\ IsFiniteSet(u) /\ IsFiniteSet(v) /\ x \in v
            BY <1>1, <2>0, <3>1, FS_RemoveElement, FS_Subset
        <3>3. Sum(f, s) = f[x] + Sum(f, u)
            BY <2>0, SumRemove
        <3>4. Sum(f, v) = f[x] + Sum(f, v \ {x})
            BY <3>2, SumRemove
        <3>5. v \ {x} = S \ s
            OBVIOUS
        <3>6. Sum(f, S) = Sum(f, u) + Sum(f, v)
            BY <3>2
        <3>7. f[x] \in Int /\ Sum(f, u) \in Int /\ Sum(f, S \ s) \in Int
            BY <2>0, <3>2, SumInt
        <3> HIDE DEF u, v
        <3>8. Sum(f, v) = f[x] + Sum(f, S \ s)
            BY <3>4, <3>5
        <3>9. Sum(f, S) = Sum(f, s) + Sum(f, S \ s)
            BY <3>3, <3>6, <3>7, <3>8
        <3> QED
            BY <3>9
    <2> QED
        BY <2>1, <2>2
<1>2. \A s \in SUBSET S : s \in G
    <2> HIDE DEF G
    <2> QED
        BY <1>1, SubsetInduction
<1> QED
    BY <1>2

\* The sum of a constant.
LEMMA SumConstant ==
    ASSUME NEW S, IsFiniteSet(S), NEW n \in Int, NEW f, \A x \in S : f[x] = n
    PROVE Sum(f, S) = n * Cardinality(S)
<1> DEFINE G == {s \in SUBSET S : Sum(f, s) = n * Cardinality(s)}
<1>1. ASSUME NEW s \in SUBSET S, \A u \in SUBSET s : u # s => u \in G
      PROVE s \in G
    <2>0. IsFiniteSet(s)
        BY FS_Subset
    <2>1. CASE s = {}
        <3>1. Sum(f, s) = 0 /\ Cardinality(s) = 0
            BY <2>0, <2>1, SumInt, FS_EmptySet
        <3> QED
            BY <3>1
    <2>2. CASE s # {}
        <3>1. PICK x \in s : TRUE
            BY <2>2
        <3> DEFINE u == s \ {x}
        <3>2. u \in G /\ IsFiniteSet(u) /\ Cardinality(u) = Cardinality(s) - 1
            BY <1>1, <2>0, <3>1, FS_RemoveElement
        <3>3. Sum(f, s) = f[x] + Sum(f, u)
            BY <2>0, SumRemove
        <3>4. Cardinality(s) \in Nat /\ f[x] = n /\ Sum(f, u) = n * Cardinality(u)
            BY <2>0, <3>2, FS_CardinalityType
        <3>5. n * (Cardinality(s) - 1) = n * Cardinality(s) - n /\ n * Cardinality(s) \in Int
            BY <3>4
        <3>6. Sum(f, s) = n * Cardinality(s)
            BY <3>2, <3>3, <3>4, <3>5
        <3> QED
            BY <3>6
    <2> QED
        BY <2>1, <2>2
<1>2. \A s \in SUBSET S : s \in G
    <2> HIDE DEF G
    <2> QED
        BY <1>1, SubsetInduction
<1> QED
    BY <1>2

\* Counting is summing ones.
LEMMA SumCount ==
    ASSUME NEW S, IsFiniteSet(S), NEW A \in SUBSET S,
           NEW f, \A x \in S : f[x] = IF x \in A THEN 1 ELSE 0
    PROVE Sum(f, S) = Cardinality(A)
<1>1. IsFiniteSet(A) /\ IsFiniteSet(S \ A) /\ \A x \in S : f[x] \in Int
    BY FS_Subset
<1>2. Sum(f, S) = Sum(f, A) + Sum(f, S \ A)
    BY <1>1, SumUnion
<1>3. Sum(f, A) = 1 * Cardinality(A)
    BY <1>1, SumConstant
<1>4. Sum(f, S \ A) = 0 * Cardinality(S \ A)
    BY <1>1, SumConstant
<1>5. Cardinality(A) \in Nat /\ Cardinality(S \ A) \in Nat
    BY <1>1, FS_CardinalityType
<1> QED
    BY <1>2, <1>3, <1>4, <1>5

-----------------------------------------------------------------------------
(* The types of the model *)

\* The registers of the cores, of the sockets, and a state read of both.
CoreFiles == [Cores -> [CoreRegs -> Nat]]
UncoreFiles == [Sockets -> [UncoreRegs -> Nat]]
States == [core : CoreFiles, uncore : UncoreFiles]

\* What a disturbed read may have taken early.
EarlyType ==
    {p \in [cores : SUBSET Cores, regs : SUBSET CoreRegs, uncore : SUBSET UncoreRegs] :
        /\ "InstRetiredAny" \notin p.regs /\ \A r, s \in p.regs : r = s
        /\ p.uncore = UncoreRegs \/ \A r, s \in p.uncore : r = s}

\* The state is well typed.
TypeOK ==
    /\ mode \in {"DEFAULT_EVENTS", "CUSTOM_CORE_EVENTS"}
    /\ Atom => mode = "DEFAULT_EVENTS"
    /\ online \in SUBSET Cores /\ \A s \in Sockets : \E c \in online : SocketOf[c] = s
    /\ early \in EarlyType
    /\ core \in CoreFiles /\ uncore \in UncoreFiles
    /\ pc \in {"idle", "before", "run", "after", "done"}
    /\ before \in States /\ after \in States
    /\ did \in [Cores -> [Activities -> Nat]]
    /\ still \in BOOLEAN
    /\ ticks \in 0..MaxTicks

\* The numbers and sets of the instance.
LEMMA Instance ==
    /\ IsFiniteSet(Cores) /\ Cardinality(Cores) \in Nat
    /\ IsFiniteSet(Sockets) /\ Cardinality(Sockets) = 2
    /\ SocketOf \in [Cores -> Sockets]
    /\ MaxTicks \in Nat /\ MaxTicks >= 1 /\ NominalFrequency \in Nat /\ NominalFrequency >= 1
    /\ LinkSpeed \in Nat /\ LinkSpeed >= 1 /\ LinkFlits \in Nat /\ LinkFlits >= 9
    /\ Modulus \in Nat /\ Modulus > 0
    /\ Modulus > 64 * (MaxTicks * Cardinality(Cores))
    /\ ThreadsPerCore \in Nat /\ ThreadsPerCore >= 1
<1>1. /\ IsFiniteSet(Cores) /\ IsFiniteSet(Sockets) /\ Cardinality(Sockets) = 2
      /\ SocketOf \in [Cores -> Sockets]
    BY TopologyAssumption
<1>2. Cardinality(Cores) \in Nat
    BY <1>1, FS_CardinalityType
<1>3. /\ MaxTicks \in Nat /\ MaxTicks >= 1 /\ NominalFrequency \in Nat
      /\ NominalFrequency >= 1 /\ LinkSpeed \in Nat /\ LinkSpeed >= 1
      /\ ThreadsPerCore \in Nat /\ ThreadsPerCore >= 1
      /\ LinkFlits \in Nat /\ LinkFlits >= 9
      /\ Modulus \in Nat /\ Modulus > 64 * MaxTicks * Cardinality(Cores)
    BY NumbersAssumption
<1>4. /\ 64 * MaxTicks * Cardinality(Cores) = 64 * (MaxTicks * Cardinality(Cores))
      /\ MaxTicks * Cardinality(Cores) >= 0 /\ MaxTicks * Cardinality(Cores) \in Int
    BY <1>2, <1>3
<1> QED
    BY <1>1, <1>2, <1>3, <1>4

\* A core advances its registers by 0, 1 or 2.
LEMMA CoreGainType ==
    ASSUME NEW a \in Activities
    PROVE /\ CoreGain(a) \in [CoreRegs -> 0..2]
<1>1. ASSUME NEW r \in CoreRegs PROVE CoreGain(a)[r] \in 0..2
    BY <1>1 DEF CoreGain
<1> QED
    BY <1>1 DEF CoreGain

\* What the cores that are online may do in a tick.
MayAct(act) == act \in [online -> Activities] /\ \A c \in online : act[c] \in Doable(c)

\* In a tick at most one core of a socket misses.
LEMMA OneMiss ==
    ASSUME NEW act, MayAct(act), online \in SUBSET Cores, NEW o \in Sockets
    PROVE Cardinality({c \in online : SocketOf[c] = o /\ act[c] = "miss"}) \in 0..1
<1> DEFINE D == {c \in online : SocketOf[c] = o /\ act[c] = "miss"}
<1> DEFINE M == {c \in Cores : SocketOf[c] = o /\ "miss" \in MayDo[c]}
<1>1. D \in SUBSET M
    <2>1. ASSUME NEW c \in D PROVE c \in M
        <3>1. act[c] \in Doable(c) /\ act[c] = "miss" /\ c \in Cores /\ SocketOf[c] = o
            BY <2>1 DEF MayAct
        <3> QED
            BY <3>1 DEF Doable
    <2> QED
        BY <2>1
<1>2. M \in SUBSET Cores /\ Cardinality(M) <= 1
    BY TopologyAssumption
<1>3. IsFiniteSet(M)
    BY <1>2, Instance, FS_Subset
<1>4. IsFiniteSet(D) /\ Cardinality(D) <= Cardinality(M)
    BY <1>1, <1>3, FS_Subset
<1>5. Cardinality(D) \in Nat /\ Cardinality(M) \in Nat
    BY <1>3, <1>4, FS_CardinalityType
<1> HIDE DEF D, M
<1>6. Cardinality(D) \in 0..1
    BY <1>2, <1>4, <1>5
<1> QED
    BY <1>6 DEF D

\* The cores that are not of socket k are of the other one.
LEMMA OtherSocket ==
    ASSUME NEW k \in Sockets
    PROVE \E o \in Sockets : \A c \in Cores : SocketOf[c] # k <=> SocketOf[c] = o
<1>1. IsFiniteSet(Sockets) /\ Cardinality(Sockets) = 2 /\ \A c \in Cores : SocketOf[c] \in Sockets
    BY Instance
<1>2. IsFiniteSet(Sockets \ {k}) /\ Cardinality(Sockets \ {k}) = 1
    BY <1>1, FS_RemoveElement
<1>3. PICK o : Sockets \ {k} = {o}
    BY <1>2, FS_Singleton
<1> QED
    BY <1>1, <1>3

\* In a tick at most one line is served from a socket.
LEMMA OneServed ==
    ASSUME NEW act, MayAct(act), online \in SUBSET Cores, NEW k \in Sockets
    PROVE Cardinality({c \in online : SocketOf[c] # k /\ act[c] = "miss"}) \in 0..1
<1>1. PICK o \in Sockets : \A c \in Cores : SocketOf[c] # k <=> SocketOf[c] = o
    BY OtherSocket
<1>2. {c \in online : SocketOf[c] # k /\ act[c] = "miss"}
        = {c \in online : SocketOf[c] = o /\ act[c] = "miss"}
    BY <1>1
<1> QED
    BY <1>2, OneMiss

\* A socket advances its registers by numbers: its link sends at most nine flits.
LEMMA UncoreGainType ==
    ASSUME NEW act, MayAct(act), online \in SUBSET Cores, NEW s \in Sockets
    PROVE UncoreGain(act, s) \in [UncoreRegs -> Nat]
<1> DEFINE Here(a) == Cardinality({c \in online : SocketOf[c] = s /\ act[c] = a})
<1> DEFINE served == Cardinality({c \in online : SocketOf[c] # s /\ act[c] = "miss"})
<1>0. DOMAIN act = online
    BY DEF MayAct
<1>1. \A D \in SUBSET online : Cardinality(D) \in Nat
    <2>1. ASSUME NEW D \in SUBSET online PROVE Cardinality(D) \in Nat
        <3>1. D \in SUBSET Cores
            OBVIOUS
        <3>2. IsFiniteSet(D)
            BY <3>1, Instance, FS_Subset
        <3> QED
            BY <3>2, FS_CardinalityType
    <2> QED
        BY <2>1
<1>2. \A a : Here(a) \in Nat
    BY <1>1
<1>3. served \in 0..1 /\ Here("miss") \in 0..1
    BY OneServed, OneMiss
<1> DEFINE sent == 8 * served + Here("miss")
<1> HIDE DEF Here, served
<1>4. sent \in Nat /\ LinkFlits - sent \in Nat /\ LinkFlits \in Nat
    BY <1>3, Instance
<1>5. ASSUME NEW r \in UncoreRegs PROVE UncoreGain(act, s)[r] \in Nat
    <2>1. UncoreGain(act, s)[r] =
            CASE r = "UncMCFullWrites" -> Here("l2m")
              [] r = "UncMCNormalReads" -> served
              [] r = "UncMCIORequests" -> Here("halt")
              [] r = "DRAMEnergyStatus" -> served + Here("l2m")
              [] r = "incomingQPIPackets" -> Here("miss")
              [] r = "outgoingQPIDataNonDataFlits" -> sent
              [] r = "outgoingQPIIdleFlits" -> LinkFlits - sent
              [] r = "uncoreTSC" -> LinkFlits
              [] r = "QPIL0pTxCycles" -> IF served = 0 THEN 1 ELSE 0
              [] OTHER -> 1
        BY <1>0 DEF UncoreGain, Here, served, sent
    <2> HIDE DEF sent
    <2> QED
        BY <1>2, <1>3, <1>4, <2>1
<1> QED
    BY <1>5 DEF UncoreGain

-----------------------------------------------------------------------------
(* What a tick does and what a read gives *)

\* What the registers of a core gain when it does a.
LEMMA GainTable ==
    ASSUME NEW a \in Activities
    PROVE /\ CoreGain(a)["InvariantTSC"] = 1
          /\ CoreGain(a)["CpuClkUnhaltedThread"] =
                IF a = "l2" THEN 2 ELSE IF a \in Accesses THEN 1 ELSE 0
          /\ CoreGain(a)["InstRetiredAny"] = IF a \in Accesses THEN 1 ELSE 0
          /\ CoreGain(a)["CpuClkUnhaltedRef"] = IF a \in Accesses THEN 1 ELSE 0
          /\ CoreGain(a)["CState3"] = IF a = "sleep" THEN 1 ELSE 0
          /\ CoreGain(a)["CState2"] = 0
          /\ CoreGain(a)["Event0"] = IF a \in EventSet(0) THEN 1 ELSE 0
          /\ CoreGain(a)["Event1"] = IF a \in EventSet(1) THEN 1 ELSE 0
          /\ CoreGain(a)["Event2"] = IF a \in EventSet(2) THEN 1 ELSE 0
          /\ CoreGain(a)["Event3"] = IF a \in EventSet(3) THEN 1 ELSE 0
<1> DEFINE Hit(r) == \E i \in 0..3 : r = <<"Event0", "Event1", "Event2", "Event3">>[i + 1]
                                     /\ a \in EventSet(i)
<1>1. /\ Hit("Event0") <=> a \in EventSet(0)
      /\ Hit("Event1") <=> a \in EventSet(1)
      /\ Hit("Event2") <=> a \in EventSet(2)
      /\ Hit("Event3") <=> a \in EventSet(3)
    <2>1. \A i \in 0..3 : i = 0 \/ i = 1 \/ i = 2 \/ i = 3
        OBVIOUS
    <2>2. /\ <<"Event0", "Event1", "Event2", "Event3">>[0 + 1] = "Event0"
          /\ <<"Event0", "Event1", "Event2", "Event3">>[1 + 1] = "Event1"
          /\ <<"Event0", "Event1", "Event2", "Event3">>[2 + 1] = "Event2"
          /\ <<"Event0", "Event1", "Event2", "Event3">>[3 + 1] = "Event3"
        OBVIOUS
    <2>3. 0 \in 0..3 /\ 1 \in 0..3 /\ 2 \in 0..3 /\ 3 \in 0..3
        OBVIOUS
    <2>4. "Event0" # "Event1" /\ "Event0" # "Event2" /\ "Event0" # "Event3"
          /\ "Event1" # "Event2" /\ "Event1" # "Event3" /\ "Event2" # "Event3"
        OBVIOUS
    <2>5. Hit("Event0") <=> a \in EventSet(0)
        BY <2>1, <2>2, <2>3, <2>4
    <2>6. Hit("Event1") <=> a \in EventSet(1)
        BY <2>1, <2>2, <2>3, <2>4
    <2>7. Hit("Event2") <=> a \in EventSet(2)
        BY <2>1, <2>2, <2>3, <2>4
    <2>8. Hit("Event3") <=> a \in EventSet(3)
        BY <2>1, <2>2, <2>3, <2>4
    <2> QED
        BY <2>5, <2>6, <2>7, <2>8
<1>2. \A r \in CoreRegs : CoreGain(a)[r] =
    CASE r = "InvariantTSC" -> 1
      [] r = "CpuClkUnhaltedThread" -> IF a = "l2" THEN 2 ELSE IF a \in Accesses THEN 1 ELSE 0
      [] r \in {"InstRetiredAny", "CpuClkUnhaltedRef"} -> IF a \in Accesses THEN 1 ELSE 0
      [] r = "CState3" -> IF a = "sleep" THEN 1 ELSE 0
      [] r = "CState2" -> 0
      [] OTHER -> IF Hit(r) THEN 1 ELSE 0
    BY DEF CoreGain
<1> HIDE DEF Hit
<1>3. {"InstRetiredAny", "CpuClkUnhaltedThread", "CpuClkUnhaltedRef", "Event0",
       "Event1", "Event2", "Event3", "InvariantTSC", "CState2", "CState3"} = CoreRegs
    BY DEF CoreRegs
<1> QED
    BY <1>1, <1>2, <1>3

\* What the programmable counters count.
LEMMA EventTable ==
    /\ mode = "CUSTOM_CORE_EVENTS" =>
        /\ EventSet(0) = Accesses /\ EventSet(1) = {"l1"}
        /\ EventSet(2) = {"l2"} /\ EventSet(3) = {"l3"}
    /\ mode = "DEFAULT_EVENTS" /\ Atom =>
        /\ EventSet(0) = {"l3", "l2m", "miss"} /\ EventSet(1) = Accesses \ {"l1"}
        /\ EventSet(2) = {} /\ EventSet(3) = {}
    /\ mode = "DEFAULT_EVENTS" /\ ~Atom =>
        /\ EventSet(0) = {"miss"} /\ EventSet(1) = {"l3"}
        /\ EventSet(2) = {"l2m"} /\ EventSet(3) = {"l2"}
<1>1. CASE mode = "CUSTOM_CORE_EVENTS"
    BY <1>1 DEF EventSet
<1>2. CASE mode = "DEFAULT_EVENTS" /\ Atom
    BY <1>2 DEF EventSet, Atom
<1>3. CASE mode = "DEFAULT_EVENTS" /\ ~Atom
    BY <1>3 DEF EventSet, Atom
<1> QED
    BY <1>1, <1>2, <1>3

\* The conjuncts of a tick in which the cores do act.
TickOf(act) ==
    /\ act \in [online -> Activities] /\ \A c \in online : act[c] \in Doable(c)
    /\ core' = [c \in Cores |->
                  IF c \in online THEN Plus(core[c], CoreGain(act[c])) ELSE core[c]]
    /\ uncore' = [s \in Sockets |-> Plus(uncore[s], UncoreGain(act, s))]
    /\ did' = [c \in Cores |-> [a \in Activities |->
                  did[c][a] + IF c \in online /\ act[c] = a THEN 1 ELSE 0]]

\* What a tick leaves alone.
TickFrame ==
    /\ pc \in {"before", "run", "after"} /\ ticks < MaxTicks
    /\ still' = (still /\ pc = "run")
    /\ early' \in IF still /\ pc # "run" THEN Parts ELSE {early}
    /\ ticks' = ticks + 1
    /\ UNCHANGED <<config, pc, before, after>>

\* A tick is a choice of activities and leaves the rest alone.
LEMMA TickParts ==
    ASSUME Tick
    PROVE TickFrame /\ \E act : TickOf(act)
BY DEF Tick, TickFrame, TickOf

\* What a tick does to a register.
LEMMA TickEffect ==
    ASSUME TypeOK, NEW act, TickOf(act)
    PROVE /\ act \in [online -> Activities]
          /\ core' \in CoreFiles /\ uncore' \in UncoreFiles
          /\ did' \in [Cores -> [Activities -> Nat]]
          /\ \A c \in Cores : \A r \in CoreRegs :
                core'[c][r] = core[c][r] + IF c \in online THEN CoreGain(act[c])[r] ELSE 0
          /\ \A c \in online : \A r \in CoreRegs : CoreGain(act[c])[r] \in 0..2
          /\ \A k \in Sockets : \A r \in UncoreRegs :
                /\ uncore'[k][r] = uncore[k][r] + UncoreGain(act, k)[r]
                /\ UncoreGain(act, k)[r] \in Nat
          /\ \A c \in Cores : \A a \in Activities :
                did'[c][a] = did[c][a] + IF c \in online /\ act[c] = a THEN 1 ELSE 0
<1>1. act \in [online -> Activities]
    BY DEF TickOf
<1>2. core \in CoreFiles /\ uncore \in UncoreFiles /\ did \in [Cores -> [Activities -> Nat]]
      /\ online \in SUBSET Cores
    BY DEF TypeOK
<1>3. \A c \in online : CoreGain(act[c]) \in [CoreRegs -> 0..2]
    BY <1>1, CoreGainType
<1>4. \A k \in Sockets : UncoreGain(act, k) \in [UncoreRegs -> Nat]
    <2>1. MayAct(act)
        BY DEF MayAct, TickOf
    <2> QED
        BY <1>2, <2>1, UncoreGainType
<1>5. \A c \in Cores : \A r \in CoreRegs :
                core'[c][r] = core[c][r] + IF c \in online THEN CoreGain(act[c])[r] ELSE 0
    <2>1. ASSUME NEW c \in Cores, NEW r \in CoreRegs
          PROVE core'[c][r] = core[c][r] + IF c \in online THEN CoreGain(act[c])[r] ELSE 0
        <3>1. core[c] \in [CoreRegs -> Nat] /\ DOMAIN core[c] = CoreRegs /\ core[c][r] \in Nat
            BY <1>2 DEF CoreFiles
        <3>2. core'[c] = IF c \in online THEN Plus(core[c], CoreGain(act[c])) ELSE core[c]
            BY DEF TickOf
        <3>3. CASE c \in online
            <4>1. core'[c][r] = Plus(core[c], CoreGain(act[c]))[r]
                BY <3>2, <3>3
            <4>2. Plus(core[c], CoreGain(act[c]))[r] = core[c][r] + CoreGain(act[c])[r]
                BY <3>1 DEF Plus
            <4> QED
                BY <4>1, <4>2, <3>3
        <3>4. CASE c \notin online
            BY <3>1, <3>2, <3>4
        <3> QED
            BY <3>3, <3>4
    <2> QED
        BY <2>1
<1>6. \A k \in Sockets : \A r \in UncoreRegs :
                uncore'[k][r] = uncore[k][r] + UncoreGain(act, k)[r]
    <2>1. ASSUME NEW k \in Sockets, NEW r \in UncoreRegs
          PROVE uncore'[k][r] = uncore[k][r] + UncoreGain(act, k)[r]
        <3>1. DOMAIN uncore[k] = UncoreRegs
            BY <1>2 DEF UncoreFiles
        <3>2. uncore'[k] = Plus(uncore[k], UncoreGain(act, k))
            BY DEF TickOf
        <3> QED
            BY <3>1, <3>2 DEF Plus
    <2> QED
        BY <2>1
<1>7. core' \in CoreFiles
    <2>1. ASSUME NEW c \in Cores PROVE core'[c] \in [CoreRegs -> Nat]
        <3>1. core[c] \in [CoreRegs -> Nat] /\ DOMAIN core[c] = CoreRegs
            BY <1>2 DEF CoreFiles
        <3>2. core'[c] = IF c \in online THEN Plus(core[c], CoreGain(act[c])) ELSE core[c]
            BY DEF TickOf
        <3>3. CASE c \in online
            <4>1. core'[c] = [r \in CoreRegs |-> core[c][r] + CoreGain(act[c])[r]]
                BY <3>1, <3>2, <3>3 DEF Plus
            <4>2. \A r \in CoreRegs : core[c][r] \in Nat /\ CoreGain(act[c])[r] \in Nat
                BY <3>1, <1>3, <3>3
            <4> QED
                BY <4>1, <4>2
        <3>4. CASE c \notin online
            BY <3>1, <3>2, <3>4
        <3> QED
            BY <3>3, <3>4
    <2> QED
        BY <2>1 DEF TickOf, CoreFiles
<1>8. uncore' \in UncoreFiles
    <2>1. ASSUME NEW k \in Sockets PROVE uncore'[k] \in [UncoreRegs -> Nat]
        <3>1. uncore[k] \in [UncoreRegs -> Nat] /\ DOMAIN uncore[k] = UncoreRegs
            BY <1>2 DEF UncoreFiles
        <3>2. uncore'[k] = [r \in UncoreRegs |-> uncore[k][r] + UncoreGain(act, k)[r]]
            BY <3>1 DEF TickOf, Plus
        <3>3. \A r \in UncoreRegs : uncore[k][r] \in Nat /\ UncoreGain(act, k)[r] \in Nat
            BY <3>1, <1>4
        <3> QED
            BY <3>2, <3>3
    <2> QED
        BY <2>1 DEF TickOf, UncoreFiles
<1>9. /\ did' \in [Cores -> [Activities -> Nat]]
      /\ \A c \in Cores : \A a \in Activities :
                did'[c][a] = did[c][a] + IF c \in online /\ act[c] = a THEN 1 ELSE 0
    BY <1>2 DEF TickOf
<1> QED
    BY <1>1, <1>3, <1>4, <1>5, <1>6, <1>7, <1>8, <1>9

\* A read gives a state, whole or disturbed.
LEMMA ReadType ==
    ASSUME TypeOK
    PROVE /\ Snapshot \in States
          /\ \A c \in Cores : SafeRead(c) \in [CoreRegs -> Nat]
          /\ \A old \in States : Completed(old) \in States
<1>1. core \in CoreFiles /\ uncore \in UncoreFiles
    BY DEF TypeOK
<1>2. ASSUME NEW c \in Cores PROVE SafeRead(c) \in [CoreRegs -> Nat]
    BY <1>1 DEF SafeRead, CoreFiles
<1>3. Snapshot \in States
    BY <1>1, <1>2 DEF Snapshot, States, CoreFiles
<1>4. ASSUME NEW old \in States PROVE Completed(old) \in States
    <2>1. old.core \in CoreFiles /\ old.uncore \in UncoreFiles
        BY DEF States
    <2> DEFINE mix == [c \in Cores |-> [r \in CoreRegs |->
                       IF c \in early.cores \/ r \in early.regs THEN old.core[c][r]
                       ELSE SafeRead(c)[r]]]
    <2>2. mix \in CoreFiles
        BY <1>2, <2>1 DEF CoreFiles
    <2> DEFINE unc == [k \in Sockets |-> [r \in UncoreRegs |->
                       IF r \in early.uncore THEN old.uncore[k][r] ELSE uncore[k][r]]]
    <2>3. unc \in UncoreFiles
        BY <1>1, <2>1 DEF UncoreFiles
    <2>4. Completed(old) = IF still THEN Snapshot ELSE [core |-> mix, uncore |-> unc]
        BY DEF Completed
    <2> HIDE DEF mix, unc
    <2> QED
        BY <1>3, <2>2, <2>3, <2>4 DEF States
<1> QED
    BY <1>2, <1>3, <1>4

-----------------------------------------------------------------------------
(* The type invariant, the bounds and the order of the reads *)

\* The initial states are well typed.
LEMMA TypeInit == Init => TypeOK
<1> SUFFICES ASSUME Init PROVE TypeOK
    OBVIOUS
<1>1. /\ core \in CoreFiles /\ uncore \in UncoreFiles
      /\ core = [c \in Cores |-> [r \in CoreRegs |-> 1]]
    BY DEF Init, CoreFiles, UncoreFiles
<1>2. \A c \in Cores : SafeRead(c) \in [CoreRegs -> Nat]
    BY <1>1 DEF SafeRead, CoreFiles
<1>3. Snapshot \in States
    BY <1>1, <1>2 DEF Snapshot, States, CoreFiles
<1>4. before \in States /\ after \in States
    BY <1>3 DEF Init
<1>5. did \in [Cores -> [Activities -> Nat]]
    BY DEF Init
<1>6. ticks \in 0..MaxTicks
    BY Instance DEF Init
<1>7. early \in EarlyType
    BY DEF Init, EarlyType
<1> QED
    BY <1>1, <1>4, <1>5, <1>6, <1>7 DEF Init, TypeOK, Atom

\* A disturbed read takes part of the cores, or at most one register of them, or
\* all or one of the registers of the sockets early.
LEMMA PartsType == Parts \subseteq EarlyType
<1> SUFFICES ASSUME NEW p \in Parts PROVE p \in EarlyType
    OBVIOUS
<1> DEFINE Part(cores, regs, unc) == [cores |-> cores, regs |-> regs, uncore |-> unc]
<1>1. CASE \E C \in SUBSET Cores, u \in {{}, UncoreRegs} : p = Part(C, {}, u)
    <2>1. PICK C \in SUBSET Cores, u \in {{}, UncoreRegs} : p = Part(C, {}, u)
        BY <1>1
    <2>2. {} \in SUBSET CoreRegs /\ u \in SUBSET UncoreRegs
        OBVIOUS
    <2>3. u = UncoreRegs \/ \A r, s \in u : r = s
        OBVIOUS
    <2> QED
        BY <2>1, <2>2, <2>3 DEF EarlyType
<1>2. CASE \E r \in {"InvariantTSC", "CpuClkUnhaltedRef", "Event0", "Event1", "CState3"} :
              p = Part({}, {r}, {})
    <2>1. PICK r \in {"InvariantTSC", "CpuClkUnhaltedRef", "Event0", "Event1", "CState3"} :
              p = Part({}, {r}, {})
        BY <1>2
    <2>2. {r} \in SUBSET CoreRegs /\ "InstRetiredAny" \notin {r} /\ {} \in SUBSET Cores
        BY DEF CoreRegs
    <2>3. {} \in SUBSET UncoreRegs /\ \A x, y \in {} : x = y
        OBVIOUS
    <2> QED
        BY <2>1, <2>2, <2>3 DEF EarlyType
<1>3. CASE \E r \in UncoreRegs : p = Part({}, {}, {r})
    <2>1. PICK r \in UncoreRegs : p = Part({}, {}, {r})
        BY <1>3
    <2>2. {r} \in SUBSET UncoreRegs /\ {} \in SUBSET Cores /\ {} \in SUBSET CoreRegs
        OBVIOUS
    <2> QED
        BY <2>1, <2>2 DEF EarlyType
<1>4. {} \in SUBSET Cores /\ Cores \in SUBSET Cores /\ \A c \in Cores : {c} \in SUBSET Cores
    OBVIOUS
<1>5. {"outgoingQPIIdleFlits", "uncoreTSC", "QPIClocks", "QPIL0pTxCycles"} \subseteq UncoreRegs
    BY DEF UncoreRegs
<1>6. \/ p \in {Part(Cores, {}, {}), Part({}, {}, UncoreRegs)}
      \/ \E c \in Cores : p = Part({c}, {}, {})
      \/ \E r \in {"InvariantTSC", "CpuClkUnhaltedRef", "Event0", "Event1", "CState3"} :
            p = Part({}, {r}, {})
      \/ \E r \in {"outgoingQPIIdleFlits", "uncoreTSC", "QPIClocks", "QPIL0pTxCycles"} :
            p = Part({}, {}, {r})
    BY DEF Parts
<1> HIDE DEF Part
<1>7. CASE p \in {Part(Cores, {}, {}), Part({}, {}, UncoreRegs)}
    BY <1>1, <1>4, <1>7
<1>8. CASE \E c \in Cores : p = Part({c}, {}, {})
    BY <1>1, <1>4, <1>8
<1> QED
    BY <1>2, <1>3, <1>5, <1>6, <1>7, <1>8

\* Every step keeps the types.
LEMMA TypeStep == TypeOK /\ [Next]_vars => TypeOK'
<1> SUFFICES ASSUME TypeOK, [Next]_vars PROVE TypeOK'
    OBVIOUS
<1>0. Snapshot \in States /\ \A old \in States : Completed(old) \in States
    BY ReadType
<1>1. CASE Tick
    <2>1. TickFrame
        BY <1>1, TickParts
    <2>2. PICK act : TickOf(act)
        BY <1>1, TickParts
    <2>3. core' \in CoreFiles /\ uncore' \in UncoreFiles
          /\ did' \in [Cores -> [Activities -> Nat]]
        BY <2>2, TickEffect
    <2>4. early' \in EarlyType
        BY <2>1, PartsType DEF TickFrame, TypeOK
    <2>5. ticks' \in 0..MaxTicks /\ still' \in BOOLEAN
        BY <2>1, Instance DEF TickFrame, TypeOK
    <2>6. UNCHANGED <<cpu_model, mode, online, pc, before, after>>
        BY <2>1 DEF TickFrame, config
    <2> QED
        BY <2>3, <2>4, <2>5, <2>6 DEF TypeOK, Atom, CoreFiles, UncoreFiles, States
<1>2. CASE BeginRead
    BY <1>0, <1>2 DEF BeginRead, config, TypeOK, Atom
<1>3. CASE EndRead
    <2>1. Completed(before) \in States /\ Completed(after) \in States
        BY <1>0 DEF TypeOK
    <2>2. [c \in Cores |-> [a \in Activities |-> 0]] \in [Cores -> [Activities -> Nat]]
        OBVIOUS
    <2> QED
        BY <1>3, <2>1, <2>2 DEF EndRead, config, TypeOK, Atom
<1>4. CASE UNCHANGED vars
    BY <1>4 DEF vars, config, TypeOK, Atom
<1> QED
    BY <1>1, <1>2, <1>3, <1>4 DEF Next, Measured

-----------------------------------------------------------------------------
(* Bounds *)

\* The counts of the registers are bounded by the number of ticks.
BoundInv ==
    /\ \A c \in Cores : \A r \in CoreRegs : core[c][r] <= 1 + 2 * ticks
    /\ \A k \in Sockets : \A r \in {"QPIClocks", "QPIL0pTxCycles"} : uncore[k][r] <= 1 + ticks

\* A link is idle in a tick or not, and its clock always advances.
LEMMA LinkGain ==
    ASSUME NEW act, NEW k \in Sockets
    PROVE /\ UncoreGain(act, k)["QPIClocks"] = 1
          /\ UncoreGain(act, k)["QPIL0pTxCycles"] \in 0..1
BY DEF UncoreGain, UncoreRegs

\* The bounds hold initially.
LEMMA BoundInit == Init => BoundInv
BY DEF Init, BoundInv, UncoreRegs

\* Every step keeps the bounds.
LEMMA BoundStep == TypeOK /\ BoundInv /\ [Next]_vars => BoundInv'
<1> SUFFICES ASSUME TypeOK, BoundInv, [Next]_vars PROVE BoundInv'
    OBVIOUS
<1>1. CASE Tick
    <2>1. TickFrame
        BY <1>1, TickParts
    <2>2. PICK act : TickOf(act)
        BY <1>1, TickParts
    <2>3. ticks' = ticks + 1 /\ ticks \in Nat
        BY <2>1 DEF TickFrame, TypeOK
    <2>4. ASSUME NEW c \in Cores, NEW r \in CoreRegs PROVE core'[c][r] <= 1 + 2 * ticks'
        <3>1. core'[c][r] = core[c][r] + IF c \in online THEN CoreGain(act[c])[r] ELSE 0
            BY <2>2, TickEffect
        <3>2. c \in online => CoreGain(act[c])[r] \in 0..2
            BY <2>2, TickEffect
        <3>3. core[c][r] \in Nat /\ core[c][r] <= 1 + 2 * ticks
            BY DEF BoundInv, TypeOK, CoreFiles
        <3> DEFINE g == CoreGain(act[c])[r]
        <3> HIDE DEF g
        <3>4. CASE c \in online
            <4>1. core'[c][r] = core[c][r] + g /\ g \in 0..2
                BY <3>1, <3>2, <3>4 DEF g
            <4> QED
                BY <4>1, <3>3, <2>3
        <3>5. CASE c \notin online
            <4>1. core'[c][r] = core[c][r] + 0
                BY <3>1, <3>5
            <4> QED
                BY <4>1, <3>3, <2>3
        <3> QED
            BY <3>4, <3>5
    <2>5. ASSUME NEW k \in Sockets, NEW r \in {"QPIClocks", "QPIL0pTxCycles"}
          PROVE uncore'[k][r] <= 1 + ticks'
        <3>0. r \in UncoreRegs
            BY DEF UncoreRegs
        <3> DEFINE g == UncoreGain(act, k)[r]
        <3> HIDE DEF g
        <3>1. uncore'[k][r] = uncore[k][r] + g
            BY <2>2, <3>0, TickEffect DEF g
        <3>2. g \in 0..1
            BY LinkGain DEF g
        <3>3. uncore[k][r] \in Nat /\ uncore[k][r] <= 1 + ticks
            BY <3>0 DEF BoundInv, TypeOK, UncoreFiles
        <3> QED
            BY <3>1, <3>2, <3>3, <2>3
    <2> QED
        BY <2>4, <2>5 DEF BoundInv
<1>2. CASE UNCHANGED <<core, uncore, ticks>>
    BY <1>2 DEF BoundInv
<1> QED
    BY <1>1, <1>2 DEF Next, BeginRead, EndRead, Measured, vars

-----------------------------------------------------------------------------
(* The order of the reads *)

\* Registers of which the second never advances without the first: on an Atom
\* references and misses, instructions and references; on every model the time
\* and the time in C0 and in C3.
AtomPairs == {<<"Event1", "Event0">>, <<"InstRetiredAny", "Event1">>}
TimePairs == {<<"InvariantTSC", "CpuClkUnhaltedRef">>, <<"InvariantTSC", "CState3">>}
Pairs == AtomPairs \cup TimePairs

\* The pairs of registers that a read takes at the same time.
Kept == {p \in Pairs : /\ p \in TimePairs \/ Atom
                       /\ still \/ (p[1] \notin early.regs /\ p[2] \notin early.regs)}

\* The clock of a link and its cycles in L0p are read at the same time.
Together == still \/ ("QPIClocks" \in early.uncore <=> "QPIL0pTxCycles" \in early.uncore)

\* No register of x is ahead of y, and no distance of a pair in K is.
Behind(K, x, y) ==
    /\ \A r \in CoreRegs : x[r] <= y[r]
    /\ \A p \in K : x[p[1]] - x[p[2]] <= y[p[1]] - y[p[2]]

\* The same for the clocks of a link and its cycles in L0p, and their distance if J.
LinkBehind(J, x, y) ==
    /\ x["QPIClocks"] <= y["QPIClocks"] /\ x["QPIL0pTxCycles"] <= y["QPIL0pTxCycles"]
    /\ J => x["QPIClocks"] - x["QPIL0pTxCycles"] <= y["QPIClocks"] - y["QPIL0pTxCycles"]

\* The same for all cores and links of two states.
StateBehind(K, J, s, t) ==
    /\ \A c \in Cores : Behind(K, s.core[c], t.core[c])
    /\ \A k \in Sockets : LinkBehind(J, s.uncore[k], t.uncore[k])

\* A state that is read later is not behind one that is read earlier.
OrderInv ==
    /\ pc # "idle" => StateBehind(Kept, Together, before, Snapshot)
    /\ pc \in {"after", "done"} => /\ StateBehind(Kept, Together, before, after)
                                   /\ StateBehind(Kept, Together, after, Snapshot)

\* The registers of one core.
RegFile == [CoreRegs -> Nat]

\* The pairs are of registers of a core.
LEMMA PairRegs ==
    \A p \in Pairs : p[1] \in CoreRegs /\ p[2] \in CoreRegs
BY DEF Pairs, AtomPairs, TimePairs, CoreRegs

\* No register is ahead of itself.
LEMMA BehindSelf ==
    ASSUME NEW x \in RegFile, NEW K \in SUBSET Pairs
    PROVE Behind(K, x, x)
<1>1. \A r \in CoreRegs : x[r] \in Nat
    BY DEF RegFile
<1>2. \A p \in K : x[p[1]] \in Nat /\ x[p[2]] \in Nat
    BY <1>1, PairRegs
<1> QED
    BY <1>1, <1>2 DEF Behind

\* Being behind is transitive, for one core.
LEMMA BehindTrans ==
    ASSUME NEW x \in RegFile, NEW y \in RegFile, NEW z \in RegFile, NEW K \in SUBSET Pairs,
           Behind(K, x, y), Behind(K, y, z)
    PROVE Behind(K, x, z)
<1>1. \A r \in CoreRegs : x[r] \in Nat /\ y[r] \in Nat /\ z[r] \in Nat
    BY DEF RegFile
<1>2. ASSUME NEW r \in CoreRegs PROVE x[r] <= z[r]
    <2>1. x[r] <= y[r] /\ y[r] <= z[r]
        BY DEF Behind
    <2> QED
        BY <1>1, <2>1
<1>3. ASSUME NEW p \in K PROVE x[p[1]] - x[p[2]] <= z[p[1]] - z[p[2]]
    <2>1. /\ x[p[1]] \in Nat /\ y[p[1]] \in Nat /\ z[p[1]] \in Nat
          /\ x[p[2]] \in Nat /\ y[p[2]] \in Nat /\ z[p[2]] \in Nat
        BY <1>1, PairRegs
    <2>2. /\ x[p[1]] - x[p[2]] <= y[p[1]] - y[p[2]]
          /\ y[p[1]] - y[p[2]] <= z[p[1]] - z[p[2]]
        BY DEF Behind
    <2> QED
        BY <2>1, <2>2
<1> QED
    BY <1>2, <1>3 DEF Behind

\* A read that takes some registers from x and the others from y, the
\* registers of a pair from the same.
LEMMA BehindMix ==
    ASSUME NEW w, NEW x, NEW y, NEW z, NEW K \in SUBSET Pairs, NEW E,
           \A r \in CoreRegs : z[r] = IF r \in E THEN x[r] ELSE y[r],
           \A p \in K : p[1] \in E <=> p[2] \in E
    PROVE /\ Behind(K, w, x) /\ Behind(K, w, y) => Behind(K, w, z)
          /\ Behind(K, x, w) /\ Behind(K, y, w) => Behind(K, z, w)
<1>1. ASSUME NEW p \in K
      PROVE \/ z[p[1]] = x[p[1]] /\ z[p[2]] = x[p[2]]
            \/ z[p[1]] = y[p[1]] /\ z[p[2]] = y[p[2]]
    BY PairRegs
<1>2. ASSUME Behind(K, w, x), Behind(K, w, y) PROVE Behind(K, w, z)
    <2>1. ASSUME NEW r \in CoreRegs PROVE w[r] <= z[r]
        BY <1>2 DEF Behind
    <2>2. ASSUME NEW p \in K PROVE w[p[1]] - w[p[2]] <= z[p[1]] - z[p[2]]
        BY <1>1, <1>2 DEF Behind
    <2> QED
        BY <2>1, <2>2 DEF Behind
<1>3. ASSUME Behind(K, x, w), Behind(K, y, w) PROVE Behind(K, z, w)
    <2>1. ASSUME NEW r \in CoreRegs PROVE z[r] <= w[r]
        BY <1>3 DEF Behind
    <2>2. ASSUME NEW p \in K PROVE z[p[1]] - z[p[2]] <= w[p[1]] - w[p[2]]
        BY <1>1, <1>3 DEF Behind
    <2> QED
        BY <2>1, <2>2 DEF Behind
<1> QED
    BY <1>2, <1>3

\* The registers of a state are numbers.
LEMMA StateRegs ==
    ASSUME NEW s \in States
    PROVE /\ \A c \in Cores : s.core[c] \in RegFile
          /\ \A k \in Sockets : \A r \in UncoreRegs : s.uncore[k][r] \in Nat
BY DEF States, CoreFiles, UncoreFiles, RegFile

\* Being behind is transitive, for states.
LEMMA StateTrans ==
    ASSUME NEW s \in States, NEW t \in States, NEW u \in States, NEW K \in SUBSET Pairs,
           NEW J \in BOOLEAN,
           StateBehind(K, J, s, t), StateBehind(K, J, t, u)
    PROVE StateBehind(K, J, s, u)
<1>1. ASSUME NEW c \in Cores PROVE Behind(K, s.core[c], u.core[c])
    <2>1. Behind(K, s.core[c], t.core[c]) /\ Behind(K, t.core[c], u.core[c])
        BY DEF StateBehind
    <2>2. s.core[c] \in RegFile /\ t.core[c] \in RegFile /\ u.core[c] \in RegFile
        BY StateRegs
    <2> QED
        BY <2>1, <2>2, BehindTrans
<1>2. ASSUME NEW k \in Sockets PROVE LinkBehind(J, s.uncore[k], u.uncore[k])
    <2>1. LinkBehind(J, s.uncore[k], t.uncore[k]) /\ LinkBehind(J, t.uncore[k], u.uncore[k])
        BY DEF StateBehind
    <2>2. "QPIClocks" \in UncoreRegs /\ "QPIL0pTxCycles" \in UncoreRegs
        BY DEF UncoreRegs
    <2>3. \A r \in UncoreRegs : s.uncore[k][r] \in Nat /\ t.uncore[k][r] \in Nat
                                /\ u.uncore[k][r] \in Nat
        BY StateRegs
    <2> QED
        BY <2>1, <2>2, <2>3 DEF LinkBehind
<1> QED
    BY <1>1, <1>2 DEF StateBehind

\* No state is ahead of itself.
LEMMA StateSelf ==
    ASSUME NEW s \in States, NEW K \in SUBSET Pairs, NEW J \in BOOLEAN
    PROVE StateBehind(K, J, s, s)
<1>1. \A c \in Cores : Behind(K, s.core[c], s.core[c])
    BY StateRegs, BehindSelf
<1>2. \A k \in Sockets : LinkBehind(J, s.uncore[k], s.uncore[k])
    <2>2. "QPIClocks" \in UncoreRegs /\ "QPIL0pTxCycles" \in UncoreRegs
        BY DEF UncoreRegs
    <2> QED
        BY StateRegs, <2>2 DEF LinkBehind
<1> QED
    BY <1>1, <1>2 DEF StateBehind

\* Fewer pairs to keep together ask for less.
LEMMA StateLess ==
    ASSUME NEW s, NEW t, NEW K, NEW L \in SUBSET K, NEW J \in BOOLEAN, NEW I \in BOOLEAN, I => J,
           StateBehind(K, J, s, t)
    PROVE StateBehind(L, I, s, t)
BY DEF StateBehind, Behind, LinkBehind

\* A read completed from old and from what is there now.
LEMMA StateMix ==
    ASSUME TypeOK, NEW old \in States, NEW s
    PROVE /\ StateBehind(Kept, Together, s, old) /\ StateBehind(Kept, Together, s, Snapshot)
                => StateBehind(Kept, Together, s, Completed(old))
          /\ StateBehind(Kept, Together, old, s) /\ StateBehind(Kept, Together, Snapshot, s)
                => StateBehind(Kept, Together, Completed(old), s)
<1> DEFINE z == Completed(old)
<1>1. CASE still
    BY <1>1 DEF Completed
<1>2. CASE ~still
    <2> DEFINE E(c) == IF c \in early.cores THEN CoreRegs ELSE early.regs
    <2>1. ASSUME NEW c \in Cores, NEW r \in CoreRegs
          PROVE z.core[c][r] = IF r \in E(c) THEN old.core[c][r] ELSE Snapshot.core[c][r]
        BY <1>2 DEF Completed, Snapshot
    <2>2. ASSUME NEW c \in Cores, NEW p \in Kept PROVE p[1] \in E(c) <=> p[2] \in E(c)
        BY <1>2, PairRegs DEF Kept
    <2>3. Kept \in SUBSET Pairs
        BY DEF Kept
    <2>4. ASSUME NEW k \in Sockets, NEW r \in UncoreRegs
          PROVE z.uncore[k][r] = IF r \in early.uncore THEN old.uncore[k][r]
                                 ELSE Snapshot.uncore[k][r]
        BY <1>2 DEF Completed, Snapshot
    <2> HIDE DEF z, E
    <2>5. ASSUME NEW c \in Cores
          PROVE /\ Behind(Kept, s.core[c], old.core[c]) /\ Behind(Kept, s.core[c], Snapshot.core[c])
                        => Behind(Kept, s.core[c], z.core[c])
                /\ Behind(Kept, old.core[c], s.core[c]) /\ Behind(Kept, Snapshot.core[c], s.core[c])
                        => Behind(Kept, z.core[c], s.core[c])
        <3> DEFINE x == old.core[c]
        <3> DEFINE y == Snapshot.core[c]
        <3> DEFINE v == z.core[c]
        <3> DEFINE w == s.core[c]
        <3> DEFINE F == E(c)
        <3>1. \A r \in CoreRegs : v[r] = IF r \in F THEN x[r] ELSE y[r]
            BY <2>1
        <3>2. \A p \in Kept : p[1] \in F <=> p[2] \in F
            BY <2>2
        <3> HIDE DEF x, y, v, w, F
        <3>3. /\ Behind(Kept, w, x) /\ Behind(Kept, w, y) => Behind(Kept, w, v)
              /\ Behind(Kept, x, w) /\ Behind(Kept, y, w) => Behind(Kept, v, w)
            BY <3>1, <3>2, <2>3, BehindMix
        <3> QED
            BY <3>3 DEF x, y, v, w
    <2>6. ASSUME NEW k \in Sockets
          PROVE /\ LinkBehind(Together, s.uncore[k], old.uncore[k])
                   /\ LinkBehind(Together, s.uncore[k], Snapshot.uncore[k])
                        => LinkBehind(Together, s.uncore[k], z.uncore[k])
                /\ LinkBehind(Together, old.uncore[k], s.uncore[k])
                   /\ LinkBehind(Together, Snapshot.uncore[k], s.uncore[k])
                        => LinkBehind(Together, z.uncore[k], s.uncore[k])
        <3> DEFINE x == old.uncore[k]
        <3> DEFINE y == Snapshot.uncore[k]
        <3> DEFINE v == z.uncore[k]
        <3> DEFINE w == s.uncore[k]
        <3>1. /\ v["QPIClocks"] = x["QPIClocks"] \/ v["QPIClocks"] = y["QPIClocks"]
              /\ \/ v["QPIL0pTxCycles"] = x["QPIL0pTxCycles"]
                 \/ v["QPIL0pTxCycles"] = y["QPIL0pTxCycles"]
            BY <2>4 DEF UncoreRegs
        <3>2. Together => \/ /\ v["QPIClocks"] = x["QPIClocks"]
                             /\ v["QPIL0pTxCycles"] = x["QPIL0pTxCycles"]
                          \/ /\ v["QPIClocks"] = y["QPIClocks"]
                             /\ v["QPIL0pTxCycles"] = y["QPIL0pTxCycles"]
            BY <1>2, <2>4 DEF UncoreRegs, Together
        <3> HIDE DEF x, y, v, w
        <3>3. /\ LinkBehind(Together, w, x) /\ LinkBehind(Together, w, y)
                    => LinkBehind(Together, w, v)
              /\ LinkBehind(Together, x, w) /\ LinkBehind(Together, y, w)
                    => LinkBehind(Together, v, w)
            BY <3>1, <3>2 DEF LinkBehind
        <3> QED
            BY <3>3 DEF x, y, v, w
    <2>7. ASSUME StateBehind(Kept, Together, s, old), StateBehind(Kept, Together, s, Snapshot)
          PROVE StateBehind(Kept, Together, s, z)
        BY <2>5, <2>6, <2>7 DEF StateBehind
    <2>8. ASSUME StateBehind(Kept, Together, old, s), StateBehind(Kept, Together, Snapshot, s)
          PROVE StateBehind(Kept, Together, z, s)
        BY <2>5, <2>6, <2>8 DEF StateBehind
    <2> QED
        BY <2>7, <2>8 DEF z
<1> QED
    BY <1>1, <1>2

\* An Atom never counts more misses than references, nor more references than
\* instructions, and no core more time in C0 or C3 than time.
LEMMA PairGain ==
    ASSUME TypeOK, NEW a \in Activities, NEW p \in Kept
    PROVE CoreGain(a)[p[2]] <= CoreGain(a)[p[1]]
<1>1. p \in Pairs /\ (p \in TimePairs \/ Atom)
    BY DEF Kept
<1>2. /\ CoreGain(a)["InstRetiredAny"] = IF a \in Accesses THEN 1 ELSE 0
      /\ CoreGain(a)["Event0"] = IF a \in EventSet(0) THEN 1 ELSE 0
      /\ CoreGain(a)["Event1"] = IF a \in EventSet(1) THEN 1 ELSE 0
      /\ CoreGain(a)["InvariantTSC"] = 1
      /\ CoreGain(a)["CpuClkUnhaltedRef"] \in 0..1
      /\ CoreGain(a)["CState3"] \in 0..1
    BY GainTable
<1>3. Atom => /\ a \in EventSet(0) => a \in EventSet(1)
              /\ a \in EventSet(1) => a \in Accesses
    <2>1. Atom => EventSet(0) = {"l3", "l2m", "miss"} /\ EventSet(1) = Accesses \ {"l1"}
        BY EventTable DEF TypeOK
    <2> QED
        BY <2>1 DEF Accesses
<1>4. CASE p \in TimePairs
    <2>1. p[1] = "InvariantTSC" /\ (p[2] = "CpuClkUnhaltedRef" \/ p[2] = "CState3")
        BY <1>4 DEF TimePairs
    <2> QED
        BY <2>1, <1>2
<1>5. CASE p = <<"Event1", "Event0">> /\ Atom
    <2>1. p[1] = "Event1" /\ p[2] = "Event0"
        BY <1>5
    <2> QED
        BY <2>1, <1>2, <1>3, <1>5
<1>6. CASE p = <<"InstRetiredAny", "Event1">> /\ Atom
    <2>1. p[1] = "InstRetiredAny" /\ p[2] = "Event1"
        BY <1>6
    <2> QED
        BY <2>1, <1>2, <1>3, <1>6
<1> QED
    BY <1>1, <1>4, <1>5, <1>6 DEF Pairs, AtomPairs

\* A tick leaves what can be read behind what can be read after it.
LEMMA TickForward ==
    ASSUME TypeOK, Tick, TypeOK'
    PROVE /\ StateBehind(Kept, Together, Snapshot, Snapshot')
          /\ Kept' \in SUBSET Kept /\ (Together' => Together) /\ Together' \in BOOLEAN
<1>1. TickFrame
    BY TickParts
<1>2. PICK act : TickOf(act)
    BY TickParts
<1>3. online' = online /\ cpu_model' = cpu_model /\ mode' = mode /\ online \in SUBSET Cores
    BY <1>1 DEF TickFrame, config, TypeOK
<1>4. ASSUME NEW c \in Cores PROVE Behind(Kept, Snapshot.core[c], Snapshot'.core[c])
    <2> DEFINE x == Snapshot.core[c]
    <2> DEFINE y == Snapshot'.core[c]
    <2> DEFINE g == [r \in CoreRegs |-> IF c \in online THEN CoreGain(act[c])[r] ELSE 0]
    <2>1. ASSUME NEW r \in CoreRegs PROVE x[r] \in Nat /\ g[r] \in 0..2 /\ y[r] = x[r] + g[r]
        <3>1. x[r] = IF c \in online THEN core[c][r] ELSE 0
            BY DEF Snapshot, SafeRead
        <3>2. y[r] = IF c \in online THEN core'[c][r] ELSE 0
            BY <1>3 DEF Snapshot, SafeRead
        <3>3. core'[c][r] = core[c][r] + IF c \in online THEN CoreGain(act[c])[r] ELSE 0
            BY <1>2, TickEffect
        <3>4. c \in online => CoreGain(act[c])[r] \in 0..2
            BY <1>2, TickEffect
        <3>5. core[c][r] \in Nat
            BY DEF TypeOK, CoreFiles
        <3>6. g[r] = IF c \in online THEN CoreGain(act[c])[r] ELSE 0
            OBVIOUS
        <3> HIDE DEF x, y, g
        <3>7. CASE c \in online
            BY <3>1, <3>2, <3>3, <3>4, <3>5, <3>6, <3>7
        <3>8. CASE c \notin online
            BY <3>1, <3>2, <3>3, <3>5, <3>6, <3>8
        <3> QED
            BY <3>7, <3>8
    <2>2. ASSUME NEW p \in Kept PROVE g[p[2]] <= g[p[1]]
        <3>1. p[1] \in CoreRegs /\ p[2] \in CoreRegs
            BY PairRegs DEF Kept
        <3>2. CASE c \in online
            <4>1. act[c] \in Activities
                BY <1>2, <3>2, TickEffect
            <4>2. CoreGain(act[c])[p[2]] <= CoreGain(act[c])[p[1]]
                BY <4>1, PairGain
            <4> QED
                BY <3>1, <3>2, <4>2
        <3>3. CASE c \notin online
            BY <3>1, <3>3
        <3> QED
            BY <3>2, <3>3
    <2> HIDE DEF x, y, g
    <2>3. ASSUME NEW r \in CoreRegs PROVE x[r] <= y[r]
        BY <2>1
    <2>4. ASSUME NEW p \in Kept PROVE x[p[1]] - x[p[2]] <= y[p[1]] - y[p[2]]
        <3>1. p[1] \in CoreRegs /\ p[2] \in CoreRegs
            BY PairRegs DEF Kept
        <3>2. /\ x[p[1]] \in Nat /\ g[p[1]] \in 0..2 /\ y[p[1]] = x[p[1]] + g[p[1]]
              /\ x[p[2]] \in Nat /\ g[p[2]] \in 0..2 /\ y[p[2]] = x[p[2]] + g[p[2]]
            BY <2>1, <3>1
        <3> QED
            BY <2>2, <3>2
    <2>5. Behind(Kept, x, y)
        BY <2>3, <2>4 DEF Behind
    <2> QED
        BY <2>5 DEF x, y
<1>5. ASSUME NEW k \in Sockets PROVE LinkBehind(Together, Snapshot.uncore[k], Snapshot'.uncore[k])
    <2>1. "QPIClocks" \in UncoreRegs /\ "QPIL0pTxCycles" \in UncoreRegs
        BY DEF UncoreRegs
    <2>2. /\ uncore'[k]["QPIClocks"] = uncore[k]["QPIClocks"] + UncoreGain(act, k)["QPIClocks"]
          /\ uncore'[k]["QPIL0pTxCycles"]
                = uncore[k]["QPIL0pTxCycles"] + UncoreGain(act, k)["QPIL0pTxCycles"]
        BY <1>2, <2>1, TickEffect
    <2>3. /\ UncoreGain(act, k)["QPIClocks"] = 1
          /\ UncoreGain(act, k)["QPIL0pTxCycles"] \in 0..1
        BY LinkGain
    <2>4. uncore[k]["QPIClocks"] \in Nat /\ uncore[k]["QPIL0pTxCycles"] \in Nat
        BY <2>1 DEF TypeOK, UncoreFiles
    <2>5. LinkBehind(Together, uncore[k], uncore'[k])
        BY <2>2, <2>3, <2>4 DEF LinkBehind
    <2> QED
        BY <2>5 DEF Snapshot
<1>6. Kept' \in SUBSET Kept
    <2>1. CASE still
        BY <2>1, <1>3 DEF Kept, Atom, Pairs, AtomPairs, TimePairs
    <2>2. CASE ~still
        <3>1. early' = early /\ still' = FALSE
            BY <1>1, <2>2 DEF TickFrame
        <3> QED
            BY <2>2, <3>1, <1>3 DEF Kept, Atom, Pairs, AtomPairs, TimePairs
    <2> QED
        BY <2>1, <2>2 DEF TypeOK
<1>7. (Together' => Together) /\ Together' \in BOOLEAN
    <2>1. CASE still
        BY <2>1 DEF Together
    <2>2. CASE ~still
        <3>1. early' = early /\ still' = FALSE
            BY <1>1, <2>2 DEF TickFrame
        <3> QED
            BY <2>2, <3>1 DEF Together
    <2>3. Together' \in BOOLEAN
        BY DEF Together
    <2> QED
        BY <2>1, <2>2, <2>3 DEF TypeOK
<1> QED
    BY <1>4, <1>5, <1>6, <1>7 DEF StateBehind

\* Initially nothing has been read.
LEMMA OrderInit == Init => OrderInv
BY DEF Init, OrderInv

\* Every step keeps the order of the reads: a tick moves the registers on from
\* what was read, a read takes them between the last read and now.
LEMMA OrderStep == TypeOK /\ OrderInv /\ [Next]_vars => OrderInv'
<1> SUFFICES ASSUME TypeOK, OrderInv, [Next]_vars PROVE OrderInv'
    OBVIOUS
<1>0. TypeOK'
    BY TypeStep
<1>t. Snapshot \in States /\ before \in States /\ after \in States /\ Kept \in SUBSET Pairs
      /\ Together \in BOOLEAN
    BY ReadType DEF TypeOK, Kept, Together
<1>1. CASE Tick
    <2>1. StateBehind(Kept, Together, Snapshot, Snapshot') /\ Kept' \in SUBSET Kept
          /\ (Together' => Together) /\ Together' \in BOOLEAN
        BY <1>0, <1>1, TickForward
    <2>2. pc \in {"before", "run", "after"} /\ UNCHANGED <<pc, before, after>>
        BY <1>1, TickParts DEF TickFrame
    <2>3. Snapshot' \in States
        <3>1. core' \in CoreFiles /\ uncore' \in UncoreFiles
            BY <1>0 DEF TypeOK
        <3>2. ASSUME NEW c \in Cores PROVE SafeRead(c)' \in [CoreRegs -> Nat]
            BY <3>1 DEF SafeRead, CoreFiles
        <3> QED
            BY <3>1, <3>2 DEF Snapshot, States, CoreFiles
    <2> DEFINE S == Snapshot'
    <2> DEFINE L == Kept'
    <2> DEFINE I == Together'
    <2> HIDE DEF S, L, I
    <2>4. S \in States /\ L \in SUBSET Kept /\ StateBehind(Kept, Together, Snapshot, S)
          /\ (I => Together) /\ I \in BOOLEAN
        BY <2>1, <2>3 DEF S, L, I
    <2>5. StateBehind(L, I, before, S)
        <3>1. StateBehind(Kept, Together, before, S)
            BY <1>t, <2>2, <2>4, StateTrans DEF OrderInv
        <3> QED
            BY <1>t, <3>1, <2>4, StateLess
    <2>6. ASSUME pc \in {"after", "done"}
          PROVE StateBehind(L, I, before, after) /\ StateBehind(L, I, after, S)
        <3>1. /\ StateBehind(Kept, Together, before, after)
              /\ StateBehind(Kept, Together, after, Snapshot)
            BY <2>6 DEF OrderInv
        <3>2. StateBehind(Kept, Together, after, S)
            BY <1>t, <3>1, <2>4, StateTrans
        <3> QED
            BY <1>t, <3>1, <3>2, <2>4, StateLess
    <2> QED
        BY <2>2, <2>5, <2>6 DEF OrderInv, S, L, I, StateBehind, Behind, LinkBehind, CoreRegs
<1>2. CASE BeginRead
    <2>1. Snapshot' = Snapshot /\ Kept' = Kept /\ Together' = Together
        BY <1>2 DEF BeginRead, config, Snapshot, SafeRead, Kept, Together, Atom, Pairs,
               AtomPairs, TimePairs
    <2>2. StateBehind(Kept, Together, Snapshot, Snapshot)
        BY <1>t, StateSelf
    <2> QED
        BY <1>2, <2>1, <2>2 DEF BeginRead, OrderInv, StateBehind, Behind, LinkBehind, CoreRegs
<1>3. CASE EndRead
    <2>1. Snapshot' = Snapshot /\ Kept' = Kept /\ Together' = Together
        BY <1>3 DEF EndRead, config, Snapshot, SafeRead, Kept, Together, Atom, Pairs,
               AtomPairs, TimePairs
    <2>2. StateBehind(Kept, Together, Snapshot, Snapshot)
        BY <1>t, StateSelf
    <2>3. CASE pc = "before" /\ pc' = "run" /\ before' = Completed(before)
        <3>1. StateBehind(Kept, Together, before, Snapshot)
            BY <2>3 DEF OrderInv
        <3>2. StateBehind(Kept, Together, Completed(before), Snapshot)
            BY <1>t, <3>1, <2>2, StateMix
        <3> QED
            BY <2>1, <2>3, <3>2 DEF OrderInv
    <2>4. CASE pc = "after" /\ pc' = "done" /\ after' = Completed(after) /\ before' = before
        <3>1. /\ StateBehind(Kept, Together, before, Snapshot)
              /\ StateBehind(Kept, Together, before, after)
              /\ StateBehind(Kept, Together, after, Snapshot)
            BY <2>4 DEF OrderInv
        <3>2. /\ StateBehind(Kept, Together, Completed(after), Snapshot)
              /\ StateBehind(Kept, Together, before, Completed(after))
            BY <1>t, <3>1, <2>2, StateMix
        <3> QED
            BY <2>1, <2>4, <3>1, <3>2 DEF OrderInv
    <2> QED
        BY <1>3, <2>3, <2>4 DEF EndRead
<1>4. CASE UNCHANGED vars
    BY <1>4 DEF vars, config, OrderInv, Snapshot, SafeRead, Kept, Together, Atom, Pairs,
               AtomPairs, TimePairs
<1> QED
    BY <1>1, <1>2, <1>3, <1>4 DEF Next, Measured

-----------------------------------------------------------------------------
(* Counters of sockets and of the system as totals over cores *)

\* The cores of socket k.
At(k) == {d \in Cores : SocketOf[d] = k}

\* The total of register r over the cores of C in state s.
Total(s, C, r) == Sum([c \in C |-> s.core[c][r]], C)

\* The sum of two elements.
LEMMA SumTwo ==
    ASSUME NEW x, NEW y, x # y, NEW f, f[x] \in Int, f[y] \in Int
    PROVE Sum(f, {x, y}) = f[x] + f[y]
<1>1. IsFiniteSet({y}) /\ x \notin {y} /\ {y} \cup {x} = {x, y}
    BY FS_Singleton
<1>2. Sum(f, {y}) = f[y]
    BY SumOne
<1>3. Sum(f, {y} \cup {x}) = f[x] + Sum(f, {y})
    BY <1>1, SumAdd
<1> QED
    BY <1>1, <1>2, <1>3

\* The two sockets of the instance.
LEMMA TwoSockets == \E j, k : Sockets = {j, k} /\ j # k
<1>1. IsFiniteSet(Sockets) /\ Cardinality(Sockets) = 2
    BY Instance
<1>2. Sockets # {}
    BY <1>1, FS_EmptySet
<1>3. PICK j : j \in Sockets
    BY <1>2
<1>4. IsFiniteSet(Sockets \ {j}) /\ Cardinality(Sockets \ {j}) = Cardinality(Sockets) - 1
    BY <1>1, <1>3, FS_RemoveElement
<1>5. Cardinality(Sockets \ {j}) = 1
    BY <1>1, <1>4
<1>6. PICK k : Sockets \ {j} = {k}
    BY <1>4, <1>5, FS_Singleton
<1>7. Sockets = {j, k} /\ j # k
    BY <1>3, <1>6
<1> QED
    BY <1>7

\* The cores of a set and of a socket.
LEMMA CoreSets ==
    /\ \A C \in SUBSET Cores : IsFiniteSet(C) /\ Cardinality(C) \in Nat
    /\ \A k : At(k) \in SUBSET Cores
<1>1. ASSUME NEW C \in SUBSET Cores PROVE IsFiniteSet(C) /\ Cardinality(C) \in Nat
    <2>1. IsFiniteSet(C)
        BY Instance, FS_Subset
    <2> QED
        BY <2>1, FS_CardinalityType
<1> QED
    BY <1>1 DEF At

\* A total over the cores is the sum of the totals of the sockets.
LEMMA BySocket ==
    ASSUME NEW f, \A c \in Cores : f[c] \in Int, NEW j, NEW k, Sockets = {j, k}, j # k
    PROVE /\ Sum(f, Cores) = Sum(f, At(j)) + Sum(f, At(k))
          /\ Sum(f, At(j)) \in Int /\ Sum(f, At(k)) \in Int
<1>1. At(j) \in SUBSET Cores /\ At(k) \in SUBSET Cores /\ Cores \ At(j) = At(k)
    BY Instance DEF At
<1>2. IsFiniteSet(Cores) /\ IsFiniteSet(At(j)) /\ IsFiniteSet(At(k))
    BY Instance, CoreSets
<1>3. Sum(f, Cores) = Sum(f, At(j)) + Sum(f, Cores \ At(j))
    BY <1>1, <1>2, SumUnion
<1>4. (\A c \in At(j) : f[c] \in Int) /\ (\A c \in At(k) : f[c] \in Int)
    BY <1>1
<1> QED
    BY <1>1, <1>2, <1>3, <1>4, SumInt

\* The counters of a socket are the totals over its cores.
LEMMA SocketBasic ==
    ASSUME NEW s, NEW k, NEW r \in CoreRegs
    PROVE SocketCounterState(s, k).basic[r] = Total(s, At(k), r)
<1> DEFINE m == [c \in At(k) |-> CoreCounterState(s, c).basic]
<1>1. SocketCounterState(s, k).basic = Accumulated(CoreRegs, m)
    BY DEF SocketCounterState, At
<1>2. DOMAIN m = At(k) /\ \A c \in At(k) : m[c] = s.core[c]
    BY DEF CoreCounterState
<1> HIDE DEF m
<1>3. Accumulated(CoreRegs, m)[r] = SumFunction([x \in DOMAIN m |-> m[x][r]])
    BY DEF Accumulated
<1>4. [x \in DOMAIN m |-> m[x][r]] = [c \in At(k) |-> s.core[c][r]]
    BY <1>2
<1>5. DOMAIN [c \in At(k) |-> s.core[c][r]] = At(k)
    OBVIOUS
<1> QED
    BY <1>1, <1>3, <1>4, <1>5 DEF Total, Sum, SumFunction

\* The registers of the cores are numbers.
LEMMA RegNat ==
    ASSUME NEW s \in States
    PROVE \A c \in Cores : \A r \in CoreRegs : s.core[c][r] \in Nat
BY StateRegs DEF RegFile

\* A total over all cores, whichever way it is written.
LEMMA TotalAll ==
    ASSUME NEW s \in States, NEW C \in SUBSET Cores, NEW r \in CoreRegs
    PROVE /\ Total(s, C, r) = Sum([c \in Cores |-> s.core[c][r]], C)
          /\ Total(s, C, r) \in Int
          /\ \A c \in Cores : s.core[c][r] \in Nat
<1>1. \A c \in Cores : s.core[c][r] \in Nat
    BY StateRegs DEF RegFile
<1> DEFINE f == [c \in Cores |-> s.core[c][r]]
<1> DEFINE g == [c \in C |-> s.core[c][r]]
<1>2. (\A c \in C : f[c] \in Int) /\ (\A c \in C : g[c] = f[c]) /\ IsFiniteSet(C)
    BY <1>1, CoreSets
<1> HIDE DEF f, g
<1>3. Sum(g, C) = Sum(f, C) /\ Sum(f, C) \in Int
    BY <1>2, SumSame, SumInt
<1> QED
    BY <1>1, <1>3 DEF f, g, Total

\* The counters of the system, summed over sockets, are the totals over the cores.
LEMMA SystemBasic ==
    ASSUME NEW s \in States, NEW r \in CoreRegs
    PROVE SystemCounterState(s).basic[r] = Total(s, Cores, r)
<1>1. PICK j, k : Sockets = {j, k} /\ j # k
    BY TwoSockets
<1> DEFINE m == [x \in Sockets |-> SocketCounterState(s, x).basic]
<1> DEFINE f == [x \in Sockets |-> m[x][r]]
<1>2. SystemCounterState(s).basic[r] = SumFunction([x \in DOMAIN m |-> m[x][r]])
    BY DEF SystemCounterState, Accumulated
<1>3. DOMAIN m = Sockets /\ DOMAIN f = Sockets
    OBVIOUS
<1>4. SystemCounterState(s).basic[r] = Sum(f, Sockets)
    BY <1>2, <1>3 DEF Sum, SumFunction
<1>5. f[j] = Total(s, At(j), r) /\ f[k] = Total(s, At(k), r)
    BY <1>1, SocketBasic
<1>6. f[j] \in Int /\ f[k] \in Int
    BY <1>5, CoreSets, TotalAll
<1> HIDE DEF m, f
<1>7. Sum(f, Sockets) = f[j] + f[k]
    BY <1>1, <1>6, SumTwo
<1> DEFINE g == [c \in Cores |-> s.core[c][r]]
<1>8. \A c \in Cores : g[c] \in Int
    BY RegNat
<1> HIDE DEF g
<1>9. Sum(g, Cores) = Sum(g, At(j)) + Sum(g, At(k))
    BY <1>1, <1>8, BySocket
<1>10. /\ Sum(g, At(j)) = Total(s, At(j), r) /\ Sum(g, At(k)) = Total(s, At(k), r)
       /\ Sum(g, Cores) = Total(s, Cores, r)
    BY CoreSets, TotalAll DEF g
<1> QED
    BY <1>4, <1>5, <1>7, <1>9, <1>10

\* The uncore counters of the system are the sums of those of the two sockets.
LEMMA SystemUncore ==
    ASSUME NEW s \in States, NEW r \in UncoreRegs, NEW j, NEW k, Sockets = {j, k}, j # k
    PROVE SystemCounterState(s).uncore[r] = s.uncore[j][r] + s.uncore[k][r]
<1> DEFINE m == [x \in Sockets |-> SocketCounterState(s, x).uncore]
<1> DEFINE f == [x \in Sockets |-> m[x][r]]
<1>2. SystemCounterState(s).uncore[r] = SumFunction([x \in DOMAIN m |-> m[x][r]])
    BY DEF SystemCounterState, Accumulated
<1>3. DOMAIN m = Sockets /\ DOMAIN f = Sockets
    OBVIOUS
<1>4. SystemCounterState(s).uncore[r] = Sum(f, Sockets)
    BY <1>2, <1>3 DEF Sum, SumFunction
<1>5. f[j] = s.uncore[j][r] /\ f[k] = s.uncore[k][r]
    BY DEF SocketCounterState
<1>6. f[j] \in Int /\ f[k] \in Int
    BY <1>5, StateRegs
<1> HIDE DEF m, f
<1>7. Sum(f, Sockets) = f[j] + f[k]
    BY <1>6, SumTwo
<1> QED
    BY <1>4, <1>5, <1>7

\* The registers of a snapshot keep within the number of ticks, and so do the totals.
LEMMA TotalBound ==
    ASSUME TypeOK, BoundInv, NEW s \in States, NEW K, NEW J,
           StateBehind(K, J, s, Snapshot),
           NEW C \in SUBSET Cores, NEW r \in CoreRegs
    PROVE /\ Total(s, C, r) >= 0
          /\ Total(s, C, r) <= 3 * (MaxTicks * Cardinality(Cores))
<1> DEFINE f == [c \in C |-> s.core[c][r]]
<1> DEFINE n == 3 * MaxTicks
<1> DEFINE g == [c \in C |-> n]
<1> DEFINE z == [c \in C |-> 0]
<1>1. n \in Int /\ IsFiniteSet(C) /\ MaxTicks \in Nat /\ MaxTicks >= 1
    BY CoreSets, Instance
<1>2. ASSUME NEW c \in C PROVE f[c] \in Nat /\ f[c] <= n
    <2>1. f[c] = s.core[c][r] /\ s.core[c][r] \in Nat
        BY TotalAll
    <2>2. s.core[c][r] <= Snapshot.core[c][r]
        BY DEF StateBehind, Behind
    <2>3. Snapshot.core[c][r] = IF c \in online THEN core[c][r] ELSE 0
        BY DEF Snapshot, SafeRead
    <2>4. core[c][r] \in Nat /\ core[c][r] <= 1 + 2 * ticks /\ ticks \in Nat /\ ticks <= MaxTicks
        BY DEF TypeOK, CoreFiles, BoundInv
    <2>5. 1 + 2 * ticks <= 3 * MaxTicks
        BY <1>1, <2>4
    <2> HIDE DEF f
    <2> QED
        BY <1>1, <2>1, <2>2, <2>3, <2>4, <2>5
<1>3. (\A c \in C : f[c] \in Int /\ g[c] \in Int /\ z[c] \in Int)
      /\ (\A c \in C : f[c] <= g[c]) /\ (\A c \in C : z[c] <= f[c])
      /\ (\A c \in C : g[c] = n) /\ (\A c \in C : z[c] = 0)
    BY <1>1, <1>2
<1> HIDE DEF f, g, z, n
<1>4. Sum(f, C) <= Sum(g, C) /\ Sum(z, C) <= Sum(f, C)
    BY <1>1, <1>3, SumLe
<1>5. Sum(g, C) = n * Cardinality(C) /\ Sum(z, C) = 0 * Cardinality(C)
    BY <1>1, <1>3, SumConstant
<1>6. Sum(f, C) \in Int /\ Cardinality(C) \in Nat /\ Cardinality(Cores) \in Nat
    BY <1>1, <1>3, SumInt, CoreSets, Instance
<1>7. Cardinality(C) <= Cardinality(Cores)
    BY Instance, FS_Subset
<1>8. n * Cardinality(C) <= n * Cardinality(Cores)
    BY <1>1, <1>6, <1>7 DEF n
<1>9. n * Cardinality(Cores) = 3 * (MaxTicks * Cardinality(Cores))
    BY <1>1, <1>6 DEF n
<1>10. n * Cardinality(C) \in Int /\ n * Cardinality(Cores) \in Int /\ 0 * Cardinality(C) = 0
    BY <1>1, <1>6
<1>11. Total(s, C, r) = Sum(f, C)
    BY DEF Total, f
<1> HIDE DEF Total
<1> QED
    BY <1>4, <1>5, <1>6, <1>8, <1>9, <1>10, <1>11

\* Totals keep the order of the states.
LEMMA TotalOrder ==
    ASSUME NEW s \in States, NEW t \in States, NEW K \in SUBSET Pairs, NEW J,
           StateBehind(K, J, s, t), NEW C \in SUBSET Cores
    PROVE /\ \A r \in CoreRegs : Total(s, C, r) <= Total(t, C, r)
          /\ \A p \in K : Total(s, C, p[1]) - Total(s, C, p[2])
                            <= Total(t, C, p[1]) - Total(t, C, p[2])
<1>1. ASSUME NEW r \in CoreRegs PROVE Total(s, C, r) <= Total(t, C, r)
    <2> DEFINE f == [c \in C |-> s.core[c][r]]
    <2> DEFINE g == [c \in C |-> t.core[c][r]]
    <2>1. \A c \in C : f[c] \in Int /\ g[c] \in Int
        BY RegNat
    <2>4. \A c \in C : f[c] <= g[c]
        BY DEF StateBehind, Behind
    <2>2. IsFiniteSet(C)
        BY CoreSets
    <2> HIDE DEF f, g
    <2>3. Sum(f, C) <= Sum(g, C)
        BY <2>1, <2>2, <2>4, SumLe
    <2> QED
        BY <2>3 DEF Total, f, g
<1>2. ASSUME NEW p \in K
      PROVE Total(s, C, p[1]) - Total(s, C, p[2]) <= Total(t, C, p[1]) - Total(t, C, p[2])
    <2>0. p[1] \in CoreRegs /\ p[2] \in CoreRegs
        BY PairRegs
    <2>f. IsFiniteSet(C)
        BY CoreSets
    <2>d. ASSUME NEW u \in States
          PROVE Sum([c \in C |-> u.core[c][p[1]] - u.core[c][p[2]]], C)
                    = Total(u, C, p[1]) - Total(u, C, p[2])
        <3> DEFINE f == [c \in C |-> u.core[c][p[1]]]
        <3> DEFINE g == [c \in C |-> u.core[c][p[2]]]
        <3> DEFINE h == [c \in C |-> u.core[c][p[1]] - u.core[c][p[2]]]
        <3>1. \A c \in C : f[c] \in Int /\ g[c] \in Int /\ h[c] = f[c] - g[c]
            BY RegNat, <2>0
        <3> HIDE DEF f, g, h
        <3>2. \A c \in C : h[c] = 1 * f[c] + (-1) * g[c]
            BY <3>1
        <3>3. Sum(h, C) = 1 * Sum(f, C) + (-1) * Sum(g, C)
            BY <3>1, <3>2, <2>f, SumLinear
        <3>4. Sum(f, C) \in Int /\ Sum(g, C) \in Int
            BY <3>1, <2>f, SumInt
        <3>5. Sum(h, C) = Sum(f, C) - Sum(g, C)
            BY <3>3, <3>4
        <3> QED
            BY <3>5 DEF f, g, h, Total
    <2> DEFINE x == [c \in C |-> s.core[c][p[1]] - s.core[c][p[2]]]
    <2> DEFINE y == [c \in C |-> t.core[c][p[1]] - t.core[c][p[2]]]
    <2>1. \A c \in C : x[c] \in Int /\ y[c] \in Int
        BY RegNat, <2>0
    <2>2. \A c \in C : x[c] <= y[c]
        BY DEF StateBehind, Behind
    <2>3. Sum(x, C) = Total(s, C, p[1]) - Total(s, C, p[2])
          /\ Sum(y, C) = Total(t, C, p[1]) - Total(t, C, p[2])
        BY <2>d
    <2> HIDE DEF x, y
    <2>4. Sum(x, C) <= Sum(y, C)
        BY <2>1, <2>2, <2>f, SumLe
    <2> QED
        BY <2>3, <2>4
<1> QED
    BY <1>1, <1>2

-----------------------------------------------------------------------------
(* What the cores did since the first read *)

\* How often the cores of C did a.
Times(d, C, a) == Sum([c \in C |-> d[c][a]], C)

\* The ticks that x stands for.
Spent(x) ==
    x["l1"] + x["l2"] + x["l3"] + x["l2m"] + x["miss"] + x["halt"] + x["sleep"]

\* What the activities of x add to register r of a core.
Weighted(r, x) ==
    CoreGain("l1")[r] * x["l1"] + CoreGain("l2")[r] * x["l2"] + CoreGain("l3")[r] * x["l3"]
    + CoreGain("l2m")[r] * x["l2m"] + CoreGain("miss")[r] * x["miss"]
    + CoreGain("halt")[r] * x["halt"] + CoreGain("sleep")[r] * x["sleep"]

\* The flits that leave socket k: lines for the other socket and requests.
Flits(d, k) == 8 * Times(d, Cores \ At(k), "miss") + Times(d, At(k), "miss")

\* What T ticks in which the cores do d add to a register of a socket.
LinkWork(T, d, k, r) ==
    CASE r = "UncMCFullWrites" -> Times(d, At(k), "l2m")
      [] r = "UncMCNormalReads" -> Times(d, Cores \ At(k), "miss")
      [] r = "UncMCIORequests" -> Times(d, At(k), "halt")
      [] r = "DRAMEnergyStatus" -> Times(d, Cores \ At(k), "miss") + Times(d, At(k), "l2m")
      [] r = "incomingQPIPackets" -> Times(d, At(k), "miss")
      [] r = "outgoingQPIDataNonDataFlits" -> Flits(d, k)
      [] r = "outgoingQPIIdleFlits" -> LinkFlits * T - Flits(d, k)
      [] r = "uncoreTSC" -> LinkFlits * T
      [] r = "QPIL0pTxCycles" -> T - Times(d, Cores \ At(k), "miss")
      [] OTHER -> T

\* Between the states b and s there were T ticks, in which the cores did d.
Since(T, b, s, d) ==
    /\ \A c \in online : Spent(d[c]) = T
    /\ \A c \in Cores : \A r \in CoreRegs : s.core[c][r] = b.core[c][r] + Weighted(r, d[c])
    /\ \A k \in Sockets : \A r \in UncoreRegs :
            s.uncore[k][r] = b.uncore[k][r] + LinkWork(T, d, k, r)

\* A core that is offline does nothing, and the others only what they may do.
WorkInv ==
    /\ \A c \in Cores \ online : \A a \in Activities : did[c][a] = 0
    /\ \A c \in Cores : \A a \in Activities : did[c][a] # 0 => a \in Doable(c)

\* Reads that nothing disturbs are exact.
ExactInv ==
    /\ still /\ pc = "before" => before = Snapshot
    /\ still /\ pc \in {"after", "done"} => after = Snapshot
    /\ still /\ pc \in {"run", "after", "done"} =>
            \E T \in 0..ticks : Since(T, before, Snapshot, did)

\* What a core gains in a tick, activity by activity.
LEMMA GainInt ==
    ASSUME NEW r \in CoreRegs
    PROVE /\ CoreGain("l1")[r] \in 0..2 /\ CoreGain("l2")[r] \in 0..2
          /\ CoreGain("l3")[r] \in 0..2 /\ CoreGain("l2m")[r] \in 0..2
          /\ CoreGain("miss")[r] \in 0..2 /\ CoreGain("halt")[r] \in 0..2
          /\ CoreGain("sleep")[r] \in 0..2
<1>1. \A a \in Activities : CoreGain(a)[r] \in 0..2
    BY CoreGainType
<1>2. {"l1", "l2", "l3", "l2m", "miss", "halt", "sleep"} \subseteq Activities
    BY DEF Activities, Accesses
<1> QED
    BY <1>1, <1>2

\* The activities, one by one.
LEMMA SevenActivities == Activities = {"l1", "l2", "l3", "l2m", "miss", "halt", "sleep"}
BY DEF Activities, Accesses

\* A tick is spent on one activity.
LEMMA SpentStep ==
    ASSUME NEW x \in [Activities -> Nat], NEW y \in [Activities -> Nat], NEW a \in Activities,
           \A e \in Activities : y[e] = x[e] + IF a = e THEN 1 ELSE 0
    PROVE Spent(y) = Spent(x) + 1
<1>1. /\ x["l1"] \in Nat /\ x["l2"] \in Nat /\ x["l3"] \in Nat /\ x["l2m"] \in Nat
      /\ x["miss"] \in Nat /\ x["halt"] \in Nat /\ x["sleep"] \in Nat
    BY SevenActivities
<1>2. /\ y["l1"] = x["l1"] + (IF a = "l1" THEN 1 ELSE 0)
      /\ y["l2"] = x["l2"] + (IF a = "l2" THEN 1 ELSE 0)
      /\ y["l3"] = x["l3"] + (IF a = "l3" THEN 1 ELSE 0)
      /\ y["l2m"] = x["l2m"] + (IF a = "l2m" THEN 1 ELSE 0)
      /\ y["miss"] = x["miss"] + (IF a = "miss" THEN 1 ELSE 0)
      /\ y["halt"] = x["halt"] + (IF a = "halt" THEN 1 ELSE 0)
      /\ y["sleep"] = x["sleep"] + (IF a = "sleep" THEN 1 ELSE 0)
    BY SevenActivities
<1> QED
    BY <1>1, <1>2, SevenActivities DEF Spent

\* A product when its second factor may grow by one.
LEMMA TimesOneMore ==
    ASSUME NEW g \in Nat, NEW m \in Nat, NEW n, NEW a, NEW e,
           n = m + (IF a = e THEN 1 ELSE 0)
    PROVE g * n = g * m + (IF a = e THEN g ELSE 0) /\ g * m \in Int
<1>1. CASE a = e
    <2>1. n = m + 1
        BY <1>1
    <2> QED
        BY <1>1, <2>1
<1>2. CASE a # e
    <2>1. n = m
        BY <1>2
    <2> QED
        BY <1>2, <2>1
<1> QED
    BY <1>1, <1>2

\* One more activity adds its gain to the weighted sum.
LEMMA WeightedStep ==
    ASSUME NEW x \in [Activities -> Nat], NEW y \in [Activities -> Nat], NEW a \in Activities,
           \A e \in Activities : y[e] = x[e] + IF a = e THEN 1 ELSE 0, NEW r \in CoreRegs
    PROVE Weighted(r, y) = Weighted(r, x) + CoreGain(a)[r]
<1>1. /\ x["l1"] \in Nat /\ x["l2"] \in Nat /\ x["l3"] \in Nat /\ x["l2m"] \in Nat
      /\ x["miss"] \in Nat /\ x["halt"] \in Nat /\ x["sleep"] \in Nat
    BY SevenActivities
<1>2. /\ y["l1"] = x["l1"] + (IF a = "l1" THEN 1 ELSE 0)
      /\ y["l2"] = x["l2"] + (IF a = "l2" THEN 1 ELSE 0)
      /\ y["l3"] = x["l3"] + (IF a = "l3" THEN 1 ELSE 0)
      /\ y["l2m"] = x["l2m"] + (IF a = "l2m" THEN 1 ELSE 0)
      /\ y["miss"] = x["miss"] + (IF a = "miss" THEN 1 ELSE 0)
      /\ y["halt"] = x["halt"] + (IF a = "halt" THEN 1 ELSE 0)
      /\ y["sleep"] = x["sleep"] + (IF a = "sleep" THEN 1 ELSE 0)
    BY SevenActivities
<1> DEFINE g1 == CoreGain("l1")[r]
<1> DEFINE g2 == CoreGain("l2")[r]
<1> DEFINE g3 == CoreGain("l3")[r]
<1> DEFINE g4 == CoreGain("l2m")[r]
<1> DEFINE g5 == CoreGain("miss")[r]
<1> DEFINE g6 == CoreGain("halt")[r]
<1> DEFINE g7 == CoreGain("sleep")[r]
<1>3. /\ g1 \in Nat /\ g2 \in Nat /\ g3 \in Nat /\ g4 \in Nat
      /\ g5 \in Nat /\ g6 \in Nat /\ g7 \in Nat
    BY GainInt
<1>4. Weighted(r, x) = g1 * x["l1"] + g2 * x["l2"] + g3 * x["l3"] + g4 * x["l2m"]
                       + g5 * x["miss"] + g6 * x["halt"] + g7 * x["sleep"]
    BY DEF Weighted
<1>5. Weighted(r, y) = g1 * y["l1"] + g2 * y["l2"] + g3 * y["l3"] + g4 * y["l2m"]
                       + g5 * y["miss"] + g6 * y["halt"] + g7 * y["sleep"]
    BY DEF Weighted
<1>6. /\ a = "l1" => CoreGain(a)[r] = g1
      /\ a = "l2" => CoreGain(a)[r] = g2
      /\ a = "l3" => CoreGain(a)[r] = g3
      /\ a = "l2m" => CoreGain(a)[r] = g4
      /\ a = "miss" => CoreGain(a)[r] = g5
      /\ a = "halt" => CoreGain(a)[r] = g6
      /\ a = "sleep" => CoreGain(a)[r] = g7
    OBVIOUS
<1> HIDE DEF g1, g2, g3, g4, g5, g6, g7
<1>11. g1 * y["l1"] = g1 * x["l1"] + (IF a = "l1" THEN g1 ELSE 0) /\ g1 * x["l1"] \in Int
    BY <1>1, <1>2, <1>3, TimesOneMore
<1>12. g2 * y["l2"] = g2 * x["l2"] + (IF a = "l2" THEN g2 ELSE 0) /\ g2 * x["l2"] \in Int
    BY <1>1, <1>2, <1>3, TimesOneMore
<1>13. g3 * y["l3"] = g3 * x["l3"] + (IF a = "l3" THEN g3 ELSE 0) /\ g3 * x["l3"] \in Int
    BY <1>1, <1>2, <1>3, TimesOneMore
<1>14. g4 * y["l2m"] = g4 * x["l2m"] + (IF a = "l2m" THEN g4 ELSE 0) /\ g4 * x["l2m"] \in Int
    BY <1>1, <1>2, <1>3, TimesOneMore
<1>15. g5 * y["miss"] = g5 * x["miss"] + (IF a = "miss" THEN g5 ELSE 0) /\ g5 * x["miss"] \in Int
    BY <1>1, <1>2, <1>3, TimesOneMore
<1>16. g6 * y["halt"] = g6 * x["halt"] + (IF a = "halt" THEN g6 ELSE 0) /\ g6 * x["halt"] \in Int
    BY <1>1, <1>2, <1>3, TimesOneMore
<1>17. /\ g7 * y["sleep"] = g7 * x["sleep"] + (IF a = "sleep" THEN g7 ELSE 0)
       /\ g7 * x["sleep"] \in Int
    BY <1>1, <1>2, <1>3, TimesOneMore
<1> DEFINE p1 == g1 * x["l1"]
<1> DEFINE q1 == g1 * y["l1"]
<1> DEFINE p2 == g2 * x["l2"]
<1> DEFINE q2 == g2 * y["l2"]
<1> DEFINE p3 == g3 * x["l3"]
<1> DEFINE q3 == g3 * y["l3"]
<1> DEFINE p4 == g4 * x["l2m"]
<1> DEFINE q4 == g4 * y["l2m"]
<1> DEFINE p5 == g5 * x["miss"]
<1> DEFINE q5 == g5 * y["miss"]
<1> DEFINE p6 == g6 * x["halt"]
<1> DEFINE q6 == g6 * y["halt"]
<1> DEFINE p7 == g7 * x["sleep"]
<1> DEFINE q7 == g7 * y["sleep"]
<1> HIDE DEF p1, q1, p2, q2, p3, q3, p4, q4, p5, q5, p6, q6, p7, q7
<1>20. /\ q1 = p1 + (IF a = "l1" THEN g1 ELSE 0) /\ p1 \in Int
       /\ q2 = p2 + (IF a = "l2" THEN g2 ELSE 0) /\ p2 \in Int
       /\ q3 = p3 + (IF a = "l3" THEN g3 ELSE 0) /\ p3 \in Int
       /\ q4 = p4 + (IF a = "l2m" THEN g4 ELSE 0) /\ p4 \in Int
       /\ q5 = p5 + (IF a = "miss" THEN g5 ELSE 0) /\ p5 \in Int
       /\ q6 = p6 + (IF a = "halt" THEN g6 ELSE 0) /\ p6 \in Int
       /\ q7 = p7 + (IF a = "sleep" THEN g7 ELSE 0) /\ p7 \in Int
    BY <1>11, <1>12, <1>13, <1>14, <1>15, <1>16, <1>17
    DEF p1, q1, p2, q2, p3, q3, p4, q4, p5, q5, p6, q6, p7, q7
<1>21. /\ Weighted(r, x) = p1 + p2 + p3 + p4 + p5 + p6 + p7
       /\ Weighted(r, y) = q1 + q2 + q3 + q4 + q5 + q6 + q7
    BY <1>4, <1>5 DEF p1, q1, p2, q2, p3, q3, p4, q4, p5, q5, p6, q6, p7, q7
<1> QED
    BY <1>3, <1>6, <1>20, <1>21, SevenActivities

\* Nothing done adds nothing.
LEMMA NothingDone ==
    ASSUME NEW x, \A a \in Activities : x[a] = 0
    PROVE /\ Spent(x) = 0
          /\ \A r \in CoreRegs : Weighted(r, x) = 0
<1>1. /\ x["l1"] = 0 /\ x["l2"] = 0 /\ x["l3"] = 0 /\ x["l2m"] = 0
      /\ x["miss"] = 0 /\ x["halt"] = 0 /\ x["sleep"] = 0
    BY SevenActivities
<1>2. ASSUME NEW r \in CoreRegs PROVE Weighted(r, x) = 0
    BY <1>1, GainInt DEF Weighted
<1> QED
    BY <1>1, <1>2 DEF Spent

\* How often is a number.
LEMMA TimesInt ==
    ASSUME NEW d \in [Cores -> [Activities -> Nat]], NEW C \in SUBSET Cores, NEW a \in Activities
    PROVE Times(d, C, a) \in Nat
<1> DEFINE f == [c \in C |-> d[c][a]]
<1> DEFINE z == [c \in C |-> 0]
<1>1. (\A c \in C : f[c] \in Int /\ z[c] \in Int /\ z[c] <= f[c] /\ z[c] = 0) /\ IsFiniteSet(C)
      /\ Cardinality(C) \in Nat
    BY CoreSets
<1> HIDE DEF f, z
<1>2. Sum(z, C) <= Sum(f, C) /\ Sum(z, C) = 0 * Cardinality(C)
    BY <1>1, SumLe, SumConstant
<1>3. Sum(f, C) \in Int
    BY <1>1, SumInt
<1>4. 0 * Cardinality(C) = 0
    BY <1>1
<1>5. Sum(f, C) \in Nat
    BY <1>2, <1>3, <1>4
<1> QED
    BY <1>5 DEF Times, f

\* Nobody did it.
LEMMA TimesNone ==
    ASSUME NEW d, NEW C \in SUBSET Cores, NEW a, \A c \in C : d[c][a] = 0
    PROVE Times(d, C, a) = 0
<1> DEFINE f == [c \in C |-> d[c][a]]
<1>1. (\A c \in C : f[c] = 0) /\ IsFiniteSet(C) /\ Cardinality(C) \in Nat
    BY CoreSets
<1> HIDE DEF f
<1>2. Sum(f, C) = 0 * Cardinality(C)
    BY <1>1, SumConstant
<1>3. Sum(f, C) = 0
    BY <1>1, <1>2
<1> QED
    BY <1>3 DEF Times, f

\* Where the cores of D do a once more, the number grows by theirs.
LEMMA TimesStep ==
    ASSUME NEW d \in [Cores -> [Activities -> Nat]], NEW e, NEW C \in SUBSET Cores,
           NEW a \in Activities, NEW D \in SUBSET C,
           \A c \in C : e[c][a] = d[c][a] + IF c \in D THEN 1 ELSE 0
    PROVE Times(e, C, a) = Times(d, C, a) + Cardinality(D)
<1> DEFINE f == [c \in C |-> d[c][a]]
<1> DEFINE g == [c \in C |-> IF c \in D THEN 1 ELSE 0]
<1> DEFINE h == [c \in C |-> e[c][a]]
<1>1. IsFiniteSet(C) /\ \A c \in C : g[c] = IF c \in D THEN 1 ELSE 0
    BY CoreSets
<1>2. \A c \in C : f[c] \in Int /\ g[c] \in Int /\ h[c] = f[c] + g[c]
    OBVIOUS
<1> HIDE DEF f, g, h
<1>3. Sum(g, C) = Cardinality(D)
    BY <1>1, SumCount
<1>4. \A c \in C : h[c] = 1 * f[c] + 1 * g[c]
    BY <1>2
<1>5. Sum(h, C) = 1 * Sum(f, C) + 1 * Sum(g, C)
    BY <1>1, <1>2, <1>4, SumLinear
<1>6. Sum(f, C) \in Int /\ Sum(g, C) \in Int
    BY <1>1, <1>2, SumInt
<1>7. Sum(h, C) = Sum(f, C) + Cardinality(D)
    BY <1>3, <1>5, <1>6
<1> QED
    BY <1>7 DEF Times, f, h

\* A tick adds to the work of a link what its registers gain.
LEMMA LinkStep ==
    ASSUME TypeOK, NEW act, TickOf(act), NEW k \in Sockets, NEW r \in UncoreRegs, NEW T \in Nat
    PROVE LinkWork(T + 1, did', k, r) = LinkWork(T, did, k, r) + UncoreGain(act, k)[r]
<1> DEFINE Here(a) == Cardinality({c \in online : c \in At(k) /\ act[c] = a})
<1> DEFINE served == Cardinality({c \in online : c \in Cores \ At(k) /\ act[c] = "miss"})
<1> DEFINE e == did'
<1>1. /\ did \in [Cores -> [Activities -> Nat]] /\ online \in SUBSET Cores
      /\ act \in [online -> Activities]
    BY DEF TypeOK, TickOf
<1>2. /\ "miss" \in Activities /\ "l2m" \in Activities /\ "halt" \in Activities
      /\ At(k) \in SUBSET Cores /\ Cores \ At(k) \in SUBSET Cores
    BY SevenActivities, CoreSets
<1>3. \A c \in Cores : \A a \in Activities :
            e[c][a] = did[c][a] + IF c \in online /\ act[c] = a THEN 1 ELSE 0
    BY TickEffect
<1> HIDE DEF e
<1>4. ASSUME NEW a \in Activities PROVE Times(e, At(k), a) = Times(did, At(k), a) + Here(a)
    <2> DEFINE D == {c \in online : c \in At(k) /\ act[c] = a}
    <2>1. \A c \in At(k) : e[c][a] = did[c][a] + IF c \in D THEN 1 ELSE 0
        BY <1>2, <1>3
    <2>2. D \in SUBSET At(k)
        OBVIOUS
    <2> HIDE DEF D
    <2>3. Times(e, At(k), a) = Times(did, At(k), a) + Cardinality(D)
        BY <1>1, <1>2, <2>1, <2>2, TimesStep
    <2> QED
        BY <2>3 DEF D
<1>5. Times(e, Cores \ At(k), "miss") = Times(did, Cores \ At(k), "miss") + served
    <2> DEFINE D == {c \in online : c \in Cores \ At(k) /\ act[c] = "miss"}
    <2>1. \A c \in Cores \ At(k) : e[c]["miss"] = did[c]["miss"] + IF c \in D THEN 1 ELSE 0
        BY <1>2, <1>3
    <2>2. D \in SUBSET (Cores \ At(k))
        OBVIOUS
    <2> HIDE DEF D
    <2>3. Times(e, Cores \ At(k), "miss") = Times(did, Cores \ At(k), "miss") + Cardinality(D)
        BY <1>1, <1>2, <2>1, <2>2, TimesStep
    <2> QED
        BY <2>3 DEF D
<1>6. served \in 0..1
    <2>1. MayAct(act)
        BY DEF MayAct, TickOf
    <2>2. {c \in online : c \in Cores \ At(k) /\ act[c] = "miss"}
            = {c \in online : SocketOf[c] # k /\ act[c] = "miss"}
        BY <1>1 DEF At
    <2> QED
        BY <1>1, <2>1, <2>2, OneServed
<1>7. /\ Times(did, At(k), "l2m") \in Nat /\ Times(did, At(k), "halt") \in Nat
      /\ Times(did, At(k), "miss") \in Nat /\ Times(did, Cores \ At(k), "miss") \in Nat
    BY <1>1, <1>2, TimesInt
<1>8. ASSUME NEW a PROVE Here(a) \in Nat
    <2>1. {c \in online : c \in At(k) /\ act[c] = a} \in SUBSET Cores
        BY <1>1
    <2> QED
        BY <2>1, CoreSets
<1>9. UncoreGain(act, k)[r] =
            CASE r = "UncMCFullWrites" -> Here("l2m")
              [] r = "UncMCNormalReads" -> served
              [] r = "UncMCIORequests" -> Here("halt")
              [] r = "DRAMEnergyStatus" -> served + Here("l2m")
              [] r = "incomingQPIPackets" -> Here("miss")
              [] r = "outgoingQPIDataNonDataFlits" -> 8 * served + Here("miss")
              [] r = "outgoingQPIIdleFlits" -> LinkFlits - (8 * served + Here("miss"))
              [] r = "uncoreTSC" -> LinkFlits
              [] r = "QPIL0pTxCycles" -> IF served = 0 THEN 1 ELSE 0
              [] OTHER -> 1
    <2>1. \A a : {c \in DOMAIN act : SocketOf[c] = k /\ act[c] = a}
                    = {c \in online : c \in At(k) /\ act[c] = a}
        BY <1>1 DEF At
    <2>2. {c \in DOMAIN act : SocketOf[c] # k /\ act[c] = "miss"}
            = {c \in online : c \in Cores \ At(k) /\ act[c] = "miss"}
        BY <1>1 DEF At
    <2> QED
        BY <2>1, <2>2 DEF UncoreGain
<1> DEFINE h1 == Here("l2m")
<1> DEFINE h2 == Here("halt")
<1> DEFINE h3 == Here("miss")
<1> DEFINE w == Times(did, At(k), "l2m")
<1> DEFINE m == Times(did, At(k), "miss")
<1> DEFINE i == Times(did, At(k), "halt")
<1> DEFINE v == Times(did, Cores \ At(k), "miss")
<1> DEFINE x == LinkFlits * T
<1> DEFINE y == LinkFlits * (T + 1)
<1>16. x \in Nat /\ y = x + LinkFlits /\ LinkFlits \in Nat
    BY Instance
<1>10. /\ Times(e, At(k), "l2m") = w + h1 /\ Times(e, At(k), "halt") = i + h2
       /\ Times(e, At(k), "miss") = m + h3 /\ Times(e, Cores \ At(k), "miss") = v + served
    BY <1>2, <1>4, <1>5
<1>11. h1 \in Nat /\ h2 \in Nat /\ h3 \in Nat /\ w \in Nat /\ m \in Nat /\ i \in Nat /\ v \in Nat
    BY <1>7, <1>8
<1>12. LinkWork(T, did, k, r) =
        CASE r = "UncMCFullWrites" -> w
          [] r = "UncMCNormalReads" -> v
          [] r = "UncMCIORequests" -> i
          [] r = "DRAMEnergyStatus" -> v + w
          [] r = "incomingQPIPackets" -> m
          [] r = "outgoingQPIDataNonDataFlits" -> 8 * v + m
          [] r = "outgoingQPIIdleFlits" -> x - (8 * v + m)
          [] r = "uncoreTSC" -> x
          [] r = "QPIL0pTxCycles" -> T - v
          [] OTHER -> T
    BY DEF LinkWork, Flits
<1>13. LinkWork(T + 1, e, k, r) =
        CASE r = "UncMCFullWrites" -> w + h1
          [] r = "UncMCNormalReads" -> v + served
          [] r = "UncMCIORequests" -> i + h2
          [] r = "DRAMEnergyStatus" -> (v + served) + (w + h1)
          [] r = "incomingQPIPackets" -> m + h3
          [] r = "outgoingQPIDataNonDataFlits" -> 8 * (v + served) + (m + h3)
          [] r = "outgoingQPIIdleFlits" -> y - (8 * (v + served) + (m + h3))
          [] r = "uncoreTSC" -> y
          [] r = "QPIL0pTxCycles" -> (T + 1) - (v + served)
          [] OTHER -> T + 1
    BY <1>10 DEF LinkWork, Flits
<1>14. UncoreGain(act, k)[r] =
            CASE r = "UncMCFullWrites" -> h1
              [] r = "UncMCNormalReads" -> served
              [] r = "UncMCIORequests" -> h2
              [] r = "DRAMEnergyStatus" -> served + h1
              [] r = "incomingQPIPackets" -> h3
              [] r = "outgoingQPIDataNonDataFlits" -> 8 * served + h3
              [] r = "outgoingQPIIdleFlits" -> LinkFlits - (8 * served + h3)
              [] r = "uncoreTSC" -> LinkFlits
              [] r = "QPIL0pTxCycles" -> IF served = 0 THEN 1 ELSE 0
              [] OTHER -> 1
    BY <1>9
<1> HIDE DEF h1, h2, h3, w, m, i, v, x, y, served
<1>15. LinkWork(T + 1, e, k, r) = LinkWork(T, did, k, r) + UncoreGain(act, k)[r]
    BY <1>6, <1>11, <1>12, <1>13, <1>14, <1>16 DEF UncoreRegs
<1> QED
    BY <1>15 DEF e

\* A product of numbers is a number.
LEMMA ProductNat ==
    ASSUME NEW m \in 0..2, NEW n \in Nat
    PROVE m * n \in Nat
<1>1. m = 0 \/ m = 1 \/ m = 2
    OBVIOUS
<1> QED
    BY <1>1

\* A weighted sum is a number.
LEMMA WeightedNat ==
    ASSUME NEW x \in [Activities -> Nat], NEW r \in CoreRegs
    PROVE Weighted(r, x) \in Nat
<1>1. \A a \in Activities : CoreGain(a)[r] \in 0..2 /\ x[a] \in Nat
    BY CoreGainType
<1> DEFINE P(a) == CoreGain(a)[r] * x[a]
<1>2. ASSUME NEW a \in Activities PROVE P(a) \in Nat
    BY <1>1, ProductNat
<1>3. Weighted(r, x) = P("l1") + P("l2") + P("l3") + P("l2m") + P("miss") + P("halt") + P("sleep")
    BY DEF Weighted
<1> HIDE DEF P
<1>4. /\ P("l1") \in Nat /\ P("l2") \in Nat /\ P("l3") \in Nat /\ P("l2m") \in Nat
      /\ P("miss") \in Nat /\ P("halt") \in Nat /\ P("sleep") \in Nat
    BY <1>2, SevenActivities
<1> QED
    BY <1>3, <1>4

\* Ticks add up.
LEMMA SinceStep ==
    ASSUME TypeOK, WorkInv, NEW act, TickOf(act), online' = online, NEW T \in Nat,
           NEW b \in States, Since(T, b, Snapshot, did)
    PROVE Since(T + 1, b, Snapshot', did')
<1>1. /\ did \in [Cores -> [Activities -> Nat]] /\ online \in SUBSET Cores
      /\ act \in [online -> Activities] /\ did' \in [Cores -> [Activities -> Nat]]
    BY TickEffect DEF TypeOK, TickOf
<1> DEFINE e == did'
<1>2. \A c \in Cores : \A a \in Activities :
            e[c][a] = did[c][a] + IF c \in online /\ act[c] = a THEN 1 ELSE 0
    BY TickEffect
<1>3. e \in [Cores -> [Activities -> Nat]]
    BY <1>1
<1> HIDE DEF e
<1>4. ASSUME NEW c \in online
      PROVE /\ did[c] \in [Activities -> Nat] /\ e[c] \in [Activities -> Nat]
            /\ act[c] \in Activities /\ c \in Cores
            /\ \A a \in Activities : e[c][a] = did[c][a] + IF act[c] = a THEN 1 ELSE 0
    BY <1>1, <1>2, <1>3
<1>5. ASSUME NEW c \in online PROVE Spent(e[c]) = T + 1
    <2>1. Spent(e[c]) = Spent(did[c]) + 1
        BY <1>4, SpentStep
    <2> QED
        BY <2>1 DEF Since
<1>6. ASSUME NEW c \in Cores, NEW r \in CoreRegs
      PROVE Snapshot'.core[c][r] = b.core[c][r] + Weighted(r, e[c])
    <2>1. Snapshot'.core[c][r] = IF c \in online THEN core'[c][r] ELSE 0
        BY DEF Snapshot, SafeRead
    <2>2. Snapshot.core[c][r] = IF c \in online THEN core[c][r] ELSE 0
        BY DEF Snapshot, SafeRead
    <2>3. core'[c][r] = core[c][r] + IF c \in online THEN CoreGain(act[c])[r] ELSE 0
        BY TickEffect
    <2>4. Snapshot.core[c][r] = b.core[c][r] + Weighted(r, did[c])
        BY DEF Since
    <2>5. CASE c \in online
        <3>1. Weighted(r, e[c]) = Weighted(r, did[c]) + CoreGain(act[c])[r]
            BY <1>4, <2>5, WeightedStep
        <3>2. CoreGain(act[c])[r] \in Int /\ core[c][r] \in Int /\ b.core[c][r] \in Int
            BY <1>4, <2>5, CoreGainType, RegNat DEF TypeOK, CoreFiles
        <3>3. Weighted(r, did[c]) \in Int
            <4>1. did[c] \in [Activities -> Nat]
                BY <1>1
            <4> QED
                BY <4>1, WeightedNat
        <3> DEFINE g == CoreGain(act[c])[r]
        <3> DEFINE w == Weighted(r, did[c])
        <3> DEFINE x == b.core[c][r]
        <3>4. /\ core'[c][r] = core[c][r] + g /\ core[c][r] = x + w /\ Weighted(r, e[c]) = w + g
              /\ g \in Int /\ w \in Int /\ x \in Int /\ core[c][r] \in Int
            BY <2>2, <2>3, <2>4, <2>5, <3>1, <3>2, <3>3
        <3>5. Snapshot'.core[c][r] = core'[c][r]
            BY <2>1, <2>5
        <3> HIDE DEF g, w, x
        <3>6. core'[c][r] = x + Weighted(r, e[c])
            BY <3>4
        <3> QED
            BY <3>5, <3>6 DEF x
    <2>6. CASE c \notin online
        <3>1. \A a \in Activities : did[c][a] = 0 /\ e[c][a] = 0
            BY <1>2, <2>6 DEF WorkInv
        <3>2. Weighted(r, did[c]) = 0 /\ Weighted(r, e[c]) = 0
            BY <3>1, NothingDone
        <3> QED
            BY <2>1, <2>2, <2>4, <2>6, <3>2
    <2> QED
        BY <2>5, <2>6
<1>7. ASSUME NEW k \in Sockets, NEW r \in UncoreRegs
      PROVE Snapshot'.uncore[k][r] = b.uncore[k][r] + LinkWork(T + 1, e, k, r)
    <2> DEFINE w == LinkWork(T, did, k, r)
    <2> DEFINE g == UncoreGain(act, k)[r]
    <2>1. Snapshot.uncore = uncore /\ Snapshot'.uncore = uncore'
        BY DEF Snapshot
    <2>2. uncore'[k][r] = uncore[k][r] + g /\ g \in Nat
        BY TickEffect
    <2>3. uncore[k][r] = b.uncore[k][r] + w
        BY <2>1 DEF Since
    <2>4. LinkWork(T + 1, e, k, r) = w + g
        BY LinkStep DEF e
    <2>5. b.uncore[k][r] \in Nat
        BY StateRegs
    <2>6. w \in Int
        <3>1. "miss" \in Activities /\ "l2m" \in Activities /\ "halt" \in Activities
            /\ At(k) \in SUBSET Cores /\ Cores \ At(k) \in SUBSET Cores
            BY SevenActivities, CoreSets
        <3>2. /\ Times(did, At(k), "l2m") \in Nat /\ Times(did, At(k), "halt") \in Nat
              /\ Times(did, At(k), "miss") \in Nat /\ Times(did, Cores \ At(k), "miss") \in Nat
            BY <1>1, <3>1, TimesInt
        <3>3. LinkFlits * T \in Int
            BY Instance
        <3> QED
            BY <3>2, <3>3 DEF LinkWork, Flits
    <2> HIDE DEF w, g
    <2>7. uncore'[k][r] = b.uncore[k][r] + (w + g)
        BY <2>2, <2>3, <2>5, <2>6
    <2> QED
        BY <2>1, <2>4, <2>7
<1>8. Since(T + 1, b, Snapshot', e)
    BY <1>5, <1>6, <1>7 DEF Since
<1> QED
    BY <1>8 DEF e

\* Initially nobody has done anything.
LEMMA WorkInit == Init => WorkInv
BY DEF Init, WorkInv

\* Every step keeps what the cores offline have not done.
LEMMA WorkStep == TypeOK /\ WorkInv /\ [Next]_vars => WorkInv'
<1> SUFFICES ASSUME TypeOK, WorkInv, [Next]_vars PROVE WorkInv'
    OBVIOUS
<1>1. UNCHANGED config
    BY DEF Next, Tick, BeginRead, EndRead, Measured, vars
<1>2. online' = online /\ \A c : Doable(c)' = Doable(c)
    BY <1>1 DEF config, Doable
<1>3. CASE Tick
    <2>1. PICK act : TickOf(act)
        BY <1>3, TickParts
    <2>2. \A c \in Cores : \A a \in Activities :
                did'[c][a] = did[c][a] + IF c \in online /\ act[c] = a THEN 1 ELSE 0
        BY <2>1, TickEffect
    <2>3. \A c \in online : act[c] \in Doable(c)
        BY <2>1 DEF TickOf
    <2>4. \A c \in Cores : \A a \in Activities : did[c][a] \in Nat
        BY DEF TypeOK
    <2>5. ASSUME NEW c \in Cores \ online, NEW a \in Activities PROVE did'[c][a] = 0
        BY <2>2 DEF WorkInv
    <2>6. ASSUME NEW c \in Cores, NEW a \in Activities, did'[c][a] # 0 PROVE a \in Doable(c)
        <3>1. CASE c \in online /\ act[c] = a
            BY <3>1, <2>3
        <3>2. CASE ~(c \in online /\ act[c] = a)
            <4>1. did'[c][a] = did[c][a]
                BY <2>2, <2>4, <3>2
            <4> QED
                BY <4>1, <2>6 DEF WorkInv
        <3> QED
            BY <3>1, <3>2
    <2> QED
        BY <1>2, <2>5, <2>6 DEF WorkInv
<1>4. CASE did' = [c \in Cores |-> [a \in Activities |-> 0]]
    BY <1>4 DEF WorkInv
<1>5. CASE did' = did
    BY <1>2, <1>5 DEF WorkInv
<1> QED
    BY <1>3, <1>4, <1>5 DEF Next, BeginRead, EndRead, Measured, vars

\* The same in the next state, when the machine is the same.
LEMMA SincePrime ==
    ASSUME UNCHANGED config, NEW T, Since(T, before', Snapshot', did')
    PROVE Since(T, before, Snapshot, did)'
BY DEF Since, Weighted, CoreGain, EventSet, config

\* Initially nothing has been read.
LEMMA ExactInit == Init => ExactInv
BY DEF Init, ExactInv

\* Every step keeps the registers equal to the work done since the first read.
LEMMA ExactStep == TypeOK /\ WorkInv /\ ExactInv /\ [Next]_vars => ExactInv'
<1> SUFFICES ASSUME TypeOK, WorkInv, ExactInv, [Next]_vars PROVE ExactInv'
    OBVIOUS
<1>1. UNCHANGED config
    BY DEF Next, Tick, BeginRead, EndRead, Measured, vars
<1>2. CASE Tick
    <2>1. TickFrame
        BY <1>2, TickParts
    <2>2. PICK act : TickOf(act)
        BY <1>2, TickParts
    <2>3. SUFFICES ASSUME still' PROVE ExactInv'
        BY DEF ExactInv
    <2>4. pc = "run" /\ pc' = "run" /\ still /\ before' = before /\ ticks' = ticks + 1
        BY <2>1, <2>3 DEF TickFrame
    <2>5. PICK T \in 0..ticks : Since(T, before, Snapshot, did)
        BY <2>4 DEF ExactInv
    <2>6. online' = online /\ before \in States /\ ticks \in Nat
        BY <1>1 DEF config, TypeOK
    <2>7. Since(T + 1, before, Snapshot', did')
        BY <2>2, <2>5, <2>6, SinceStep
    <2>8. Since(T + 1, before, Snapshot, did)'
        BY <1>1, <2>4, <2>7, SincePrime
    <2>9. T + 1 \in 0..ticks'
        BY <2>4, <2>5, <2>6
    <2> QED
        BY <2>4, <2>8, <2>9 DEF ExactInv
<1>3. CASE ~Tick
    <2>0. Snapshot' = Snapshot /\ still' = still /\ ticks' = ticks
        BY <1>1, <1>3 DEF Next, BeginRead, EndRead, Measured, vars, config, Snapshot, SafeRead
    <2>1. CASE BeginRead
        <3>1. CASE pc = "idle"
            BY <2>0, <2>1, <3>1 DEF BeginRead, ExactInv
        <3>2. CASE pc # "idle"
            <4>1. pc = "run" /\ pc' = "after" /\ after' = Snapshot /\ before' = before /\ did' = did
                BY <2>1, <3>2 DEF BeginRead
            <4>2. ASSUME still PROVE \E T \in 0..ticks' : Since(T, before, Snapshot, did)'
                <5>1. PICK T \in 0..ticks : Since(T, before, Snapshot, did)
                    BY <4>1, <4>2 DEF ExactInv
                <5>2. Since(T, before', Snapshot', did')
                    BY <2>0, <4>1, <5>1
                <5>3. Since(T, before, Snapshot, did)'
                    BY <1>1, <5>2, SincePrime
                <5> QED
                    BY <2>0, <5>3
            <4> QED
                BY <2>0, <4>1, <4>2 DEF ExactInv
        <3> QED
            BY <3>1, <3>2
    <2>2. CASE EndRead
        <3>1. CASE pc = "before"
            <4>1. /\ pc' = "run" /\ before' = Completed(before)
                  /\ did' = [c \in Cores |-> [a \in Activities |-> 0]]
                BY <2>2, <3>1 DEF EndRead
            <4>2. ASSUME still PROVE Since(0, before, Snapshot, did)'
                <5>1. before' = Snapshot
                    BY <4>1, <4>2 DEF Completed
                <5> DEFINE z == [c \in Cores |-> [a \in Activities |-> 0]]
                <5>2. \A c \in Cores : \A a \in Activities : z[c][a] = 0
                    OBVIOUS
                <5> HIDE DEF z
                <5>3. ASSUME NEW c \in Cores
                      PROVE Spent(z[c]) = 0 /\ \A r \in CoreRegs : Weighted(r, z[c]) = 0
                    BY <5>2, NothingDone
                <5>4. ASSUME NEW C \in SUBSET Cores, NEW a \in Activities PROVE Times(z, C, a) = 0
                    BY <5>2, TimesNone
                <5>5. ASSUME NEW k \in Sockets, NEW r \in UncoreRegs PROVE LinkWork(0, z, k, r) = 0
                    <6>1. /\ Times(z, At(k), "l2m") = 0 /\ Times(z, At(k), "halt") = 0
                          /\ Times(z, At(k), "miss") = 0 /\ Times(z, Cores \ At(k), "miss") = 0
                        BY <5>4, CoreSets, SevenActivities
                    <6>2. LinkFlits * 0 = 0
                        BY Instance
                    <6> QED
                        BY <6>1, <6>2 DEF LinkWork, Flits
                <5>6. Snapshot \in States /\ online \in SUBSET Cores
                    BY ReadType DEF TypeOK
                <5>7. /\ \A c \in Cores : \A r \in CoreRegs : Snapshot.core[c][r] \in Nat
                      /\ \A k \in Sockets : \A r \in UncoreRegs : Snapshot.uncore[k][r] \in Nat
                    BY <5>6, RegNat, StateRegs
                <5> DEFINE S == Snapshot
                <5> HIDE DEF S
                <5>8. Since(0, S, S, z)
                    BY <5>3, <5>5, <5>6, <5>7 DEF Since, S
                <5>9. Since(0, before', Snapshot', did')
                    BY <2>0, <4>1, <5>1, <5>8 DEF S, z
                <5> QED
                    BY <1>1, <5>9, SincePrime
            <4>3. 0 \in 0..ticks'
                BY <2>0 DEF TypeOK
            <4> QED
                BY <2>0, <4>1, <4>2, <4>3 DEF ExactInv
        <3>2. CASE pc # "before"
            <4>1. pc = "after" /\ pc' = "done" /\ after' = Completed(after) /\ before' = before
                  /\ did' = did
                BY <2>2, <3>2 DEF EndRead
            <4>2. ASSUME still PROVE \E T \in 0..ticks' : Since(T, before, Snapshot, did)'
                <5>1. PICK T \in 0..ticks : Since(T, before, Snapshot, did)
                    BY <4>1, <4>2 DEF ExactInv
                <5>2. Since(T, before', Snapshot', did')
                    BY <2>0, <4>1, <5>1
                <5>3. Since(T, before, Snapshot, did)'
                    BY <1>1, <5>2, SincePrime
                <5> QED
                    BY <2>0, <5>3
            <4>3. still => after' = Snapshot
                BY <4>1 DEF Completed
            <4> QED
                BY <2>0, <4>1, <4>2, <4>3 DEF ExactInv
        <3> QED
            BY <3>1, <3>2
    <2>3. CASE UNCHANGED vars
        <3>1. UNCHANGED <<pc, before, after, did, still, ticks>> /\ Snapshot' = Snapshot
            BY <2>0, <2>3 DEF vars
        <3>2. ASSUME NEW T, Since(T, before, Snapshot, did)
              PROVE Since(T, before, Snapshot, did)'
            <4>1. Since(T, before', Snapshot', did')
                BY <3>1, <3>2
            <4> QED
                BY <1>1, <4>1, SincePrime
        <3> QED
            BY <3>1, <3>2 DEF ExactInv
    <2> QED
        BY <1>3, <2>1, <2>2, <2>3 DEF Next, Measured
<1> QED
    BY <1>2, <1>3

-----------------------------------------------------------------------------
(* The metrics from how often each activity was done *)

\* The sum of a number for each activity, weighted.
Seven(w, x) ==
    w["l1"] * x["l1"] + w["l2"] * x["l2"] + w["l3"] * x["l3"] + w["l2m"] * x["l2m"]
    + w["miss"] * x["miss"] + w["halt"] * x["halt"] + w["sleep"] * x["sleep"]

\* How often the cores of C did each activity.
Shares(d, C) == [a \in Activities |-> Times(d, C, a)]

\* A weighted sum over cores is the weighted sum of the sums over cores.
LEMMA SumSeven ==
    ASSUME NEW d \in [Cores -> [Activities -> Nat]], NEW C \in SUBSET Cores,
           NEW w \in [Activities -> Int], NEW h, \A c \in C : h[c] = Seven(w, d[c])
    PROVE Sum(h, C) = Seven(w, Shares(d, C))
<1> DEFINE F(a) == [c \in C |-> d[c][a]]
<1> DEFINE S(a) == Sum(F(a), C)
<1>0. IsFiniteSet(C)
    BY CoreSets
<1>1. \A a \in Activities : w[a] \in Int /\ \A c \in C : F(a)[c] \in Int /\ F(a)[c] = d[c][a]
    OBVIOUS
<1>2. \A a \in Activities : S(a) \in Int /\ Shares(d, C)[a] = S(a)
    <2>1. ASSUME NEW a \in Activities PROVE S(a) \in Int /\ Shares(d, C)[a] = S(a)
        <3> DEFINE f == F(a)
        <3>1. \A c \in C : f[c] \in Int
            BY <1>1
        <3> HIDE DEF f
        <3>2. Sum(f, C) \in Int
            BY <1>0, <3>1, SumInt
        <3> QED
            BY <3>2 DEF f, Shares, Times
    <2> QED
        BY <2>1
<1> DEFINE w1 == w["l1"]
<1> DEFINE w2 == w["l2"]
<1> DEFINE w3 == w["l3"]
<1> DEFINE w4 == w["l2m"]
<1> DEFINE w5 == w["miss"]
<1> DEFINE w6 == w["halt"]
<1> DEFINE w7 == w["sleep"]
<1> DEFINE f1 == F("l1")
<1> DEFINE f2 == F("l2")
<1> DEFINE f3 == F("l3")
<1> DEFINE f4 == F("l2m")
<1> DEFINE f5 == F("miss")
<1> DEFINE f6 == F("halt")
<1> DEFINE f7 == F("sleep")
<1>3. /\ w1 \in Int /\ w2 \in Int /\ w3 \in Int /\ w4 \in Int
      /\ w5 \in Int /\ w6 \in Int /\ w7 \in Int
    BY <1>1, SevenActivities
<1>4. \A c \in C : /\ f1[c] \in Int /\ f2[c] \in Int /\ f3[c] \in Int /\ f4[c] \in Int
                   /\ f5[c] \in Int /\ f6[c] \in Int /\ f7[c] \in Int
    BY <1>1, SevenActivities
<1>5. \A c \in C : h[c] = w1 * f1[c] + w2 * f2[c] + w3 * f3[c] + w4 * f4[c]
                          + w5 * f5[c] + w6 * f6[c] + w7 * f7[c]
    BY <1>1, SevenActivities DEF Seven
<1>6. Seven(w, Shares(d, C)) = w1 * Sum(f1, C) + w2 * Sum(f2, C) + w3 * Sum(f3, C)
          + w4 * Sum(f4, C) + w5 * Sum(f5, C) + w6 * Sum(f6, C) + w7 * Sum(f7, C)
    BY <1>2, SevenActivities DEF Seven
<1> HIDE DEF w1, w2, w3, w4, w5, w6, w7, f1, f2, f3, f4, f5, f6, f7
<1> DEFINE h2 == [c \in C |-> w1 * f1[c] + w2 * f2[c]]
<1> DEFINE h3 == [c \in C |-> h2[c] + w3 * f3[c]]
<1> DEFINE h4 == [c \in C |-> h3[c] + w4 * f4[c]]
<1> DEFINE h5 == [c \in C |-> h4[c] + w5 * f5[c]]
<1> DEFINE h6 == [c \in C |-> h5[c] + w6 * f6[c]]
<1>12. \A c \in C : h2[c] = w1 * f1[c] + w2 * f2[c]
    OBVIOUS
<1>13. \A c \in C : h3[c] = h2[c] + w3 * f3[c]
    OBVIOUS
<1>14. \A c \in C : h4[c] = h3[c] + w4 * f4[c]
    OBVIOUS
<1>15. \A c \in C : h5[c] = h4[c] + w5 * f5[c]
    OBVIOUS
<1>16. \A c \in C : h6[c] = h5[c] + w6 * f6[c]
    OBVIOUS
<1> HIDE DEF h2, h3, h4, h5, h6
<1>p. \A m \in Int : \A n \in Int : m * n \in Int
    OBVIOUS
<1>17. \A c \in C : /\ h2[c] \in Int /\ h3[c] \in Int /\ h4[c] \in Int
                    /\ h5[c] \in Int /\ h6[c] \in Int
    <2>1. ASSUME NEW c \in C
          PROVE /\ h2[c] \in Int /\ h3[c] \in Int /\ h4[c] \in Int
                /\ h5[c] \in Int /\ h6[c] \in Int
        <3>1. /\ w1 * f1[c] \in Int /\ w2 * f2[c] \in Int /\ w3 * f3[c] \in Int
              /\ w4 * f4[c] \in Int /\ w5 * f5[c] \in Int /\ w6 * f6[c] \in Int
            BY <1>3, <1>4, <1>p
        <3> QED
            BY <3>1, <1>12, <1>13, <1>14, <1>15, <1>16
    <2> QED
        BY <2>1
<1>18. \A c \in C : h[c] = h6[c] + w7 * f7[c]
    BY <1>5, <1>12, <1>13, <1>14, <1>15, <1>16
<1>21. Sum(h2, C) = w1 * Sum(f1, C) + w2 * Sum(f2, C)
    BY <1>0, <1>3, <1>4, <1>12, SumLinear
<1>n. ASSUME NEW x, NEW y, NEW z, NEW v \in Int, \A c \in C : x[c] \in Int,
             \A c \in C : y[c] \in Int, \A c \in C : z[c] = x[c] + v * y[c]
      PROVE Sum(z, C) = Sum(x, C) + v * Sum(y, C)
    <2>1. \A c \in C : z[c] = 1 * x[c] + v * y[c]
        BY <1>n
    <2>2. Sum(z, C) = 1 * Sum(x, C) + v * Sum(y, C)
        BY <1>0, <1>n, <2>1, SumLinear
    <2>3. Sum(x, C) \in Int
        BY <1>0, <1>n, SumInt
    <2> QED
        BY <2>2, <2>3
<1>22. Sum(h3, C) = Sum(h2, C) + w3 * Sum(f3, C)
    BY <1>n, <1>3, <1>4, <1>13, <1>17
<1>23. Sum(h4, C) = Sum(h3, C) + w4 * Sum(f4, C)
    BY <1>n, <1>3, <1>4, <1>14, <1>17
<1>24. Sum(h5, C) = Sum(h4, C) + w5 * Sum(f5, C)
    BY <1>n, <1>3, <1>4, <1>15, <1>17
<1>25. Sum(h6, C) = Sum(h5, C) + w6 * Sum(f6, C)
    BY <1>n, <1>3, <1>4, <1>16, <1>17
<1>26. Sum(h, C) = Sum(h6, C) + w7 * Sum(f7, C)
    BY <1>n, <1>3, <1>4, <1>18, <1>17
<1> QED
    BY <1>6, <1>21, <1>22, <1>23, <1>24, <1>25, <1>26

\* The sum over a set of activities.
LEMMA SumPick ==
    ASSUME NEW x, \A a \in Activities : x[a] \in Int, NEW A \in SUBSET Activities
    PROVE Sum(x, A) = Seven([a \in Activities |-> IF a \in A THEN 1 ELSE 0], x)
<1> DEFINE h == [a \in Activities |-> IF a \in A THEN x[a] ELSE 0]
<1>1. /\ (\A a \in Activities : h[a] = IF a \in A THEN x[a] ELSE 0)
      /\ (\A a \in Activities : h[a] \in Int)
    OBVIOUS
<1> HIDE DEF h
<1>2. IsFiniteSet({"sleep"}) /\ Sum(h, {"sleep"}) = h["sleep"]
    BY <1>1, SevenActivities, FS_Singleton, SumOne
<1> DEFINE A6 == {"sleep"} \cup {"halt"}
<1> DEFINE A5 == A6 \cup {"miss"}
<1> DEFINE A4 == A5 \cup {"l2m"}
<1> DEFINE A3 == A4 \cup {"l3"}
<1> DEFINE A2 == A3 \cup {"l2"}
<1> DEFINE A1 == A2 \cup {"l1"}
<1>h. /\ h["l1"] \in Int /\ h["l2"] \in Int /\ h["l3"] \in Int /\ h["l2m"] \in Int
      /\ h["miss"] \in Int /\ h["halt"] \in Int /\ h["sleep"] \in Int
    BY <1>1, SevenActivities
<1>d. /\ "halt" \notin {"sleep"} /\ "miss" \notin A6 /\ "l2m" \notin A5
      /\ "l3" \notin A4 /\ "l2" \notin A3 /\ "l1" \notin A2
    OBVIOUS
<1>t. /\ (\A a \in {"sleep"} : h[a] \in Int) /\ (\A a \in A6 : h[a] \in Int)
      /\ (\A a \in A5 : h[a] \in Int) /\ (\A a \in A4 : h[a] \in Int)
      /\ (\A a \in A3 : h[a] \in Int) /\ (\A a \in A2 : h[a] \in Int)
    BY <1>h
<1>e. Activities = A1
    BY SevenActivities
<1>6. IsFiniteSet(A6) /\ Sum(h, A6) = h["halt"] + Sum(h, {"sleep"})
    BY <1>h, <1>d, <1>t, <1>2, SumAdd
<1> HIDE DEF A6
<1>7. IsFiniteSet(A5) /\ Sum(h, A5) = h["miss"] + Sum(h, A6)
    BY <1>h, <1>d, <1>t, <1>6, SumAdd
<1> HIDE DEF A5
<1>8. IsFiniteSet(A4) /\ Sum(h, A4) = h["l2m"] + Sum(h, A5)
    BY <1>h, <1>d, <1>t, <1>7, SumAdd
<1> HIDE DEF A4
<1>9. IsFiniteSet(A3) /\ Sum(h, A3) = h["l3"] + Sum(h, A4)
    BY <1>h, <1>d, <1>t, <1>8, SumAdd
<1> HIDE DEF A3
<1>10. IsFiniteSet(A2) /\ Sum(h, A2) = h["l2"] + Sum(h, A3)
    BY <1>h, <1>d, <1>t, <1>9, SumAdd
<1> HIDE DEF A2
<1>11. IsFiniteSet(A1) /\ Sum(h, A1) = h["l1"] + Sum(h, A2)
    BY <1>h, <1>d, <1>t, <1>10, SumAdd
<1> HIDE DEF A1
<1>12. Sum(h, Activities) = h["l1"] + h["l2"] + h["l3"] + h["l2m"]
                            + h["miss"] + h["halt"] + h["sleep"]
    BY <1>2, <1>6, <1>7, <1>8, <1>9, <1>10, <1>11, <1>e, <1>h
<1>13. IsFiniteSet(Activities)
    BY <1>11, <1>e
<1>14. Sum(h, Activities) = Sum(h, A) + Sum(h, Activities \ A)
    BY <1>1, <1>13, SumUnion
<1>15. IsFiniteSet(A) /\ IsFiniteSet(Activities \ A)
    BY <1>13, FS_Subset
<1>16. Sum(h, A) = Sum(x, A)
    <2>1. (\A a \in A : x[a] \in Int) /\ (\A a \in A : h[a] = x[a])
        BY <1>1
    <2> QED
        BY <1>15, <2>1, SumSame
<1>17. Sum(h, Activities \ A) = 0
    <2>1. \A a \in Activities \ A : h[a] = 0
        BY <1>1
    <2>2. Sum(h, Activities \ A) = 0 * Cardinality(Activities \ A)
        BY <1>15, <2>1, SumConstant
    <2>3. Cardinality(Activities \ A) \in Nat
        BY <1>15, FS_CardinalityType
    <2> QED
        BY <2>2, <2>3
<1>18. Sum(x, A) \in Int
    <2>1. \A a \in A : x[a] \in Int
        OBVIOUS
    <2> QED
        BY <1>15, <2>1, SumInt
<1>19. Sum(x, A) = h["l1"] + h["l2"] + h["l3"] + h["l2m"] + h["miss"] + h["halt"] + h["sleep"]
    BY <1>12, <1>14, <1>16, <1>17, <1>18
<1> DEFINE w == [a \in Activities |-> IF a \in A THEN 1 ELSE 0]
<1>20. \A a \in Activities : w[a] * x[a] = h[a]
    BY <1>1
<1> HIDE DEF w
<1>21. Seven(w, x) = h["l1"] + h["l2"] + h["l3"] + h["l2m"] + h["miss"] + h["halt"] + h["sleep"]
    BY <1>20, SevenActivities DEF Seven
<1> QED
    BY <1>19, <1>21 DEF w

\* What a core or a group of cores did, from the shares.
LEMMA DidShares ==
    ASSUME TypeOK, NEW C \in SUBSET Cores, NEW A \in SUBSET Activities
    PROVE Did(C, A) = Seven([a \in Activities |-> IF a \in A THEN 1 ELSE 0], Shares(did, C))
<1> DEFINE w == [a \in Activities |-> IF a \in A THEN 1 ELSE 0]
<1> DEFINE h == [c \in C |-> SumFunctionOnSet(did[c], A)]
<1>1. did \in [Cores -> [Activities -> Nat]] /\ w \in [Activities -> Int]
    BY DEF TypeOK
<1>2. ASSUME NEW c \in C PROVE h[c] = Seven(w, did[c])
    <2>1. \A a \in Activities : did[c][a] \in Int
        BY <1>1
    <2>2. Sum(did[c], A) = Seven(w, did[c])
        BY <2>1, SumPick
    <2> QED
        BY <2>2 DEF Sum
<1>3. Did(C, A) = Sum(h, C)
    <2>1. DOMAIN h = C
        OBVIOUS
    <2> QED
        BY <2>1 DEF Did, Sum, SumFunction
<1> HIDE DEF w, h
<1>4. Sum(h, C) = Seven(w, Shares(did, C))
    BY <1>1, <1>2, SumSeven
<1> QED
    BY <1>3, <1>4 DEF w

\* The totals of a register, from the shares.
LEMMA TotalShares ==
    ASSUME TypeOK, NEW s \in States, NEW t \in States, NEW T, Since(T, s, t, did),
           NEW C \in SUBSET Cores, NEW r \in CoreRegs
    PROVE Total(t, C, r) = Total(s, C, r) + Weighted(r, Shares(did, C))
<1> DEFINE w == [a \in Activities |-> CoreGain(a)[r]]
<1> DEFINE h == [c \in C |-> Weighted(r, did[c])]
<1> DEFINE f == [c \in C |-> s.core[c][r]]
<1> DEFINE g == [c \in C |-> t.core[c][r]]
<1>0. IsFiniteSet(C) /\ did \in [Cores -> [Activities -> Nat]]
    BY CoreSets DEF TypeOK
<1>1. w \in [Activities -> Int]
    BY CoreGainType
<1>2. \A x : Weighted(r, x) = Seven(w, x)
    BY SevenActivities DEF Weighted, Seven
<1>3. \A c \in C : h[c] = Seven(w, did[c])
    BY <1>2
<1>4. \A c \in C : h[c] \in Int
    BY <1>0, WeightedNat
<1>5. \A c \in C : f[c] \in Int /\ g[c] = f[c] + h[c]
    BY RegNat DEF Since
<1> HIDE DEF w, h, f, g
<1>6. Sum(h, C) = Seven(w, Shares(did, C))
    BY <1>0, <1>1, <1>3, SumSeven
<1>7. \A c \in C : g[c] = 1 * f[c] + 1 * h[c]
    BY <1>4, <1>5
<1>8. Sum(g, C) = 1 * Sum(f, C) + 1 * Sum(h, C)
    BY <1>0, <1>4, <1>5, <1>7, SumLinear
<1>9. Sum(f, C) \in Int /\ Sum(h, C) \in Int
    BY <1>0, <1>4, <1>5, SumInt
<1>10. Sum(g, C) = Sum(f, C) + Weighted(r, Shares(did, C))
    BY <1>2, <1>6, <1>8, <1>9
<1> QED
    BY <1>10 DEF f, g, Total

\* The weights, register by register.
LEMMA WeightedTable ==
    ASSUME TypeOK, NEW x \in [Activities -> Nat]
    PROVE LET work == x["l1"] + x["l2"] + x["l3"] + x["l2m"] + x["miss"]
          IN  /\ Weighted("InstRetiredAny", x) = work
              /\ Weighted("CpuClkUnhaltedRef", x) = work
              /\ Weighted("CpuClkUnhaltedThread", x) = work + x["l2"]
              /\ Weighted("InvariantTSC", x) = work + x["halt"] + x["sleep"]
              /\ Weighted("CState2", x) = 0
              /\ Weighted("CState3", x) = x["sleep"]
              /\ mode = "CUSTOM_CORE_EVENTS" =>
                    /\ Weighted("Event0", x) = work /\ Weighted("Event1", x) = x["l1"]
                    /\ Weighted("Event2", x) = x["l2"] /\ Weighted("Event3", x) = x["l3"]
              /\ mode = "DEFAULT_EVENTS" /\ Atom =>
                    /\ Weighted("Event0", x) = x["l3"] + x["l2m"] + x["miss"]
                    /\ Weighted("Event1", x) = x["l2"] + x["l3"] + x["l2m"] + x["miss"]
              /\ mode = "DEFAULT_EVENTS" /\ ~Atom =>
                    /\ Weighted("Event0", x) = x["miss"] /\ Weighted("Event1", x) = x["l3"]
                    /\ Weighted("Event2", x) = x["l2m"] /\ Weighted("Event3", x) = x["l2"]
<1>1. /\ x["l1"] \in Nat /\ x["l2"] \in Nat /\ x["l3"] \in Nat /\ x["l2m"] \in Nat
      /\ x["miss"] \in Nat /\ x["halt"] \in Nat /\ x["sleep"] \in Nat
    BY SevenActivities
<1> DEFINE G(a, r) == CoreGain(a)[r]
<1>2. \A r : Weighted(r, x) =
        G("l1", r) * x["l1"] + G("l2", r) * x["l2"] + G("l3", r) * x["l3"]
        + G("l2m", r) * x["l2m"] + G("miss", r) * x["miss"]
        + G("halt", r) * x["halt"] + G("sleep", r) * x["sleep"]
    BY DEF Weighted
<1>3. \A a \in Activities :
          /\ G(a, "InvariantTSC") = 1
          /\ G(a, "CpuClkUnhaltedThread") =
                IF a = "l2" THEN 2 ELSE IF a \in Accesses THEN 1 ELSE 0
          /\ G(a, "InstRetiredAny") = IF a \in Accesses THEN 1 ELSE 0
          /\ G(a, "CpuClkUnhaltedRef") = IF a \in Accesses THEN 1 ELSE 0
          /\ G(a, "CState3") = IF a = "sleep" THEN 1 ELSE 0
          /\ G(a, "CState2") = 0
          /\ G(a, "Event0") = IF a \in EventSet(0) THEN 1 ELSE 0
          /\ G(a, "Event1") = IF a \in EventSet(1) THEN 1 ELSE 0
          /\ G(a, "Event2") = IF a \in EventSet(2) THEN 1 ELSE 0
          /\ G(a, "Event3") = IF a \in EventSet(3) THEN 1 ELSE 0
    BY GainTable
<1> HIDE DEF G
<1>4. Accesses = {"l1", "l2", "l3", "l2m", "miss"}
    BY DEF Accesses
<1>11. Weighted("InstRetiredAny", x) = x["l1"] + x["l2"] + x["l3"] + x["l2m"] + x["miss"]
    BY <1>1, <1>2, <1>3, <1>4, SevenActivities
<1>12. Weighted("CpuClkUnhaltedRef", x) = x["l1"] + x["l2"] + x["l3"] + x["l2m"] + x["miss"]
    BY <1>1, <1>2, <1>3, <1>4, SevenActivities
<1>13. Weighted("CpuClkUnhaltedThread", x)
            = x["l1"] + x["l2"] + x["l3"] + x["l2m"] + x["miss"] + x["l2"]
    BY <1>1, <1>2, <1>3, <1>4, SevenActivities
<1>14. Weighted("InvariantTSC", x)
            = x["l1"] + x["l2"] + x["l3"] + x["l2m"] + x["miss"] + x["halt"] + x["sleep"]
    BY <1>1, <1>2, <1>3, SevenActivities
<1>15. Weighted("CState2", x) = 0 /\ Weighted("CState3", x) = x["sleep"]
    BY <1>1, <1>2, <1>3, SevenActivities
<1>16. ASSUME mode = "CUSTOM_CORE_EVENTS"
       PROVE /\ Weighted("Event0", x) = x["l1"] + x["l2"] + x["l3"] + x["l2m"] + x["miss"]
             /\ Weighted("Event1", x) = x["l1"]
             /\ Weighted("Event2", x) = x["l2"] /\ Weighted("Event3", x) = x["l3"]
    <2>1. /\ EventSet(0) = {"l1", "l2", "l3", "l2m", "miss"} /\ EventSet(1) = {"l1"}
          /\ EventSet(2) = {"l2"} /\ EventSet(3) = {"l3"}
        BY <1>4, <1>16, EventTable
    <2>2. Weighted("Event0", x) = x["l1"] + x["l2"] + x["l3"] + x["l2m"] + x["miss"]
        BY <1>1, <1>2, <1>3, <2>1, SevenActivities
    <2>3. Weighted("Event1", x) = x["l1"]
        BY <1>1, <1>2, <1>3, <2>1, SevenActivities
    <2>4. Weighted("Event2", x) = x["l2"]
        BY <1>1, <1>2, <1>3, <2>1, SevenActivities
    <2>5. Weighted("Event3", x) = x["l3"]
        BY <1>1, <1>2, <1>3, <2>1, SevenActivities
    <2> QED
        BY <2>2, <2>3, <2>4, <2>5
<1>17. ASSUME mode = "DEFAULT_EVENTS", Atom
       PROVE /\ Weighted("Event0", x) = x["l3"] + x["l2m"] + x["miss"]
             /\ Weighted("Event1", x) = x["l2"] + x["l3"] + x["l2m"] + x["miss"]
    <2>1. EventSet(0) = {"l3", "l2m", "miss"} /\ EventSet(1) = {"l2", "l3", "l2m", "miss"}
        BY <1>4, <1>17, EventTable
    <2>2. Weighted("Event0", x) = x["l3"] + x["l2m"] + x["miss"]
        BY <1>1, <1>2, <1>3, <2>1, SevenActivities
    <2>3. Weighted("Event1", x) = x["l2"] + x["l3"] + x["l2m"] + x["miss"]
        BY <1>1, <1>2, <1>3, <2>1, SevenActivities
    <2> QED
        BY <2>2, <2>3
<1>18. ASSUME mode = "DEFAULT_EVENTS", ~Atom
       PROVE /\ Weighted("Event0", x) = x["miss"] /\ Weighted("Event1", x) = x["l3"]
             /\ Weighted("Event2", x) = x["l2m"] /\ Weighted("Event3", x) = x["l2"]
    <2>1. /\ EventSet(0) = {"miss"} /\ EventSet(1) = {"l3"}
          /\ EventSet(2) = {"l2m"} /\ EventSet(3) = {"l2"}
        BY <1>18, EventTable
    <2>2. Weighted("Event0", x) = x["miss"]
        BY <1>1, <1>2, <1>3, <2>1, SevenActivities
    <2>3. Weighted("Event1", x) = x["l3"]
        BY <1>1, <1>2, <1>3, <2>1, SevenActivities
    <2>4. Weighted("Event2", x) = x["l2m"]
        BY <1>1, <1>2, <1>3, <2>1, SevenActivities
    <2>5. Weighted("Event3", x) = x["l2"]
        BY <1>1, <1>2, <1>3, <2>1, SevenActivities
    <2> QED
        BY <2>2, <2>3, <2>4, <2>5
<1> QED
    BY <1>11, <1>12, <1>13, <1>14, <1>15, <1>16, <1>17, <1>18

\* The shares are numbers.
LEMMA SharesType ==
    ASSUME TypeOK, NEW C \in SUBSET Cores
    PROVE Shares(did, C) \in [Activities -> Nat]
<1>1. did \in [Cores -> [Activities -> Nat]]
    BY DEF TypeOK
<1>2. \A a \in Activities : Times(did, C, a) \in Nat
    BY <1>1, TimesInt
<1> QED
    BY <1>2 DEF Shares

\* How often the cores of C did something, from the shares.
LEMMA DidTable ==
    ASSUME TypeOK, NEW C \in SUBSET Cores, NEW x, x = Shares(did, C)
    PROVE /\ Did(C, Activities) =
                x["l1"] + x["l2"] + x["l3"] + x["l2m"] + x["miss"] + x["halt"] + x["sleep"]
          /\ Did(C, Accesses) = x["l1"] + x["l2"] + x["l3"] + x["l2m"] + x["miss"]
          /\ Did(C, {"l1"}) = x["l1"]
          /\ Did(C, {"l2"}) = x["l2"]
          /\ Did(C, {"l3"}) = x["l3"]
          /\ Did(C, {"l2m"}) = x["l2m"]
          /\ Did(C, {"miss"}) = x["miss"]
          /\ Did(C, {"halt"}) = x["halt"]
          /\ Did(C, {"sleep"}) = x["sleep"]
          /\ Did(C, {"l3", "l2m", "miss"}) = x["l3"] + x["l2m"] + x["miss"]
          /\ Did(C, {"l3", "l2m"}) = x["l3"] + x["l2m"]
          /\ Did(C, {"miss", "l2m"}) = x["miss"] + x["l2m"]
<1>1. x \in [Activities -> Nat]
    BY SharesType
<1>2. /\ x["l1"] \in Nat /\ x["l2"] \in Nat /\ x["l3"] \in Nat /\ x["l2m"] \in Nat
      /\ x["miss"] \in Nat /\ x["halt"] \in Nat /\ x["sleep"] \in Nat
    BY <1>1, SevenActivities
<1>3. ASSUME NEW A \in SUBSET Activities
      PROVE Did(C, A) = (IF "l1" \in A THEN x["l1"] ELSE 0) + (IF "l2" \in A THEN x["l2"] ELSE 0)
                + (IF "l3" \in A THEN x["l3"] ELSE 0) + (IF "l2m" \in A THEN x["l2m"] ELSE 0)
                + (IF "miss" \in A THEN x["miss"] ELSE 0) + (IF "halt" \in A THEN x["halt"] ELSE 0)
                + (IF "sleep" \in A THEN x["sleep"] ELSE 0)
    <2> DEFINE w == [a \in Activities |-> IF a \in A THEN 1 ELSE 0]
    <2>1. Did(C, A) = Seven(w, x)
        BY DidShares
    <2>2. ASSUME NEW a \in Activities PROVE w[a] * x[a] = IF a \in A THEN x[a] ELSE 0
        BY <1>1
    <2> HIDE DEF w
    <2> QED
        BY <2>1, <2>2, SevenActivities DEF Seven
<1>4. Accesses = {"l1", "l2", "l3", "l2m", "miss"}
    BY DEF Accesses
<1>11. Did(C, Activities) =
            x["l1"] + x["l2"] + x["l3"] + x["l2m"] + x["miss"] + x["halt"] + x["sleep"]
    BY <1>2, <1>3, <1>4, SevenActivities
<1>12. Did(C, Accesses) = x["l1"] + x["l2"] + x["l3"] + x["l2m"] + x["miss"]
    BY <1>2, <1>3, <1>4, SevenActivities
<1>13. Did(C, {"l1"}) = x["l1"]
    BY <1>2, <1>3, <1>4, SevenActivities
<1>14. Did(C, {"l2"}) = x["l2"]
    BY <1>2, <1>3, <1>4, SevenActivities
<1>15. Did(C, {"l3"}) = x["l3"]
    BY <1>2, <1>3, <1>4, SevenActivities
<1>16. Did(C, {"l2m"}) = x["l2m"]
    BY <1>2, <1>3, <1>4, SevenActivities
<1>17. Did(C, {"miss"}) = x["miss"]
    BY <1>2, <1>3, <1>4, SevenActivities
<1>18. Did(C, {"halt"}) = x["halt"]
    BY <1>2, <1>3, <1>4, SevenActivities
<1>19. Did(C, {"sleep"}) = x["sleep"]
    BY <1>2, <1>3, <1>4, SevenActivities
<1>20. Did(C, {"l3", "l2m", "miss"}) = x["l3"] + x["l2m"] + x["miss"]
    BY <1>2, <1>3, <1>4, SevenActivities
<1>21. Did(C, {"l3", "l2m"}) = x["l3"] + x["l2m"]
    BY <1>2, <1>3, <1>4, SevenActivities
<1>22. Did(C, {"miss", "l2m"}) = x["miss"] + x["l2m"]
    BY <1>2, <1>3, <1>4, SevenActivities
<1> QED
    BY <1>11, <1>12, <1>13, <1>14, <1>15, <1>16, <1>17, <1>18, <1>19, <1>20, <1>21, <1>22

\* A number below the modulus is its own remainder.
LEMMA SmallRemainder ==
    ASSUME NEW n \in Nat, n < Modulus
    PROVE n % Modulus = n
<1>1. Modulus \in Nat /\ Modulus > 0
    BY Instance
<1> QED
    BY <1>1

\* What is said of the cores of C is exact, when the differences of the registers
\* are.
LEMMA ExactOfShares ==
    ASSUME TypeOK, NEW C \in SUBSET Cores, NEW b, NEW a, NEW x, x = Shares(did, C),
           \A r \in CoreRegs : Diff(b, a, r) = Weighted(r, x),
           x["l2"] < Modulus, mode = "DEFAULT_EVENTS" => x["l1"] = 0
    PROVE ExactCore(C, b, a)
<1>1. x \in [Activities -> Nat]
    BY SharesType
<1> DEFINE n1 == x["l1"]
<1> DEFINE n2 == x["l2"]
<1> DEFINE n3 == x["l3"]
<1> DEFINE n4 == x["l2m"]
<1> DEFINE n5 == x["miss"]
<1> DEFINE n6 == x["halt"]
<1> DEFINE n7 == x["sleep"]
<1> DEFINE W == n1 + n2 + n3 + n4 + n5
<1>2. /\ n1 \in Nat /\ n2 \in Nat /\ n3 \in Nat /\ n4 \in Nat
      /\ n5 \in Nat /\ n6 \in Nat /\ n7 \in Nat /\ W \in Nat
    BY <1>1, SevenActivities
<1>3. /\ Weighted("InstRetiredAny", x) = W
      /\ Weighted("CpuClkUnhaltedRef", x) = W
      /\ Weighted("CpuClkUnhaltedThread", x) = W + n2
      /\ Weighted("InvariantTSC", x) = W + n6 + n7
      /\ Weighted("CState2", x) = 0
      /\ Weighted("CState3", x) = n7
      /\ mode = "CUSTOM_CORE_EVENTS" =>
            /\ Weighted("Event0", x) = W /\ Weighted("Event1", x) = n1
            /\ Weighted("Event2", x) = n2 /\ Weighted("Event3", x) = n3
      /\ mode = "DEFAULT_EVENTS" /\ Atom =>
            /\ Weighted("Event0", x) = n3 + n4 + n5
            /\ Weighted("Event1", x) = n2 + n3 + n4 + n5
      /\ mode = "DEFAULT_EVENTS" /\ ~Atom =>
            /\ Weighted("Event0", x) = n5 /\ Weighted("Event1", x) = n3
            /\ Weighted("Event2", x) = n4 /\ Weighted("Event3", x) = n2
    BY <1>1, WeightedTable
<1>4. /\ Did(C, Activities) = W + n6 + n7 /\ Did(C, Accesses) = W
      /\ Did(C, {"l1"}) = n1 /\ Did(C, {"l2"}) = n2 /\ Did(C, {"l3"}) = n3
      /\ Did(C, {"l2m"}) = n4 /\ Did(C, {"miss"}) = n5 /\ Did(C, {"halt"}) = n6
      /\ Did(C, {"sleep"}) = n7 /\ Did(C, {"l3", "l2m", "miss"}) = n3 + n4 + n5
      /\ Did(C, {"l3", "l2m"}) = n3 + n4
    BY DidTable
<1>5. CoreRegs = {"InstRetiredAny", "CpuClkUnhaltedThread", "CpuClkUnhaltedRef", "Event0",
             "Event1", "Event2", "Event3", "InvariantTSC", "CState2", "CState3"}
    BY DEF CoreRegs
<1>6. /\ Diff(b, a, "InstRetiredAny") = W
      /\ Diff(b, a, "CpuClkUnhaltedRef") = W
      /\ Diff(b, a, "CpuClkUnhaltedThread") = W + n2
      /\ Diff(b, a, "InvariantTSC") = W + n6 + n7
      /\ Diff(b, a, "CState2") = 0
      /\ Diff(b, a, "CState3") = n7
      /\ mode = "CUSTOM_CORE_EVENTS" =>
            /\ Diff(b, a, "Event0") = W /\ Diff(b, a, "Event1") = n1
            /\ Diff(b, a, "Event2") = n2 /\ Diff(b, a, "Event3") = n3
      /\ mode = "DEFAULT_EVENTS" /\ Atom =>
            /\ Diff(b, a, "Event0") = n3 + n4 + n5
            /\ Diff(b, a, "Event1") = n2 + n3 + n4 + n5
      /\ mode = "DEFAULT_EVENTS" /\ ~Atom =>
            /\ Diff(b, a, "Event0") = n5 /\ Diff(b, a, "Event1") = n3
            /\ Diff(b, a, "Event2") = n4 /\ Diff(b, a, "Event3") = n2
    BY <1>3, <1>5
<1>7. n2 < Modulus /\ (mode = "DEFAULT_EVENTS" => n1 = 0)
    OBVIOUS
<1>8. NominalFrequency \in Nat
    BY Instance
<1> DEFINE time == W + n6 + n7
<1> DEFINE cycles == W + n2
<1>9. Leftover(b, a) = n6
    <2> DEFINE f == [i \in CStates |-> Diff(b, a, CStateResidency(i))]
    <2>1. CStates = {2, 3} /\ DOMAIN f = CStates
        BY DEF CStates
    <2>2. f[2] = 0 /\ f[3] = n7
        BY <1>6, <2>1 DEF CStateResidency
    <2>3. SumFunction(f) = Sum(f, {2, 3})
        BY <2>1 DEF Sum, SumFunction
    <2> HIDE DEF f
    <2> DEFINE i == 2
    <2> DEFINE j == 3
    <2>4. f[i] \in Int /\ f[j] \in Int /\ i # j
        BY <1>2, <2>2
    <2> HIDE DEF i, j
    <2>8. Sum(f, {i, j}) = f[i] + f[j]
        BY <2>4, SumTwo
    <2>5. Sum(f, {2, 3}) = f[2] + f[3]
        BY <2>8 DEF i, j
    <2>6. SumFunction(f) = n7
        BY <1>2, <2>2, <2>3, <2>5
    <2>7. Leftover(b, a) = (W + n6 + n7) - W - SumFunction(f)
        BY <1>6 DEF Leftover, getInvariantTSC, getRefCycles, f
    <2> HIDE DEF n6, n7, W
    <2> QED
        BY <1>2, <2>6, <2>7
<1> HIDE DEF n1, n2, n3, n4, n5, n6, n7
<1>10. W = n1 + n2 + n3 + n4 + n5 /\ time = W + n6 + n7 /\ cycles = W + n2
    OBVIOUS
<1> HIDE DEF W, time, cycles
<1>11. /\ getInstructionsRetired(b, a) = W /\ getCycles(b, a) = cycles
       /\ getInvariantTSC(b, a) = time /\ getRefCycles(b, a) = W
    BY <1>6, <1>10 DEF getInstructionsRetired, getCycles, getInvariantTSC, getRefCycles
<1>12. time \in Nat /\ cycles \in Nat /\ (cycles > 0 => W > 0) /\ n6 <= time
    BY <1>2, <1>10
<1>13. ASSUME cycles > 0
       PROVE /\ Equal(getIPC(b, a), W, cycles)
             /\ Equal(getActiveAverageFrequency(b, a), NominalFrequency * cycles, W)
             /\ Equal(getActiveRelativeFrequency(b, a), cycles, W)
    <2>1. cycles # 0 /\ W # 0
        BY <1>2, <1>12, <1>13
    <2>2. /\ getIPC(b, a) = <<W, cycles>>
          /\ getActiveAverageFrequency(b, a) = <<NominalFrequency * cycles, W>>
          /\ getActiveRelativeFrequency(b, a) = <<cycles, W>>
        BY <1>11, <2>1 DEF getIPC, getActiveAverageFrequency, getActiveRelativeFrequency, Over
    <2> QED
        BY <2>2 DEF Equal
<1>14. ASSUME time > 0
       PROVE /\ Equal(getExecUsage(b, a), W, time)
             /\ Equal(getAverageFrequency(b, a), NominalFrequency * cycles, time)
             /\ Equal(getRelativeFrequency(b, a), cycles, time)
             /\ Equal(getCoreCStateResidency(0, b, a), W, time)
             /\ Equal(getCoreCStateResidency(1, b, a), n6, time)
             /\ Equal(getCoreCStateResidency(2, b, a), 0, time)
             /\ Equal(getCoreCStateResidency(3, b, a), n7, time)
    <2>1. time # 0
        BY <1>12, <1>14
    <2>2. /\ getExecUsage(b, a) = <<W, time>>
          /\ getAverageFrequency(b, a) = <<NominalFrequency * cycles, time>>
          /\ getRelativeFrequency(b, a) = <<cycles, time>>
        BY <1>11, <2>1 DEF getExecUsage, getAverageFrequency, getRelativeFrequency, Over
    <2>3. ~(n6 < 0) /\ ~(n6 > time)
        BY <1>2, <1>12
    <2>4. /\ getCoreCStateResidency(0, b, a) = <<W, time>>
          /\ getCoreCStateResidency(1, b, a) = <<n6, time>>
          /\ getCoreCStateResidency(2, b, a) = <<0, time>>
          /\ getCoreCStateResidency(3, b, a) = <<n7, time>>
        BY <1>6, <1>9, <1>11, <2>3 DEF getCoreCStateResidency, CStateResidency
    <2> QED
        BY <2>2, <2>4 DEF Equal
<1>15. ASSUME mode = "DEFAULT_EVENTS"
       PROVE /\ getL2CacheHits(b, a) = n2
             /\ getL2CacheMisses(b, a) = n3 + n4 + n5
             /\ W > 0 => Equal(getL2CacheHitRatio(b, a), n2, W)
             /\ ~Atom => /\ getL3CacheHits(b, a) = n3 + n4
                         /\ getL3CacheMisses(b, a) = n5
                         /\ n3 + n4 + n5 > 0 =>
                                Equal(getL3CacheHitRatio(b, a), n3 + n4, n3 + n4 + n5)
                         /\ cycles > 0 =>
                            /\ Equal(getCyclesLostDueL3CacheMisses(b, a), 180 * n5, cycles)
                            /\ Equal(getCyclesLostDueL2CacheMisses(b, a),
                                     35 * n3 + 74 * n4, cycles)
    <2>0. W = n2 + n3 + n4 + n5
        BY <1>2, <1>7, <1>10, <1>15
    <2>1. CASE Atom
        <3>1. ArchLLCMiss(b, a) = n3 + n4 + n5 /\ ArchLLCRef(b, a) = W
            BY <1>6, <1>15, <2>0, <2>1 DEF ArchLLCMiss, ArchLLCRef
        <3>2. ArchLLCRef(b, a) - ArchLLCMiss(b, a) = n2
            BY <1>2, <2>0, <3>1
        <3>3. getL2CacheHits(b, a) = n2
            BY <1>2, <1>7, <2>1, <3>2, SmallRemainder DEF getL2CacheHits
        <3>4. getL2CacheMisses(b, a) = n3 + n4 + n5
            BY <2>1, <3>1 DEF getL2CacheMisses
        <3>5. ASSUME W > 0 PROVE Equal(getL2CacheHitRatio(b, a), n2, W)
            <4>1. W # 0
                BY <1>2, <3>5
            <4>2. getL2CacheHitRatio(b, a) = <<n2, W>>
                BY <2>1, <3>1, <3>2, <4>1 DEF getL2CacheHitRatio, HitRatio
            <4> QED
                BY <4>2 DEF Equal
        <3> QED
            BY <2>1, <3>3, <3>4, <3>5
    <2>2. CASE ~Atom
        <3>1. /\ L3Miss(b, a) = n5 /\ L3UnsharedHit(b, a) = n3
              /\ L2HitM(b, a) = n4 /\ L2Hit(b, a) = n2
            BY <1>6, <1>15, <2>2 DEF L3Miss, L3UnsharedHit, L2HitM, L2Hit
        <3>2. getL2CacheHits(b, a) = n2 /\ getL3CacheMisses(b, a) = n5
            BY <2>2, <3>1 DEF getL2CacheHits, getL3CacheMisses
        <3>3. getL2CacheMisses(b, a) = n3 + n4 + n5
            <4>1. getL2CacheMisses(b, a) = n4 + n3 + n5
                BY <2>2, <3>1 DEF getL2CacheMisses
            <4> QED
                BY <1>2, <4>1
        <3>4. getL3CacheHits(b, a) = n3 + n4
            <4>1. getL3CacheHits(b, a) = n4 + n3
                BY <2>2, <3>1 DEF getL3CacheHits, getL3CacheHitsSnoop, getL3CacheHitsNoSnoop
            <4> QED
                BY <1>2, <4>1
        <3>5. ASSUME W > 0 PROVE Equal(getL2CacheHitRatio(b, a), n2, W)
            <4>1. W # 0 /\ n2 + (n3 + n4 + n5) = W
                BY <1>2, <2>0, <3>5
            <4>2. getL2CacheHitRatio(b, a) = <<n2, W>>
                BY <2>2, <3>1, <3>3, <4>1 DEF getL2CacheHitRatio, HitRatio
            <4> QED
                BY <4>2 DEF Equal
        <3>6. ASSUME n3 + n4 + n5 > 0
              PROVE Equal(getL3CacheHitRatio(b, a), n3 + n4, n3 + n4 + n5)
            <4>1. n3 + n4 + n5 # 0
                BY <1>2, <3>6
            <4>2. getL3CacheHitRatio(b, a) = <<n3 + n4, n3 + n4 + n5>>
                BY <2>2, <3>3, <3>4, <4>1 DEF getL3CacheHitRatio, HitRatio
            <4> QED
                BY <4>2 DEF Equal
        <3>7. ASSUME cycles > 0
              PROVE /\ Equal(getCyclesLostDueL3CacheMisses(b, a), 180 * n5, cycles)
                    /\ Equal(getCyclesLostDueL2CacheMisses(b, a), 35 * n3 + 74 * n4, cycles)
            <4>1. cycles # 0
                BY <1>12, <3>7
            <4>2. /\ getCyclesLostDueL3CacheMisses(b, a) = <<180 * n5, cycles>>
                  /\ getCyclesLostDueL2CacheMisses(b, a) = <<35 * n3 + 74 * n4, cycles>>
                BY <1>11, <2>2, <3>1, <4>1
                   DEF getCyclesLostDueL3CacheMisses, getCyclesLostDueL2CacheMisses, Over
            <4> QED
                BY <4>2 DEF Equal
        <3> QED
            BY <3>2, <3>3, <3>4, <3>5, <3>6, <3>7
    <2> QED
        BY <2>1, <2>2
<1>16. ASSUME mode = "CUSTOM_CORE_EVENTS"
       PROVE /\ Equal(getL1CacheHit(b, a), n1, W)
             /\ Equal(getL2CacheHit(b, a), n2, W)
             /\ Equal(getL3CacheHit(b, a), n3, W)
    <2> DEFINE V == <<"Event0", "Event1", "Event2", "Event3">>
    <2>1. /\ V[0 + 1] = "Event0" /\ V[1 + 1] = "Event1"
          /\ V[2 + 1] = "Event2" /\ V[3 + 1] = "Event3"
        OBVIOUS
    <2>2. /\ getNumberOfCustomEvents(0, b, a) = W /\ getNumberOfCustomEvents(1, b, a) = n1
          /\ getNumberOfCustomEvents(2, b, a) = n2 /\ getNumberOfCustomEvents(3, b, a) = n3
        BY <1>6, <1>16, <2>1 DEF getNumberOfCustomEvents
    <2>3. /\ getL1CacheHit(b, a) = <<n1, W>> /\ getL2CacheHit(b, a) = <<n2, W>>
          /\ getL3CacheHit(b, a) = <<n3, W>>
        BY <2>2 DEF getL1CacheHit, getL2CacheHit, getL3CacheHit
    <2> QED
        BY <2>3 DEF Equal
<1>17. /\ Did(C, Activities) = time /\ Did(C, Accesses) = W
       /\ Did(C, Accesses) + Did(C, {"l2"}) = cycles
    BY <1>4, <1>10
<1> QED
    BY <1>4, <1>11, <1>13, <1>14, <1>15, <1>16, <1>17 DEF ExactCore

-----------------------------------------------------------------------------
(* The inductive invariant and the exact metrics *)

\* The inductive invariant.
Inv == TypeOK /\ BoundInv /\ OrderInv /\ WorkInv /\ ExactInv

\* The inductive invariant holds in every reachable state.
LEMMA InvAlways == Spec => []Inv
<1>1. Init => Inv
    BY TypeInit, BoundInit, OrderInit, WorkInit, ExactInit DEF Inv
<1>2. Inv /\ [Next]_vars => Inv'
    BY TypeStep, BoundStep, OrderStep, WorkStep, ExactStep DEF Inv
<1> QED
    BY <1>1, <1>2, PTL DEF Spec

\* A measured total: both states keep within the modulus, and what is read of them
\* is the true difference.
LEMMA TrueDifference ==
    ASSUME Inv, pc = "done", NEW C \in SUBSET Cores, NEW r \in CoreRegs
    PROVE /\ Total(before, C, r) \in Nat /\ Total(after, C, r) \in Nat
          /\ Total(after, C, r) - Total(before, C, r) \in Nat
          /\ Total(after, C, r) - Total(before, C, r) < Modulus
          /\ (Total(after, C, r) - Total(before, C, r)) % Modulus
                = Total(after, C, r) - Total(before, C, r)
<1>1. /\ before \in States /\ after \in States /\ TypeOK /\ BoundInv /\ Kept \in SUBSET Pairs
      /\ StateBehind(Kept, Together, before, after)
      /\ StateBehind(Kept, Together, after, Snapshot)
      /\ StateBehind(Kept, Together, before, Snapshot)
    BY DEF Inv, OrderInv, TypeOK, Kept
<1> DEFINE x == Total(before, C, r)
<1> DEFINE y == Total(after, C, r)
<1> DEFINE n == MaxTicks * Cardinality(Cores)
<1>2. x <= y
    BY <1>1, TotalOrder
<1>3. x \in Int /\ y \in Int
    BY <1>1, TotalAll
<1>4. x >= 0 /\ y >= 0 /\ y <= 3 * n
    BY <1>1, TotalBound
<1>5. Modulus \in Nat /\ Modulus > 64 * n /\ n \in Nat
    <2>1. MaxTicks \in Nat /\ Cardinality(Cores) \in Nat /\ Modulus \in Nat
          /\ Modulus > 64 * (MaxTicks * Cardinality(Cores))
        BY Instance
    <2>2. MaxTicks * Cardinality(Cores) \in Nat
        BY <2>1
    <2> QED
        BY <2>1, <2>2
<1> HIDE DEF x, y, n
<1>6. y - x \in Nat /\ y - x < Modulus /\ x \in Nat /\ y \in Nat
    BY <1>2, <1>3, <1>4, <1>5
<1>7. (y - x) % Modulus = y - x
    BY <1>6, SmallRemainder
<1> QED
    BY <1>6, <1>7 DEF x, y

\* What nothing disturbed, in numbers.
LEMMA StillShares ==
    ASSUME Inv, pc = "done", still, NEW C \in SUBSET Cores, NEW r \in CoreRegs
    PROVE /\ (Total(after, C, r) - Total(before, C, r)) % Modulus = Weighted(r, Shares(did, C))
          /\ Weighted(r, Shares(did, C)) \in Nat /\ Weighted(r, Shares(did, C)) < Modulus
<1>1. /\ before \in States /\ after \in States /\ TypeOK /\ after = Snapshot
    BY DEF Inv, ExactInv, TypeOK
<1>2. PICK T \in 0..ticks : Since(T, before, Snapshot, did)
    BY DEF Inv, ExactInv
<1>3. Total(after, C, r) = Total(before, C, r) + Weighted(r, Shares(did, C))
    BY <1>1, <1>2, TotalShares
<1>4. Weighted(r, Shares(did, C)) \in Nat
    BY <1>1, SharesType, WeightedNat
<1> DEFINE x == Total(before, C, r)
<1> DEFINE y == Total(after, C, r)
<1> DEFINE w == Weighted(r, Shares(did, C))
<1>5. /\ x \in Nat /\ y \in Nat /\ y - x < Modulus /\ (y - x) % Modulus = y - x
    BY TrueDifference
<1> HIDE DEF x, y, w
<1>6. y = x + w /\ w \in Nat
    BY <1>3, <1>4 DEF x, y, w
<1>7. y - x = w
    BY <1>5, <1>6
<1>8. (y - x) % Modulus = w /\ w \in Nat /\ w < Modulus
    BY <1>5, <1>6, <1>7
<1> QED
    BY <1>8 DEF x, y, w

\* The metrics of a core, of a socket or of the system, when nothing disturbed
\* the reads, are computed from totals over its cores and so are exact.
LEMMA ExactGroup ==
    ASSUME Inv, pc = "done", still, NEW C \in SUBSET Cores, NEW b, NEW a,
           \A r \in CoreRegs : /\ b.basic[r] = Total(before, C, r)
                               /\ a.basic[r] = Total(after, C, r)
    PROVE ExactCore(C, b, a)
<1> DEFINE x == Shares(did, C)
<1>1. TypeOK /\ WorkInv
    BY DEF Inv
<1>2. x \in [Activities -> Nat]
    BY <1>1, SharesType
<1>3. \A r \in CoreRegs : Diff(b, a, r) = Weighted(r, x)
    BY StillShares DEF Diff
<1>4. x["l2"] < Modulus
    <2>1. Weighted("InstRetiredAny", x) < Modulus
        BY StillShares DEF CoreRegs
    <2>2. Weighted("InstRetiredAny", x) = x["l1"] + x["l2"] + x["l3"] + x["l2m"] + x["miss"]
        BY <1>1, <1>2, WeightedTable
    <2>3. /\ x["l1"] \in Nat /\ x["l2"] \in Nat /\ x["l3"] \in Nat /\ x["l2m"] \in Nat
          /\ x["miss"] \in Nat /\ Modulus \in Nat
        BY <1>2, SevenActivities, Instance
    <2> HIDE DEF x
    <2> QED
        BY <2>1, <2>2, <2>3
<1>5. ASSUME mode = "DEFAULT_EVENTS" PROVE x["l1"] = 0
    <2>1. ASSUME NEW c \in C PROVE did[c]["l1"] = 0
        <3>1. "l1" \notin Doable(c)
            BY <1>5 DEF Doable
        <3> QED
            BY <1>1, <3>1, SevenActivities DEF WorkInv
    <2>2. Times(did, C, "l1") = 0
        BY <2>1, TimesNone
    <2> QED
        BY <2>2, SevenActivities DEF Shares
<1> HIDE DEF x
<1>6. x = Shares(did, C)
    BY DEF x
<1> QED
    BY <1>1, <1>3, <1>4, <1>5, <1>6, ExactOfShares

\* The differences of the accumulated registers of the sockets.
LEMMA UncoreExact ==
    ASSUME Inv, pc = "done", still, NEW T \in 0..ticks, Since(T, before, Snapshot, did),
           NEW r \in UncoreRegs, NEW j, NEW k, Sockets = {j, k}, j # k
    PROVE SystemCounterState(after).uncore[r] - SystemCounterState(before).uncore[r]
            = LinkWork(T, did, j, r) + LinkWork(T, did, k, r)
<1>1. /\ before \in States /\ after \in States /\ TypeOK /\ after = Snapshot
    BY DEF Inv, ExactInv, TypeOK
<1>2. /\ SystemCounterState(after).uncore[r] = after.uncore[j][r] + after.uncore[k][r]
      /\ SystemCounterState(before).uncore[r] = before.uncore[j][r] + before.uncore[k][r]
    <2>1. before \in States /\ after \in States
        BY <1>1
    <2>2. \A s \in States : SystemCounterState(s).uncore[r] = s.uncore[j][r] + s.uncore[k][r]
        BY SystemUncore
    <2> QED
        BY <2>1, <2>2
<1>3. /\ after.uncore[j][r] = before.uncore[j][r] + LinkWork(T, did, j, r)
      /\ after.uncore[k][r] = before.uncore[k][r] + LinkWork(T, did, k, r)
    BY <1>1 DEF Since
<1>4. /\ before.uncore[j][r] \in Nat /\ before.uncore[k][r] \in Nat
      /\ after.uncore[j][r] \in Nat /\ after.uncore[k][r] \in Nat
    BY <1>1, StateRegs
<1>5. LinkWork(T, did, j, r) \in Int /\ LinkWork(T, did, k, r) \in Int
    <2>1. ASSUME NEW i \in Sockets PROVE LinkWork(T, did, i, r) \in Int
        <3>1. "miss" \in Activities /\ "l2m" \in Activities /\ "halt" \in Activities
            /\ At(i) \in SUBSET Cores /\ Cores \ At(i) \in SUBSET Cores
            BY SevenActivities, CoreSets
        <3>2. /\ Times(did, At(i), "l2m") \in Nat /\ Times(did, At(i), "halt") \in Nat
              /\ Times(did, At(i), "miss") \in Nat /\ Times(did, Cores \ At(i), "miss") \in Nat
            BY <1>1, <3>1, TimesInt DEF TypeOK
        <3>3. T \in Int /\ LinkFlits * T \in Int
            BY Instance
        <3> QED
            BY <3>2, <3>3 DEF LinkWork, Flits
    <2> QED
        BY <2>1
<1> DEFINE v == LinkWork(T, did, j, r)
<1> DEFINE w == LinkWork(T, did, k, r)
<1> DEFINE x == before.uncore[j][r]
<1> DEFINE y == before.uncore[k][r]
<1>6. /\ SystemCounterState(after).uncore[r] = (x + v) + (y + w)
      /\ SystemCounterState(before).uncore[r] = x + y
      /\ v \in Int /\ w \in Int /\ x \in Int /\ y \in Int
    BY <1>2, <1>3, <1>4, <1>5
<1> HIDE DEF v, w, x, y
<1>7. SystemCounterState(after).uncore[r] - SystemCounterState(before).uncore[r] = v + w
    BY <1>6
<1> QED
    BY <1>7 DEF v, w

\* What the cores of both sockets did.
LEMMA TimesBySocket ==
    ASSUME TypeOK, NEW a \in Activities, NEW j, NEW k, Sockets = {j, k}, j # k
    PROVE /\ Times(did, Cores, a) = Times(did, At(j), a) + Times(did, At(k), a)
          /\ Cores \ At(j) = At(k) /\ Cores \ At(k) = At(j)
          /\ Times(did, At(j), a) \in Nat /\ Times(did, At(k), a) \in Nat
<1>1. did \in [Cores -> [Activities -> Nat]]
    BY DEF TypeOK
<1> DEFINE f == [c \in Cores |-> did[c][a]]
<1>2. \A c \in Cores : f[c] \in Int
    BY <1>1
<1>3. ASSUME NEW C \in SUBSET Cores PROVE Times(did, C, a) = Sum(f, C)
    <2> DEFINE g == [c \in C |-> did[c][a]]
    <2>1. (\A c \in C : f[c] \in Int) /\ (\A c \in C : g[c] = f[c]) /\ IsFiniteSet(C)
        BY <1>2, CoreSets
    <2> HIDE DEF f, g
    <2>2. Sum(g, C) = Sum(f, C)
        BY <2>1, SumSame
    <2> QED
        BY <2>2 DEF g, Times
<1> HIDE DEF f
<1>4. Sum(f, Cores) = Sum(f, At(j)) + Sum(f, At(k))
    BY <1>2, BySocket
<1>5. At(j) \in SUBSET Cores /\ At(k) \in SUBSET Cores /\ Cores \in SUBSET Cores
    BY CoreSets
<1>6. Times(did, Cores, a) = Times(did, At(j), a) + Times(did, At(k), a)
    BY <1>3, <1>4, <1>5
<1>7. Times(did, At(j), a) \in Nat /\ Times(did, At(k), a) \in Nat
    BY <1>1, <1>5, TimesInt
<1>8. Cores \ At(j) = At(k) /\ Cores \ At(k) = At(j)
    BY Instance DEF At
<1> QED
    BY <1>6, <1>7, <1>8

\* There is a core, so that the modulus exceeds the number of ticks.
LEMMA SomeCore ==
    ASSUME TypeOK
    PROVE /\ Cardinality(Cores) >= 1 /\ Cardinality(online) >= 1
          /\ Cardinality(online) \in Nat /\ Cardinality(online) <= Cardinality(Cores)
          /\ Modulus > 64 * MaxTicks /\ (Cardinality(online) = Cardinality(Cores) => online = Cores)
<1>1. PICK j, k : Sockets = {j, k} /\ j # k
    BY TwoSockets
<1>2. online \in SUBSET Cores /\ \E c : c \in online
    BY <1>1 DEF TypeOK
<1>3. IsFiniteSet(online) /\ IsFiniteSet(Cores)
    BY <1>2, CoreSets, Instance
<1>4. Cardinality(online) # 0 /\ Cardinality(online) \in Nat
    BY <1>2, <1>3, FS_EmptySet, FS_CardinalityType
<1>5. Cardinality(online) <= Cardinality(Cores) /\ Cardinality(Cores) \in Nat
      /\ (Cardinality(online) = Cardinality(Cores) => online = Cores)
    BY <1>2, <1>3, FS_Subset, Instance
<1> DEFINE n == Cardinality(Cores)
<1> HIDE DEF n
<1>6. n >= 1 /\ n \in Nat
    BY <1>4, <1>5 DEF n
<1>7. MaxTicks \in Nat /\ Modulus \in Nat /\ Modulus > 64 * (MaxTicks * n)
    BY Instance DEF n
<1>8. MaxTicks * n >= MaxTicks /\ MaxTicks * n \in Nat
    BY <1>6, <1>7
<1>9. Modulus > 64 * MaxTicks
    BY <1>7, <1>8
<1> QED
    BY <1>4, <1>5, <1>6, <1>9 DEF n

\* The cores that are online share the time of all.
LEMMA TotalTime ==
    ASSUME TypeOK, WorkInv, NEW T \in Nat, \A c \in online : Spent(did[c]) = T
    PROVE Did(Cores, Activities) = T * Cardinality(online)
<1> DEFINE h == [c \in Cores |-> SumFunctionOnSet(did[c], Activities)]
<1>1. Did(Cores, Activities) = Sum(h, Cores)
    <2>1. DOMAIN h = Cores
        OBVIOUS
    <2> QED
        BY <2>1 DEF Did, Sum, SumFunction
<1>2. ASSUME NEW c \in Cores PROVE h[c] = Spent(did[c])
    <2> DEFINE x == did[c]
    <2> DEFINE w == [a \in Activities |-> IF a \in Activities THEN 1 ELSE 0]
    <2>1. \A a \in Activities : x[a] \in Nat
        BY DEF TypeOK
    <2>2. h[c] = Sum(x, Activities)
        BY DEF Sum
    <2> HIDE DEF x, h
    <2>3. Sum(x, Activities) = Seven(w, x)
        <3>1. Activities \in SUBSET Activities /\ \A a \in Activities : x[a] \in Int
            BY <2>1
        <3> QED
            BY <3>1, SumPick
    <2>4. \A a \in Activities : w[a] * x[a] = x[a]
        BY <2>1
    <2> HIDE DEF w
    <2>5. Seven(w, x) = Spent(x)
        BY <2>4, SevenActivities DEF Seven, Spent
    <2> QED
        BY <2>2, <2>3, <2>5 DEF x
<1> HIDE DEF h
<1>3. \A c \in online : h[c] = T
    BY <1>2 DEF TypeOK
<1>4. \A c \in Cores \ online : h[c] = 0
    BY <1>2, NothingDone DEF WorkInv
<1>5. online \in SUBSET Cores /\ IsFiniteSet(Cores) /\ IsFiniteSet(online)
      /\ IsFiniteSet(Cores \ online)
    BY CoreSets, Instance DEF TypeOK
<1>6. \A c \in Cores : h[c] \in Int
    BY <1>3, <1>4, <1>5
<1>7. Sum(h, Cores) = Sum(h, online) + Sum(h, Cores \ online)
    BY <1>5, <1>6, SumUnion
<1>8. Sum(h, online) = T * Cardinality(online)
    BY <1>3, <1>5, SumConstant
<1>9. Sum(h, Cores \ online) = 0 * Cardinality(Cores \ online)
    BY <1>4, <1>5, SumConstant
<1>10. Cardinality(online) \in Nat /\ Cardinality(Cores \ online) \in Nat
    BY <1>5, FS_CardinalityType
<1>11. T * Cardinality(online) \in Int /\ 0 * Cardinality(Cores \ online) = 0
    BY <1>10
<1> QED
    BY <1>1, <1>7, <1>8, <1>9, <1>11

\* The numbers that the metrics of the system are made of.
LEMMA SystemExact ==
    ASSUME Inv, pc = "done", still, NEW T \in 0..ticks, Since(T, before, Snapshot, did),
           NEW b, b = SystemCounterState(before), NEW a, a = SystemCounterState(after)
    PROVE /\ DiffUncore(b, a, "UncMCNormalReads") = Did(Cores, {"miss"})
          /\ DiffUncore(b, a, "UncMCFullWrites") = Did(Cores, {"l2m"})
          /\ DiffUncore(b, a, "UncMCIORequests") = Did(Cores, {"halt"})
          /\ DiffUncore(b, a, "DRAMEnergyStatus") = Did(Cores, {"miss", "l2m"})
          /\ DiffUncore(b, a, "PackageEnergyStatus") = 2 * T
<1>1. TypeOK /\ WorkInv
    BY DEF Inv
<1>2. PICK j, k : Sockets = {j, k} /\ j # k
    BY TwoSockets
<1>3. "miss" \in Activities /\ "l2m" \in Activities /\ "halt" \in Activities
    BY SevenActivities
<1> DEFINE S(x) == Times(did, At(j), x)
<1> DEFINE R(x) == Times(did, At(k), x)
<1>4. Cores \ At(j) = At(k) /\ Cores \ At(k) = At(j)
    BY <1>1, <1>2, <1>3, TimesBySocket
<1>5. \A x \in Activities : /\ Times(did, Cores, x) = S(x) + R(x)
                            /\ S(x) \in Nat /\ R(x) \in Nat
    BY <1>1, <1>2, TimesBySocket
<1> DEFINE x == Shares(did, Cores)
<1>6. /\ Did(Cores, {"miss"}) = x["miss"] /\ Did(Cores, {"l2m"}) = x["l2m"]
      /\ Did(Cores, {"halt"}) = x["halt"] /\ Did(Cores, {"miss", "l2m"}) = x["miss"] + x["l2m"]
    BY <1>1, DidTable
<1>7. x["miss"] = S("miss") + R("miss") /\ x["l2m"] = S("l2m") + R("l2m")
      /\ x["halt"] = S("halt") + R("halt")
    BY <1>3, <1>5 DEF Shares
<1>8. x \in [Activities -> Nat]
    BY <1>1, SharesType
<1>9. x["miss"] + x["l2m"] < Modulus /\ x["halt"] < Modulus
      /\ x["miss"] \in Nat /\ x["l2m"] \in Nat /\ x["halt"] \in Nat
    <2>1. Weighted("InvariantTSC", x) < Modulus
        BY StillShares DEF CoreRegs
    <2>2. Weighted("InvariantTSC", x) = x["l1"] + x["l2"] + x["l3"] + x["l2m"] + x["miss"]
                                        + x["halt"] + x["sleep"]
        BY <1>1, <1>8, WeightedTable
    <2>3. /\ x["l1"] \in Nat /\ x["l2"] \in Nat /\ x["l3"] \in Nat /\ x["l2m"] \in Nat
          /\ x["miss"] \in Nat /\ x["halt"] \in Nat /\ x["sleep"] \in Nat /\ Modulus \in Nat
        BY <1>8, SevenActivities, Instance
    <2> HIDE DEF x
    <2> QED
        BY <2>1, <2>2, <2>3
<1>10. T \in Nat /\ 2 * T < Modulus
    <2>1. ticks \in Nat /\ ticks <= MaxTicks /\ MaxTicks \in Nat /\ Modulus > 64 * MaxTicks
          /\ Modulus \in Nat
        BY <1>1, SomeCore, Instance DEF TypeOK
    <2> QED
        BY <2>1
<1>11. ASSUME NEW r \in UncoreRegs
       PROVE DiffUncore(b, a, r) = (LinkWork(T, did, j, r) + LinkWork(T, did, k, r)) % Modulus
    <2>1. a.uncore[r] - b.uncore[r] = LinkWork(T, did, j, r) + LinkWork(T, did, k, r)
        BY <1>2, UncoreExact
    <2> QED
        BY <2>1 DEF DiffUncore
<1> HIDE DEF S, R, x
<1>12. /\ LinkWork(T, did, j, "UncMCFullWrites") = S("l2m")
       /\ LinkWork(T, did, k, "UncMCFullWrites") = R("l2m")
       /\ LinkWork(T, did, j, "UncMCNormalReads") = R("miss")
       /\ LinkWork(T, did, k, "UncMCNormalReads") = S("miss")
       /\ LinkWork(T, did, j, "UncMCIORequests") = S("halt")
       /\ LinkWork(T, did, k, "UncMCIORequests") = R("halt")
       /\ LinkWork(T, did, j, "DRAMEnergyStatus") = R("miss") + S("l2m")
       /\ LinkWork(T, did, k, "DRAMEnergyStatus") = S("miss") + R("l2m")
       /\ LinkWork(T, did, j, "PackageEnergyStatus") = T
       /\ LinkWork(T, did, k, "PackageEnergyStatus") = T
    BY <1>4 DEF LinkWork, S, R
<1>13. /\ S("miss") \in Nat /\ R("miss") \in Nat /\ S("l2m") \in Nat /\ R("l2m") \in Nat
       /\ S("halt") \in Nat /\ R("halt") \in Nat
    BY <1>3, <1>5
<1>14. /\ LinkWork(T, did, j, "UncMCFullWrites") + LinkWork(T, did, k, "UncMCFullWrites") = x["l2m"]
       /\ LinkWork(T, did, j, "UncMCNormalReads") + LinkWork(T, did, k, "UncMCNormalReads")
            = x["miss"]
       /\ LinkWork(T, did, j, "UncMCIORequests") + LinkWork(T, did, k, "UncMCIORequests")
            = x["halt"]
       /\ LinkWork(T, did, j, "DRAMEnergyStatus") + LinkWork(T, did, k, "DRAMEnergyStatus")
            = x["miss"] + x["l2m"]
       /\ LinkWork(T, did, j, "PackageEnergyStatus") + LinkWork(T, did, k, "PackageEnergyStatus")
            = 2 * T
    BY <1>7, <1>10, <1>12, <1>13
<1>15. /\ x["l2m"] % Modulus = x["l2m"] /\ x["miss"] % Modulus = x["miss"]
       /\ x["halt"] % Modulus = x["halt"]
       /\ (x["miss"] + x["l2m"]) % Modulus = x["miss"] + x["l2m"]
       /\ (2 * T) % Modulus = 2 * T
    <2>1. /\ x["miss"] \in Nat /\ x["miss"] < Modulus /\ x["l2m"] \in Nat /\ x["l2m"] < Modulus
          /\ x["halt"] \in Nat /\ x["halt"] < Modulus
          /\ x["miss"] + x["l2m"] \in Nat /\ x["miss"] + x["l2m"] < Modulus
          /\ 2 * T \in Nat /\ 2 * T < Modulus
        BY <1>9, <1>10, Instance
    <2> QED
        BY <2>1, SmallRemainder
<1>16. /\ "UncMCFullWrites" \in UncoreRegs /\ "UncMCNormalReads" \in UncoreRegs
       /\ "UncMCIORequests" \in UncoreRegs /\ "DRAMEnergyStatus" \in UncoreRegs
       /\ "PackageEnergyStatus" \in UncoreRegs
    BY DEF UncoreRegs
<1>21. DiffUncore(b, a, "UncMCNormalReads") = x["miss"]
    BY <1>11, <1>14, <1>15, <1>16
<1>22. DiffUncore(b, a, "UncMCFullWrites") = x["l2m"]
    BY <1>11, <1>14, <1>15, <1>16
<1>23. DiffUncore(b, a, "UncMCIORequests") = x["halt"]
    BY <1>11, <1>14, <1>15, <1>16
<1>24. DiffUncore(b, a, "DRAMEnergyStatus") = x["miss"] + x["l2m"]
    BY <1>11, <1>14, <1>15, <1>16
<1>25. DiffUncore(b, a, "PackageEnergyStatus") = 2 * T
    BY <1>11, <1>14, <1>15, <1>16
<1> QED
    BY <1>6, <1>21, <1>22, <1>23, <1>24, <1>25

\* The inductive invariant gives the exact metrics of an undisturbed measurement.
LEMMA ExactImplied ==
    ASSUME Inv, pc = "done", still
    PROVE MetricsExact
<1> DEFINE b == SystemCounterState(before)
<1> DEFINE a == SystemCounterState(after)
<1>1. TypeOK /\ WorkInv /\ before \in States /\ after \in States
    BY DEF Inv, TypeOK
<1>2. PICK T \in 0..ticks : Since(T, before, Snapshot, did)
    BY DEF Inv, ExactInv
<1>3. ASSUME NEW c \in Cores
      PROVE ExactCore({c}, CoreCounterState(before, c), CoreCounterState(after, c))
    <2>1. ASSUME NEW s \in States, NEW r \in CoreRegs
          PROVE CoreCounterState(s, c).basic[r] = Total(s, {c}, r)
        <3> DEFINE f == [d \in {c} |-> s.core[d][r]]
        <3>1. f[c] = s.core[c][r] /\ f[c] \in Int
            BY RegNat
        <3> HIDE DEF f
        <3>2. Sum(f, {c}) = f[c]
            BY <3>1, SumOne
        <3> QED
            BY <3>1, <3>2 DEF CoreCounterState, Total, f
    <2>2. {c} \in SUBSET Cores
        OBVIOUS
    <2>3. \A r \in CoreRegs : /\ CoreCounterState(before, c).basic[r] = Total(before, {c}, r)
                              /\ CoreCounterState(after, c).basic[r] = Total(after, {c}, r)
        BY <1>1, <2>1
    <2> QED
        BY <2>2, <2>3, ExactGroup
<1>4. ASSUME NEW k \in Sockets
      PROVE ExactCore({c \in Cores : SocketOf[c] = k},
                          SocketCounterState(before, k), SocketCounterState(after, k))
    <2>1. \A r \in CoreRegs : /\ SocketCounterState(before, k).basic[r] = Total(before, At(k), r)
                              /\ SocketCounterState(after, k).basic[r] = Total(after, At(k), r)
        BY SocketBasic
    <2>2. ExactCore(At(k), SocketCounterState(before, k), SocketCounterState(after, k))
        BY <2>1, CoreSets, ExactGroup
    <2> QED
        BY <2>2 DEF At
<1>5. ExactCore(Cores, b, a)
    <2>1. \A r \in CoreRegs : /\ b.basic[r] = Total(before, Cores, r)
                              /\ a.basic[r] = Total(after, Cores, r)
        BY <1>1, SystemBasic
    <2>2. Cores \in SUBSET Cores
        OBVIOUS
    <2> HIDE DEF b, a
    <2> QED
        BY <2>1, <2>2, ExactGroup
<1>6. /\ DiffUncore(b, a, "UncMCNormalReads") = Did(Cores, {"miss"})
      /\ DiffUncore(b, a, "UncMCFullWrites") = Did(Cores, {"l2m"})
      /\ DiffUncore(b, a, "UncMCIORequests") = Did(Cores, {"halt"})
      /\ DiffUncore(b, a, "DRAMEnergyStatus") = Did(Cores, {"miss", "l2m"})
      /\ DiffUncore(b, a, "PackageEnergyStatus") = 2 * T
    BY <1>2, SystemExact
<1> HIDE DEF b, a
<1> DEFINE W == Did(Cores, Accesses)
<1> DEFINE time == Did(Cores, Activities)
<1> DEFINE L == Did(Cores, {"l2"})
<1>7. /\ W \in Nat /\ L \in Nat /\ time \in Nat /\ W <= time
    <2> DEFINE x == Shares(did, Cores)
    <2>1. /\ W = x["l1"] + x["l2"] + x["l3"] + x["l2m"] + x["miss"] /\ L = x["l2"]
          /\ time = x["l1"] + x["l2"] + x["l3"] + x["l2m"] + x["miss"] + x["halt"] + x["sleep"]
        BY <1>1, DidTable
    <2>2. x \in [Activities -> Nat]
        BY <1>1, SharesType
    <2>3. /\ x["l1"] \in Nat /\ x["l2"] \in Nat /\ x["l3"] \in Nat /\ x["l2m"] \in Nat
          /\ x["miss"] \in Nat /\ x["halt"] \in Nat /\ x["sleep"] \in Nat
        BY <2>2, SevenActivities
    <2> HIDE DEF x, W, L, time
    <2> QED
        BY <2>1, <2>3
<1> HIDE DEF W, time, L
<1>8. /\ getInstructionsRetired(b, a) = W /\ getCycles(b, a) = W + L
      /\ getInvariantTSC(b, a) = time
    BY <1>5 DEF ExactCore, W, L, time
<1>9. online # Cores => getCoreIPC(b, a) = None /\ getTotalExecUsage(b, a) = None
    BY DEF getCoreIPC, getTotalExecUsage, PerCore
<1>10. ASSUME online = Cores, W > 0
       PROVE /\ Equal(getCoreIPC(b, a), ThreadsPerCore * W, W + L)
             /\ Equal(getTotalExecUsage(b, a), ThreadsPerCore * W, time)
    <2>1. W + L # 0 /\ time # 0 /\ W >= 0
        BY <1>7, <1>10
    <2>2. getIPC(b, a) = <<W, W + L>> /\ getExecUsage(b, a) = <<W, time>>
        BY <1>8, <2>1 DEF getIPC, getExecUsage, Over
    <2>3. /\ getCoreIPC(b, a) = <<W * ThreadsPerCore, W + L>>
          /\ getTotalExecUsage(b, a) = <<W * ThreadsPerCore, time>>
        BY <1>10, <2>1, <2>2 DEF getCoreIPC, getTotalExecUsage, PerCore
    <2>4. W * ThreadsPerCore = ThreadsPerCore * W
        BY <1>7, Instance
    <2> QED
        BY <2>3, <2>4 DEF Equal
<1>11. /\ getBytesReadFromMC(b, a) = 64 * Did(Cores, {"miss"})
       /\ getBytesWrittenToMC(b, a) = 64 * Did(Cores, {"l2m"})
       /\ getIORequestBytesFromMC(b, a) = 64 * Did(Cores, {"halt"})
       /\ getDRAMConsumedEnergy(b, a) = Did(Cores, {"miss", "l2m"})
    <2> DEFINE x == Shares(did, Cores)
    <2>1. /\ Did(Cores, {"miss"}) = x["miss"] /\ Did(Cores, {"l2m"}) = x["l2m"]
          /\ Did(Cores, {"halt"}) = x["halt"]
        BY <1>1, DidTable
    <2>2. x \in [Activities -> Nat]
        BY <1>1, SharesType
    <2>3. /\ Did(Cores, {"miss"}) \in Nat /\ Did(Cores, {"l2m"}) \in Nat
          /\ Did(Cores, {"halt"}) \in Nat
        BY <2>1, <2>2, SevenActivities
    <2> HIDE DEF x
    <2> QED
        BY <1>6, <2>3 DEF getBytesReadFromMC, getBytesWrittenToMC, getIORequestBytesFromMC,
                          getDRAMConsumedEnergy
<1>12. getConsumedEnergy(b, a) * Cardinality(online)
            = Did(Cores, Activities) * Cardinality(Sockets)
    <2>1. T \in Nat /\ \A c \in online : Spent(did[c]) = T
        BY <1>1, <1>2 DEF Since, TypeOK
    <2>2. Did(Cores, Activities) = T * Cardinality(online)
        BY <1>1, <2>1, TotalTime
    <2>3. getConsumedEnergy(b, a) = 2 * T /\ Cardinality(Sockets) = 2
        BY <1>6, Instance DEF getConsumedEnergy
    <2>4. Cardinality(online) \in Nat
        BY <1>1, SomeCore
    <2> DEFINE n == Cardinality(online)
    <2> HIDE DEF n
    <2>5. (2 * T) * n = (T * n) * 2
        BY <2>1, <2>4 DEF n
    <2> QED
        BY <2>2, <2>3, <2>5 DEF n
<1> QED
    BY <1>3, <1>4, <1>5, <1>9, <1>10, <1>11, <1>12 DEF MetricsExact, b, a, W, L, time

\* When nothing happens while the counters are read, the metrics of cpucounters.h
\* (getIPC, getL2CacheHits, getBytesReadFromMC, ...) say what the cores really did,
\* for a core, a socket and the system, although the states are accumulated over
\* cores and sockets in unsigned registers: for every number of cores on the
\* sockets, every set of them online, every frequency and number of ticks.
THEOREM MetricsExactAlways == Spec => []MetricsExact
<1>1. Inv => MetricsExact
    <2>1. ASSUME Inv, ~(pc = "done" /\ still) PROVE MetricsExact
        BY <2>1 DEF MetricsExact
    <2> QED
        BY <2>1, ExactImplied
<1> QED
    BY <1>1, InvAlways, PTL

-----------------------------------------------------------------------------
(* The ratios *)

\* A difference is a number, whatever is read.
LEMMA DiffNat ==
    ASSUME TypeOK, NEW b, b = SystemCounterState(before), NEW a, a = SystemCounterState(after),
           NEW r \in CoreRegs
    PROVE Diff(b, a, r) \in Nat
<1>1. before \in States /\ after \in States /\ Cores \in SUBSET Cores
    BY DEF TypeOK
<1>2. b.basic[r] \in Int /\ a.basic[r] \in Int
    BY <1>1, SystemBasic, TotalAll
<1>3. Modulus \in Nat /\ Modulus > 0
    BY Instance
<1> QED
    BY <1>2, <1>3 DEF Diff

\* The time in C1 is kept within the time measured.
LEMMA ResidencyInUnit ==
    ASSUME TypeOK, NEW b, b = SystemCounterState(before), NEW a, a = SystemCounterState(after)
    PROVE InUnit(getCoreCStateResidency(1, b, a))
<1> DEFINE tsc == getInvariantTSC(b, a)
<1> DEFINE left == Leftover(b, a)
<1>1. \A r \in CoreRegs : Diff(b, a, r) \in Nat
    BY DiffNat
<1>2. /\ "InvariantTSC" \in CoreRegs /\ "CpuClkUnhaltedRef" \in CoreRegs
      /\ "CState2" \in CoreRegs /\ "CState3" \in CoreRegs
    BY DEF CoreRegs
<1>3. tsc \in Nat /\ getRefCycles(b, a) \in Nat
    BY <1>1, <1>2 DEF getInvariantTSC, getRefCycles
<1>4. left \in Int
    <2> DEFINE f == [i \in CStates |-> Diff(b, a, CStateResidency(i))]
    <2>1. CStates = {2, 3} /\ DOMAIN f = CStates
        BY DEF CStates
    <2>2. \A i \in {2, 3} : f[i] \in Int
        BY <1>1, <1>2, <2>1 DEF CStateResidency
    <2>3. SumFunction(f) = Sum(f, {2, 3})
        BY <2>1 DEF Sum, SumFunction
    <2>4. left = tsc - getRefCycles(b, a) - SumFunction(f)
        BY DEF Leftover
    <2>5. IsFiniteSet({2, 3})
        <3>1. \A x, y : IsFiniteSet({x} \cup {y})
            BY FS_Singleton, FS_AddElement
        <3>2. {2} \cup {3} = {2, 3}
            OBVIOUS
        <3> QED
            BY <3>1, <3>2
    <2> HIDE DEF f
    <2>6. Sum(f, {2, 3}) \in Int
        BY <2>2, <2>5, SumInt
    <2> HIDE DEF left, tsc
    <2> QED
        BY <1>3, <2>3, <2>4, <2>6
<1>5. getCoreCStateResidency(1, b, a) =
        IF tsc # 0 /\ left < 0 THEN Zero
        ELSE IF tsc # 0 /\ left > tsc THEN One ELSE <<left, tsc>>
    BY DEF getCoreCStateResidency
<1> HIDE DEF tsc, left
<1> QED
    BY <1>3, <1>4, <1>5 DEF InUnit, Defined, Zero, One

\* A ratio of some among all is within 0..1.
LEMMA HitRatioInUnit ==
    ASSUME NEW m \in Nat, NEW n \in Nat, m <= n
    PROVE InUnit(HitRatio(m, n))
BY DEF InUnit, HitRatio, Defined, One

\* Hit ratios that are made of hits and misses counted apart.
LEMMA HitsInUnit ==
    ASSUME TypeOK, NEW b, b = SystemCounterState(before), NEW a, a = SystemCounterState(after),
           ~Atom
    PROVE InUnit(getL2CacheHitRatio(b, a)) /\ InUnit(getL3CacheHitRatio(b, a))
<1>1. \A r \in CoreRegs : Diff(b, a, r) \in Nat
    BY DiffNat
<1>2. /\ L3Miss(b, a) \in Nat /\ L3UnsharedHit(b, a) \in Nat
      /\ L2HitM(b, a) \in Nat /\ L2Hit(b, a) \in Nat
    BY <1>1 DEF L3Miss, L3UnsharedHit, L2HitM, L2Hit, CoreRegs
<1> DEFINE m == L3Miss(b, a)
<1> DEFINE u == L3UnsharedHit(b, a)
<1> DEFINE s == L2HitM(b, a)
<1> DEFINE h == L2Hit(b, a)
<1>3. getL2CacheHitRatio(b, a) = HitRatio(h, h + (s + u + m))
    BY DEF getL2CacheHitRatio, getL2CacheMisses
<1>4. getL3CacheHitRatio(b, a) = HitRatio(s + u, s + u + m)
    BY DEF getL3CacheHitRatio, getL2CacheMisses, getL3CacheHits, getL3CacheHitsSnoop,
           getL3CacheHitsNoSnoop
<1>5. m \in Nat /\ u \in Nat /\ s \in Nat /\ h \in Nat
    BY <1>2
<1> HIDE DEF m, u, s, h
<1>6. /\ h + (s + u + m) \in Nat /\ h <= h + (s + u + m)
      /\ s + u \in Nat /\ s + u + m \in Nat /\ s + u <= s + u + m
    BY <1>5
<1> QED
    BY <1>3, <1>4, <1>5, <1>6, HitRatioInUnit

\* An Atom's references and misses, read together.
LEMMA AtomInUnit ==
    ASSUME Inv, pc = "done", NEW b, b = SystemCounterState(before),
           NEW a, a = SystemCounterState(after), Atom,
           still \/ early.regs \notin {{"Event0"}, {"Event1"}}
    PROVE InUnit(getL2CacheHitRatio(b, a)) /\ getL2CacheHits(b, a) <= getInstructionsRetired(b, a)
<1>1. TypeOK /\ before \in States /\ after \in States /\ Cores \in SUBSET Cores
    BY DEF Inv, TypeOK
<1>2. StateBehind(Kept, Together, before, after) /\ Kept \in SUBSET Pairs
    BY DEF Inv, OrderInv, Kept
<1>3. <<"Event1", "Event0">> \in Kept /\ <<"InstRetiredAny", "Event1">> \in Kept
    <2>0. "InstRetiredAny" \notin early.regs /\ \A r, s \in early.regs : r = s
        BY <1>1 DEF TypeOK, EarlyType
    <2>1. still \/ ("Event0" \notin early.regs /\ "Event1" \notin early.regs)
        <3>1. ASSUME NEW r \in early.regs PROVE early.regs = {r}
            BY <2>0
        <3> QED
            BY <3>1
    <2>2. "InstRetiredAny" \notin early.regs
        BY <2>0
    <2> DEFINE p == <<"Event1", "Event0">>
    <2> DEFINE q == <<"InstRetiredAny", "Event1">>
    <2>3. /\ p[1] = "Event1" /\ p[2] = "Event0" /\ q[1] = "InstRetiredAny" /\ q[2] = "Event1"
          /\ p \in Pairs /\ q \in Pairs
        BY DEF Pairs, AtomPairs
    <2> HIDE DEF p, q
    <2>4. p \in Kept /\ q \in Kept
        BY <2>1, <2>2, <2>3 DEF Kept
    <2> QED
        BY <2>4 DEF p, q
<1> DEFINE X(r) == Total(before, Cores, r)
<1> DEFINE Y(r) == Total(after, Cores, r)
<1>4. /\ X("Event1") - X("Event0") <= Y("Event1") - Y("Event0")
      /\ X("InstRetiredAny") - X("Event1") <= Y("InstRetiredAny") - Y("Event1")
    <2>1. \A p \in Kept : X(p[1]) - X(p[2]) <= Y(p[1]) - Y(p[2])
        BY <1>1, <1>2, TotalOrder
    <2> DEFINE p == <<"Event1", "Event0">>
    <2> DEFINE q == <<"InstRetiredAny", "Event1">>
    <2>2. /\ p[1] = "Event1" /\ p[2] = "Event0" /\ q[1] = "InstRetiredAny" /\ q[2] = "Event1"
          /\ p \in Kept /\ q \in Kept
        BY <1>3
    <2> HIDE DEF p, q, X, Y
    <2> QED
        BY <2>1, <2>2
<1>5. \A r \in CoreRegs : /\ X(r) \in Nat /\ Y(r) \in Nat
                          /\ Y(r) - X(r) \in Nat /\ Y(r) - X(r) < Modulus
                          /\ Diff(b, a, r) = Y(r) - X(r)
    BY <1>1, TrueDifference, SystemBasic DEF Diff
<1> HIDE DEF X, Y
<1>6. "Event0" \in CoreRegs /\ "Event1" \in CoreRegs /\ "InstRetiredAny" \in CoreRegs
    BY DEF CoreRegs
<1> DEFINE miss == ArchLLCMiss(b, a)
<1> DEFINE ref == ArchLLCRef(b, a)
<1> DEFINE inst == getInstructionsRetired(b, a)
<1>7. /\ miss = Y("Event0") - X("Event0") /\ ref = Y("Event1") - X("Event1")
      /\ inst = Y("InstRetiredAny") - X("InstRetiredAny")
    BY <1>5, <1>6 DEF ArchLLCMiss, ArchLLCRef, getInstructionsRetired
<1>8. /\ getL2CacheHitRatio(b, a) = HitRatio(ref - miss, ref)
      /\ getL2CacheHits(b, a) = (ref - miss) % Modulus
    BY DEF getL2CacheHitRatio, getL2CacheHits
<1> HIDE DEF miss, ref, inst
<1>9. miss \in Nat /\ ref \in Nat /\ inst \in Nat /\ miss <= ref /\ ref <= inst /\ ref < Modulus
    BY <1>4, <1>5, <1>6, <1>7
<1>10. ref - miss \in Nat /\ ref - miss <= ref /\ ref - miss < Modulus /\ ref - miss <= inst
    BY <1>9, Instance
<1>11. InUnit(HitRatio(ref - miss, ref))
    BY <1>9, <1>10, HitRatioInUnit
<1>12. (ref - miss) % Modulus = ref - miss
    BY <1>10, SmallRemainder
<1> QED
    BY <1>8, <1>10, <1>11, <1>12 DEF inst

\* The utilization of a link is kept within 0..1.
LEMMA OutgoingInUnit ==
    ASSUME TypeOK, NEW b, b = SystemCounterState(before), NEW a, a = SystemCounterState(after),
           NEW k \in Sockets
    PROVE InUnit(getOutgoingQPILinkUtilization(k, b, a))
<1>1. before \in States /\ after \in States
    BY DEF TypeOK
<1>2. \A r \in UncoreRegs : b.link[k][r] \in Nat /\ a.link[k][r] \in Nat
    BY <1>1, StateRegs DEF SystemCounterState
<1>3. b.uncoreTSC \in Nat /\ a.uncoreTSC \in Nat
    <2>1. (CHOOSE i \in Sockets : TRUE) \in Sockets
        BY TwoSockets
    <2>2. "uncoreTSC" \in UncoreRegs
        BY DEF UncoreRegs
    <2> QED
        BY <1>1, <2>1, <2>2, StateRegs DEF SystemCounterState
<1> DEFINE idle == LinkDiff(k, b, a, "outgoingQPIIdleFlits")
<1> DEFINE tsc == Forward(b.uncoreTSC, a.uncoreTSC)
<1> DEFINE sent == LinkDiff(k, b, a, "outgoingQPIDataNonDataFlits")
<1> DEFINE max == MaxBytes(b, a)
<1>4. idle \in Nat /\ tsc \in Nat /\ sent \in Nat
    BY <1>2, <1>3 DEF LinkDiff, Forward, UncoreRegs
<1>5. max[1] \in Nat /\ max[2] \in Nat
    <2>1. getInvariantTSC(b, a) \in Nat
        BY DiffNat DEF getInvariantTSC, CoreRegs
    <2>2. LinkSpeed \in Nat /\ NominalFrequency \in Nat /\ Cardinality(Cores) \in Nat
        BY Instance
    <2>3. /\ max[1] = LinkSpeed * getInvariantTSC(b, a)
          /\ max[2] = Cardinality(Cores) * NominalFrequency
        BY DEF MaxBytes
    <2>4. \A m \in Nat : \A n \in Nat : m * n \in Nat
        OBVIOUS
    <2> HIDE DEF max
    <2> QED
        BY <2>1, <2>2, <2>3, <2>4
<1>6. getOutgoingQPILinkUtilization(k, b, a) =
        CASE hasBecktonUncore -> IF idle > tsc THEN Zero ELSE <<tsc - idle, tsc>>
          [] hasPCICFGUncore -> IF sent * 8 * max[2] > max[1] THEN One
                                ELSE <<sent * 8 * max[2], max[1]>>
          [] OTHER -> Zero
    BY DEF getOutgoingQPILinkUtilization
<1> DEFINE flits == sent * 8 * max[2]
<1> DEFINE m == max[1]
<1>7. flits \in Nat
    BY <1>4, <1>5
<1>8. m \in Nat
    BY <1>5
<1> HIDE DEF idle, tsc, flits, m
<1>9. getOutgoingQPILinkUtilization(k, b, a) =
        CASE hasBecktonUncore -> IF idle > tsc THEN Zero ELSE <<tsc - idle, tsc>>
          [] hasPCICFGUncore -> IF flits > m THEN One ELSE <<flits, m>>
          [] OTHER -> Zero
    BY <1>6 DEF flits, m
<1> QED
    BY <1>4, <1>7, <1>8, <1>9 DEF InUnit, Defined, Zero, One

\* The cycles in L0p are among the cycles of the link.
LEMMA PowerSavingInUnit ==
    ASSUME Inv, pc = "done", NEW b, b = SystemCounterState(before),
           NEW a, a = SystemCounterState(after), NEW k \in Sockets,
           still \/ early.uncore \notin {{"QPIClocks"}, {"QPIL0pTxCycles"}}
    PROVE InUnit(getNormalizedQPIL0pTxCycles(k, b, a))
<1>1. before \in States /\ after \in States /\ TypeOK /\ BoundInv
    BY DEF Inv, TypeOK
<1>0. Together
    <2>1. CASE still
        BY <2>1 DEF Together
    <2>2. CASE early.uncore = UncoreRegs
        BY <2>2 DEF Together, UncoreRegs
    <2>3. CASE ~still /\ \A r, s \in early.uncore : r = s
        <3>1. "QPIClocks" \notin early.uncore
            <4>1. SUFFICES ASSUME "QPIClocks" \in early.uncore PROVE FALSE
                OBVIOUS
            <4>2. early.uncore = {"QPIClocks"}
                BY <2>3, <4>1
            <4> QED
                BY <2>3, <4>2
        <3>2. "QPIL0pTxCycles" \notin early.uncore
            <4>1. SUFFICES ASSUME "QPIL0pTxCycles" \in early.uncore PROVE FALSE
                OBVIOUS
            <4>2. early.uncore = {"QPIL0pTxCycles"}
                BY <2>3, <4>1
            <4> QED
                BY <2>3, <4>2
        <3> QED
            BY <3>1, <3>2 DEF Together
    <2>4. early \in EarlyType
        BY <1>1 DEF TypeOK
    <2> QED
        BY <2>1, <2>2, <2>3, <2>4 DEF EarlyType
<1>2. /\ LinkBehind(Together, before.uncore[k], after.uncore[k])
      /\ LinkBehind(Together, after.uncore[k], uncore[k])
    BY DEF Inv, OrderInv, StateBehind, Snapshot
<1> DEFINE x == before.uncore[k]["QPIClocks"]
<1> DEFINE y == after.uncore[k]["QPIClocks"]
<1> DEFINE u == before.uncore[k]["QPIL0pTxCycles"]
<1> DEFINE v == after.uncore[k]["QPIL0pTxCycles"]
<1>3. "QPIClocks" \in UncoreRegs /\ "QPIL0pTxCycles" \in UncoreRegs
    BY DEF UncoreRegs
<1>4. x \in Nat /\ y \in Nat /\ u \in Nat /\ v \in Nat
    BY <1>1, <1>3, StateRegs
<1>5. x <= y /\ u <= v /\ x - u <= y - v
    BY <1>0, <1>2 DEF LinkBehind
<1>6. y <= 1 + MaxTicks /\ MaxTicks \in Nat /\ MaxTicks >= 1
    <2>1. y <= uncore[k]["QPIClocks"]
        BY <1>2 DEF LinkBehind
    <2>2. uncore[k]["QPIClocks"] <= 1 + ticks /\ uncore[k]["QPIClocks"] \in Nat
        BY <1>1, <1>3 DEF BoundInv, TypeOK, UncoreFiles
    <2>3. ticks \in Nat /\ ticks <= MaxTicks /\ MaxTicks \in Nat /\ MaxTicks >= 1
        BY <1>1, Instance DEF TypeOK
    <2> HIDE DEF y
    <2> QED
        BY <1>4, <2>1, <2>2, <2>3
<1>7. Modulus \in Nat /\ Modulus > 64 * MaxTicks
    BY <1>1, SomeCore, Instance
<1>8. getNormalizedQPIL0pTxCycles(k, b, a) = <<(v - u) % Modulus, (y - x) % Modulus>>
    BY DEF getNormalizedQPIL0pTxCycles, getQPIL0pTxCycles, getQPIClocks, SystemCounterState
<1> HIDE DEF x, y, u, v
<1>9. y - x \in Nat /\ v - u \in Nat /\ v - u <= y - x /\ y - x < Modulus /\ v - u < Modulus
    BY <1>4, <1>5, <1>6, <1>7
<1>10. (v - u) % Modulus = v - u /\ (y - x) % Modulus = y - x
    BY <1>9, SmallRemainder
<1>11. getNormalizedQPIL0pTxCycles(k, b, a) = <<v - u, y - x>>
    BY <1>8, <1>10
<1> QED
    BY <1>9, <1>11 DEF InUnit, Defined

\* The time in a C-state, read together with the time, is within it.
LEMMA PartOfTime ==
    ASSUME Inv, pc = "done", NEW r \in {"CpuClkUnhaltedRef", "CState3"},
           still \/ early.regs \cap {"InvariantTSC", r} = {},
           NEW b, b = SystemCounterState(before), NEW a, a = SystemCounterState(after)
    PROVE InUnit(<<Diff(b, a, r), Diff(b, a, "InvariantTSC")>>)
<1>1. TypeOK /\ before \in States /\ after \in States /\ Cores \in SUBSET Cores
    BY DEF Inv, TypeOK
<1>2. StateBehind(Kept, Together, before, after) /\ Kept \in SUBSET Pairs
    BY DEF Inv, OrderInv, Kept
<1> DEFINE p == <<"InvariantTSC", r>>
<1>3. p[1] = "InvariantTSC" /\ p[2] = r /\ p \in TimePairs
    BY DEF TimePairs
<1> HIDE DEF p
<1>4. p \in Kept
    BY <1>3 DEF Kept, Pairs
<1> DEFINE X(q) == Total(before, Cores, q)
<1> DEFINE Y(q) == Total(after, Cores, q)
<1>5. X("InvariantTSC") - X(r) <= Y("InvariantTSC") - Y(r)
    <2>1. \A q \in Kept : X(q[1]) - X(q[2]) <= Y(q[1]) - Y(q[2])
        BY <1>1, <1>2, TotalOrder
    <2> HIDE DEF X, Y
    <2> QED
        BY <2>1, <1>3, <1>4
<1>6. \A q \in CoreRegs : /\ X(q) \in Nat /\ Y(q) \in Nat
                          /\ Y(q) - X(q) \in Nat
                          /\ Diff(b, a, q) = Y(q) - X(q)
    BY <1>1, TrueDifference, SystemBasic DEF Diff
<1> HIDE DEF X, Y
<1>7. "InvariantTSC" \in CoreRegs /\ r \in CoreRegs
    BY DEF CoreRegs
<1> DEFINE part == Diff(b, a, r)
<1> DEFINE time == Diff(b, a, "InvariantTSC")
<1>8. part \in Nat /\ time \in Nat /\ part <= time
    BY <1>5, <1>6, <1>7
<1> HIDE DEF part, time
<1>9. InUnit(<<part, time>>)
    BY <1>8 DEF InUnit, Defined
<1> QED
    BY <1>9 DEF part, time

\* However the reads are disturbed, the ratios that the code clamps (the residency
\* in C1, getOutgoingQPILinkUtilization) or makes of parts of a whole (the cache
\* hit ratios) stay within 0..1; the residencies that are not clamped, the ratios
\* of an Atom and the cycles in L0p do when the two registers that matter to them
\* are read at the same time.
THEOREM RatiosInRangeAlways == Spec => []RatiosInRange
<1>1. Inv => RatiosInRange
    <2>1. ASSUME Inv, pc = "done" PROVE RatiosInRange
        <3> DEFINE b == SystemCounterState(before)
        <3> DEFINE a == SystemCounterState(after)
        <3>0. b = SystemCounterState(before) /\ a = SystemCounterState(after)
            OBVIOUS
        <3>t. TypeOK
            BY <2>1 DEF Inv
        <3> HIDE DEF b, a
        <3>1. InUnit(getCoreCStateResidency(1, b, a))
            BY <3>0, <3>t, ResidencyInUnit
        <3>2. ~Atom => InUnit(getL2CacheHitRatio(b, a)) /\ InUnit(getL3CacheHitRatio(b, a))
            BY <3>0, <3>t, HitsInUnit
        <3>3. Atom /\ (still \/ early.regs \notin {{"Event0"}, {"Event1"}}) =>
                /\ InUnit(getL2CacheHitRatio(b, a))
                /\ getL2CacheHits(b, a) <= getInstructionsRetired(b, a)
            BY <2>1, <3>0, AtomInUnit
        <3>4. \A k \in Linked : InUnit(getOutgoingQPILinkUtilization(k, b, a))
            <4>1. \A k \in Sockets : InUnit(getOutgoingQPILinkUtilization(k, b, a))
                BY <3>0, <3>t, OutgoingInUnit
            <4> QED
                BY <4>1 DEF Linked
        <3>5. /\ still \/ early.regs \cap {"InvariantTSC", "CpuClkUnhaltedRef"} = {} =>
                    InUnit(getCoreCStateResidency(0, b, a))
              /\ still \/ early.regs \cap {"InvariantTSC", "CState3"} = {} =>
                    InUnit(getCoreCStateResidency(3, b, a))
            <4>1. /\ getCoreCStateResidency(0, b, a)
                        = <<Diff(b, a, "CpuClkUnhaltedRef"), Diff(b, a, "InvariantTSC")>>
                  /\ getCoreCStateResidency(3, b, a)
                        = <<Diff(b, a, "CState3"), Diff(b, a, "InvariantTSC")>>
                BY DEF getCoreCStateResidency, CStateResidency, getRefCycles, getInvariantTSC
            <4>2. still \/ early.regs \cap {"InvariantTSC", "CpuClkUnhaltedRef"} = {} =>
                    InUnit(<<Diff(b, a, "CpuClkUnhaltedRef"), Diff(b, a, "InvariantTSC")>>)
                BY <2>1, <3>0, PartOfTime
            <4>3. still \/ early.regs \cap {"InvariantTSC", "CState3"} = {} =>
                    InUnit(<<Diff(b, a, "CState3"), Diff(b, a, "InvariantTSC")>>)
                BY <2>1, <3>0, PartOfTime
            <4> QED
                BY <4>1, <4>2, <4>3
        <3>6. still \/ early.uncore \notin {{"QPIClocks"}, {"QPIL0pTxCycles"}} =>
                \A k \in Sockets : InUnit(getNormalizedQPIL0pTxCycles(k, b, a))
            BY <2>1, <3>0, PowerSavingInUnit
        <3> QED
            BY <3>1, <3>2, <3>3, <3>4, <3>5, <3>6 DEF RatiosInRange, b, a
    <2>2. ASSUME pc # "done" PROVE RatiosInRange
        BY <2>2 DEF RatiosInRange
    <2> QED
        BY <2>1, <2>2
<1> QED
    BY <1>1, InvAlways, PTL

-----------------------------------------------------------------------------
(* The links *)

\* The conversion to an integer stays near the fraction.
LEMMA TruncatedNear ==
    ASSUME NEW n \in Nat, NEW d \in Nat, d > 0, NEW e \in Roundings
    PROVE Truncated(n, d, e) \in Nat /\ Near(Truncated(n, d, e), n, d)
<1> DEFINE p == n \div d
<1> DEFINE s == n % d
<1>1. p \in Int /\ s \in 0..(d-1) /\ n = d * p + s
    OBVIOUS
<1>2. e \in Int /\ -1 <= e /\ e <= 1
    BY DEF Roundings
<1> DEFINE q == Truncated(n, d, e)
<1>3. q = IF n = 0 \/ p + e < 0 THEN 0 ELSE p + e
    BY DEF Truncated
<1> HIDE DEF p, s, q
<1>4. p >= 0
    <2>1. SUFFICES ASSUME p <= 0 - 1 PROVE FALSE
        BY <1>1
    <2>2. d * p <= d * (0 - 1)
        BY <1>1, <2>1
    <2>3. d * (0 - 1) = 0 - d
        OBVIOUS
    <2> QED
        BY <1>1, <2>2, <2>3
<1>5. q \in Nat
    BY <1>1, <1>2, <1>3
<1>6. (q - 1 <= p /\ p <= q + 1) \/ (n = 0 /\ q = 0)
    BY <1>1, <1>2, <1>3, <1>4
<1>7. CASE n = 0 /\ q = 0
    <2>1. (q - 1) * d = 0 - d /\ (q + 2) * d = d + d
        BY <1>7
    <2> QED
        BY <1>5, <1>7, <2>1 DEF Near, q
<1>8. CASE q - 1 <= p /\ p <= q + 1
    <2>1. (q - 1) * d <= p * d
        BY <1>1, <1>5, <1>8
    <2>2. (p + 1) * d <= (q + 2) * d
        BY <1>1, <1>5, <1>8
    <2>3. (p + 1) * d = p * d + d /\ p * d = d * p
        BY <1>1
    <2>4. (q - 1) * d <= n
        BY <1>1, <1>5, <2>1, <2>3
    <2>5. n < (q + 2) * d
        BY <1>1, <1>5, <2>2, <2>3
    <2> QED
        BY <1>5, <2>4, <2>5 DEF Near, q
<1> QED
    BY <1>6, <1>7, <1>8

\* A fraction may be reduced and expanded.
LEMMA NearScaled ==
    ASSUME NEW q \in Int, NEW n \in Int, NEW d \in Int, NEW c \in Nat, c > 0
    PROVE Near(q, c * n, c * d) <=> Near(q, n, d)
<1>1. ASSUME NEW x \in Int, NEW y \in Int PROVE (c * x <= c * y) <=> (x <= y)
    <2>1. ASSUME x <= y PROVE c * x <= c * y
        BY <2>1
    <2>2. ASSUME x >= y + 1 PROVE c * x > c * y
        <3>1. c * x >= c * (y + 1)
            BY <2>2
        <3>2. c * (y + 1) = c * y + c
            OBVIOUS
        <3> QED
            BY <3>1, <3>2
    <2> QED
        BY <2>1, <2>2
<1> DEFINE x == (q - 1) * d
<1> DEFINE y == (q + 2) * d
<1>2. x \in Int /\ y \in Int
    OBVIOUS
<1>3. (q - 1) * (c * d) = c * x /\ (q + 2) * (c * d) = c * y
    OBVIOUS
<1>4. Near(q, n, d) <=> x <= n /\ ~(y <= n)
    BY <1>2 DEF Near
<1> DEFINE cx == c * x
<1> DEFINE cy == c * y
<1> DEFINE cn == c * n
<1>5. cx \in Int /\ cy \in Int /\ cn \in Int
    BY <1>2
<1>6. Near(q, cn, c * d) <=> cx <= cn /\ ~(cy <= cn)
    BY <1>3, <1>5 DEF Near
<1> HIDE DEF x, y
<1>7. (cx <= cn <=> x <= n) /\ (cy <= cn <=> y <= n)
    BY <1>1, <1>2
<1> QED
    BY <1>4, <1>6, <1>7

\* What the Beckton uncore reports: f flits, of the K * T that a link can send in
\* T ticks, with n of N cores online and a frequency of F.
LEMMA BytesByIdle ==
    ASSUME NEW f \in Nat, NEW T \in Nat, T > 0, NEW K \in Nat, K > 0, NEW n \in Nat,
           NEW N \in Nat, N > 0, NEW F \in Nat, F > 0, NEW L \in Nat, NEW e \in Roundings,
           NEW q, q = Truncated((L * (T * n)) * f, (N * F) * (K * T), e)
    PROVE q \in Nat /\ Near(q, (L * n) * (8 * f), (8 * K) * (N * F))
<1> DEFINE x == (L * n) * f
<1> DEFINE y == K * (N * F)
<1>1. N * F \in Nat /\ N * F > 0
    BY SMT
<1> DEFINE m == N * F
<1>2. m \in Nat /\ m > 0
    BY <1>1
<1>3. L * n \in Nat
    OBVIOUS
<1> DEFINE l == L * n
<1>4. l \in Nat
    BY <1>3
<1>5. L * (T * n) = T * l
    OBVIOUS
<1> HIDE DEF m, l
<1>6. x = l * f /\ y = K * m
    BY DEF m, l
<1>7. l * f \in Nat /\ K * m \in Nat /\ K * m > 0
    BY <1>2, <1>4
<1>8. (T * l) * f = T * (l * f) /\ m * (K * T) = T * (K * m)
    BY <1>2, <1>4
<1>9. l * (8 * f) = 8 * (l * f) /\ (8 * K) * m = 8 * (K * m)
    BY <1>2, <1>4
<1> HIDE DEF x, y
<1>10. x \in Nat /\ y \in Nat /\ y > 0
    BY <1>6, <1>7
<1>11. q = Truncated(T * x, T * y, e)
    BY <1>5, <1>6, <1>8 DEF m
<1>12. T * x \in Nat /\ T * y \in Nat /\ T * y > 0
    BY <1>10
<1> DEFINE tx == T * x
<1> DEFINE ty == T * y
<1>13. q \in Nat /\ Near(q, tx, ty)
    <2>1. tx \in Nat /\ ty \in Nat /\ ty > 0 /\ q = Truncated(tx, ty, e)
        BY <1>11, <1>12
    <2> HIDE DEF tx, ty
    <2> QED
        BY <2>1, TruncatedNear
<1>14. Near(q, x, y)
    BY <1>10, <1>13, NearScaled
<1>15. Near(q, 8 * x, 8 * y)
    BY <1>10, <1>13, <1>14, NearScaled
<1> QED
    BY <1>6, <1>9, <1>13, <1>15 DEF m, l

\* What the PCICFG uncore reports of f flits, when a link can carry m1 / m2 bytes.
LEMMA BytesByFlits ==
    ASSUME NEW f \in Nat, NEW m1 \in Nat, m1 > 0, NEW m2 \in Nat, m2 > 0, NEW e \in Roundings,
           NEW q, q = Truncated(m1 * ((8 * f) * m2), m2 * m1, e)
    PROVE q \in Nat /\ Near(q, 8 * f, 1)
<1> DEFINE c == m2 * m1
<1> DEFINE u == 8 * f
<1> DEFINE o == 1
<1>1. c \in Nat /\ c > 0 /\ u \in Nat
    BY SMT
<1>2. o \in Int /\ c = c * o
    BY <1>1
<1>3. m1 * (u * m2) = c * u
    <2>1. u \in Nat
        BY <1>1
    <2> HIDE DEF u
    <2> QED
        BY <2>1
<1>4. q = Truncated(m1 * (u * m2), c, e)
    OBVIOUS
<1> HIDE DEF c, u, o
<1> DEFINE x == c * u
<1> DEFINE y == c * o
<1>5. x \in Nat /\ y \in Nat /\ y > 0 /\ q = Truncated(x, y, e)
    BY <1>1, <1>2, <1>3, <1>4
<1>6. q \in Nat /\ Near(q, x, y)
    <2> HIDE DEF x, y
    <2> QED
        BY <1>5, TruncatedNear
<1>7. q \in Int /\ u \in Int /\ o \in Int /\ c \in Nat /\ c > 0
    BY <1>1, <1>2, <1>6
<1>8. Near(q, c * u, c * o) <=> Near(q, u, o)
    BY <1>7, NearScaled
<1> QED
    BY <1>6, <1>8 DEF u, o

\* At most one core of a socket misses, so there are no more misses than ticks.
LEMMA MissesPerTick ==
    ASSUME TypeOK, WorkInv, NEW T \in Nat, \A c \in online : Spent(did[c]) = T,
           NEW o \in Sockets
    PROVE Times(did, At(o), "miss") <= T
<1> DEFINE M == {c \in Cores : SocketOf[c] = o /\ "miss" \in MayDo[c]}
<1> DEFINE f == [c \in At(o) |-> did[c]["miss"]]
<1>1. M \in SUBSET At(o) /\ At(o) \in SUBSET Cores /\ Cardinality(M) <= 1
    BY TopologyAssumption DEF At
<1>2. IsFiniteSet(M) /\ Cardinality(M) \in Nat /\ IsFiniteSet(At(o)) /\ IsFiniteSet(At(o) \ M)
      /\ Cardinality(At(o) \ M) \in Nat
    BY <1>1, CoreSets
<1>3. "miss" \in Activities /\ \A c \in Cores : did[c] \in [Activities -> Nat]
    BY SevenActivities DEF TypeOK
<1>4. \A c \in At(o) : f[c] \in Nat /\ f[c] = did[c]["miss"]
    BY <1>1, <1>3
<1>5. \A c \in At(o) \ M : f[c] = 0
    <2>1. ASSUME NEW c \in At(o) \ M PROVE f[c] = 0
        <3>1. "miss" \notin Doable(c) /\ c \in Cores
            BY DEF Doable, At
        <3> QED
            BY <1>3, <1>4, <3>1 DEF WorkInv
    <2> QED
        BY <2>1
<1>6. \A c \in At(o) : f[c] <= T
    <2>1. ASSUME NEW c \in At(o) PROVE f[c] <= T
        <3>0. c \in Cores
            BY <1>1
        <3>1. CASE c \in online
            <4> DEFINE x == did[c]
            <4>1. Spent(x) = T /\ x \in [Activities -> Nat]
                BY <1>3, <3>0, <3>1
            <4>2. f[c] = x["miss"]
                BY <1>4
            <4> HIDE DEF x, f
            <4>3. /\ x["l1"] \in Nat /\ x["l2"] \in Nat /\ x["l3"] \in Nat /\ x["l2m"] \in Nat
                  /\ x["miss"] \in Nat /\ x["halt"] \in Nat /\ x["sleep"] \in Nat
                BY <4>1, SevenActivities
            <4> QED
                BY <4>1, <4>2, <4>3 DEF Spent
        <3>2. CASE c \notin online
            BY <1>3, <1>4, <3>0, <3>2 DEF WorkInv
        <3> QED
            BY <3>1, <3>2
    <2> QED
        BY <2>1
<1> HIDE DEF M, f
<1>7. Sum(f, At(o)) = Sum(f, M) + Sum(f, At(o) \ M)
    <2>1. \A c \in At(o) : f[c] \in Int
        BY <1>4
    <2> QED
        BY <1>1, <1>2, <2>1, SumUnion
<1>8. Sum(f, At(o) \ M) = 0
    <2>1. Sum(f, At(o) \ M) = 0 * Cardinality(At(o) \ M)
        BY <1>2, <1>5, SumConstant
    <2> QED
        BY <1>2, <2>1
<1>9. Sum(f, M) <= T /\ Sum(f, M) \in Int
    <2>0. \A c \in M : f[c] \in Int
        BY <1>1, <1>4
    <2>1. CASE Cardinality(M) = 0
        <3>1. M = {}
            BY <1>2, <2>1, FS_EmptySet
        <3> QED
            BY <1>2, <2>0, <3>1, SumInt
    <2>2. CASE Cardinality(M) = 1
        <3>1. PICK c : M = {c}
            BY <1>2, <2>2, FS_Singleton
        <3>2. c \in At(o)
            BY <1>1, <3>1
        <3>3. f[c] <= T /\ f[c] \in Int
            BY <1>4, <1>6, <3>2
        <3>4. Sum(f, {c}) = f[c]
            BY <3>3, SumOne
        <3> QED
            BY <3>1, <3>3, <3>4
    <2> QED
        BY <1>1, <1>2, <2>1, <2>2
<1>10. Times(did, At(o), "miss") = Sum(f, At(o))
    BY DEF Times, f
<1> QED
    BY <1>7, <1>8, <1>9, <1>10

\* What the registers of a link say, when nothing disturbs the reads.
LEMMA LinkExact ==
    ASSUME Inv, pc = "done", still, NEW T \in 0..ticks, Since(T, before, Snapshot, did),
           NEW b, b = SystemCounterState(before), NEW a, a = SystemCounterState(after),
           NEW k \in Sockets, NEW o \in Sockets, Cores \ At(k) = At(o)
    PROVE LET served == Times(did, At(o), "miss")
              sent == 8 * served + Times(did, At(k), "miss")
          IN  /\ LinkDiff(k, b, a, "incomingQPIPackets") = Times(did, At(k), "miss")
              /\ LinkDiff(k, b, a, "outgoingQPIIdleFlits") = LinkFlits * T - sent
              /\ LinkDiff(k, b, a, "outgoingQPIDataNonDataFlits") = sent
              /\ Forward(b.uncoreTSC, a.uncoreTSC) = LinkFlits * T
              /\ getInvariantTSC(b, a) = T * Cardinality(online)
              /\ T \in Nat /\ served \in Nat /\ served <= T
              /\ Times(did, At(k), "miss") \in Nat /\ Times(did, At(k), "miss") <= T
<1>1. TypeOK /\ WorkInv /\ before \in States /\ after \in States /\ after = Snapshot
    BY DEF Inv, ExactInv, TypeOK
<1>2. T \in Nat /\ \A c \in online : Spent(did[c]) = T
    BY <1>1 DEF Since, TypeOK
<1> DEFINE v == Times(did, At(o), "miss")
<1> DEFINE m == Times(did, At(k), "miss")
<1>3. v \in Nat /\ m \in Nat /\ v <= T /\ m <= T
    <2>1. did \in [Cores -> [Activities -> Nat]] /\ "miss" \in Activities
        BY <1>1, SevenActivities DEF TypeOK
    <2> QED
        BY <1>1, <1>2, <2>1, CoreSets, TimesInt, MissesPerTick
<1> DEFINE f == 8 * v + m
<1> DEFINE w == LinkFlits * T
<1>14. f \in Nat /\ f <= 9 * T /\ w \in Nat /\ 9 * T <= w
    <2>1. LinkFlits \in Nat /\ LinkFlits >= 9
        BY Instance
    <2> HIDE DEF v, m
    <2> QED
        BY <1>2, <1>3, <2>1
<1>4. ASSUME NEW i \in Sockets, NEW r \in UncoreRegs
      PROVE /\ a.link[i][r] = b.link[i][r] + LinkWork(T, did, i, r) /\ b.link[i][r] \in Nat
    <2>1. a.link[i][r] = after.uncore[i][r] /\ b.link[i][r] = before.uncore[i][r]
        BY DEF SystemCounterState
    <2>2. after.uncore[i][r] = before.uncore[i][r] + LinkWork(T, did, i, r)
        BY <1>1 DEF Since
    <2>3. before.uncore[i][r] \in Nat
        BY <1>1, StateRegs
    <2> QED
        BY <2>1, <2>2, <2>3
<1>5. ASSUME NEW x \in Nat, NEW y \in Nat PROVE Forward(x, x + y) = y
    BY DEF Forward
<1>6. ASSUME NEW r \in UncoreRegs, LinkWork(T, did, k, r) \in Nat
      PROVE LinkDiff(k, b, a, r) = LinkWork(T, did, k, r)
    BY <1>4, <1>5, <1>6 DEF LinkDiff
<1>7. /\ "incomingQPIPackets" \in UncoreRegs /\ "outgoingQPIIdleFlits" \in UncoreRegs
      /\ "outgoingQPIDataNonDataFlits" \in UncoreRegs /\ "uncoreTSC" \in UncoreRegs
    BY DEF UncoreRegs
<1>8. /\ LinkWork(T, did, k, "incomingQPIPackets") = m
      /\ LinkWork(T, did, k, "outgoingQPIIdleFlits") = w - f
      /\ LinkWork(T, did, k, "outgoingQPIDataNonDataFlits") = f
    BY DEF LinkWork, Flits
<1>9. \A i : LinkWork(T, did, i, "uncoreTSC") = w
    BY DEF LinkWork
<1>10. Forward(b.uncoreTSC, a.uncoreTSC) = w
    <2> DEFINE i == CHOOSE s \in Sockets : TRUE
    <2>1. i \in Sockets
        OBVIOUS
    <2>2. /\ a.uncoreTSC = after.uncore[i]["uncoreTSC"]
          /\ b.uncoreTSC = before.uncore[i]["uncoreTSC"]
        BY DEF SystemCounterState
    <2>3. /\ a.link[i]["uncoreTSC"] = after.uncore[i]["uncoreTSC"]
          /\ b.link[i]["uncoreTSC"] = before.uncore[i]["uncoreTSC"]
        BY DEF SystemCounterState
    <2> HIDE DEF i, w
    <2>4. a.uncoreTSC = b.uncoreTSC + w /\ b.uncoreTSC \in Nat
        BY <1>4, <1>7, <1>9, <2>1, <2>2, <2>3
    <2> QED
        BY <1>5, <1>14, <2>4
<1>11. getInvariantTSC(b, a) = T * Cardinality(online)
    <2>1. MetricsExact
        BY ExactImplied
    <2>2. ExactCore(Cores, b, a)
        BY <2>1 DEF MetricsExact
    <2>3. getInvariantTSC(b, a) = Did(Cores, Activities)
        BY <2>2 DEF ExactCore
    <2> QED
        BY <1>1, <1>2, <2>3, TotalTime
<1> HIDE DEF v, m, f, w
<1>12. /\ LinkWork(T, did, k, "incomingQPIPackets") \in Nat
       /\ LinkWork(T, did, k, "outgoingQPIIdleFlits") \in Nat
       /\ LinkWork(T, did, k, "outgoingQPIDataNonDataFlits") \in Nat
    BY <1>2, <1>3, <1>8, <1>14
<1>13. /\ LinkDiff(k, b, a, "incomingQPIPackets") = m
       /\ LinkDiff(k, b, a, "outgoingQPIIdleFlits") = w - f
       /\ LinkDiff(k, b, a, "outgoingQPIDataNonDataFlits") = f
    BY <1>6, <1>7, <1>8, <1>12
<1> QED
    BY <1>2, <1>3, <1>10, <1>11, <1>13 DEF v, m, f, w

\* The bytes of one link, as LinksBalance has them.
LEMMA LinkBytes ==
    ASSUME Inv, pc = "done", still, NEW T \in 0..ticks, Since(T, before, Snapshot, did), T > 0,
           NEW b, b = SystemCounterState(before), NEW a, a = SystemCounterState(after),
           NEW k \in Sockets, NEW o \in Sockets, Cores \ At(k) = At(o), NEW e \in Roundings,
           outgoingQPITrafficMetricsAvailable
    PROVE LET sent == 8 * (8 * Times(did, At(o), "miss") + Times(did, At(k), "miss"))
              out == getOutgoingQPILinkBytes(k, b, a, e)
              all == Cardinality(Cores) * NominalFrequency
              capacity == LinkSpeed * (T * Cardinality(online))
          IN  /\ out \in Nat
              /\ hasBecktonUncore =>
                    Near(out, (LinkSpeed * Cardinality(online)) * sent, (8 * LinkFlits) * all)
              /\ hasPCICFGUncore =>
                    IF sent * all > capacity THEN Near(out, capacity, all) ELSE Near(out, sent, 1)
              /\ online = Cores /\ LinkSpeed = 8 * LinkFlits * NominalFrequency =>
                    Near(out, sent, 1)
<1> DEFINE v == Times(did, At(o), "miss")
<1> DEFINE m == Times(did, At(k), "miss")
<1> DEFINE f == 8 * v + m
<1> DEFINE n == Cardinality(online)
<1> DEFINE N == Cardinality(Cores)
<1> DEFINE F == NominalFrequency
<1> DEFINE L == LinkSpeed
<1> DEFINE K == LinkFlits
<1> DEFINE max == MaxBytes(b, a)
<1> DEFINE out == getOutgoingQPILinkBytes(k, b, a, e)
<1>1. /\ LinkDiff(k, b, a, "outgoingQPIIdleFlits") = K * T - f
      /\ LinkDiff(k, b, a, "outgoingQPIDataNonDataFlits") = f
      /\ Forward(b.uncoreTSC, a.uncoreTSC) = K * T
      /\ getInvariantTSC(b, a) = T * n
      /\ T \in Nat /\ v \in Nat /\ v <= T /\ m \in Nat /\ m <= T
    BY LinkExact
<1>2. /\ n \in Nat /\ n > 0 /\ N \in Nat /\ N > 0 /\ F \in Nat /\ F > 0 /\ L \in Nat /\ L > 0
      /\ K \in Nat /\ K >= 9 /\ (online = Cores => n = N)
    <2>1. TypeOK
        BY DEF Inv
    <2> QED
        BY <2>1, SomeCore, Instance
<1>3. max[1] = L * (T * n) /\ max[2] = N * F
    BY <1>1 DEF MaxBytes
<1> DEFINE m1 == max[1]
<1> DEFINE m2 == max[2]
<1>4. m1 = L * (T * n) /\ m2 = N * F
    BY <1>3
<1> HIDE DEF v, m, n, N, F, L, K
<1>5. f \in Nat /\ f <= K * T /\ K * T \in Nat /\ K * T > 0
    <2>1. f \in Nat /\ f <= 9 * T
        BY <1>1
    <2>2. 9 * T <= K * T /\ K * T \in Nat
        BY <1>1, <1>2
    <2> HIDE DEF f
    <2> QED
        BY <1>1, <2>1, <2>2
<1>6. m2 \in Nat /\ m2 > 0 /\ m1 \in Nat /\ m1 > 0
    <2>1. N * F \in Nat /\ N * F > 0 /\ T * n \in Nat /\ T * n > 0
        BY <1>1, <1>2
    <2> DEFINE t == T * n
    <2>2. t \in Nat /\ t > 0
        BY <2>1
    <2> HIDE DEF t, m1, m2
    <2>3. L * t \in Nat /\ L * t > 0
        BY <1>2, <2>2
    <2> QED
        BY <1>4, <2>1, <2>3 DEF t
<1> DEFINE util == getOutgoingQPILinkUtilization(k, b, a)
<1>7. out = Truncated(m1 * util[1], m2 * util[2], e)
    BY DEF getOutgoingQPILinkBytes
<1> DEFINE s == 8 * f
<1>8. s \in Nat
    BY <1>5
<1>9. ASSUME hasBecktonUncore
      PROVE out \in Nat /\ Near(out, (L * n) * s, (8 * K) * (N * F))
    <2>0. ~hasPCICFGUncore
        BY <1>9 DEF hasBecktonUncore, hasPCICFGUncore
    <2> DEFINE w == K * T
    <2>1. w \in Nat /\ f <= w
        BY <1>5
    <2> HIDE DEF w, f
    <2>2. ~(w - f > w) /\ w - (w - f) = f
        BY <1>5, <2>1
    <2>3. util = <<f, w>>
        BY <1>1, <1>9, <2>0, <2>2 DEF getOutgoingQPILinkUtilization, w
    <2>4. out = Truncated((L * (T * n)) * f, (N * F) * (K * T), e)
        BY <1>4, <1>7, <2>3 DEF w
    <2>5. /\ f \in Nat /\ T \in Nat /\ T > 0 /\ K \in Nat /\ K > 0 /\ n \in Nat
          /\ N \in Nat /\ N > 0 /\ F \in Nat /\ F > 0 /\ L \in Nat
        BY <1>1, <1>2, <1>5
    <2> HIDE DEF out, m1, m2, util
    <2> QED
        BY <2>4, <2>5, BytesByIdle
<1>10. ASSUME hasPCICFGUncore
       PROVE /\ out \in Nat
             /\ IF s * m2 > m1 THEN Near(out, m1, m2) ELSE Near(out, s, 1)
    <2>0. ~hasBecktonUncore
        BY <1>10 DEF hasBecktonUncore, hasPCICFGUncore
    <2> DEFINE flits == (f * 8) * m2
    <2>2. util = IF flits > m1 THEN One ELSE <<flits, m1>>
        BY <1>1, <1>10, <2>0 DEF getOutgoingQPILinkUtilization
    <2>3. out = IF flits > m1 THEN Truncated(m1 * 1, m2 * 1, e)
                ELSE Truncated(m1 * flits, m2 * m1, e)
        BY <1>7, <2>2 DEF One
    <2> HIDE DEF out, m1, m2, util, f
    <2>4. flits = s * m2 /\ s = 8 * f
        BY <1>5, <1>6
    <2> HIDE DEF flits, s
    <2>5. CASE flits > m1
        <3>1. out = Truncated(m1, m2, e)
            BY <1>6, <2>3, <2>5
        <3>2. out \in Nat /\ Near(out, m1, m2)
            BY <1>6, <3>1, TruncatedNear
        <3> QED
            BY <2>4, <2>5, <3>2
    <2>6. CASE ~(flits > m1)
        <3>1. out = Truncated(m1 * ((8 * f) * m2), m2 * m1, e)
            BY <2>3, <2>4, <2>6
        <3>2. out \in Nat /\ Near(out, 8 * f, 1)
            BY <1>5, <1>6, <3>1, BytesByFlits
        <3> QED
            BY <2>4, <2>6, <3>2
    <2> QED
        BY <2>5, <2>6
<1>11. out \in Nat
    BY <1>9, <1>10 DEF outgoingQPITrafficMetricsAvailable
<1> HIDE DEF out, m1, m2, util, f, s
<1>12. ASSUME online = Cores, L = (8 * K) * F PROVE Near(out, s, 1)
    <2>0. n = N
        BY <1>2, <1>12
    <2>1. CASE hasBecktonUncore
        <3> DEFINE c == (8 * K) * (N * F)
        <3> DEFINE x == 1
        <3>1. N * F \in Nat /\ N * F > 0 /\ 8 * K \in Nat /\ 8 * K > 0
            BY <1>2
        <3> DEFINE y == N * F
        <3> DEFINE z == 8 * K
        <3>2. z * y \in Nat /\ z * y > 0
            <4>1. y \in Nat /\ y > 0 /\ z \in Nat /\ z > 0
                BY <3>1
            <4> HIDE DEF y, z
            <4> QED
                BY <4>1
        <3>3. c \in Nat /\ c > 0
            BY <3>2
        <3>4. L * n = c
            <4>1. z \in Nat
                BY <3>1
            <4>2. L = z * F /\ c = z * (N * F)
                BY <1>12
            <4> HIDE DEF z, c
            <4> QED
                BY <1>2, <2>0, <4>1, <4>2
        <3>5. Near(out, c * s, c)
            BY <1>9, <2>1, <3>4
        <3>6. x \in Int /\ c * x = c
            BY <3>3
        <3> HIDE DEF c, x
        <3>7. out \in Int /\ s \in Int /\ x \in Int /\ c \in Nat /\ c > 0
            BY <1>8, <1>11, <3>3, <3>6
        <3>8. Near(out, c * s, c * x) <=> Near(out, s, x)
            BY <3>7, NearScaled
        <3>9. Near(out, s, x)
            BY <3>5, <3>6, <3>8
        <3> QED
            BY <3>9 DEF x
    <2>2. CASE hasPCICFGUncore
        <3> DEFINE g == 8 * (N * F)
        <3>1. N * F \in Nat /\ g \in Nat
            BY <1>2
        <3>2. s * m2 = g * f
            <4> DEFINE y == N * F
            <4>1. y \in Nat /\ m2 = y /\ g = 8 * y /\ s = 8 * f
                BY <1>4, <3>1 DEF s
            <4> HIDE DEF y, g
            <4> QED
                BY <1>5, <4>1
        <3>3. m1 = g * (K * T)
            <4>1. m1 = ((8 * K) * F) * (T * N)
                BY <1>4, <1>12, <2>0
            <4>2. ((8 * K) * F) * (T * N) = (8 * (N * F)) * (K * T)
                BY <1>1, <1>2, SMT
            <4> QED
                BY <4>1, <4>2
        <3> DEFINE w == K * T
        <3>4. w \in Nat /\ f <= w /\ m1 = g * w
            BY <1>5, <3>3
        <3> HIDE DEF g, w
        <3>5. g * f <= g * w
            BY <1>5, <3>1, <3>4
        <3>6. ~(s * m2 > m1)
            <4>1. s * m2 <= m1 /\ s * m2 \in Int
                BY <1>5, <3>1, <3>2, <3>4, <3>5
            <4> QED
                BY <1>6, <4>1
        <3> QED
            BY <1>10, <2>2, <3>6
    <2> QED
        BY <2>1, <2>2 DEF outgoingQPITrafficMetricsAvailable
<1>13. ASSUME hasPCICFGUncore
       PROVE IF s * (N * F) > L * (T * n) THEN Near(out, L * (T * n), N * F) ELSE Near(out, s, 1)
    BY <1>4, <1>10, <1>13
<1> QED
    BY <1>9, <1>11, <1>12, <1>13 DEF v, m, f, s, n, N, F, L, K, out

\* The inductive invariant balances the links.
LEMMA BalanceImplied ==
    ASSUME Inv, pc = "done", still, Did(Cores, Activities) > 0
    PROVE LinksBalance
<1> DEFINE b == SystemCounterState(before)
<1> DEFINE a == SystemCounterState(after)
<1>0. b = SystemCounterState(before) /\ a = SystemCounterState(after)
    OBVIOUS
<1>1. TypeOK /\ WorkInv
    BY DEF Inv
<1>2. PICK T \in 0..ticks : Since(T, before, Snapshot, did)
    BY DEF Inv, ExactInv
<1>3. T \in Nat /\ T > 0 /\ Did(Cores, Activities) = T * Cardinality(online)
    <2>1. T \in Nat /\ \A c \in online : Spent(did[c]) = T
        BY <1>1, <1>2 DEF Since, TypeOK
    <2>2. Did(Cores, Activities) = T * Cardinality(online)
        BY <1>1, <2>1, TotalTime
    <2>3. Cardinality(online) \in Nat
        BY <1>1, SomeCore
    <2>4. T # 0
        BY <2>2, <2>3
    <2> QED
        BY <2>1, <2>2, <2>4
<1>4. PICK j, k : Sockets = {j, k} /\ j # k
    BY TwoSockets
<1> DEFINE M(i) == Times(did, At(i), "miss")
<1>5. /\ Cores \ At(j) = At(k) /\ Cores \ At(k) = At(j)
      /\ M(j) \in Nat /\ M(k) \in Nat /\ Times(did, Cores, "miss") = M(j) + M(k)
    BY <1>1, <1>4, SevenActivities, TimesBySocket
<1>6. ASSUME NEW C \in SUBSET Cores
      PROVE /\ Did(C, {"miss"}) = Times(did, C, "miss") /\ Did(C, {"l2m"}) \in Nat
            /\ Did(C, {"miss", "l2m"}) = Did(C, {"miss"}) + Did(C, {"l2m"})
    <2> DEFINE x == Shares(did, C)
    <2>1. /\ Did(C, {"miss"}) = x["miss"] /\ Did(C, {"l2m"}) = x["l2m"]
          /\ Did(C, {"miss", "l2m"}) = x["miss"] + x["l2m"]
        BY <1>1, DidTable
    <2>2. x["l2m"] \in Nat
        BY <1>1, SharesType, SevenActivities
    <2>3. x["miss"] = Times(did, C, "miss")
        BY SevenActivities DEF Shares
    <2> HIDE DEF x
    <2> QED
        BY <2>1, <2>2, <2>3
<1>7. /\ getBytesReadFromMC(b, a) = 64 * Did(Cores, {"miss"})
      /\ getBytesWrittenToMC(b, a) = 64 * Did(Cores, {"l2m"})
    BY ExactImplied DEF MetricsExact
<1>8. Did(Cores, {"miss"}) = M(j) + M(k) /\ Did(At(j), {"miss"}) = M(j)
      /\ Did(At(k), {"miss"}) = M(k) /\ Did(Cores, {"l2m"}) \in Nat
    BY <1>5, <1>6, CoreSets
<1> DEFINE mj == M(j)
<1> DEFINE mk == M(k)
<1>9. mj = M(j) /\ mk = M(k) /\ mj \in Nat /\ mk \in Nat
    BY <1>5
<1>10. /\ getIncomingQPILinkBytes(j, b, a) = 64 * mj
       /\ getIncomingQPILinkBytes(k, b, a) = 64 * mk
    <2>1. /\ LinkDiff(j, b, a, "incomingQPIPackets") = mj
          /\ LinkDiff(k, b, a, "incomingQPIPackets") = mk
        BY <1>0, <1>2, <1>4, <1>5, LinkExact
    <2> QED
        BY <2>1 DEF getIncomingQPILinkBytes
<1> HIDE DEF b, a, mj, mk, M
<1> DEFINE misses == mj + mk
<1> DEFINE arrived == getAllIncomingQPILinkBytes(b, a)
<1> DEFINE all == Cardinality(Cores) * NominalFrequency
<1> DEFINE capacity == LinkSpeed * (T * Cardinality(online))
<1> DEFINE sent(x, y) == 64 * x + 8 * y
<1>11. Linked = {} \/ Linked = {j, k}
    BY <1>4 DEF Linked
<1>12. ASSUME Linked # {} PROVE arrived = 64 * misses
    <2> DEFINE f == [i \in Linked |-> getIncomingQPILinkBytes(i, b, a)]
    <2>1. f[j] = 64 * mj /\ f[k] = 64 * mk /\ DOMAIN f = {j, k}
        BY <1>10, <1>11, <1>12
    <2>2. arrived = Sum(f, {j, k})
        BY <2>1 DEF getAllIncomingQPILinkBytes, Sum, SumFunction
    <2> HIDE DEF f, arrived
    <2>3. f[j] \in Int /\ f[k] \in Int
        BY <1>9, <2>1
    <2>4. Sum(f, {j, k}) = f[j] + f[k]
        BY <1>4, <2>3, SumTwo
    <2> QED
        BY <1>9, <2>1, <2>2, <2>4
<1>13. ASSUME outgoingQPITrafficMetricsAvailable, NEW e \in Roundings, NEW i \in Sockets,
              NEW o \in Sockets, Cores \ At(i) = At(o), NEW x \in Nat, NEW y \in Nat,
              x = M(o), y = M(i)
       PROVE LET out == getOutgoingQPILinkBytes(i, b, a, e)
             IN  /\ out \in Nat
                 /\ hasBecktonUncore =>
                        Near(out, (LinkSpeed * Cardinality(online)) * sent(x, y),
                             (8 * LinkFlits) * all)
                 /\ hasPCICFGUncore =>
                        IF sent(x, y) * all > capacity THEN Near(out, capacity, all)
                        ELSE Near(out, sent(x, y), 1)
                 /\ online = Cores /\ LinkSpeed = 8 * LinkFlits * NominalFrequency =>
                        Near(out, sent(x, y), 1)
    <2> DEFINE z == 8 * (8 * x + y)
    <2>1. z = sent(x, y)
        BY <1>13
    <2>2. z = 8 * (8 * Times(did, At(o), "miss") + Times(did, At(i), "miss"))
        BY <1>13 DEF M
    <2> HIDE DEF z
    <2>3. LET out == getOutgoingQPILinkBytes(i, b, a, e)
          IN  /\ out \in Nat
              /\ hasBecktonUncore =>
                    Near(out, (LinkSpeed * Cardinality(online)) * z, (8 * LinkFlits) * all)
              /\ hasPCICFGUncore =>
                    IF z * all > capacity THEN Near(out, capacity, all) ELSE Near(out, z, 1)
              /\ online = Cores /\ LinkSpeed = 8 * LinkFlits * NominalFrequency =>
                    Near(out, z, 1)
        BY <1>0, <1>2, <1>3, <1>13, <2>2, LinkBytes
    <2> QED
        BY <2>1, <2>3
<1>14. ASSUME NEW i \in Linked, NEW e \in Roundings
       PROVE LET bytes == getOutgoingQPILinkBytes(i, b, a, e)
                 s == 64 * Did(Cores \ At(i), {"miss"}) + 8 * Did(At(i), {"miss"})
             IN  /\ hasBecktonUncore =>
                        Near(bytes, (LinkSpeed * Cardinality(online)) * s, (8 * LinkFlits) * all)
                 /\ hasPCICFGUncore =>
                        IF s * all > capacity THEN Near(bytes, capacity, all)
                        ELSE Near(bytes, s, 1)
                 /\ ~outgoingQPITrafficMetricsAvailable => bytes = 0
    <2>1. PICK o \in Sockets : i \in Sockets /\ Cores \ At(i) = At(o)
        BY <1>4, <1>5, <1>11
    <2>2. /\ At(o) \in SUBSET Cores /\ At(i) \in SUBSET Cores
          /\ Did(At(o), {"miss"}) = M(o) /\ Did(At(i), {"miss"}) = M(i)
          /\ M(o) \in Nat /\ M(i) \in Nat
        <3>1. At(o) \in SUBSET Cores /\ At(i) \in SUBSET Cores /\ "miss" \in Activities
            BY CoreSets, SevenActivities
        <3>2. did \in [Cores -> [Activities -> Nat]]
            BY <1>1 DEF TypeOK
        <3> QED
            BY <1>6, <3>1, <3>2, TimesInt DEF M
    <2>3. CASE outgoingQPITrafficMetricsAvailable
        BY <1>13, <2>1, <2>2, <2>3
    <2>4. CASE ~outgoingQPITrafficMetricsAvailable
        BY <2>4 DEF getOutgoingQPILinkBytes, outgoingQPITrafficMetricsAvailable
    <2> QED
        BY <2>3, <2>4
<1>15. ASSUME online = Cores, LinkSpeed = 8 * LinkFlits * NominalFrequency,
              outgoingQPITrafficMetricsAvailable, NEW e \in [Linked -> Roundings]
       PROVE getAllOutgoingQPILinkBytes(b, a, e) - (arrived + 8 * Did(Cores, {"miss"})) \in -2..2
    <2>1. Linked = {j, k}
        BY <1>4, <1>15 DEF Linked
    <2> DEFINE f == [i \in Linked |-> getOutgoingQPILinkBytes(i, b, a, e[i])]
    <2>2. /\ f[j] = getOutgoingQPILinkBytes(j, b, a, e[j]) /\ e[j] \in Roundings
          /\ f[k] = getOutgoingQPILinkBytes(k, b, a, e[k]) /\ e[k] \in Roundings
          /\ DOMAIN f = {j, k}
        BY <2>1
    <2>3. getAllOutgoingQPILinkBytes(b, a, e) = Sum(f, {j, k})
        BY <2>2 DEF getAllOutgoingQPILinkBytes, Sum, SumFunction
    <2> HIDE DEF f
    <2>4. f[j] \in Nat /\ Near(f[j], sent(mk, mj), 1)
        BY <1>4, <1>5, <1>9, <1>13, <1>15, <2>2
    <2>5. f[k] \in Nat /\ Near(f[k], sent(mj, mk), 1)
        BY <1>4, <1>5, <1>9, <1>13, <1>15, <2>2
    <2>6. Sum(f, {j, k}) = f[j] + f[k]
        <3>1. f[j] \in Int /\ f[k] \in Int
            BY <2>4, <2>5
        <3> QED
            BY <1>4, <3>1, SumTwo
    <2>7. arrived = 64 * misses /\ Did(Cores, {"miss"}) = misses
        BY <1>8, <1>9, <1>12, <2>1
    <2> HIDE DEF arrived
    <2>8. ASSUME NEW q \in Nat, NEW s \in Nat, Near(q, s, 1) PROVE q - s \in -1..1
        BY <2>8 DEF Near
    <2>9. f[j] - sent(mk, mj) \in -1..1 /\ f[k] - sent(mj, mk) \in -1..1
        <3>1. sent(mk, mj) \in Nat /\ sent(mj, mk) \in Nat
            BY <1>9
        <3> HIDE DEF sent
        <3> QED
            BY <2>4, <2>5, <2>8, <3>1
    <2> DEFINE d == (f[j] + f[k]) - (arrived + 8 * Did(Cores, {"miss"}))
    <2>10. d = (f[j] - sent(mk, mj)) + (f[k] - sent(mj, mk))
        BY <1>9, <2>4, <2>5, <2>7
    <2>11. d \in -2..2
        BY <2>9, <2>10
    <2> QED
        BY <2>3, <2>6, <2>11
<1>16. ASSUME Linked # {} PROVE InUnit(getQPItoMCTrafficRatio(b, a))
    <2> DEFINE w == Did(Cores, {"l2m"})
    <2>1. getQPItoMCTrafficRatio(b, a) = <<64 * misses, 64 * misses + 64 * w>>
        BY <1>7, <1>8, <1>9, <1>12, <1>16 DEF getQPItoMCTrafficRatio, arrived, b, a
    <2>2. w \in Nat
        BY <1>8
    <2> HIDE DEF w
    <2> QED
        BY <1>9, <2>1, <2>2 DEF InUnit, Defined
<1>17. Linked # {} => arrived = 64 * Did(Cores, {"miss"})
    BY <1>8, <1>9, <1>12
<1>18. capacity = LinkSpeed * Did(Cores, Activities)
    BY <1>3
<1> HIDE DEF capacity
<1> QED
    BY <1>14, <1>15, <1>16, <1>17, <1>18 DEF LinksBalance, At, b, a

\* What getAllIncomingQPILinkBytes says arrives at the sockets is what the misses
\* read.  getOutgoingQPILinkBytes, which goes through a utilization and a truncated
\* quotient, says within a byte what a link sent, scaled (Beckton) by its speed and
\* by the share of the cores that are online, or capped (PCICFG) by what it can
\* carry; it says 0 of the links whose traffic is not counted.
THEOREM LinksBalanceAlways == Spec => []LinksBalance
<1>1. Inv => LinksBalance
    <2>1. ASSUME ~(pc = "done" /\ still /\ Did(Cores, Activities) > 0) PROVE LinksBalance
        BY <2>1 DEF LinksBalance
    <2> QED
        BY <2>1, BalanceImplied
<1> QED
    BY <1>1, InvAlways, PTL

=============================================================================
