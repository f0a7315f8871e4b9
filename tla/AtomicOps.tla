----------------------------- MODULE AtomicOps ------------------------------
(***************************************************************************)
(* atomic.h at the level of its instructions.  Threads call the operations *)
(* on one shared integer of M values.  A locked instruction (xadd,         *)
(* cmpxchg) is one step; the arithmetic on the result register after an    *)
(* xadd, the plain load before a cmpxchg loop and every turn of that loop  *)
(* are steps of their own.  The pointer variants are casts.                *)
(***************************************************************************)
EXTENDS Integers

CONSTANTS
    Threads,   \* the callers
    M,         \* 2^8, 2^16, 2^32 or 2^64
    Args       \* the values the callers pass

ASSUME MAssumption == M \in Nat /\ M > 1
ASSUME ArgsAssumption == Args \subseteq 0..(M - 1)

Values == 0..(M - 1)

VARIABLES
    pv,     \* *pv, the shared integer
    pc,     \* where each thread is in its operation
    req,    \* the operation under way and its arguments
    res     \* __res, the accumulator

vars == <<pv, pc, req, res>>

NoRequest == [op |-> "none", nv |-> 0, cv |-> 0]

Request(op, nv, cv) == [op |-> op, nv |-> nv, cv |-> cv]

Init ==
    /\ pv \in Values
    /\ pc = [t \in Threads |-> "idle"]
    /\ req = [t \in Threads |-> NoRequest]
    /\ res = [t \in Threads |-> 0]

-----------------------------------------------------------------------------
(* The calls: the request, the first instruction and the register it finds. *)

Enter(t, r, instr, reg) ==
    /\ pc[t] = "idle"
    /\ req' = [req EXCEPT ![t] = r]
    /\ pc' = [pc EXCEPT ![t] = instr]
    /\ res' = [res EXCEPT ![t] = reg]
    /\ UNCHANGED pv

atomic_inc(t) == Enter(t, Request("inc", 0, 0), "xadd", 1)

atomic_dec(t) == Enter(t, Request("dec", 0, 0), "xadd", M - 1)

atomic_add(t) == \E av \in Args : Enter(t, Request("add", av, 0), "xadd", av)

atomic_exchange(t) ==
    \E nv \in Args : Enter(t, Request("exchange", nv, 0), "load", 0)

atomic_compare_exchange(t) ==
    \E nv, cv \in Args : Enter(t, Request("compare_exchange", nv, cv), "cmpxchg", cv)

-----------------------------------------------------------------------------
(* The instructions                                                         *)

\* The sum is cut to the width of the operand.
Sum(a, b) == (a + b) % M

\* Mutation of xadd: the sum is not cut.
xadd_wide(t) ==
    /\ pc[t] = "xadd"
    /\ pv' = pv + res[t]
    /\ res' = [res EXCEPT ![t] = pv]
    /\ pc' = [pc EXCEPT ![t] = IF req[t].op = "add" THEN "return" ELSE "adjust"]
    /\ UNCHANGED req

\* lock xadd: the old value goes to the register, the sum to memory.
xadd(t) ==
    /\ pc[t] = "xadd"
    /\ pv' = Sum(pv, res[t])
    /\ res' = [res EXCEPT ![t] = pv]
    /\ pc' = [pc EXCEPT ![t] = IF req[t].op = "add" THEN "return" ELSE "adjust"]
    /\ UNCHANGED req

\* inc or dec on the register: atomic_inc and atomic_dec return the new value.
adjust(t) ==
    /\ pc[t] = "adjust"
    /\ res' = [res EXCEPT ![t] = Sum(res[t], IF req[t].op = "inc" THEN 1 ELSE M - 1)]
    /\ pc' = [pc EXCEPT ![t] = "return"]
    /\ UNCHANGED <<pv, req>>

\* The input operand "0" (*pv) of atomic_exchange: a plain load.
load(t) ==
    /\ pc[t] = "load"
    /\ res' = [res EXCEPT ![t] = pv]
    /\ pc' = [pc EXCEPT ![t] = "cmpxchg"]
    /\ UNCHANGED <<pv, req>>

\* Mutation of cmpxchg_equal: an exchange stores without comparing.
cmpxchg_equal_always(t) ==
    /\ pc[t] = "cmpxchg"
    /\ req[t].op = "exchange" \/ pv = res[t]
    /\ pv' = req[t].nv
    /\ pc' = [pc EXCEPT ![t] = "return"]
    /\ UNCHANGED <<req, res>>

\* lock cmpxchg when the register equals memory: the new value is stored.
cmpxchg_equal(t) ==
    /\ pc[t] = "cmpxchg"
    /\ pv = res[t]
    /\ pv' = req[t].nv
    /\ pc' = [pc EXCEPT ![t] = "return"]
    /\ UNCHANGED <<req, res>>

\* Mutation of cmpxchg_differs: the loop goes on with the value of the load.
cmpxchg_differs_stale(t) ==
    /\ pc[t] = "cmpxchg"
    /\ pv # res[t]
    /\ res' = [res EXCEPT ![t] = IF req[t].op = "exchange" THEN res[t] ELSE pv]
    /\ pc' = [pc EXCEPT ![t] = IF req[t].op = "exchange" THEN "cmpxchg" ELSE "return"]
    /\ UNCHANGED <<pv, req>>

\* lock cmpxchg when they differ: memory is loaded into the register, and
\* atomic_exchange goes round (jne 1b).
cmpxchg_differs(t) ==
    /\ pc[t] = "cmpxchg"
    /\ pv # res[t]
    /\ res' = [res EXCEPT ![t] = pv]
    /\ pc' = [pc EXCEPT ![t] = IF req[t].op = "exchange" THEN "cmpxchg" ELSE "return"]
    /\ UNCHANGED <<pv, req>>

\* return __res
Return(t) ==
    /\ pc[t] = "return"
    /\ pc' = [pc EXCEPT ![t] = "idle"]
    /\ req' = [req EXCEPT ![t] = NoRequest]
    /\ UNCHANGED <<pv, res>>

Call(t) ==
    \/ atomic_inc(t) \/ atomic_dec(t) \/ atomic_add(t)
    \/ atomic_exchange(t) \/ atomic_compare_exchange(t)

Step(t) ==
    \/ xadd(t) \/ adjust(t) \/ load(t)
    \/ cmpxchg_equal(t) \/ cmpxchg_differs(t) \/ Return(t)

Next == \E t \in Threads : Call(t) \/ Step(t)

\* A thread inside an operation is scheduled; nobody has to call.
Fairness == \A t \in Threads : WF_vars(Step(t))

Spec == Init /\ [][Next]_vars

FairSpec == Spec /\ Fairness

-----------------------------------------------------------------------------
(* Properties                                                               *)

Ops == {"inc", "dec", "add", "exchange", "compare_exchange"}

\* The type of the state: in particular the integer never leaves its width.
TypeOK ==
    /\ pv \in Values
    /\ pc \in [Threads -> {"idle", "load", "xadd", "adjust", "cmpxchg", "return"}]
    /\ req \in [Threads -> [op : Ops \cup {"none"}, nv : Values, cv : Values]]
    /\ res \in [Threads -> Values]

\* The abstract result: decided by the locked instruction, before the register
\* holds it in the case of atomic_inc and atomic_dec.
Decided(t) ==
    CASE pc[t] \in {"load", "xadd", "cmpxchg"} -> 0
      [] pc[t] = "adjust" -> Sum(res[t], IF req[t].op = "inc" THEN 1 ELSE M - 1)
      [] OTHER -> res[t]

Status(t) ==
    CASE pc[t] = "idle" -> "idle"
      [] pc[t] \in {"load", "xadd", "cmpxchg"} -> "called"
      [] OTHER -> "applied"

Cell == INSTANCE AtomicCell WITH
    cell    <- pv,
    status  <- [t \in Threads |-> Status(t)],
    request <- req,
    result  <- [t \in Threads |-> Decided(t)]

\* The instruction sequences implement the atomic cell: each operation takes
\* effect once, in one step, and returns the value its comment promises, also
\* when other threads change the integer (and change it back) between the load
\* of atomic_exchange and its cmpxchg.
ImplementsCell == Cell!CellSpec

\* A thread turns in the loop of atomic_exchange for ever only while other
\* threads keep changing the integer.
ExchangeLockFree ==
    \A t \in Threads : <>[](pc[t] = "cmpxchg") => []<><<pv' # pv>>_vars
=============================================================================
