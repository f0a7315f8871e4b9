-------------------------- MODULE AtomicOpsProofs ---------------------------
(***************************************************************************)
(* For every set of threads, every width and every set of arguments, the   *)
(* instruction sequences of atomic.h implement the atomic cell.            *)
(***************************************************************************)
EXTENDS AtomicOps, TLAPS

-----------------------------------------------------------------------------
(* Arithmetic modulo M                                                      *)

\* A sum cut to the width is a value, whatever was added.
LEMMA SumInValues == ASSUME NEW a \in Values, NEW b \in Values
                     PROVE  Sum(a, b) \in Values
  BY MAssumption, Z3 DEF Sum, Values

\* Adding 2^w - 1 (0xff..f in atomic_dec) is subtracting 1.
LEMMA SumMinusOne == ASSUME NEW v \in Values
                     PROVE  Sum(v, M - 1) = (v - 1) % M
<1>1. CASE v = 0
  <2>1. (v + (M - 1)) % M = M - 1
    BY <1>1, MAssumption, Z3
  <2>2. (v - 1) % M = M - 1
    BY <1>1, MAssumption, Z3
  <2> QED BY <2>1, <2>2 DEF Sum
<1>2. CASE v # 0
  <2>1. v \in Nat /\ v - 1 \in Nat /\ v - 1 < M
    BY <1>2, MAssumption, Z3 DEF Values
  <2>2. (v - 1) % M = v - 1
    BY <2>1, MAssumption, Z3
  <2>3. (v + (M - 1)) % M = v - 1
    BY <2>1, MAssumption, Z3
  <2> QED BY <2>2, <2>3 DEF Sum
<1> QED BY <1>1, <1>2

\* The constants are values.
LEMMA Constants == /\ 0 \in Values /\ 1 \in Values /\ M - 1 \in Values
                   /\ Args \subseteq Values
  BY MAssumption, ArgsAssumption, Z3 DEF Values

-----------------------------------------------------------------------------
(* The invariant                                                            *)

\* What the register and the request say before each instruction.
Register(t) ==
    /\ pc[t] = "idle" => req[t] = NoRequest
    /\ pc[t] = "load" => req[t].op = "exchange"
    /\ pc[t] = "xadd" => \/ req[t].op = "inc" /\ res[t] = 1
                         \/ req[t].op = "dec" /\ res[t] = M - 1
                         \/ req[t].op = "add" /\ res[t] = req[t].nv
    /\ pc[t] = "adjust" => req[t].op \in {"inc", "dec"}
    /\ pc[t] = "cmpxchg" => \/ req[t].op = "exchange"
                            \/ req[t].op = "compare_exchange" /\ res[t] = req[t].cv

RegisterInv == \A t \in Threads : Register(t)

IInv == TypeOK /\ RegisterInv

\* The invariant holds at the start.
LEMMA InitIInv == Init => IInv
<1> SUFFICES ASSUME Init PROVE IInv OBVIOUS
<1>1. NoRequest \in [op : Ops \cup {"none"}, nv : Values, cv : Values]
  BY Constants DEF NoRequest, Ops
<1>2. TypeOK
  BY <1>1, Constants DEF Init, TypeOK
<1>3. RegisterInv
  BY DEF Init, RegisterInv, Register
<1> QED BY <1>2, <1>3 DEF IInv

\* Entering an operation preserves the invariant when the register fits.
LEMMA EnterIInv ==
  ASSUME IInv, NEW t \in Threads, NEW op \in Ops, NEW nv \in Values, NEW cv \in Values,
         NEW instr \in {"load", "xadd", "cmpxchg"}, NEW reg \in Values,
         Enter(t, Request(op, nv, cv), instr, reg),
         instr = "load" => op = "exchange",
         instr = "xadd" => \/ op = "inc" /\ reg = 1
                           \/ op = "dec" /\ reg = M - 1
                           \/ op = "add" /\ reg = nv,
         instr = "cmpxchg" => op = "compare_exchange" /\ reg = cv
  PROVE  IInv'
<1>1. Request(op, nv, cv) \in [op : Ops \cup {"none"}, nv : Values, cv : Values]
  BY DEF Request
<1>2. TypeOK'
  BY <1>1 DEF Enter, IInv, TypeOK
<1>3. ASSUME NEW u \in Threads PROVE Register(u)'
  <2>1. CASE u = t
    <3>1. req'[t] = Request(op, nv, cv) /\ pc'[t] = instr /\ res'[t] = reg
      BY DEF Enter, IInv, TypeOK
    <3> QED BY <2>1, <3>1 DEF Register, Request
  <2>2. CASE u # t
    <3>1. req'[u] = req[u] /\ pc'[u] = pc[u] /\ res'[u] = res[u]
      BY <2>2 DEF Enter, IInv, TypeOK
    <3> QED BY <3>1 DEF Register, IInv, RegisterInv
  <2> QED BY <2>1, <2>2
<1> QED BY <1>2, <1>3 DEF IInv, RegisterInv

\* Every call loads the register its first instruction needs.
LEMMA CallIInv == ASSUME IInv, NEW t \in Threads, Call(t) PROVE IInv'
<1>1. CASE atomic_inc(t)
  BY <1>1, EnterIInv, Constants DEF atomic_inc, Ops
<1>2. CASE atomic_dec(t)
  BY <1>2, EnterIInv, Constants DEF atomic_dec, Ops
<1>3. CASE atomic_add(t)
  BY <1>3, EnterIInv, Constants DEF atomic_add, Ops
<1>4. CASE atomic_exchange(t)
  BY <1>4, EnterIInv, Constants DEF atomic_exchange, Ops
<1>5. CASE atomic_compare_exchange(t)
  BY <1>5, EnterIInv, Constants DEF atomic_compare_exchange, Ops
<1> QED BY <1>1, <1>2, <1>3, <1>4, <1>5 DEF Call

\* Every instruction preserves the invariant.
LEMMA StepIInv == ASSUME IInv, NEW t \in Threads, Step(t) PROVE IInv'
<1>0. /\ pv \in Values /\ res[t] \in Values /\ req[t].nv \in Values
      /\ req[t].op \in Ops \cup {"none"}
  BY DEF IInv, TypeOK
<1>1. CASE xadd(t)
  <2>1. Sum(pv, res[t]) \in Values
    BY <1>0, SumInValues
  <2>2. TypeOK'
    BY <1>1, <1>0, <2>1 DEF xadd, IInv, TypeOK
  <2>3. RegisterInv'
    BY <1>1 DEF xadd, IInv, TypeOK, RegisterInv, Register
  <2> QED BY <2>2, <2>3 DEF IInv
<1>2. CASE adjust(t)
  <2>1. Sum(res[t], IF req[t].op = "inc" THEN 1 ELSE M - 1) \in Values
    BY <1>0, SumInValues, Constants
  <2>2. TypeOK'
    BY <1>2, <2>1 DEF adjust, IInv, TypeOK
  <2>3. RegisterInv'
    BY <1>2 DEF adjust, IInv, TypeOK, RegisterInv, Register
  <2> QED BY <2>2, <2>3 DEF IInv
<1>3. CASE load(t)
  BY <1>3, <1>0 DEF load, IInv, TypeOK, RegisterInv, Register
<1>4. CASE cmpxchg_equal(t)
  BY <1>4, <1>0 DEF cmpxchg_equal, IInv, TypeOK, RegisterInv, Register
<1>5. CASE cmpxchg_differs(t)
  BY <1>5, <1>0 DEF cmpxchg_differs, IInv, TypeOK, RegisterInv, Register
<1>6. CASE Return(t)
  <2>1. NoRequest \in [op : Ops \cup {"none"}, nv : Values, cv : Values]
    BY Constants DEF NoRequest
  <2>2. TypeOK'
    BY <1>6, <2>1 DEF Return, IInv, TypeOK
  <2>3. RegisterInv'
    BY <1>6 DEF Return, IInv, TypeOK, RegisterInv, Register
  <2> QED BY <2>2, <2>3 DEF IInv
<1> QED BY <1>1, <1>2, <1>3, <1>4, <1>5, <1>6 DEF Step

\* The invariant is inductive.
LEMMA NextIInv == IInv /\ [Next]_vars => IInv'
<1> SUFFICES ASSUME IInv, [Next]_vars PROVE IInv' OBVIOUS
<1>1. CASE Next
  BY <1>1, CallIInv, StepIInv DEF Next
<1>2. CASE UNCHANGED vars
  BY <1>2 DEF vars, IInv, TypeOK, RegisterInv, Register
<1> QED BY <1>1, <1>2

\* The invariant holds in every reachable state.
LEMMA AlwaysIInv == Spec => []IInv
  BY InitIInv, NextIInv, PTL DEF Spec

\* The integer stays within its width and the state well typed, for every
\* number of threads, whatever they add to it.
THEOREM TypeCorrect == Spec => []TypeOK
<1>1. IInv => TypeOK
  BY DEF IInv
<1> QED BY AlwaysIInv, <1>1, PTL

-----------------------------------------------------------------------------
(* The refinement                                                           *)

\* The abstract state as the refinement mapping writes it.
StatusMap == [t \in Threads |-> Status(t)]
DecidedMap == [t \in Threads |-> Decided(t)]

\* The initial states map to initial states of the cell.
LEMMA CellInitiates == Init => Cell!CellInit
<1> SUFFICES ASSUME Init PROVE Cell!CellInit OBVIOUS
<1>1. pv \in Cell!Values
  BY DEF Init, Values, Cell!Values
<1>2. StatusMap = [t \in Threads |-> "idle"]
  BY DEF Init, StatusMap, Status
<1>3. req = [t \in Threads |-> Cell!NoRequest]
  BY DEF Init, NoRequest, Cell!NoRequest
<1>4. DecidedMap = [t \in Threads |-> 0]
  BY DEF Init, DecidedMap, Decided
<1> QED BY <1>1, <1>2, <1>3, <1>4 DEF Cell!CellInit, StatusMap, DecidedMap

\* A step that moves one thread maps to EXCEPT on the abstract state.
LEMMA MapsMove ==
  ASSUME NEW t \in Threads, TypeOK, TypeOK',
         \A u \in Threads \ {t} : pc'[u] = pc[u] /\ req'[u] = req[u] /\ res'[u] = res[u]
  PROVE  /\ StatusMap' = [StatusMap EXCEPT ![t] = Status(t)']
         /\ DecidedMap' = [DecidedMap EXCEPT ![t] = Decided(t)']
<1>1. ASSUME NEW u \in Threads, u # t
      PROVE  Status(u)' = Status(u) /\ Decided(u)' = Decided(u)
  BY <1>1 DEF Status, Decided
<1>2. StatusMap' = [StatusMap EXCEPT ![t] = Status(t)']
  BY <1>1 DEF StatusMap
<1>3. DecidedMap' = [DecidedMap EXCEPT ![t] = Decided(t)']
  BY <1>1 DEF DecidedMap
<1> QED BY <1>2, <1>3

\* Entering an operation is an Invoke.
LEMMA EnterInvokes ==
  ASSUME IInv, IInv', NEW t \in Threads, NEW r \in Cell!Requests,
         NEW instr \in {"load", "xadd", "cmpxchg"}, NEW reg,
         Enter(t, r, instr, reg)
  PROVE  Cell!Invoke(t)
<1>1. \A u \in Threads \ {t} : pc'[u] = pc[u] /\ req'[u] = req[u] /\ res'[u] = res[u]
  BY DEF Enter, IInv, TypeOK
<1>2. /\ StatusMap' = [StatusMap EXCEPT ![t] = Status(t)']
      /\ DecidedMap' = [DecidedMap EXCEPT ![t] = Decided(t)']
  BY <1>1, MapsMove DEF IInv
<1>3. pc[t] = "idle" /\ pc'[t] = instr
  BY DEF Enter, IInv, TypeOK
<1>4. StatusMap[t] = "idle" /\ Status(t)' = "called" /\ Decided(t)' = 0
  BY <1>3 DEF StatusMap, Status, Decided
<1>5. req' = [req EXCEPT ![t] = r] /\ pv' = pv
  BY DEF Enter
<1> QED BY <1>2, <1>4, <1>5 DEF Cell!Invoke, StatusMap, DecidedMap

\* Every call is an Invoke of the cell.
LEMMA CallRefines ==
  ASSUME IInv, IInv', NEW t \in Threads, Call(t) PROVE Cell!Invoke(t)
<1>1. CASE atomic_inc(t)
  <2>1. Request("inc", 0, 0) \in Cell!Requests
    BY DEF Request, Cell!Requests
  <2> QED BY <1>1, <2>1, EnterInvokes DEF atomic_inc
<1>2. CASE atomic_dec(t)
  <2>1. Request("dec", 0, 0) \in Cell!Requests
    BY DEF Request, Cell!Requests
  <2> QED BY <1>2, <2>1, EnterInvokes DEF atomic_dec
<1>3. CASE atomic_add(t)
  <2>1. \A av \in Args : Request("add", av, 0) \in Cell!Requests
    BY DEF Request, Cell!Requests
  <2> QED BY <1>3, <2>1, EnterInvokes DEF atomic_add
<1>4. CASE atomic_exchange(t)
  <2>1. \A nv \in Args : Request("exchange", nv, 0) \in Cell!Requests
    BY DEF Request, Cell!Requests
  <2> QED BY <1>4, <2>1, EnterInvokes DEF atomic_exchange
<1>5. CASE atomic_compare_exchange(t)
  <2>1. \A nv, cv \in Args : Request("compare_exchange", nv, cv) \in Cell!Requests
    BY DEF Request, Cell!Requests
  <2> QED BY <1>5, <2>1, EnterInvokes DEF atomic_compare_exchange
<1> QED BY <1>1, <1>2, <1>3, <1>4, <1>5 DEF Call

\* A step that decides an operation, with the cell and the result it must have,
\* is an Apply.
LEMMA DecideApplies ==
  ASSUME IInv, IInv', NEW t \in Threads,
         pc[t] \in {"load", "xadd", "cmpxchg"}, pc'[t] \in {"adjust", "return"},
         \A u \in Threads \ {t} : pc'[u] = pc[u] /\ req'[u] = req[u] /\ res'[u] = res[u],
         req' = req,
         pv' = Cell!NewValue(pv, req[t]),
         Decided(t)' = Cell!Result(pv, req[t])
  PROVE  Cell!Apply(t)
<1>1. /\ StatusMap' = [StatusMap EXCEPT ![t] = Status(t)']
      /\ DecidedMap' = [DecidedMap EXCEPT ![t] = Decided(t)']
  BY MapsMove DEF IInv
<1>2. StatusMap[t] = "called" /\ Status(t)' = "applied"
  BY DEF StatusMap, Status
<1> QED BY <1>1, <1>2 DEF Cell!Apply, StatusMap, DecidedMap

\* A step that leaves the abstract view of its thread alone is a stutter.
LEMMA SilentStutters ==
  ASSUME IInv, IInv', NEW t \in Threads,
         \A u \in Threads \ {t} : pc'[u] = pc[u] /\ req'[u] = req[u] /\ res'[u] = res[u],
         req' = req, pv' = pv, Status(t)' = Status(t), Decided(t)' = Decided(t)
  PROVE  UNCHANGED Cell!cellVars
<1>1. /\ StatusMap' = [StatusMap EXCEPT ![t] = Status(t)']
      /\ DecidedMap' = [DecidedMap EXCEPT ![t] = Decided(t)']
  BY MapsMove DEF IInv
<1>2. StatusMap' = StatusMap /\ DecidedMap' = DecidedMap
  BY <1>1 DEF StatusMap, DecidedMap
<1> QED BY <1>2 DEF Cell!cellVars, StatusMap, DecidedMap

\* A locked instruction that decides is an Apply, the return a Respond, and the
\* other instructions are invisible.
LEMMA StepRefines ==
  ASSUME IInv, IInv', NEW t \in Threads, Step(t)
  PROVE  Cell!Apply(t) \/ Cell!Respond(t) \/ UNCHANGED Cell!cellVars
<1>0. /\ pv \in Values /\ res[t] \in Values /\ Register(t)
      /\ pc \in [Threads -> {"idle", "load", "xadd", "adjust", "cmpxchg", "return"}]
      /\ DOMAIN req = Threads /\ DOMAIN res = Threads
  BY DEF IInv, TypeOK, RegisterInv
<1>1. CASE xadd(t)
  <2>1. /\ pc[t] = "xadd" /\ res'[t] = pv /\ req' = req /\ pv' = Sum(pv, res[t])
        /\ pc'[t] = IF req[t].op = "add" THEN "return" ELSE "adjust"
        /\ \A u \in Threads \ {t} : pc'[u] = pc[u] /\ req'[u] = req[u] /\ res'[u] = res[u]
    BY <1>0, <1>1 DEF xadd
  <2>2. CASE req[t].op = "inc" /\ res[t] = 1
    <3>1. Decided(t)' = Sum(pv, 1)
      BY <2>1, <2>2 DEF Decided
    <3>2. Cell!NewValue(pv, req[t]) = Sum(pv, 1) /\ Cell!Result(pv, req[t]) = Sum(pv, 1)
      BY <2>2 DEF Cell!NewValue, Cell!Result, Sum
    <3> QED BY <2>1, <2>2, <3>1, <3>2, DecideApplies
  <2>3. CASE req[t].op = "dec" /\ res[t] = M - 1
    <3>1. Decided(t)' = Sum(pv, M - 1)
      BY <2>1, <2>3 DEF Decided
    <3>2. Cell!NewValue(pv, req[t]) = (pv - 1) % M
          /\ Cell!Result(pv, req[t]) = (pv - 1) % M
      BY <2>3 DEF Cell!NewValue, Cell!Result
    <3>3. Sum(pv, M - 1) = (pv - 1) % M
      BY <1>0, SumMinusOne
    <3> QED BY <2>1, <2>3, <3>1, <3>2, <3>3, DecideApplies
  <2>4. CASE req[t].op = "add" /\ res[t] = req[t].nv
    <3>1. Decided(t)' = pv
      BY <2>1, <2>4 DEF Decided
    <3>2. Cell!NewValue(pv, req[t]) = Sum(pv, res[t]) /\ Cell!Result(pv, req[t]) = pv
      BY <2>4 DEF Cell!NewValue, Cell!Result, Sum
    <3> QED BY <2>1, <2>4, <3>1, <3>2, DecideApplies
  <2> QED BY <1>0, <2>1, <2>2, <2>3, <2>4 DEF Register
<1>2. CASE adjust(t)
  <2>1. /\ pc[t] = "adjust" /\ pc'[t] = "return" /\ req' = req /\ pv' = pv
        /\ res'[t] = Sum(res[t], IF req[t].op = "inc" THEN 1 ELSE M - 1)
        /\ \A u \in Threads \ {t} : pc'[u] = pc[u] /\ req'[u] = req[u] /\ res'[u] = res[u]
    BY <1>0, <1>2 DEF adjust
  <2>2. Status(t)' = Status(t) /\ Decided(t)' = Decided(t)
    BY <2>1 DEF Status, Decided
  <2> QED BY <2>1, <2>2, SilentStutters
<1>3. CASE load(t)
  <2>1. /\ pc[t] = "load" /\ pc'[t] = "cmpxchg" /\ req' = req /\ pv' = pv
        /\ \A u \in Threads \ {t} : pc'[u] = pc[u] /\ req'[u] = req[u] /\ res'[u] = res[u]
    BY <1>0, <1>3 DEF load
  <2>2. Status(t)' = Status(t) /\ Decided(t)' = Decided(t)
    BY <2>1 DEF Status, Decided
  <2> QED BY <2>1, <2>2, SilentStutters
<1>4. CASE cmpxchg_equal(t)
  <2>1. /\ pc[t] = "cmpxchg" /\ pc'[t] = "return" /\ req' = req /\ res' = res
        /\ pv = res[t] /\ pv' = req[t].nv
        /\ \A u \in Threads \ {t} : pc'[u] = pc[u] /\ req'[u] = req[u] /\ res'[u] = res[u]
    BY <1>0, <1>4 DEF cmpxchg_equal
  <2>2. Decided(t)' = pv
    BY <2>1 DEF Decided
  <2>3. Cell!NewValue(pv, req[t]) = req[t].nv /\ Cell!Result(pv, req[t]) = pv
    BY <1>0, <2>1 DEF Cell!NewValue, Cell!Result, Register
  <2> QED BY <2>1, <2>2, <2>3, DecideApplies
<1>5. CASE cmpxchg_differs(t)
  <2>1. /\ pc[t] = "cmpxchg" /\ pv # res[t] /\ req' = req /\ pv' = pv /\ res'[t] = pv
        /\ pc'[t] = IF req[t].op = "exchange" THEN "cmpxchg" ELSE "return"
        /\ \A u \in Threads \ {t} : pc'[u] = pc[u] /\ req'[u] = req[u] /\ res'[u] = res[u]
    BY <1>0, <1>5 DEF cmpxchg_differs
  <2>2. CASE req[t].op = "exchange"
    <3>1. Status(t)' = Status(t) /\ Decided(t)' = Decided(t)
      BY <2>1, <2>2 DEF Status, Decided
    <3> QED BY <2>1, <3>1, SilentStutters
  <2>3. CASE req[t].op = "compare_exchange" /\ res[t] = req[t].cv
    <3>1. pc'[t] = "return" /\ Decided(t)' = pv
      BY <2>1, <2>3 DEF Decided
    <3>2. Cell!NewValue(pv, req[t]) = pv /\ Cell!Result(pv, req[t]) = pv
      BY <2>1, <2>3 DEF Cell!NewValue, Cell!Result
    <3> QED BY <2>1, <3>1, <3>2, DecideApplies
  <2> QED BY <1>0, <2>1, <2>2, <2>3 DEF Register
<1>6. CASE Return(t)
  <2>1. /\ pc[t] = "return" /\ pc'[t] = "idle" /\ pv' = pv /\ res' = res
        /\ req' = [req EXCEPT ![t] = NoRequest]
        /\ \A u \in Threads \ {t} : pc'[u] = pc[u] /\ req'[u] = req[u] /\ res'[u] = res[u]
    BY <1>0, <1>6 DEF Return
  <2>2. /\ StatusMap' = [StatusMap EXCEPT ![t] = Status(t)']
        /\ DecidedMap' = [DecidedMap EXCEPT ![t] = Decided(t)']
    BY <2>1, MapsMove DEF IInv
  <2>3. StatusMap[t] = "applied" /\ Status(t)' = "idle"
    BY <2>1 DEF StatusMap, Status
  <2>4. Decided(t)' = Decided(t)
    BY <2>1 DEF Decided
  <2>5. DecidedMap' = DecidedMap
    BY <2>2, <2>4 DEF DecidedMap
  <2> QED BY <2>1, <2>2, <2>3, <2>5 DEF Cell!Respond, Cell!NoRequest, NoRequest,
                                       StatusMap, DecidedMap
<1> QED BY <1>1, <1>2, <1>3, <1>4, <1>5, <1>6 DEF Step

\* Every step maps to a step of the cell or to a stutter.
LEMMA NextRefines ==
  IInv /\ IInv' /\ [Next]_vars => [Cell!CellNext]_(Cell!cellVars)
<1> SUFFICES ASSUME IInv, IInv', [Next]_vars
             PROVE  [Cell!CellNext]_(Cell!cellVars)
  OBVIOUS
<1>1. CASE Next
  <2>1. PICK t \in Threads : Call(t) \/ Step(t)
    BY <1>1 DEF Next
  <2>2. CASE Call(t)
    BY <2>2, CallRefines DEF Cell!CellNext
  <2>3. CASE Step(t)
    BY <2>3, StepRefines DEF Cell!CellNext
  <2> QED BY <2>1, <2>2, <2>3
<1>2. CASE UNCHANGED vars
  <2>1. StatusMap' = StatusMap /\ DecidedMap' = DecidedMap
    BY <1>2 DEF vars, StatusMap, DecidedMap, Status, Decided
  <2> QED BY <1>2, <2>1 DEF vars, Cell!cellVars, StatusMap, DecidedMap
<1> QED BY <1>1, <1>2

\* Every operation of atomic.h takes effect in one step between its call and
\* its return and returns the promised value, for any number of threads, any
\* width and any arguments.
THEOREM CellRefinement == Spec => ImplementsCell
  BY AlwaysIInv, CellInitiates, NextRefines, PTL
     DEF Spec, ImplementsCell, Cell!CellSpec
=============================================================================
