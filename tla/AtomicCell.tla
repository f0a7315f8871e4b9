----------------------------- MODULE AtomicCell -----------------------------
(***************************************************************************)
(* What atomic.h promises: each operation on an integer takes effect in    *)
(* one step between its call and its return, and returns what its comment  *)
(* says: inc and dec the new value, add, exchange and compare_exchange the *)
(* initial one.                                                            *)
(***************************************************************************)
EXTENDS Integers

CONSTANTS
    Threads,   \* the callers
    M,         \* 2^8, 2^16, 2^32 or 2^64
    Args       \* the values the callers pass

Values == 0..(M - 1)

\* A call: the operation, its value (av or nv) and its comparand (cv).
Requests ==
    [op : {"inc", "dec"}, nv : {0}, cv : {0}]
        \cup [op : {"add", "exchange"}, nv : Args, cv : {0}]
        \cup [op : {"compare_exchange"}, nv : Args, cv : Args]

NoRequest == [op |-> "none", nv |-> 0, cv |-> 0]

\* The cell after request r on value v.
NewValue(v, r) ==
    CASE r.op = "inc"      -> (v + 1) % M
      [] r.op = "dec"      -> (v - 1) % M
      [] r.op = "add"      -> (v + r.nv) % M
      [] r.op = "exchange" -> r.nv
      [] OTHER             -> IF v = r.cv THEN r.nv ELSE v

\* What request r on value v returns.
Result(v, r) == IF r.op \in {"inc", "dec"} THEN NewValue(v, r) ELSE v

VARIABLES
    cell,      \* the integer
    status,    \* idle, called or applied, of each thread
    request,   \* the call under way
    result     \* the result: 0 until the call has taken effect

cellVars == <<cell, status, request, result>>

CellInit ==
    /\ cell \in Values
    /\ status = [t \in Threads |-> "idle"]
    /\ request = [t \in Threads |-> NoRequest]
    /\ result = [t \in Threads |-> 0]

Invoke(t) ==
    /\ status[t] = "idle"
    /\ \E r \in Requests : request' = [request EXCEPT ![t] = r]
    /\ status' = [status EXCEPT ![t] = "called"]
    /\ result' = [result EXCEPT ![t] = 0]
    /\ UNCHANGED cell

Apply(t) ==
    /\ status[t] = "called"
    /\ cell' = NewValue(cell, request[t])
    /\ result' = [result EXCEPT ![t] = Result(cell, request[t])]
    /\ status' = [status EXCEPT ![t] = "applied"]
    /\ UNCHANGED request

Respond(t) ==
    /\ status[t] = "applied"
    /\ status' = [status EXCEPT ![t] = "idle"]
    /\ request' = [request EXCEPT ![t] = NoRequest]
    /\ UNCHANGED <<cell, result>>

CellNext == \E t \in Threads : Invoke(t) \/ Apply(t) \/ Respond(t)

CellSpec == CellInit /\ [][CellNext]_cellVars
=============================================================================
