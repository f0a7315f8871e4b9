-------------------------- MODULE MCCounterMetrics --------------------------
(* Instance of CounterMetrics for TLC: two cores in the first socket and   *)
(* one in the second.                                                      *)
EXTENDS CounterMetrics

CONSTANTS c1, c2, c3, s1, s2

ThreeCores == {c1, c2, c3}
TwoSockets == {s1, s2}
Places == [c \in ThreeCores |-> IF c = c3 THEN s2 ELSE s1]
SomeModels == {"ATOM", "NEHALEM_EP", "NEHALEM_EX", "HASWELLX", "HASWELL"}

\* The first core does everything, the others a part of it.
SomeActivities ==
    [c \in ThreeCores |-> CASE c = c1 -> Activities
                            [] c = c2 -> {"l2", "halt"}
                            [] c = c3 -> {"miss", "l2m"}]
=============================================================================
