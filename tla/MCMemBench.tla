----------------------------- MODULE MCMemBench -----------------------------
(***************************************************************************)
(* An instance of MemBench for TLC: two cells to a line; L2 and the last   *)
(* level a power of two of lines, L3 three times one, as on the machine    *)
(* the constants of permutate.cpp describe.                                *)
(***************************************************************************)
EXTENDS MemBench

SmallCaches == <<4, 8, 12>>
SomeIters == {0, 3}
=============================================================================
