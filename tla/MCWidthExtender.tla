-------------------------- MODULE MCWidthExtender ---------------------------
(* Instance of WidthExtender for TLC: a counter of three values.           *)
EXTENDS WidthExtender

CONSTANTS r1, r2

TwoReaders == {r1, r2}
=============================================================================
