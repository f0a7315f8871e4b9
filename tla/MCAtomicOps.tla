---------------------------- MODULE MCAtomicOps -----------------------------
(* Instances of AtomicOps for TLC: integers of two bits.                    *)
EXTENDS AtomicOps

CONSTANTS t1, t2

TwoThreads == {t1, t2}
SomeArgs == {1, 2}
=============================================================================
