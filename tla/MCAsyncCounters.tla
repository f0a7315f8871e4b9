-------------------------- MODULE MCAsyncCounters ---------------------------
(* Instance of AsyncCounters for TLC: two cores on one socket.             *)
EXTENDS AsyncCounters

CONSTANTS r1, r2

TwoReaders == {r1, r2}
=============================================================================
