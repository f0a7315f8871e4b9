------------------------------ MODULE MyClock -------------------------------
(***************************************************************************)
(* clc/MyClock.cpp: the stopwatch of the network test.  Time is a number   *)
(* of microseconds; gettimeofday splits it into seconds and microseconds.  *)
(***************************************************************************)
EXTENDS Integers

CONSTANTS
    UsecPerSec,   \* 1000000
    MaxTime       \* bound on the time a behaviour takes

ASSUME ClockAssumption == UsecPerSec \in Nat \ {0} /\ MaxTime \in Nat

VARIABLES
    now,            \* the system's time
    m_begin,        \* m_begin, as <<tv_sec, tv_usec>>
    m_timeByUSec    \* the total so far

clockVars == <<now, m_begin, m_timeByUSec>>

\* gettimeofday
TimeOfDay == <<now \div UsecPerSec, now % UsecPerSec>>

ClockInit ==
    /\ now = 0
    /\ m_begin = <<0, 0>>
    /\ m_timeByUSec = 0

\* Time passes.
Tick ==
    /\ now < MaxTime
    /\ now' = now + 1
    /\ UNCHANGED <<m_begin, m_timeByUSec>>

begin == m_begin' = TimeOfDay /\ m_timeByUSec' = 0 /\ UNCHANGED now

\* Mutation of Elapsed: the microseconds are left out.
ElapsedSeconds == UsecPerSec * (TimeOfDay[1] - m_begin[1])

\* The time since m_begin, from seconds and microseconds.
Elapsed == UsecPerSec * (TimeOfDay[1] - m_begin[1]) + TimeOfDay[2] - m_begin[2]

stop == m_timeByUSec' = m_timeByUSec + Elapsed /\ UNCHANGED <<now, m_begin>>

\* Mutation of resume: the start is kept.
resume_keeps == UNCHANGED clockVars

resume == m_begin' = TimeOfDay /\ UNCHANGED <<now, m_timeByUSec>>
=============================================================================
