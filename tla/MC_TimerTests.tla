---------------------------- MODULE MC_TimerTests ----------------------------
EXTENDS TimerTests

\* The tests' durations are given to Timer::new, do_in and rearm_in
\* directly; MaxDelay only bounds the other modules' types.
MC_MaxDelay == 1
=============================================================================
