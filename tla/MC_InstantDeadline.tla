------------------------- MODULE MC_InstantDeadline -------------------------
EXTENDS InstantDeadline

\* Instant 6 is the largest representable one; the clock reaches 3.
\* Durations: zero, a short one, and one as long as the whole range (a
\* caller's "never").  Instants: one in the past, a near one, the latest.
MC_MaxNow == 3
MC_MaxInstant == 6
MC_Durs == {0, 2, 6}
MC_Instants == {0, 2, 6}

\* Callers that never pass an overlong duration, only valid instants.
MC_ShortDurs == {0, 2}
=============================================================================
