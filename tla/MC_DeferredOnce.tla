--------------------------- MODULE MC_DeferredOnce ---------------------------
EXTENDS DeferredOnce

MC_MaxDelay == 2
MC_MaxActionAwaits == 2
MC_MaxRearms == 2
=============================================================================
