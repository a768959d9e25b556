-------------------------- MODULE MC_DeferredRepeat --------------------------
EXTENDS DeferredRepeat

MC_MaxDelay == 2
MC_MaxGenAwaits == 1
MC_MaxGenCalls == 4
=============================================================================
