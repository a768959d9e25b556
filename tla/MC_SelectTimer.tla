---------------------------- MODULE MC_SelectTimer ----------------------------
EXTENDS SelectTimer

MC_MaxDelay == 4
MC_MaxResets == 4
=============================================================================
