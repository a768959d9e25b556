CONSTANTS
  NoCall = NoCall
  MaxNow <- MC_MaxNow
  MaxInstant <- MC_MaxInstant
  Durs <- MC_ShortDurs
  Instants <- MC_Instants
SPECIFICATION Spec
INVARIANTS
  NeverPanics
CHECK_DEADLOCK FALSE
