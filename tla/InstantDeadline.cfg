CONSTANTS
  NoCall = NoCall
  MaxNow <- MC_MaxNow
  MaxInstant <- MC_MaxInstant
  Durs <- MC_Durs
  Instants <- MC_Instants
SPECIFICATION Spec
INVARIANTS
  TypeOK
  DeadlineNotEarly
CHECK_DEADLOCK FALSE
