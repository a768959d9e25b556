CONSTANTS
  NoReg = NoReg
  MaxDelay <- MC_MaxDelay
  MaxResets <- MC_MaxResets
SPECIFICATION Spec
INVARIANTS
  TypeOK
  WaitingTaskIsWakeable
  NoStaleRegistration
PROPERTIES
  TimerCompletes
CHECK_DEADLOCK FALSE
