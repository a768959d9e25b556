CONSTANTS
  NoReg = NoReg
  MaxDelay <- MC_MaxDelay
  MaxActionAwaits <- MC_MaxActionAwaits
  MaxRearms <- MC_MaxRearms
SPECIFICATION Spec
INVARIANTS
  TypeOK
  WaitingTaskIsWakeable
  NoRegistrationOutlivesTimer
PROPERTIES
  SpawnedTaskFinishes
  ImplementsAbstract
CHECK_DEADLOCK FALSE
