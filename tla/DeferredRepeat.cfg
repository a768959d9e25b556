CONSTANTS
  NoReg = NoReg
  MaxDelay <- MC_MaxDelay
  MaxGenAwaits <- MC_MaxGenAwaits
  MaxGenCalls <- MC_MaxGenCalls
SPECIFICATION Spec
INVARIANTS
  TypeOK
  WaitingTaskIsWakeable
PROPERTIES
  ImplementsAbstract
CHECK_DEADLOCK FALSE
