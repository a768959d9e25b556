CONSTANTS
  NoReg = NoReg
  MaxDelay <- MC_MaxDelay
  MaxActionAwaits <- MC_MaxActionAwaits
  MaxRearms <- MC_MaxRearms
SPECIFICATION Spec
INVARIANT RegisteredIffWaker
CHECK_DEADLOCK FALSE
