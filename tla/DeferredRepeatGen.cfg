CONSTANTS
  NoReg = NoReg
  MaxDelay <- MC_MaxDelay
  MaxGenAwaits <- MC_MaxGenAwaits
  MaxGenCalls <- MC_MaxGenCalls
SPECIFICATION Spec
INVARIANT GeneratorRunsToCompletion
CHECK_DEADLOCK FALSE
