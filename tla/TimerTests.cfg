CONSTANTS
  NoReg = NoReg
  NoTask = NoTask
  MaxDelay <- MC_MaxDelay
SPECIFICATION Spec
INVARIANTS
  TypeOK
  TestAssertionsHold
PROPERTIES
  EveryTestFinishes
CHECK_DEADLOCK FALSE
