CONSTANTS
  MallocMayFail = TRUE
  MaxLen = 2
  MaxReps = 2
  MaxCuts = 2
  BigQueue = 1
  FailLimit = 2
  Modulus = 8
  VerbLevels = {1, 4}
SPECIFICATION Spec
INVARIANTS TesterInv ModesReset CountsAgree TimeoutFails
PROPERTY CommandReturns
CHECK_DEADLOCK FALSE
