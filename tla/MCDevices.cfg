CONSTANTS
  c1 = c1
  c2 = c2
  Clients = {c1, c2}
  MaxLoads = 2
  MAX_LENGTH = 92
  Literals <- MCLiterals
  Variables <- MCVariables
  Cases <- MCCases
  MaxOpens = 3
  IsExpression <- MCIsExpression
  ResultOf <- Calculate
  ResultOfDigits <- MCResultOfDigits
  IsExactly <- StandsFor
  Offsets <- MCOffsets
SPECIFICATION Spec
INVARIANTS TypeOK NothingReachable FibExclusive EchoesOwn ReadsTheAnswer
SYMMETRY ClientSymmetry
CHECK_DEADLOCK FALSE
