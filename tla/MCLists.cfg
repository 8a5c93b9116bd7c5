CONSTANTS
  Values = {1, 2}
  NNodes = 4
  AvoidStale = TRUE
  Items = {i1, i2, i3, i4, i5}
  MaxLinked = 4
  Numbers = {1, 2}
  Length = 5
  Keys = {1, 2, 3, 4}
  MAX_LEVELS = 5
SPECIFICATION ListProgramsSpec
INVARIANTS QueueInv NoLeak WellLinked StaysInside SortsInPlace
PROPERTIES ImplementsQueue ImplementsLists
SYMMETRY ItemSymmetry
VIEW WithoutCall
CHECK_DEADLOCK FALSE
