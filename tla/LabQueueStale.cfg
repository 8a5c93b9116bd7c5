CONSTANTS Values = {1} NNodes = 3 AvoidStale = FALSE
SPECIFICATION Spec
INVARIANTS ListHasSizeElements
