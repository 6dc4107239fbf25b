SPECIFICATION Spec
CONSTANTS
  Kinds = {"bandNr"}
  Items = 2
  Flood = FALSE
  MaxNoise = 1
  MaxOps = 1
INVARIANT OkMeansAll
CHECK_DEADLOCK FALSE
