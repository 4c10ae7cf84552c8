CONSTANTS
  c1 = c1
  c2 = c2
  v0 = v0
  v1 = v1
  v2 = v2
  Stores <- MCStores
  Commitments = {c1, c2}
  MaxElement = 7
  Elements = 3
  Capacity = 2
  PlaceMod = 4
  Values = {v0, v1, v2}
  ZeroValue = v0
SPECIFICATION Spec
INVARIANTS VerdictIndependentOfOrder BlobsComeFromStore
CHECK_DEADLOCK FALSE
