CONSTANTS
  Genesis = {2}
  Chains <- MCChains
  Targets = {1, 2, 3, 4, 5, 6, 7, 8, 9}
  Slots = {1, 2}
  Mod64 = 64
  MaxLength = 6
  MaxReorgs = 1
SPECIFICATION FairSpec
INVARIANTS TypeOK FirstAtOrAfterTarget
PROPERTIES ImplementsHeadSearch SearchEnds
CHECK_DEADLOCK FALSE
