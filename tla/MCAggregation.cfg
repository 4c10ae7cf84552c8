CONSTANTS
  a0 = a0
  a1 = a1
  a2 = a2
  a3 = a3
  b2 = b2
  b3 = b3
  x = x
  r0 = r0
  r1 = r1
  r2 = r2
  r3 = r3
  none = none
  Headers <- MCHeaders
  Hashes <- MCHashes
  Parent <- MCParent
  Roots = {r0, r1, r2, r3}
  ChainIds = {1, 2}
  BlockNumbers = {1, 2, 3}
  ProvenInfos <- MCProven
  BootInfoLists <- MCBootInfoLists
  HeaderLists <- MCHeaderLists
  Checkpoints <- MCHashes
  None = none
SPECIFICATION Spec
INVARIANTS TypeOK HeadsOnCheckpointChain CommittedIsProvenPath AcceptsExactly
CHECK_DEADLOCK FALSE
