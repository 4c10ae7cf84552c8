CONSTANTS
  g = g
  a1 = a1
  a2 = a2
  a3 = a3
  b2 = b2
  b3 = b3
  noBlock = noBlock
  r0 = r0
  r1 = r1
  r2 = r2
  Blocks = {g, a1, a2, a3, b2, b3}
  Genesis = g
  Parent <- MCParent
  Number <- MCNumber
  NoBlock = noBlock
  RpcFailed = rpcFailed
  rpcFailed = rpcFailed
  MaxReorgs = 1
  Roots = {r0, r1, r2}
  ChainIds = {1}
  BlockNumbers = {1, 2}
  ProvenInfos <- MCProven
  ProofLists <- MCProofLists
  FrontEnds = {"agg"}
  None = noneCommitted
  noneCommitted = noneCommitted
SPECIFICATION Spec
INVARIANTS ErrorsFilteredOut
CHECK_DEADLOCK FALSE
