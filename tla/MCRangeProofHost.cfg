CONSTANTS
  b0 = b0
  b1 = b1
  b2 = b2
  u2 = u2
  s0 = s0
  s2 = s2
  t2 = t2
  noKey = noKey
  Runs = {"first", "second"}
  Jobs <- MCJobs
  Forks = {"derived", "dropped"}
  Derived = "derived"
  Height <- MCHeight
  L2Block <- MCL2Block
  Storage <- MCStorage
  L2Time <- MCL2Time
  L1Time <- MCL1Time
  IncludedIn <- MCIncludedIn
  Margin = 1
  StartL1 = 0
  MaxL1 = 2
  Mod64 = 16
  NoKey = noKey
SPECIFICATION MCFairSpec
INVARIANTS TypeOK NativeStoreComplete UndisturbedStoreAccepted CacheServes ProofsOfTheirRange RootsOfOneChain
PROPERTIES RequestsAnswered
CHECK_DEADLOCK FALSE
