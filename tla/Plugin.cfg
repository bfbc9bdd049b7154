CONSTANTS
  p = p
  q = q
  t1 = t1
  t2 = t2
  Broken = Broken
  Wildcard = Wildcard
  Stems = {p, q}
  Builds <- StableBuilds
  Specifiers <- OnlyWildcard
  Threads = {t1, t2}
  MaxWrites = 3
SPECIFICATION FairSpec
INVARIANTS InstalledAreOpen MtimeTellsBytes
PROPERTY PollingCatchesUp
