SPECIFICATION FairSpec
CONSTANTS
  k1 = k1
  k2 = k2
  p1 = p1
  p2 = p2
  c1 = c1
  c2 = c2
  Keys = {k1}
  Producers = {p1}
  Consumers = {c1, c2}
  Old = {}
  Kinds = {"valid", "poison"}
  Count = 1
  MaxRecovery = 2
  PagesPerTick = 1
  MaxEntries = 1
  MaxWeeks = 0
  MaxFaults = 2
  MaxRetries = 0
  Nobody = Nobody
  NoKey = NoKey
INVARIANT NothingLost
PROPERTY PendingResolved
