SPECIFICATION Spec
CONSTANTS
  k1 = k1
  k2 = k2
  p1 = p1
  p2 = p2
  c1 = c1
  c2 = c2
  Keys = {k1, k2}
  Producers = {p1}
  Consumers = {c1}
  Old = {c1}
  Kinds = {"valid", "newer", "malformed", "poison"}
  Count = 1
  MaxRecovery = 2
  PagesPerTick = 1
  MaxEntries = 2
  MaxWeeks = 3
  MaxFaults = 1
  MaxRetries = 1
  Nobody = Nobody
  NoKey = NoKey
INVARIANTS TypeOK RequestsKept
SYMMETRY Symmetry
