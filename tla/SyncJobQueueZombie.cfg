SPECIFICATION FairSpec
CONSTANTS
  j1 = j1
  j2 = j2
  w1 = w1
  w2 = w2
  s1 = s1
  s2 = s2
  c1 = c1
  Jobs = {j1}
  Workers = {w1, w2}
  Slots = {s1}
  Conns = {c1}
  ConnOf <- MCConnOf
  PerScope = 1
  MaxAttempts = 2
  DeferBudget = 1
  Results = {"ok", "retryable", "deferrable"}
  HeartbeatsReliable = FALSE
  MaxFaults = 2
  MaxRows = 2
  NoWorker = NoWorker
  NoJob = NoJob
  MaxRetries = 1
INVARIANT LockPaired
PROPERTIES OrphansRecovered JobsSettle
