SPECIFICATION MCSpec
CONSTANTS
  p1 = p1
  p2 = p2
  t1 = t1
  t2 = t2
  t3 = t3
  t4 = t4
  e1 = e1
  r1 = r1
  r2 = r2
  Procs = {p1, p2}
  Tokens = {t1, t2, t3, t4}
  TTL = 6
  Latency = 1
  MaxFaults = 3
  NoToken = NoToken
  Sweeps = {p1, p2}
  MaxProducts = 3
  FirstCount = 2
  PageSize = 1
  Budgets = {2}
  BatchSizes = {1, 2}
  Cycles = {1, 2}
  MaxSweepFaults = 1
  NoSweep = NoSweep
  SaleProcs = {p1, p2}
  Works = {1, 2}
  Edits = {e1}
  SaleCases <- Lines
  MasterStock = 3
  MaxSaleFaults = 1
  NoSaleProc = NoSaleProc
  NoKey = NoKey
  NoEdit = NoEdit
  RouteProcs = {p1, p2}
  Routers = {r1, r2}
  MaxDecisions = 2
  RouteTTL = 4
  Preamble = 1
  MaxRouteFaults = 1
  NoRouteProc = NoRouteProc
  NoRouter = NoRouter
  CreateProcs = {p1, p2}
  CreateTTL = 3
  CreateMax = 2
  MaxCreateFaults = 3
  NoCreateProc = NoCreateProc
  Ingests = {p1, p2}
  GateJobs = 2
  MaxGateFaults = 3
  Callers = {p1, p2}
  Instances = {p1, p2}
  Home <- OwnHome
  Claims = {1, 2, 3}
  Policies <- SlotsAndPaces
  Lifetime = 4
  RedisTimeout = 1
  Grace = 1
  MaxCall = 1
  RetryAfters = {1, 4}
  MaxRetryAfters = 2
  MaxLimitFaults = 1
  NoClaim = NoClaim
  NoCaller = NoCaller
INVARIANTS
  LockedTypeOK
  LeaderLeads LeaseIsTimely
  SweepCoversOnce
  SaleSentOnce SaleBooksAgree
  RoutedOnce
  PlacedOnce
  DeliveryTellsTruth
  SlotsBalance
PROPERTY BackoffIsKept
CONSTRAINTS Unstrained FewEvents
SYMMETRY Symmetry
