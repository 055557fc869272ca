SPECIFICATION MCSpec
CONSTANTS
  p1 = p1
  p2 = p2
  a1 = a1
  a2 = a2
  b1 = b1
  f1 = f1
  A = A
  B = B
  F = F
  d1 = d1
  x = x
  y = y
  Free = Free
  Orphan = Orphan
  Procs = {p1, p2}
  Invoices = {a1, b1}
  Receipts = {f1}
  ConnOf <- MCConnOf
  Keyless = {}
  Consumers = {A}
  Locators = {A, F}
  Repeat = {"same"}
  MaxFaults = 2
  Clerks = {p1, p2}
  ReturnLines = {1, 2, 3}
  ReturnOf <- TwoReturns
  Reported = {1, 3}
  Amounts = {1}
  Total = 1
  DirectKeys = {d1}
  MaxRefunds = 2
  MaxRefundFaults = 1
  NoClerk = NoClerk
  NoKey = NoKey
  ShipProcs = {p1, p2}
  MaxShipments = 2
  MaxLabels = 2
  MaxShipFaults = 2
  NoShipProc = NoShipProc
  Relays = {p1, p2}
  MaxRelayFailures = 2
  MaxRelayFaults = 2
  HoldProcs = {p1, p2}
  Reasons = {x, y}
  MaxHolds = 2
  MaxHoldFaults = 2
  NoReason = NoReason
  NoHoldProc = NoHoldProc
INVARIANTS
  OrderWorkTypeOK
  RefusalFreesOrder
  LinePaidOnce 
  ParcelsMatchRows
  WaybillToldOnce
  ClearHoldShipsNothing
PROPERTY IntentsAreAlone
CONSTRAINT Followed
SYMMETRY Symmetry
CHECK_DEADLOCK FALSE
