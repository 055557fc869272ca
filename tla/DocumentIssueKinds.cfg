SPECIFICATION Spec
CONSTANTS
  p1 = p1
  p2 = p2
  a1 = a1
  a2 = a2
  b1 = b1
  f1 = f1
  A = A
  B = B
  F = F
  Free = Free
  Orphan = Orphan
  Procs = {p1, p2}
  Invoices = {a1}
  Receipts = {f1}
  ConnOf <- MCConnOf
  Keyless = {}
  Consumers = {A}
  Locators = {A, F}
  Repeat = {"same"}
  MaxFaults = 0
INVARIANT NeverBothKinds
