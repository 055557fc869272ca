SPECIFICATION Spec
CONSTANTS
  p1 = p1
  p2 = p2
  o1 = o1
  o2 = o2
  Procs = {p1, p2}
  Orders = {o1, o2}
  Shipped = {o1}
  Lines = {1}
  Positions = {1}
  Stock <- OnePosition
  Stamps = {"published", "diagnostic"}
  MaxQty = 2
  Levels = {1, 2}
  MaxFaults = 1
INVARIANT CounterMatchesLedger
PROPERTIES AdmitsWithinStock AloneMarksClosed ImplementsAccount
SYMMETRY SymmetricProcs
