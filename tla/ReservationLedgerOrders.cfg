SPECIFICATION Spec
CONSTANTS
  p1 = p1
  p2 = p2
  o1 = o1
  o2 = o2
  Procs = {p1, p2}
  Orders = {o1, o2}
  Shipped = {}
  Lines = {1, 2}
  Positions = {1, 2, 3}
  Stock <- Crossed
  Stamps = {"published"}
  MaxQty = 1
  Levels = {2}
  MaxFaults = 0
INVARIANT OrdersNeverDeadlock
PROPERTIES AloneNeverReholds
CONSTRAINTS MovesInOrder FewEnded
SYMMETRY SymmetricProcs
CHECK_DEADLOCK FALSE
