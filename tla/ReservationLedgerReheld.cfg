SPECIFICATION Spec
CONSTANTS
  p1 = p1
  p2 = p2
  o1 = o1
  o2 = o2
  Procs = {p1, p2}
  Orders = {o1}
  Shipped = {}
  Lines = {1}
  Positions = {1}
  Stock <- OnePosition
  Stamps = {"published"}
  MaxQty = 1
  Levels = {1}
  MaxFaults = 0
PROPERTY ClosedLineNeverReheld
SYMMETRY Symmetry
