\* Lists whose last reference SETITEM or REMOVE pops.
SPECIFICATION Spec
CONSTANTS
  Primitive = p
  Addresses = {r1, r2, r3}
  Ops <- ListOps
  MaxStackSize = 4
  MaxArraySize = 2
  MaxHeight = 4
  MaxVisits = 20
  MaxOver = 0
  MaxUnder = 2
INVARIANTS ItemsInUseWithinLimit
\* A fault ends the script.
CHECK_DEADLOCK FALSE
