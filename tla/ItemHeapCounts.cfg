\* All instructions on containers, SETITEM and REMOVE only of containers still in use.
SPECIFICATION Spec
CONSTANTS
  Primitive = p
  Addresses = {r1, r2, r3}
  Ops <- AllOps
  MaxStackSize = 5
  MaxArraySize = 2
  MaxHeight = 4
  MaxVisits = 13
  MaxOver = 2
  MaxUnder = 0
INVARIANTS TypeOK CountsExact LimitHolds StructsAcyclic TraversalsEnd
SYMMETRY AnyAddress
\* A fault ends the script.
CHECK_DEADLOCK FALSE
