\* A list that contains itself.
SPECIFICATION Spec
CONSTANTS
  Primitive = p
  Addresses = {r1, r2, r3}
  Ops <- ListOps
  MaxStackSize = 5
  MaxArraySize = 2
  MaxHeight = 4
  MaxVisits = 20
  MaxOver = 0
  MaxUnder = 1
INVARIANTS PanicsRecovered
\* A fault ends the script.
CHECK_DEADLOCK FALSE
