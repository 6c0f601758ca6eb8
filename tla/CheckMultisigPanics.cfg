SPECIFICATION Spec
CONSTANTS
  w1 = w1
  w2 = w2
  w3 = w3
  Workers = {w1, w2, w3}
  TasksCap = 2
  MaxKeys = 2
  MaxSigs = 2
  BadKeys = {}
  InfKeys = {}
  ShortSigs = {1}
  Inputs <- MCInputs
SYMMETRY WorkerSymmetry
INVARIANT PanicsAreRecovered
CHECK_DEADLOCK FALSE
