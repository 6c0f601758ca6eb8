SPECIFICATION FairSpec
CONSTANTS
  w1 = w1
  w2 = w2
  w3 = w3
  Workers = {w1, w2, w3}
  TasksCap = 2
  MaxKeys = 3
  MaxSigs = 2
  BadKeys = {1}
  InfKeys = {}
  ShortSigs = {}
  Inputs <- MCInputs

PROPERTIES
  CallEnds
  WorkersLeave
CHECK_DEADLOCK FALSE
