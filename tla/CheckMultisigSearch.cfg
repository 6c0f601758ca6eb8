SPECIFICATION Spec
CONSTANTS
  w1 = w1
  w2 = w2
  w3 = w3
  Workers = {w1, w2, w3}
  TasksCap = 2
  MaxKeys = 4
  MaxSigs = 3
  BadKeys = {1}
  InfKeys = {2}
  ShortSigs = {0}
  Inputs <- MCInputs
SYMMETRY WorkerSymmetry
INVARIANTS
  TypeOK
  VerdictIsMatching
  EndsNeverMeet
  ChannelsNeverFull
PROPERTY ImplementsVerdict
CHECK_DEADLOCK FALSE
