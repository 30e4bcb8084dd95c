CONSTANTS
  x = x
  Vals <- MCVals
  Junk = Junk
  Static = 1
  DefaultCap = 1
  IntMax = 3
  InitCaps <- MCInitCaps
  MaxArrays = 2
  MaxArenas = 2
  Kinds <- MCKinds
SPECIFICATION Spec
INVARIANTS NoJunk BufferAlive NoDangling
PROPERTY MutatorsAreSequenceOps
CHECK_DEADLOCK FALSE
