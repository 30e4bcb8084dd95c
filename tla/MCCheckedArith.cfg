CONSTANTS
  MAX = 15
  Backends <- MCBackends
  Operands <- MCOperands
SPECIFICATION ArithSpec
INVARIANTS ArithTypeOK ChecksExact
CHECK_DEADLOCK FALSE
