CONSTANTS
  Backends <- MCBackends
  Stmts <- MCAll
  MaxLen = 5
  MaxDefers = 1
  MaxIters = 1
SPECIFICATION Spec
INVARIANT DefersAsSpecified
CHECK_DEADLOCK FALSE
