CONSTANTS
  Backends <- MCBackends
  Stmts <- MCAll
  MaxLen = 6
  MaxDefers = 2
  MaxIters = 2
SPECIFICATION Spec
INVARIANTS DefersRunLIFO ValueBeforeDefers ArenasFreed
PROPERTY NativeExits
CHECK_DEADLOCK FALSE
