SPECIFICATION Spec
CONSTANTS
  MaxTurns = 4
  MaxDepth = 2
  StmtDepth = 2
  Starts <- MCStarts
INVARIANT CallsOnce
INVARIANT BackendsAgree
CHECK_DEADLOCK FALSE
