CONSTANTS
  W = 5
  Align = 4
  Header = 4
  Page = 8
  InitSizes <- MCInitSizes
  Sizes <- MCSizes
  MaxAllocs = 3
  MaxBlocks = 4
  MaxResets = 2
SPECIFICATION Spec
INVARIANTS TypeOK InBounds Disjoint LostOnlyByReset
CHECK_DEADLOCK FALSE
