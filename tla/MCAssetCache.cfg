CONSTANTS
  p1 = p1
  p2 = p2
  Procs <- MCProcs
  Assets <- MCAssets
  TopLevel = {}
  MaxRuns = 2
  MaxCrashes = 1
  MaxFaults = 2
SPECIFICATION FairSpec
INVARIANTS ReturnedIntact NoSpuriousError
PROPERTIES GoodNotSpoiled CacheHeals
CHECK_DEADLOCK FALSE
