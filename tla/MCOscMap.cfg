CONSTANTS
  k1 = k1
  k2 = k2
  k3 = k3
  v1 = v1
  v2 = v2
  Keys <- MCKeys
  Vals <- MCVals
  Hash <- MCHash
  NoKey = NoKey
  NoVal = NoVal
  Default = v1
  InitCap = 2
  MaxCap = 8
SPECIFICATION Spec
INVARIANTS TypeOK NoDuplicates Reachable
PROPERTIES Refines SetEnds
CHECK_DEADLOCK FALSE
