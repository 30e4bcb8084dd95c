CONSTANTS
  Machines <- MCMachines
  MaxArgs = 3
  ProbeTicks = 2
SPECIFICATION FairSpec
INVARIANTS
  StrictStartsNoCompiler NoSilentFallback NothingLeftBehind Delivered ArchiveSuffices
PROPERTIES Ends
