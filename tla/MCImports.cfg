SPECIFICATION Spec
CONSTANTS
  Files <- MCFiles
  Root = "main"
  Programs <- MCPrograms
INVARIANT LinesTracked
INVARIANT CyclesCut
INVARIANT MentionsResolve
CHECK_DEADLOCK FALSE
