SPECIFICATION Spec
CONSTANTS
  Places <- MCPlaces
  Libraries <- MCLibraries
  Environments <- MCEnvironments
INVARIANT HandlesRespected
INVARIANT NothingLeaks
INVARIANT ObjectsSound
CHECK_DEADLOCK FALSE
