CONSTANTS
  SHM_MAX_REGIONS = 2
  ShmNames = {"a", "b"}
  ShmFrames = {1, 2, 3}
  ShmProcs = {"p", "q"}
  ShmSizes = {1, 2}
SPECIFICATION ShmSpec
INVARIANT MappedStays
CHECK_DEADLOCK FALSE
