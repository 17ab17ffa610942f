SPECIFICATION Spec
CONSTANTS
  PIDs = {1, 2}
  NumPages = 2
  MaxVPN = 2
  MaxSegments = 2
  MaxMappings = 3
INVARIANTS
  AttachMaps
CHECK_DEADLOCK FALSE
