CONSTANTS
  MaxVer = 2
  MaxCalls = 3
  MaxCrashes = 1
  Faults = {"io"}
  NONE = NONE
SPECIFICATION Spec
CHECK_DEADLOCK FALSE
INVARIANTS
  DurableConsistent
