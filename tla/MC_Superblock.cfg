CONSTANTS
  MaxVer = 2
  MaxCalls = 3
  MaxCrashes = 1
  Faults = {"nomem", "io"}
  NONE = NONE
SPECIFICATION FairSpec
CHECK_DEADLOCK FALSE
INVARIANTS
  TypeOK
  DurableConsistentUntilError
  PipelineSound
PROPERTIES
  LoadDurable
  CallCompletes
