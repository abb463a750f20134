CONSTANTS
  Clines <- MCClines
  CoreLines <- MCCoreLines
  ReqRanges <- MCReqRangesMid
  END = END
  NONE = NONE
  RATIO = 2
  NumLists = 2
  UserParts = {1, 2}
  FREELIST = 0
  NumBuckets = 2
  r1 = r1
  r2 = r2
  i1 = i1
  k1 = k1
  k2 = k2
  Reqs = {r1}
  Ios = {i1}
  Callers = {}
  CleanSize = 2
  EvictLimit = 2
SPECIFICATION FairSpec
INVARIANTS
  LinesPartitioned
  MappingConsistent
  NoBug
  ReqMapSound
  IoHitStable
PROPERTIES
  ReqTerminates
