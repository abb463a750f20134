CONSTANTS
  Clines <- MCClines
  CoreLines <- MCCoreLines
  ReqRanges <- MCReqRangesSmall
  END = END
  NONE = NONE
  RATIO = 2
  NumLists = 2
  UserParts = {1}
  FREELIST = 0
  NumBuckets = 2
  r1 = r1
  r2 = r2
  i1 = i1
  k1 = k1
  k2 = k2
  Reqs = {r1}
  Ios = {i1}
  Callers = {k1}
  CleanSize = 2
  EvictLimit = 2
SPECIFICATION Spec
INVARIANTS
  TypeOK
  LinesPartitioned
  VictimExclusive
  CleanBatchPinned
  CleanLocksBalanced
