CONSTANTS
  Units = {"list", "iter", "refcnt", "actor", "req", "volume", "populate", "inv"}
  ShardLists = 5
  u1 = u1
  u2 = u2
  m1 = m1
  NONE = NONE
  Users = {u1, u2}
  Mgmts = {m1}
  MaxRounds = 2
  END_ = END_
  UNSPEC_ = UNSPEC_
  INVALID_ = INVALID_
  END <- END_
  UNSPECIFIED <- UNSPEC_
  INVALID <- INVALID_
  Clines <- MCClines
  CoreLines <- MCCoreLines
  Ranges <- MCRanges
  RATIO = 2
  NumLists = 2
  UserParts = {1}
  FREELIST = 0
  Cores = {1}
  Actors = {"keep"}
  Reqs = {r1, r2}
  Queues = {q1, mngt}
  MNGT = mngt
  NoMemQueues = {q1}
  LineCounts = {3, 200}
  TrimLines = 256
  MaxRef = 2
  MaxCount = 300
  o1 = o1
  e1 = e1
  i1 = i1
  i2 = i2
  Props <- MCProps
  Objs = {o1, e1}
  Embedded = {e1}
  Ios = {i1, i2}
  VolSbs <- MCVolSbs
  Faults = {"nomem", "io", "set_data"}
  Modes = {"sync", "async"}
  MaxPages = 2
SPECIFICATION UnitsSpec
INVARIANTS
  ListWellFormed
  HotBalanced
  IterTypeOK
  AvailCounted
  RefsCounted
  ActorComplete
  ActorExact
  ReqTypeOK
  Quiesced
  ReqMemoryBalanced
  AllocatorClassOK
  VolumeTypeOK
  VolumeMemoryBalanced
  VolumeMemorySafe
  ReadSbSound
  PopulateExact
  InvCompleteOnce
PROPERTIES
  
  WaitReturns
  InvCompletes
