CONSTANTS
  Reqs = {r1, r2}
  Queues = {q1, mngt}
  MNGT = mngt
  NoMemQueues = {q1, mngt}
  LineCounts = {3, 200}
  TrimLines = 256
  MaxRef = 2
  MaxCount = 300
  NONE = NONE
SPECIFICATION Spec
INVARIANTS
  Quiesced
