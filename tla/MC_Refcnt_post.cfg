CONSTANTS
  u1 = u1
  u2 = u2
  m1 = m1
  NONE = NONE
  Users = {u1, u2}
  Mgmts = {m1}
  MaxRounds = 2
SPECIFICATION Spec
INVARIANTS
  NoPostAfterReturn
