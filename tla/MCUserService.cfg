SPECIFICATION Spec
CONSTANTS
  Users = {u1, u2}
  Names = {n1, n2}
  Workers = {w1, w2}
  MaxDeliver = 3
  MaxAttempts = 2
  NoUser = NoUser
  NoName = NoName
PROPERTIES ProfilesKept EventBecomesProfile
CHECK_DEADLOCK FALSE
