CONSTANTS
  Users = {u1}
  Rooms = {r1, r2}
  Messages = {m1, m2}
  Unknown = Unknown
  Calls = {k1, k2}
  Attempts = 2
  NoUser = NoUser
  NoRoom = NoRoom
  NoMessage = NoMessage
CHECK_DEADLOCK FALSE
SPECIFICATION Spec
SYMMETRY MCSymmetry
INVARIANTS
  Authorised
  DeletedOnce
  RepliesFit
  FailuresMasked
