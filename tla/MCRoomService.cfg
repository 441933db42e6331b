CONSTANTS
  Users = {u1, u2}
  RoomIDs = {r1, r2}
  Calls = {k1, k2}
  NoUser = NoUser
  NoRoom = NoRoom
CHECK_DEADLOCK FALSE
SPECIFICATION Spec
SYMMETRY MCSymmetry
INVARIANTS
  OneOwner
  DirectRoomFixed
  OneDirectRoomPerPair
  EveryChangeTold
  AddRetrySafe
