CONSTANTS
  c1 = c1
  c2 = c2
  alice = alice
  UserOf <- MCUserOf
  Conns = {c1}
  RoomIDs = {r1, r2}
  BufferSize = 1
  WriteBuffer = 1
  MaxEvents = 3
  MaxMessages = 1
CHECK_DEADLOCK FALSE
SPECIFICATION FairSpec
INVARIANTS
  TypeOK
  NoSilentLoss
  DeliveredInOrder
  EndWakesOthers
PROPERTIES
  PumpsStop
