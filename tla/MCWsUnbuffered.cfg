CONSTANTS
  c1 = c1
  c2 = c2
  alice = alice
  UserOf <- MCUserOf
  Conns = {c1}
  RoomIDs = {r1}
  BufferSize = 1
  WriteBuffer = 0
  MaxEvents = 1
  MaxMessages = 0
CHECK_DEADLOCK FALSE
SPECIFICATION Spec
PROPERTIES
  SlowOnlyWhenBehind
