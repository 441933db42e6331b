CONSTANTS
  r1 = r1
  MaxEvents = 3
  KindOf <- MCKindOf
  RoomOf <- MCRoomOf
  Garbled = {2}
  MaxDeliver = 2
  BufferSize = 1
  MaxEnds = 1
CHECK_DEADLOCK FALSE
SPECIFICATION FairSpec
INVARIANTS
  TypeOK
  AckedIsHandedOver
  FeedFollowsStream
PROPERTIES
  CatchesUp
