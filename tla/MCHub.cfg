CONSTANTS
  alice = alice
  UserOf <- MCUserOf
  Conns = {c1, c2}
  RoomIDs = {r1, r2}
  Callers = {k1}
  Events = {e1}
  BufferSize = 1
CHECK_DEADLOCK FALSE
SPECIFICATION FairSpec
INVARIANTS
  ReverseIndexAgrees
  NoLeftovers
  OneAnswerPerCall
PROPERTIES
  ImplementsSubscriptions
  CountsAnswered
