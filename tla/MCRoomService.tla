-------------------------- MODULE MCRoomService --------------------------
(* Instances of RoomService for TLC: users, rooms and calls do not differ.  *)
EXTENDS RoomService, TLC

MCSymmetry == Permutations(Users) \cup Permutations(RoomIDs) \cup Permutations(Calls)

=============================================================================
