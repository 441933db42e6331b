-------------------------- MODULE MCMessageService -------------------------
(* Instances of MessageService for TLC: users, rooms, messages and calls do *)
(* not differ.                                                              *)
EXTENDS MessageService, TLC

MCSymmetry ==
  Permutations(Users) \cup Permutations(Rooms) \cup Permutations(Messages)
    \cup Permutations(Calls)

=============================================================================
