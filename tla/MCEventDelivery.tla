-------------------------- MODULE MCEventDelivery --------------------------
(* Instances of EventDelivery for TLC: two messages and, between them, a    *)
(* change of the members of their room.                                     *)
EXTENDS EventDelivery

CONSTANT r1

MCKindOf == [e \in Events |->
  IF e % 2 = 1 THEN "message.created" ELSE "room.membership.changed"]

MCRoomOf == [e \in Events |-> r1]

=============================================================================
