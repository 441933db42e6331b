-------------------------- MODULE RoomSubscriptions --------------------------
(***************************************************************************)
(* What the hub of the WebSocket connector promises to its callers, without *)
(* its three maps and five channels: a set of subscriptions, each a         *)
(* connection and a room.  A request takes effect in one step, some time    *)
(* after it was made.  Module Hub implements this specification (HubProofs  *)
(* proves it).                                                              *)
(***************************************************************************)
EXTENDS FiniteSets

CONSTANTS
  Conns,      (* the connections                                           *)
  UserOf,     (* UserOf[c]: the user a connection authenticated as         *)
  RoomIDs,    (* room identifiers                                          *)
  Callers     (* goroutines that ask for the number of users of a room     *)

VARIABLES
  subs,       (* the pairs <<connection, room>> that receive broadcasts    *)
  slow,       (* connections the hub has decided to close as too slow      *)
  countCh     (* countCh[k]: the answer waiting for caller k, if any       *)

vars == <<subs, slow, countCh>>

Subscribers(r) == {c \in Conns : <<c, r>> \in subs}

UsersIn(r) == {UserOf[c] : c \in Subscribers(r)}

Init ==
  /\ subs = {}
  /\ slow = {}
  /\ countCh = [k \in Callers |-> <<>>]

Subscribe(c, r) ==
  /\ subs' = subs \cup {<<c, r>>}
  /\ UNCHANGED <<slow, countCh>>

Unsubscribe(c, r) ==
  /\ subs' = subs \ {<<c, r>>}
  /\ UNCHANGED <<slow, countCh>>

(* A disconnected connection loses all its rooms in one step. *)
Drop(c) ==
  /\ subs' = {s \in subs : s[1] # c}
  /\ UNCHANGED <<slow, countCh>>

(* A broadcast may close subscribers of its room, and nobody else. *)
Broadcast(r) ==
  /\ \E refused \in SUBSET Subscribers(r) : slow' = slow \cup refused
  /\ UNCHANGED <<subs, countCh>>

Closed(c) ==
  /\ slow' = slow \ {c}
  /\ UNCHANGED <<subs, countCh>>

(* The answer counts users, not connections, at the moment it is given. *)
Answer(k, r) ==
  /\ countCh' = [countCh EXCEPT ![k] = <<Cardinality(UsersIn(r))>>]
  /\ UNCHANGED <<subs, slow>>

Take(k) ==
  /\ countCh' = [countCh EXCEPT ![k] = <<>>]
  /\ UNCHANGED <<subs, slow>>

Next ==
  \/ \E c \in Conns, r \in RoomIDs : Subscribe(c, r) \/ Unsubscribe(c, r)
  \/ \E c \in Conns : Drop(c) \/ Closed(c)
  \/ \E r \in RoomIDs : Broadcast(r)
  \/ \E k \in Callers, r \in RoomIDs : Answer(k, r)
  \/ \E k \in Callers : Take(k)

Spec == Init /\ [][Next]_vars

=============================================================================
