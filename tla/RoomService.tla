---------------------------- MODULE RoomService ----------------------------
(***************************************************************************)
(* The room service (services/room): the gRPC handlers over the tables     *)
(* rooms and room_members.  A call runs one database query at a time and   *)
(* other calls, of any replica, run between its queries; only CreateRoom   *)
(* uses a (serializable) transaction, which is one step here.  What a call *)
(* read, it uses later.                                                    *)
(*                                                                         *)
(* External: PostgreSQL, whose queries may fail, also after the write took *)
(* effect, and JetStream, whose publish may fail.  Left out: names, times  *)
(* and recipients, that no property tells apart; the reads of one query    *)
(* (GetRoom, IsMember, GetUserRooms), that change nothing.                 *)
(***************************************************************************)
EXTENDS FiniteSets

CONSTANTS
  Users,
  RoomIDs,    (* the identifiers gen_random_uuid draws, each at most once  *)
  Calls,      (* concurrent gRPC calls; a call that has answered is reused *)
  NoUser,     (* uuid.Nil, or no user in the request                       *)
  NoRoom      (* no room in the request                                    *)

ASSUME RoomAssumption == NoUser \notin Users /\ NoRoom \notin RoomIDs

VARIABLES
  rooms,      (* rooms[r]: the row of r                                    *)
  members,    (* the rows of room_members                                  *)
  call        (* call[k]: the request of k and how far it is               *)

vars == <<rooms, members, call>>

RoomType == {"direct", "group"}
Row == [type : RoomType \cup {"unused", "deleted"}, createdBy : Users \cup {NoUser}]
Member == [room : RoomIDs, user : Users, role : {"owner", "member"}]

Create == {"createGroup", "createDirect"}
Op == Create \cup {"update", "delete", "add", "remove", "members"}
Code == {"", "OK", "NotFound", "PermissionDenied", "AlreadyExists", "Internal"}
Point == {"idle", "room", "role", "requester", "target", "write", "members",
          "publish", "reply"}

(* effect: the call wrote; told: it published its event; failed: a query or *)
(* a publish of it failed; again: it repeats a call of the same arguments   *)
(* whose write had taken effect.                                           *)
CallState ==
  [op : Op \cup {"none"}, room : RoomIDs \cup {NoRoom}, user : Users \cup {NoUser},
   by : Users \cup {NoUser}, at : Point, reply : Code, effect : BOOLEAN,
   told : BOOLEAN, failed : BOOLEAN, again : BOOLEAN]

-----------------------------------------------------------------------------
(* The tables *)

Exists(r) == rooms[r].type \in RoomType

MembersOf(r) == {m.user : m \in {x \in members : x.room = r}}

HasRole(r, u, role) == [room |-> r, user |-> u, role |-> role] \in members

IsMember(r, u) == \E role \in {"owner", "member"} : HasRole(r, u, role)

(* getDirectRoomByUsersTx *)
DirectRoomOwned(u, v) ==
  {r \in RoomIDs : rooms[r].type = "direct" /\ HasRole(r, u, "owner") /\ IsMember(r, v)}
DirectRoomByUsers(u, v) ==
  {r \in RoomIDs : rooms[r].type = "direct" /\ IsMember(r, u) /\ IsMember(r, v)}

-----------------------------------------------------------------------------
(* The progress of a call *)

At(k, ops, point) == call[k].op \in ops /\ call[k].at = point

Becomes(k, new) == call' = [call EXCEPT ![k] = new]

Goto(k, point) == Becomes(k, [call[k] EXCEPT !.at = point])

Answer(k, code) == Becomes(k, [call[k] EXCEPT !.at = "reply", !.reply = code])

(* The answer to a query that failed: to the caller, "internal".            *)
Fail(k, effect) ==
  Becomes(k, [call[k] EXCEPT !.at = "reply", !.reply = "Internal",
                             !.failed = TRUE, !.effect = effect])

(* After a write that took effect: on to the next query, or, if the answer  *)
(* of the database got lost, to an error.                                   *)
Wrote(k, r, point) ==
  \/ Becomes(k, [call[k] EXCEPT !.at = point, !.room = r, !.effect = TRUE,
                                !.reply = IF point = "reply" THEN "OK" ELSE ""])
  \/ Fail(k, TRUE)

-----------------------------------------------------------------------------
(* Requests *)

Fresh(op, r, u, by) ==
  [op |-> op, room |-> r, user |-> u, by |-> by,
   at |-> IF op \in Create THEN "write" ELSE "room",
   reply |-> "", effect |-> FALSE, told |-> FALSE, failed |-> FALSE,
   again |-> FALSE]

(* The fields a request of this kind has. *)
WellFormed(op, r, u, by) ==
  /\ r = NoRoom <=> op \in Create
  /\ op \in {"add", "remove"} => u # NoUser
  /\ u # NoUser => op \in {"add", "remove", "createDirect"}
  /\ by = NoUser <=> op = "members"

InvalidDirect(op, u, by) == op = "createDirect" /\ u \in {NoUser, by}

Begin(k, op, r, u, by) ==
  /\ call[k].at \in {"idle", "reply"}
  /\ WellFormed(op, r, u, by)
  /\ Becomes(k, IF InvalidDirect(op, u, by)
                THEN [Fresh(op, r, u, by) EXCEPT !.at = "reply", !.reply = "Internal"]
                ELSE Fresh(op, r, u, by))
  /\ UNCHANGED <<rooms, members>>

(* The caller of a call that failed after its write repeats it, once.       *)
Retry(k) ==
  /\ At(k, {"add", "remove"}, "reply")
  /\ call[k].reply = "Internal" /\ call[k].effect /\ ~call[k].again
  /\ Becomes(k, [Fresh(call[k].op, call[k].room, call[k].user, call[k].by)
                   EXCEPT !.again = TRUE])
  /\ UNCHANGED <<rooms, members>>

-----------------------------------------------------------------------------
(* Reads *)

AfterRoom(op) ==
  IF op = "members" THEN "members" ELSE IF op = "add" THEN "requester" ELSE "role"

ReadRoomMutable(k) ==
  /\ call[k].at = "room"
  /\ \/ ~Exists(call[k].room) /\ Answer(k, "NotFound")
     \/ Exists(call[k].room) /\ Goto(k, AfterRoom(call[k].op))
  /\ UNCHANGED <<rooms, members>>
ReadRoom(k) ==
  /\ call[k].at = "room"
  /\ LET r == call[k].room
         immutable == rooms[r].type = "direct" /\ call[k].op \in {"add", "remove"}
     IN \/ ~Exists(r) /\ Answer(k, "NotFound")
        \/ immutable /\ Answer(k, "Internal")
        \/ Exists(r) /\ ~immutable /\ Goto(k, AfterRoom(call[k].op))
  /\ UNCHANGED <<rooms, members>>

(* AddMember: any member may add.                                           *)
ReadRequester(k) ==
  /\ At(k, {"add"}, "requester")
  /\ \/ IsMember(call[k].room, call[k].by) /\ Goto(k, "write")
     \/ ~IsMember(call[k].room, call[k].by) /\ Answer(k, "PermissionDenied")
  /\ UNCHANGED <<rooms, members>>

(* UpdateRoom and DeleteRoom: only the owner.                               *)
ReadOwner(k) ==
  /\ At(k, {"update", "delete"}, "role")
  /\ LET owner == HasRole(call[k].room, call[k].by, "owner")
     IN \/ ~owner /\ Answer(k, "PermissionDenied")
        \/ owner /\ Goto(k, IF call[k].op = "update" THEN "write" ELSE "members")
  /\ UNCHANGED <<rooms, members>>

(* RemoveMember: the owner removes others, a member itself.                 *)
ReadRemoverAny(k) ==
  /\ At(k, {"remove"}, "role")
  /\ LET r == call[k].room
         by == call[k].by
         self == call[k].user = by
         owner == HasRole(r, by, "owner")
     IN \/ ~IsMember(r, by) /\ Answer(k, "PermissionDenied")
        \/ IsMember(r, by) /\ self /\ Goto(k, "write")
        \/ owner /\ ~self /\ Goto(k, "target")
        \/ IsMember(r, by) /\ ~owner /\ ~self /\ Answer(k, "PermissionDenied")
  /\ UNCHANGED <<rooms, members>>
ReadRemover(k) ==
  /\ At(k, {"remove"}, "role")
  /\ LET r == call[k].room
         by == call[k].by
         self == call[k].user = by
         owner == HasRole(r, by, "owner")
     IN \/ (~IsMember(r, by) \/ self = owner) /\ Answer(k, "PermissionDenied")
        \/ IsMember(r, by) /\ self /\ ~owner /\ Goto(k, "write")
        \/ owner /\ ~self /\ Goto(k, "target")
  /\ UNCHANGED <<rooms, members>>

ReadTarget(k) ==
  /\ At(k, {"remove"}, "target")
  /\ LET r == call[k].room
         u == call[k].user
     IN \/ ~IsMember(r, u) /\ Answer(k, "NotFound")
        \/ HasRole(r, u, "owner") /\ Answer(k, "PermissionDenied")
        \/ HasRole(r, u, "member") /\ Goto(k, "write")
  /\ UNCHANGED <<rooms, members>>

-----------------------------------------------------------------------------
(* Writes *)

Creates(k, r, direct) ==
  /\ rooms[r].type = "unused"
  /\ LET by == call[k].by
         owner == [room |-> r, user |-> by, role |-> "owner"]
         participant == [room |-> r, user |-> call[k].user, role |-> "member"]
     IN /\ rooms' = [rooms EXCEPT ![r] =
                       [type |-> IF direct THEN "direct" ELSE "group", createdBy |-> by]]
        /\ members' = members \cup {owner} \cup (IF direct THEN {participant} ELSE {})
  /\ Wrote(k, r, "members")

CreateGroup(k) ==
  /\ At(k, {"createGroup"}, "write")
  /\ \E r \in RoomIDs : Creates(k, r, FALSE)

CreateDirect(k) ==
  /\ At(k, {"createDirect"}, "write")
  /\ LET taken == DirectRoomByUsers(call[k].by, call[k].user)
     IN \/ taken # {} /\ Answer(k, "AlreadyExists") /\ UNCHANGED <<rooms, members>>
        \/ taken = {} /\ \E r \in RoomIDs : Creates(k, r, TRUE)

(* The new name is not modelled. *)
UpdateWrite(k) ==
  /\ At(k, {"update"}, "write")
  /\ \/ Exists(call[k].room) /\ Wrote(k, call[k].room, "members")
     \/ ~Exists(call[k].room) /\ Answer(k, "NotFound")
  /\ UNCHANGED <<rooms, members>>

(* The members go with their room. A room that is already gone is "internal".*)
DeleteWrite(k) ==
  /\ At(k, {"delete"}, "write")
  /\ LET r == call[k].room
     IN \/ ~Exists(r) /\ Answer(k, "Internal") /\ UNCHANGED <<rooms, members>>
        \/ /\ Exists(r)
           /\ rooms' = [rooms EXCEPT ![r].type = "deleted"]
           /\ members' = {m \in members : m.room # r}
           /\ Wrote(k, r, "reply")

AddWriteTells(k) ==
  /\ At(k, {"add"}, "write")
  /\ LET r == call[k].room
         u == call[k].user
     IN \/ IsMember(r, u) /\ Goto(k, "members") /\ UNCHANGED members
        \/ ~Exists(r) /\ Answer(k, "Internal") /\ UNCHANGED members
        \/ /\ Exists(r) /\ ~IsMember(r, u)
           /\ members' = members \cup {[room |-> r, user |-> u, role |-> "member"]}
           /\ Wrote(k, r, "members")
  /\ UNCHANGED rooms
(* Who is a member already stays one, with the role it has; the foreign key *)
(* refuses a member of a deleted room.                                      *)
AddWriteConflict(k) ==
  /\ At(k, {"add"}, "write")
  /\ LET r == call[k].room
         u == call[k].user
     IN \/ /\ ~Exists(r) \/ IsMember(r, u)
           /\ Answer(k, "Internal") /\ UNCHANGED members
        \/ /\ Exists(r) /\ ~IsMember(r, u)
           /\ members' = members \cup {[room |-> r, user |-> u, role |-> "member"]}
           /\ Wrote(k, r, "members")
  /\ UNCHANGED rooms
AddWrite(k) ==
  /\ At(k, {"add"}, "write")
  /\ LET r == call[k].room
         u == call[k].user
     IN \/ IsMember(r, u) /\ Answer(k, "OK") /\ UNCHANGED members
        \/ ~Exists(r) /\ Answer(k, "Internal") /\ UNCHANGED members
        \/ /\ Exists(r) /\ ~IsMember(r, u)
           /\ members' = members \cup {[room |-> r, user |-> u, role |-> "member"]}
           /\ Wrote(k, r, "members")
  /\ UNCHANGED rooms

(* A member that has gone since it was read is "internal".                  *)
RemoveWrite(k) ==
  /\ At(k, {"remove"}, "write")
  /\ LET r == call[k].room
         u == call[k].user
     IN \/ ~IsMember(r, u) /\ Answer(k, "Internal") /\ UNCHANGED members
        \/ /\ IsMember(r, u)
           /\ members' = {m \in members : ~(m.room = r /\ m.user = u)}
           /\ Wrote(k, r, "members")
  /\ UNCHANGED rooms

-----------------------------------------------------------------------------
(* The event *)

(* What follows the event, or the failure to send it.                       *)
AfterEvent(k, told, failed) ==
  Becomes(k, [call[k] EXCEPT !.at = IF call[k].op = "delete" THEN "write" ELSE "reply",
                             !.reply = IF call[k].op = "delete" THEN "" ELSE "OK",
                             !.told = told, !.failed = failed])

ReadMembers(k) ==
  /\ call[k].at = "members"
  /\ \/ call[k].op # "members" /\ Goto(k, "publish")
     \/ call[k].op = "members" /\ Answer(k, "OK")
  /\ UNCHANGED <<rooms, members>>

Publish(k) ==
  /\ call[k].at = "publish"
  /\ AfterEvent(k, TRUE, call[k].failed)
  /\ UNCHANGED <<rooms, members>>

(* Neither a failed read of the recipients nor a failed publish fails the   *)
(* call: the event is lost.                                                 *)
EventLost(k) ==
  /\ call[k].at \in {"members", "publish"} /\ call[k].op # "members"
  /\ AfterEvent(k, FALSE, TRUE)
  /\ UNCHANGED <<rooms, members>>

QueryFails(k) ==
  /\ \/ call[k].at \in {"room", "role", "requester", "target", "write"}
     \/ At(k, {"members"}, "members")
  /\ Fail(k, call[k].effect)
  /\ UNCHANGED <<rooms, members>>

-----------------------------------------------------------------------------

Init ==
  /\ rooms = [r \in RoomIDs |-> [type |-> "unused", createdBy |-> NoUser]]
  /\ members = {}
  /\ call = [k \in Calls |-> [Fresh("none", NoRoom, NoUser, NoUser) EXCEPT !.at = "idle"]]

Handle(k) ==
  \/ ReadRoom(k) \/ ReadRequester(k) \/ ReadOwner(k) \/ ReadRemover(k) \/ ReadTarget(k)
  \/ CreateGroup(k) \/ CreateDirect(k) \/ UpdateWrite(k) \/ DeleteWrite(k)
  \/ AddWrite(k) \/ RemoveWrite(k)
  \/ ReadMembers(k) \/ Publish(k) \/ EventLost(k)
  \/ QueryFails(k)

Next ==
  \E k \in Calls :
    \/ \E op \in Op, r \in RoomIDs \cup {NoRoom}, u, by \in Users \cup {NoUser} :
         Begin(k, op, r, u, by)
    \/ Retry(k)
    \/ Handle(k)

Spec == Init /\ [][Next]_vars

-----------------------------------------------------------------------------
(* Properties *)

TypeOK ==
  /\ rooms \in [RoomIDs -> Row]
  /\ members \subseteq Member
  /\ call \in [Calls -> CallState]

Owners(r) == {m \in members : m.room = r /\ m.role = "owner"}

(* A room has one owner for as long as it exists, the user that created it, *)
(* whatever RemoveMember, AddMember and retries of them do meanwhile.       *)
OneOwner ==
  \A r \in RoomIDs :
    Exists(r) => Owners(r) = {[room |-> r, user |-> rooms[r].createdBy, role |-> "owner"]}

(* A direct room keeps its two members: neither is removed, nobody is added.*)
DirectRoomFixed ==
  \A r \in RoomIDs :
    rooms[r].type = "direct" =>
      \E u \in Users \ {rooms[r].createdBy} : MembersOf(r) = {rooms[r].createdBy, u}

(* Two users never get two direct rooms, whoever of them creates.           *)
OneDirectRoomPerPair ==
  \A r, s \in RoomIDs :
    rooms[r].type = "direct" /\ rooms[s].type = "direct" /\ MembersOf(r) = MembersOf(s)
      => r = s

Answered(k, ops) == At(k, ops, "reply")

(* A call that has done all it wanted has told the others of a change and   *)
(* of nothing but a change.                                                 *)
EveryChangeTold ==
  \A k \in Calls :
    Answered(k, Op \ {"members"}) /\ call[k].reply = "OK" /\ ~call[k].failed
      => (call[k].told <=> call[k].effect)

(* "AddMember [is] idempotent - retries are safe": the retry of an AddMember*)
(* that took effect is no internal error, unless the database fails again   *)
(* or the room is gone.                                                     *)
AddRetrySafe ==
  \A k \in Calls :
    Answered(k, {"add"}) /\ call[k].again /\ call[k].reply = "Internal"
      => call[k].failed \/ ~Exists(call[k].room)

=============================================================================
