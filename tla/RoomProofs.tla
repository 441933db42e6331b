----------------------------- MODULE RoomProofs -----------------------------
(***************************************************************************)
(* Proofs about RoomService, for any users, rooms and concurrent calls: the *)
(* types, the single owner of a room, the direct rooms (a fixed pair of     *)
(* members, and one room per pair), the events that tell of changes, and    *)
(* the retry of an AddMember.                                               *)
(*                                                                         *)
(* Neither OneOwner nor DirectRoomFixed is inductive.  A RemoveMember that  *)
(* is about to delete was allowed by an earlier read, so the invariant must *)
(* carry what that read established: the user to be removed did not create  *)
(* the room, and the room is not a direct one (Pending).  Both survive the  *)
(* other calls because a row of rooms only ever moves from unused to        *)
(* created to deleted and keeps its creator (RoomsMove).                    *)
(*                                                                          *)
(* EveryChangeTold and AddRetrySafe speak of the whole life of a call.      *)
(* HistoryOK follows it: until its write a call has done nothing, then it   *)
(* has one thing left to do (ToldOK), and an AddMember that took effect     *)
(* once met a group, which cannot become a direct room before it is tried   *)
(* again (RetryOK).                                                         *)
(***************************************************************************)
EXTENDS RoomService, TLAPS

MembersHaveRooms == \A m \in members : Exists(m.room)

OneRowPerMember ==
  \A m, n \in members : m.room = n.room /\ m.user = n.user => m = n

Tables ==
  /\ rooms \in [RoomIDs -> Row]
  /\ members \subseteq Member
  /\ MembersHaveRooms
  /\ OneRowPerMember
  /\ OneOwner
  /\ DirectRoomFixed
  /\ OneDirectRoomPerPair

(* The fields a call of some kind carries. *)
Asked(k) ==
  /\ call[k].at # "idle" => call[k].op \in Op
  /\ call[k].op \in Op \ Create => call[k].room \in RoomIDs
  /\ call[k].op \in Op \ {"members"} => call[k].by \in Users
  /\ call[k].op \in {"add", "remove"} => call[k].user \in Users
  /\ call[k].op \in Create => call[k].at \notin {"idle", "room", "role", "requester", "target"}

Underway == {"role", "requester", "target", "write", "members", "publish"}

(* What the reads of a call that is under way have established.             *)
Pending(k) ==
  /\ At(k, {"createDirect"}, "write") => call[k].user \in Users \ {call[k].by}
  /\ call[k].op \in Op \ Create /\ call[k].at \in Underway
       => rooms[call[k].room].type # "unused"
  /\ call[k].op \in {"add", "remove"} /\ call[k].at \in Underway
       => rooms[call[k].room].type # "direct"
  /\ At(k, {"remove"}, "write") => call[k].user # rooms[call[k].room].createdBy

CallsOK ==
  /\ call \in [Calls -> CallState]
  /\ \A k \in Calls : Asked(k) /\ Pending(k)

IInv == Tables /\ CallsOK

(* What a step does to a row of rooms. *)
RoomsMove ==
  \A r \in RoomIDs :
    rooms[r].type # "unused" =>
      /\ rooms'[r].createdBy = rooms[r].createdBy
      /\ rooms'[r].type \in {rooms[r].type, "deleted"}

-----------------------------------------------------------------------------
(* The tables *)

LEMMA SameTables ==
  ASSUME Tables, UNCHANGED <<rooms, members>>
  PROVE  Tables' /\ RoomsMove
BY DEF Tables, MembersHaveRooms, OneRowPerMember, OneOwner, DirectRoomFixed,
       OneDirectRoomPerPair, Owners, MembersOf, Exists, RoomsMove, RoomType

LEMMA MemberIsMember ==
  ASSUME members \subseteq Member, NEW r, NEW u \in MembersOf(r)
  PROVE  IsMember(r, u)
<1>1. PICK m \in members : m.room = r /\ m.user = u
  BY DEF MembersOf
<1>2. m = [room |-> r, user |-> u, role |-> m.role] /\ m.role \in {"owner", "member"}
  BY <1>1 DEF Member
<1> QED BY <1>1, <1>2 DEF IsMember, HasRole

LEMMA CreatedTables ==
  ASSUME Tables, NEW r \in RoomIDs, rooms[r].type = "unused",
         NEW by \in Users, NEW user, NEW direct \in BOOLEAN,
         direct => user \in Users \ {by} /\ DirectRoomByUsers(by, user) = {},
         rooms' = [rooms EXCEPT ![r] =
                     [type |-> IF direct THEN "direct" ELSE "group", createdBy |-> by]],
         members' = members \cup {[room |-> r, user |-> by, role |-> "owner"]}
                      \cup (IF direct THEN {[room |-> r, user |-> user, role |-> "member"]}
                                      ELSE {})
  PROVE  Tables' /\ RoomsMove
<1> USE DEF Tables
<1>1. rooms' \in [RoomIDs -> Row] /\ RoomsMove
  BY DEF RoomsMove, Row, RoomType
<1>2. members' \subseteq Member
  BY DEF Member
<1>3. \A m \in members : m.room # r
  BY DEF MembersHaveRooms, Exists, RoomType
<1>4. MembersHaveRooms'
  BY <1>3 DEF MembersHaveRooms, Exists, RoomType, Member
<1>5. OneRowPerMember'
  BY <1>3 DEF OneRowPerMember
<1>6. OneOwner'
  <2> SUFFICES ASSUME NEW q \in RoomIDs, Exists(q)'
               PROVE  Owners(q)' = {[room |-> q, user |-> rooms'[q].createdBy, role |-> "owner"]}
    BY DEF OneOwner
  <2>1. CASE q = r
    BY <1>3, <2>1 DEF Owners
  <2>2. CASE q # r
    BY <2>2 DEF Owners, OneOwner, Exists
  <2> QED BY <2>1, <2>2
<1> DEFINE o == [room |-> r, user |-> by, role |-> "owner"]
           p == [room |-> r, user |-> user, role |-> "member"]
<1>7. ASSUME direct PROVE MembersOf(r)' = {by, user} /\ rooms'[r].createdBy = by
  <2>1. {m \in members' : m.room = r} = {o, p}
    BY <1>3, <1>7
  <2>2. {m.user : m \in {o, p}} = {by, user}
    OBVIOUS
  <2> QED BY <2>1, <2>2 DEF MembersOf
<1>8. \A q \in RoomIDs \ {r} : rooms'[q] = rooms[q] /\ MembersOf(q)' = MembersOf(q)
  BY DEF MembersOf
<1>9. rooms'[r].type = "direct" <=> direct
  BY DEF Row
<1>10. DirectRoomFixed'
  <2> SUFFICES ASSUME NEW q \in RoomIDs, rooms'[q].type = "direct"
               PROVE  \E u \in Users \ {rooms'[q].createdBy} :
                        MembersOf(q)' = {rooms'[q].createdBy, u}
    BY DEF DirectRoomFixed
  <2>1. CASE q = r
    BY <1>7, <1>9, <2>1
  <2>2. CASE q # r
    BY <1>8, <2>2 DEF DirectRoomFixed
  <2> QED BY <2>1, <2>2
<1>11. ASSUME direct, NEW q \in RoomIDs \ {r}, rooms[q].type = "direct"
       PROVE  MembersOf(q) # {by, user}
  <2>1. ~(IsMember(q, by) /\ IsMember(q, user))
    BY <1>11 DEF DirectRoomByUsers
  <2> QED BY <2>1, MemberIsMember
<1>12. OneDirectRoomPerPair'
  BY <1>7, <1>8, <1>9, <1>11 DEF OneDirectRoomPerPair
<1> QED BY <1>1, <1>2, <1>4, <1>5, <1>6, <1>10, <1>12

LEMMA DeletedTables ==
  ASSUME Tables, NEW r \in RoomIDs,
         rooms' = [rooms EXCEPT ![r].type = "deleted"],
         members' = {m \in members : m.room # r}
  PROVE  Tables' /\ RoomsMove
<1> USE DEF Tables
<1>1. rooms' \in [RoomIDs -> Row] /\ RoomsMove
  BY DEF RoomsMove, Row, RoomType
<1>2. \A q \in RoomIDs \ {r} : /\ rooms'[q] = rooms[q]
                               /\ Owners(q)' = Owners(q)
                               /\ MembersOf(q)' = MembersOf(q)
  BY DEF Owners, MembersOf
<1>3. rooms'[r].type = "deleted"
  BY DEF Row
<1>4. MembersHaveRooms' /\ OneRowPerMember' /\ members' \subseteq Member
  BY <1>2 DEF MembersHaveRooms, OneRowPerMember, Exists, Member
<1>5. OneOwner' /\ DirectRoomFixed' /\ OneDirectRoomPerPair'
  BY <1>2, <1>3 DEF OneOwner, DirectRoomFixed, OneDirectRoomPerPair, Exists, RoomType
<1> QED BY <1>1, <1>4, <1>5

LEMMA AddedTables ==
  ASSUME Tables, NEW r \in RoomIDs, NEW u \in Users,
         Exists(r), rooms[r].type # "direct", ~IsMember(r, u),
         rooms' = rooms,
         members' = members \cup {[room |-> r, user |-> u, role |-> "member"]}
  PROVE  Tables' /\ RoomsMove
<1> USE DEF Tables
<1>1. RoomsMove /\ members' \subseteq Member
  BY DEF RoomsMove, Member
<1>2. MembersHaveRooms'
  BY DEF MembersHaveRooms, Exists
<1>3. \A m \in members : ~(m.room = r /\ m.user = u)
  BY DEF Member, IsMember, HasRole
<1>4. OneRowPerMember'
  BY <1>3 DEF OneRowPerMember
<1>5. \A q \in RoomIDs : Owners(q)' = Owners(q)
  BY DEF Owners
<1>6. \A q \in RoomIDs \ {r} : MembersOf(q)' = MembersOf(q)
  BY DEF MembersOf
<1>7. OneOwner' /\ DirectRoomFixed' /\ OneDirectRoomPerPair'
  BY <1>5, <1>6 DEF OneOwner, DirectRoomFixed, OneDirectRoomPerPair, Exists
<1> QED BY <1>1, <1>2, <1>4, <1>7

LEMMA RemovedTables ==
  ASSUME Tables, NEW r \in RoomIDs, NEW u \in Users,
         rooms[r].type # "direct", u # rooms[r].createdBy,
         rooms' = rooms,
         members' = {m \in members : ~(m.room = r /\ m.user = u)}
  PROVE  Tables' /\ RoomsMove
<1> USE DEF Tables
<1>1. RoomsMove /\ members' \subseteq Member
  BY DEF RoomsMove
<1>2. MembersHaveRooms' /\ OneRowPerMember'
  BY DEF MembersHaveRooms, OneRowPerMember, Exists
<1>3. \A q \in RoomIDs \ {r} : Owners(q)' = Owners(q) /\ MembersOf(q)' = MembersOf(q)
  BY DEF Owners, MembersOf
<1>4. ASSUME Exists(r) PROVE Owners(r)' = Owners(r)
  <2>1. \A m \in Owners(r) : m.user = rooms[r].createdBy
    BY <1>4 DEF OneOwner
  <2> QED BY <2>1 DEF Owners
<1>5. OneOwner'
  BY <1>3, <1>4 DEF OneOwner, Exists
<1>6. DirectRoomFixed' /\ OneDirectRoomPerPair'
  BY <1>3 DEF DirectRoomFixed, OneDirectRoomPerPair
<1> QED BY <1>1, <1>2, <1>5, <1>6

(* The creator of a room has no role in it but owner, and no other owns it. *)
LEMMA OwnerIsCreator ==
  ASSUME Tables, NEW r \in RoomIDs, NEW u
  PROVE  /\ HasRole(r, u, "owner") => u = rooms[r].createdBy
         /\ HasRole(r, u, "member") => u # rooms[r].createdBy
<1> USE DEF Tables
<1>1. ASSUME HasRole(r, u, "owner") PROVE u = rooms[r].createdBy
  <2>1. [room |-> r, user |-> u, role |-> "owner"] \in Owners(r)
    BY <1>1 DEF HasRole, Owners
  <2>2. Exists(r)
    BY <1>1 DEF HasRole, MembersHaveRooms
  <2> QED BY <2>1, <2>2 DEF OneOwner
<1>2. ASSUME HasRole(r, u, "member"), u = rooms[r].createdBy PROVE FALSE
  <2> DEFINE m == [room |-> r, user |-> u, role |-> "member"]
             o == [room |-> r, user |-> u, role |-> "owner"]
  <2>1. m \in members /\ Exists(r)
    BY <1>2 DEF HasRole, MembersHaveRooms
  <2>2. o \in members
    BY <1>2, <2>1 DEF OneOwner, Owners
  <2>3. m = o
    BY <2>1, <2>2 DEF OneRowPerMember
  <2> QED BY <2>3
<1> QED BY <1>1, <1>2

-----------------------------------------------------------------------------
(* The calls *)

(* A step of k to a good new state of k leaves the other calls as good as   *)
(* they were.                                                               *)
LEMMA OneCallMoves ==
  ASSUME Tables, CallsOK, RoomsMove, NEW k \in Calls, NEW new \in CallState,
         call' = [call EXCEPT ![k] = new], Asked(k)', Pending(k)'
  PROVE  CallsOK'
<1>1. call' \in [Calls -> CallState]
  BY DEF CallsOK
<1>2. ASSUME NEW j \in Calls, j # k PROVE Asked(j)' /\ Pending(j)'
  <2>1. call'[j] = call[j] /\ Asked(j) /\ Pending(j)
    BY <1>2 DEF CallsOK
  <2>2. Asked(j)'
    BY <2>1 DEF Asked
  <2>3. call[j].op \in Op \ Create => call[j].room \in RoomIDs
    BY <2>1 DEF Asked
  <2>4. Pending(j)'
    BY <2>1, <2>3 DEF Pending, At, RoomsMove, Op, Create, Underway
  <2> QED BY <2>2, <2>4
<1> QED BY <1>1, <1>2 DEF CallsOK

(* A call that only moves to another point, and fills in its answer.        *)
LEMMA PointMoves ==
  ASSUME Tables, CallsOK, RoomsMove, NEW k \in Calls, NEW new \in CallState,
         call' = [call EXCEPT ![k] = new],
         new.op = call[k].op, new.user = call[k].user, new.by = call[k].by,
         new.op \notin Create => new.room = call[k].room,
         call[k].at # "idle", new.at # "idle",
         new.op \in Create => new.at \in {"members", "publish", "reply"},
         new.op \in Op \ Create /\ new.at \in Underway
           => rooms'[new.room].type # "unused",
         new.op \in {"add", "remove"} /\ new.at \in Underway
           => rooms'[new.room].type # "direct",
         new.op = "remove" /\ new.at = "write"
           => new.user # rooms'[new.room].createdBy
  PROVE  CallsOK'
<1>1. call'[k] = new /\ Asked(k)
  BY DEF CallsOK
<1>2. Asked(k)'
  BY <1>1 DEF Asked
<1>3. Pending(k)'
  BY <1>1 DEF Pending, At, Create
<1> QED BY <1>2, <1>3, OneCallMoves

(* An answer, or a failed query, ends a call. *)
LEMMA Ends ==
  ASSUME Tables, CallsOK, RoomsMove, NEW k \in Calls, call[k].at # "idle",
         NEW code \in Code, NEW effect \in BOOLEAN,
         Answer(k, code) \/ Fail(k, effect)
  PROVE  CallsOK'
<1>1. call[k] \in CallState
  BY DEF CallsOK
<1>2. CASE Answer(k, code)
  <2> DEFINE new == [call[k] EXCEPT !.at = "reply", !.reply = code]
  <2>1. /\ new \in CallState /\ new.at = "reply" /\ new.op = call[k].op
        /\ new.user = call[k].user /\ new.by = call[k].by /\ new.room = call[k].room
    BY <1>1 DEF CallState, Point
  <2>2. call' = [call EXCEPT ![k] = new]
    BY <1>2 DEF Answer, Becomes
  <2> HIDE DEF new
  <2> QED BY <1>1, <2>1, <2>2, PointMoves DEF Underway
<1>3. CASE Fail(k, effect)
  <2> DEFINE new == [call[k] EXCEPT !.at = "reply", !.reply = "Internal",
                                    !.failed = TRUE, !.effect = effect]
  <2>1. /\ new \in CallState /\ new.at = "reply" /\ new.op = call[k].op
        /\ new.user = call[k].user /\ new.by = call[k].by /\ new.room = call[k].room
    BY <1>1 DEF CallState, Point, Code
  <2>2. call' = [call EXCEPT ![k] = new]
    BY <1>3 DEF Fail, Becomes
  <2> HIDE DEF new
  <2> QED BY <1>1, <2>1, <2>2, PointMoves DEF Underway
<1> QED BY <1>2, <1>3

(* A read lets a call go on, if it established what the call will rely on.  *)
LEMMA Goes ==
  ASSUME Tables, CallsOK, RoomsMove, NEW k \in Calls, call[k].at # "idle",
         NEW point \in Point \ {"idle"}, Goto(k, point),
         call[k].op \in Create => point \in {"members", "publish", "reply"},
         call[k].op \in Op \ Create /\ point \in Underway
           => rooms'[call[k].room].type # "unused",
         call[k].op \in {"add", "remove"} /\ point \in Underway
           => rooms'[call[k].room].type # "direct",
         call[k].op = "remove" /\ point = "write"
           => call[k].user # rooms'[call[k].room].createdBy
  PROVE  CallsOK'
<1> DEFINE new == [call[k] EXCEPT !.at = point]
<1>1. call[k] \in CallState
  BY DEF CallsOK
<1>2. /\ new \in CallState /\ new.at = point /\ new.op = call[k].op
      /\ new.user = call[k].user /\ new.by = call[k].by /\ new.room = call[k].room
  BY <1>1 DEF CallState
<1>3. call' = [call EXCEPT ![k] = new]
  BY DEF Goto, Becomes
<1> HIDE DEF new
<1> QED BY <1>2, <1>3, PointMoves

(* After a write the call has only its event to send. *)
LEMMA Writes ==
  ASSUME Tables, CallsOK, RoomsMove, NEW k \in Calls, call[k].at # "idle",
         NEW r \in RoomIDs, NEW point \in {"members", "reply"}, Wrote(k, r, point),
         call[k].op \in Op,
         call[k].op \notin Create => r = call[k].room,
         rooms'[r].type # "unused",
         call[k].op \in {"add", "remove"} => rooms'[r].type # "direct"
  PROVE  CallsOK'
<1> DEFINE new == [call[k] EXCEPT !.at = point, !.room = r, !.effect = TRUE,
                                  !.reply = IF point = "reply" THEN "OK" ELSE ""]
<1>1. call[k] \in CallState
  BY DEF CallsOK
<1>2. /\ new \in CallState /\ new.at = point /\ new.op = call[k].op
      /\ new.user = call[k].user /\ new.by = call[k].by /\ new.room = r
  BY <1>1 DEF CallState, Point, Code
<1>3. call' = [call EXCEPT ![k] = new] \/ Fail(k, TRUE)
  BY DEF Wrote, Becomes
<1> HIDE DEF new
<1>4. CASE call' = [call EXCEPT ![k] = new]
  BY <1>2, <1>4, PointMoves
<1>5. CASE Fail(k, TRUE)
  BY <1>5, Ends DEF Code
<1> QED BY <1>3, <1>4, <1>5

(* The event is behind the write, but for DeleteRoom, which goes on to it.  *)
LEMMA Announces ==
  ASSUME Tables, CallsOK, RoomsMove, NEW k \in Calls,
         call[k].at \in {"members", "publish"},
         NEW told \in BOOLEAN, NEW failed \in BOOLEAN, AfterEvent(k, told, failed)
  PROVE  CallsOK'
<1> DEFINE point == IF call[k].op = "delete" THEN "write" ELSE "reply"
           code == IF call[k].op = "delete" THEN "" ELSE "OK"
           new == [call[k] EXCEPT !.at = point, !.reply = code,
                                  !.told = told, !.failed = failed]
<1>1. call[k] \in CallState /\ Pending(k) /\ Asked(k)
  BY DEF CallsOK
<1>2. point \in Point /\ code \in Code
  BY DEF Point, Code
<1>3. call' = [call EXCEPT ![k] = new]
  BY DEF AfterEvent, Becomes
<1>5. point = IF call[k].op = "delete" THEN "write" ELSE "reply"
  OBVIOUS
<1> HIDE DEF point, code
<1>6. /\ new \in CallState /\ new.op = call[k].op /\ new.at = point
      /\ new.user = call[k].user /\ new.by = call[k].by /\ new.room = call[k].room
  BY <1>1, <1>2 DEF CallState
<1> HIDE DEF new
<1>4. call[k].op = "delete" => /\ call[k].room \in RoomIDs
                               /\ rooms'[call[k].room].type # "unused"
  BY <1>1 DEF Asked, Pending, Underway, Op, Create, RoomsMove
<1> QED BY <1>3, <1>4, <1>5, <1>6, PointMoves DEF Underway, Create

-----------------------------------------------------------------------------
(* The steps *)

LEMMA BeginKeeps ==
  ASSUME IInv, NEW k \in Calls, NEW op \in Op, NEW r \in RoomIDs \cup {NoRoom},
         NEW u \in Users \cup {NoUser}, NEW by \in Users \cup {NoUser},
         Begin(k, op, r, u, by)
  PROVE  IInv'
<1> DEFINE fresh == Fresh(op, r, u, by)
           new == IF InvalidDirect(op, u, by)
                  THEN [fresh EXCEPT !.at = "reply", !.reply = "Internal"]
                  ELSE fresh
<1>1. Tables' /\ RoomsMove
  BY SameTables DEF IInv, Begin
<1>2. call' = [call EXCEPT ![k] = new]
  BY DEF Begin, Becomes
<1>3. fresh \in CallState
  BY DEF CallState, Fresh, Point, Code
<1>4. /\ new \in CallState /\ new.op = op /\ new.room = r /\ new.user = u /\ new.by = by
      /\ new.at \in {"write", "room", "reply"}
      /\ op \in Create => new.at # "room"
      /\ op \notin Create => new.at # "write"
      /\ op = "createDirect" /\ new.at = "write" => u # NoUser /\ u # by
  <2>1. CASE InvalidDirect(op, u, by)
    <3>1. new = [fresh EXCEPT !.at = "reply", !.reply = "Internal"]
      BY <2>1
    <3>2. new \in CallState
      <4> HIDE DEF fresh, new
      <4> QED BY <1>3, <3>1 DEF CallState, Point, Code
    <3>3. new.op = op /\ new.room = r /\ new.user = u /\ new.by = by /\ new.at = "reply"
      BY <3>1 DEF Fresh
    <3> HIDE DEF new
    <3> QED BY <3>2, <3>3
  <2>2. CASE ~InvalidDirect(op, u, by)
    BY <1>3, <2>2 DEF Fresh, InvalidDirect, Create
  <2> QED BY <2>1, <2>2
<1>5. WellFormed(op, r, u, by)
  BY DEF Begin
<1> HIDE DEF new
<1>6. call'[k] = new
  BY <1>2 DEF IInv, CallsOK
<1>7. Asked(k)'
  BY <1>4, <1>5, <1>6 DEF Asked, WellFormed, Op, Create
<1>8. Pending(k)'
  BY <1>4, <1>5, <1>6 DEF Pending, At, Underway, Create, Op, WellFormed
<1>9. CallsOK'
  BY <1>1, <1>2, <1>4, <1>7, <1>8, OneCallMoves DEF IInv
<1> QED BY <1>1, <1>9 DEF IInv

LEMMA RetryKeeps ==
  ASSUME IInv, NEW k \in Calls, Retry(k)
  PROVE  IInv'
<1> DEFINE fresh == Fresh(call[k].op, call[k].room, call[k].user, call[k].by)
           new == [fresh EXCEPT !.again = TRUE]
<1>1. Tables' /\ RoomsMove
  BY SameTables DEF IInv, Retry
<1>2. call[k] \in CallState /\ Asked(k) /\ call[k].op \in {"add", "remove"}
  BY DEF IInv, CallsOK, Retry, At
<1>3. call' = [call EXCEPT ![k] = new]
  BY DEF Retry, Becomes
<1>4. fresh \in CallState /\ fresh.at = "room"
  BY <1>2 DEF CallState, Fresh, Point, Code, Create
<1>5. /\ new \in CallState /\ new.op = call[k].op /\ new.room = call[k].room
      /\ new.user = call[k].user /\ new.by = call[k].by /\ new.at = "room"
  BY <1>4 DEF CallState, Fresh
<1> HIDE DEF new
<1>6. call'[k] = new
  BY <1>3 DEF IInv, CallsOK
<1>7. Asked(k)' /\ Pending(k)'
  BY <1>2, <1>5, <1>6 DEF Asked, Pending, At, Underway, Create, Op
<1>8. CallsOK'
  BY <1>1, <1>3, <1>5, <1>7, OneCallMoves DEF IInv
<1> QED BY <1>1, <1>8 DEF IInv

(* The reads change no table.                                               *)
LEMMA ReadsKeep ==
  ASSUME IInv, NEW k \in Calls,
         \/ ReadRoom(k) \/ ReadRequester(k) \/ ReadOwner(k) \/ ReadRemover(k)
         \/ ReadTarget(k)
  PROVE  IInv'
<1> DEFINE r == call[k].room
<1>1. /\ Tables' /\ RoomsMove /\ Asked(k) /\ Pending(k) /\ call[k] \in CallState
      /\ call[k].at # "idle" /\ rooms' = rooms /\ Tables /\ CallsOK
  BY SameTables DEF IInv, CallsOK, ReadRoom, ReadRequester, ReadOwner, ReadRemover,
                    ReadTarget, At
<1> SUFFICES CallsOK'
  BY <1>1 DEF IInv
<1>2. ASSUME NEW code \in Code, Answer(k, code) PROVE CallsOK'
  BY <1>1, <1>2, Ends
<1>3. CASE ReadRoom(k)
  <2>1. call[k].at = "room" /\ call[k].op \in Op \ Create /\ r \in RoomIDs
    BY <1>1, <1>3 DEF ReadRoom, Asked
  <2>2. CASE Answer(k, "NotFound") \/ Answer(k, "Internal")
    BY <1>2, <2>2 DEF Code
  <2>3. CASE /\ Exists(r) /\ Goto(k, AfterRoom(call[k].op))
             /\ ~(rooms[r].type = "direct" /\ call[k].op \in {"add", "remove"})
    <3>1. AfterRoom(call[k].op) \in {"members", "requester", "role"}
      BY DEF AfterRoom
    <3> QED BY <1>1, <2>1, <2>3, <3>1, Goes DEF Point, Exists, RoomType
  <2> QED BY <1>3, <2>2, <2>3 DEF ReadRoom
<1>4. CASE ReadRequester(k)
  <2>1. CASE Answer(k, "PermissionDenied")
    BY <1>2, <2>1 DEF Code
  <2>2. CASE Goto(k, "write")
    BY <1>1, <1>4, <2>2, Goes DEF ReadRequester, At, Pending, Underway, Point, Op, Create
  <2> QED BY <1>4, <2>1, <2>2 DEF ReadRequester
<1>5. CASE ReadOwner(k)
  <2>1. CASE Answer(k, "PermissionDenied")
    BY <1>2, <2>1 DEF Code
  <2>2. CASE Goto(k, "write") \/ Goto(k, "members")
    BY <1>1, <1>5, <2>2, Goes DEF ReadOwner, At, Pending, Underway, Point, Op, Create
  <2> QED BY <1>5, <2>1, <2>2 DEF ReadOwner
<1>6. CASE ReadRemover(k)
  <2>1. /\ r \in RoomIDs /\ call[k].op = "remove" /\ call[k].at = "role"
        /\ rooms[r].type \notin {"unused", "direct"}
    BY <1>1, <1>6 DEF ReadRemover, At, Asked, Pending, Underway, Op, Create
  <2>2. CASE Answer(k, "PermissionDenied")
    BY <1>2, <2>2 DEF Code
  <2>3. CASE Goto(k, "target")
    BY <1>1, <2>1, <2>3, Goes DEF Point, Create
  <2>4. CASE /\ Goto(k, "write") /\ IsMember(r, call[k].by)
             /\ call[k].user = call[k].by /\ ~HasRole(r, call[k].by, "owner")
    <3>1. call[k].user # rooms[r].createdBy
      BY <1>1, <2>1, <2>4, OwnerIsCreator DEF IsMember
    <3> QED BY <1>1, <2>1, <2>4, <3>1, Goes DEF Point, Create
  <2> QED BY <1>6, <2>2, <2>3, <2>4 DEF ReadRemover
<1>7. CASE ReadTarget(k)
  <2>1. /\ r \in RoomIDs /\ call[k].op = "remove" /\ call[k].at = "target"
        /\ rooms[r].type \notin {"unused", "direct"}
    BY <1>1, <1>7 DEF ReadTarget, At, Asked, Pending, Underway, Op, Create
  <2>2. CASE Answer(k, "PermissionDenied") \/ Answer(k, "NotFound")
    BY <1>2, <2>2 DEF Code
  <2>3. CASE Goto(k, "write") /\ HasRole(r, call[k].user, "member")
    <3>1. call[k].user # rooms[r].createdBy
      BY <1>1, <2>1, <2>3, OwnerIsCreator
    <3> QED BY <1>1, <2>1, <2>3, <3>1, Goes DEF Point, Create
  <2> QED BY <1>7, <2>2, <2>3 DEF ReadTarget
<1> QED BY <1>3, <1>4, <1>5, <1>6, <1>7

LEMMA CreatesKeeps ==
  ASSUME IInv, NEW k \in Calls, NEW r \in RoomIDs, NEW direct \in BOOLEAN,
         call[k].op = (IF direct THEN "createDirect" ELSE "createGroup"),
         call[k].at = "write", Creates(k, r, direct),
         direct => DirectRoomByUsers(call[k].by, call[k].user) = {}
  PROVE  IInv'
<1>1. Tables /\ CallsOK /\ Asked(k) /\ Pending(k)
  BY DEF IInv, CallsOK
<1>2. call[k].by \in Users /\ (direct => call[k].user \in Users \ {call[k].by})
  BY <1>1 DEF Asked, Pending, At, Op, Create
<1>3. Tables' /\ RoomsMove
  BY <1>1, <1>2, CreatedTables DEF Creates
<1>4. rooms'[r].type # "unused"
  BY <1>1 DEF Creates, Tables
<1>5. CallsOK'
  BY <1>1, <1>3, <1>4, Writes DEF Creates, Op, Create
<1> QED BY <1>3, <1>5 DEF IInv

LEMMA WritesKeep ==
  ASSUME IInv, NEW k \in Calls,
         \/ CreateGroup(k) \/ CreateDirect(k) \/ UpdateWrite(k) \/ DeleteWrite(k)
         \/ AddWrite(k) \/ RemoveWrite(k)
  PROVE  IInv'
<1> DEFINE r == call[k].room
           u == call[k].user
<1>1. /\ Tables /\ CallsOK /\ Asked(k) /\ Pending(k)
      /\ call[k].at = "write" /\ call[k].op \in Op
  BY DEF IInv, CallsOK, CreateGroup, CreateDirect, UpdateWrite, DeleteWrite, AddWrite,
         RemoveWrite, At, Op, Create
<1>2. call[k].op \notin Create => r \in RoomIDs /\ rooms[r].type # "unused"
  BY <1>1 DEF Asked, Pending, Underway
<1>3. ASSUME UNCHANGED <<rooms, members>>, NEW code \in Code, Answer(k, code)
      PROVE  IInv'
  BY <1>1, <1>3, SameTables, Ends DEF IInv
<1>4. CASE CreateGroup(k)
  BY <1>1, <1>4, CreatesKeeps DEF CreateGroup, At
<1>5. CASE CreateDirect(k)
  <2>1. CASE Answer(k, "AlreadyExists") /\ UNCHANGED <<rooms, members>>
    BY <1>3, <2>1 DEF Code
  <2>2. CASE /\ DirectRoomByUsers(call[k].by, call[k].user) = {}
             /\ \E q \in RoomIDs : Creates(k, q, TRUE)
    BY <1>1, <1>5, <2>2, CreatesKeeps DEF CreateDirect, At
  <2> QED BY <1>5, <2>1, <2>2 DEF CreateDirect
<1>6. CASE UpdateWrite(k)
  <2>1. CASE Answer(k, "NotFound")
    BY <1>3, <1>6, <2>1 DEF UpdateWrite, Code
  <2>2. CASE Wrote(k, r, "members")
    <3>1. Tables' /\ RoomsMove /\ rooms' = rooms /\ call[k].op = "update"
      BY <1>1, <1>6, SameTables DEF UpdateWrite, At
    <3> QED BY <1>1, <1>2, <2>2, <3>1, Writes DEF IInv, Create
  <2> QED BY <1>6, <2>1, <2>2 DEF UpdateWrite
<1>7. CASE DeleteWrite(k)
  <2>1. CASE Answer(k, "Internal") /\ UNCHANGED <<rooms, members>>
    BY <1>3, <2>1 DEF Code
  <2>2. CASE /\ rooms' = [rooms EXCEPT ![r].type = "deleted"]
             /\ members' = {m \in members : m.room # r}
             /\ Wrote(k, r, "reply")
    <3>1. r \in RoomIDs /\ call[k].op = "delete"
      BY <1>2, <1>7 DEF DeleteWrite, At, Create
    <3>2. Tables' /\ RoomsMove
      BY <1>1, <2>2, <3>1, DeletedTables
    <3>3. rooms'[r].type # "unused"
      BY <1>1, <1>2, <3>1, <3>2 DEF RoomsMove, Create
    <3> QED BY <1>1, <2>2, <3>1, <3>2, <3>3, Writes DEF IInv, Create
  <2> QED BY <1>7, <2>1, <2>2 DEF DeleteWrite
<1>8. CASE AddWrite(k)
  <2>1. /\ r \in RoomIDs /\ u \in Users /\ call[k].op = "add"
        /\ rooms[r].type \notin {"unused", "direct"} /\ rooms' = rooms
    BY <1>1, <1>2, <1>8 DEF AddWrite, At, Asked, Pending, Underway, Create
  <2>2. CASE (Answer(k, "OK") \/ Answer(k, "Internal")) /\ UNCHANGED members
    BY <1>3, <2>1, <2>2 DEF Code
  <2>3. CASE /\ Exists(r) /\ ~IsMember(r, u)
             /\ members' = members \cup {[room |-> r, user |-> u, role |-> "member"]}
             /\ Wrote(k, r, "members")
    <3>1. Tables' /\ RoomsMove
      BY <1>1, <2>1, <2>3, AddedTables
    <3> QED BY <1>1, <2>1, <2>3, <3>1, Writes DEF IInv
  <2> QED BY <1>8, <2>2, <2>3 DEF AddWrite
<1>9. CASE RemoveWrite(k)
  <2>1. /\ r \in RoomIDs /\ u \in Users /\ call[k].op = "remove"
        /\ rooms[r].type \notin {"unused", "direct"} /\ rooms' = rooms
        /\ u # rooms[r].createdBy
    BY <1>1, <1>2, <1>9 DEF RemoveWrite, At, Asked, Pending, Underway, Create
  <2>2. CASE Answer(k, "Internal") /\ UNCHANGED members
    BY <1>3, <2>1, <2>2 DEF Code
  <2>3. CASE /\ members' = {m \in members : ~(m.room = r /\ m.user = u)}
             /\ Wrote(k, r, "members")
    <3>1. Tables' /\ RoomsMove
      BY <1>1, <2>1, <2>3, RemovedTables
    <3> QED BY <1>1, <2>1, <2>3, <3>1, Writes DEF IInv
  <2> QED BY <1>9, <2>2, <2>3 DEF RemoveWrite
<1> QED BY <1>4, <1>5, <1>6, <1>7, <1>8, <1>9

LEMMA EventsKeep ==
  ASSUME IInv, NEW k \in Calls,
         ReadMembers(k) \/ Publish(k) \/ EventLost(k) \/ QueryFails(k)
  PROVE  IInv'
<1>1. /\ Tables' /\ RoomsMove /\ Tables /\ CallsOK /\ Asked(k) /\ Pending(k)
      /\ call[k].at # "idle" /\ rooms' = rooms /\ call[k] \in CallState
  BY SameTables DEF IInv, CallsOK, ReadMembers, Publish, EventLost, QueryFails, At
<1> SUFFICES CallsOK'
  BY <1>1 DEF IInv
<1>2. CASE ReadMembers(k)
  <2>1. CASE call[k].op # "members" /\ Goto(k, "publish")
    BY <1>1, <1>2, <2>1, Goes DEF ReadMembers, Pending, Underway, Point, Create
  <2>2. CASE call[k].op = "members"
    BY <1>1, <1>2, <2>2, Ends DEF ReadMembers, Code
  <2> QED BY <1>2, <2>1, <2>2 DEF ReadMembers
<1>3. CASE Publish(k)
  BY <1>1, <1>3, Announces DEF Publish, CallState
<1>4. CASE EventLost(k)
  BY <1>1, <1>4, Announces DEF EventLost
<1>5. CASE QueryFails(k)
  BY <1>1, <1>5, Ends DEF QueryFails, CallState, Code
<1> QED BY <1>2, <1>3, <1>4, <1>5

LEMMA InitInv == Init => IInv
<1> SUFFICES ASSUME Init PROVE IInv
  OBVIOUS
<1> DEFINE idle == [Fresh("none", NoRoom, NoUser, NoUser) EXCEPT !.at = "idle"]
<1>1. Tables
  BY DEF Init, Tables, Row, RoomType, Member, MembersHaveRooms, OneRowPerMember, OneOwner,
         DirectRoomFixed, OneDirectRoomPerPair, Exists
<1>2. idle \in CallState /\ idle.at = "idle" /\ idle.op = "none"
  BY DEF CallState, Fresh, Point, Code
<1>3. call = [k \in Calls |-> idle]
  BY DEF Init
<1> HIDE DEF idle
<1>4. CallsOK
  BY <1>2, <1>3 DEF CallsOK, Asked, Pending, At, Op, Create
<1> QED BY <1>1, <1>4 DEF IInv

LEMMA StepInv == IInv /\ [Next]_vars => IInv'
<1> SUFFICES ASSUME IInv, [Next]_vars PROVE IInv'
  OBVIOUS
<1>1. CASE UNCHANGED vars
  <2>1. Tables'
    BY <1>1, SameTables DEF IInv, vars
  <2>2. CallsOK'
    BY <1>1 DEF IInv, CallsOK, Asked, Pending, At, vars
  <2> QED BY <2>1, <2>2 DEF IInv
<1>2. ASSUME NEW k \in Calls, NEW op \in Op, NEW r \in RoomIDs \cup {NoRoom},
             NEW u \in Users \cup {NoUser}, NEW by \in Users \cup {NoUser},
             Begin(k, op, r, u, by)
      PROVE  IInv'
  BY <1>2, BeginKeeps
<1>3. ASSUME NEW k \in Calls, Retry(k) PROVE IInv'
  BY <1>3, RetryKeeps
<1>4. ASSUME NEW k \in Calls, Handle(k) PROVE IInv'
  BY <1>4, ReadsKeep, WritesKeep, EventsKeep DEF Handle
<1> QED BY <1>1, <1>2, <1>3, <1>4 DEF Next

-----------------------------------------------------------------------------
(* What a call has done and told *)

(* A call that has not come to its write has done nothing; DeleteRoom tells *)
(* before it writes, the others after.                                      *)
ToldOK(c) ==
  /\ c.at \in {"idle", "room", "role", "requester", "target"} => ~c.effect /\ ~c.told
  /\ c.at = "write" =>
       ~c.effect /\ (IF c.op = "delete" THEN c.told \/ c.failed ELSE ~c.told)
  /\ c.at \in {"members", "publish"} =>
       ~c.told /\ (c.op # "members" => (c.effect <=> c.op # "delete"))
  /\ c.at = "reply" /\ c.op # "members" /\ c.reply = "OK" /\ ~c.failed
       => (c.told <=> c.effect)
  /\ c.at = "publish" => c.op # "members"

(* The room of an AddMember that took effect, or is repeated, is not a      *)
(* direct one, and never will be.                                           *)
RetryOK(c, rows) ==
  c.op = "add" =>
    /\ c.again \/ c.effect => rows[c.room].type \in {"group", "deleted"}
    /\ c.at = "reply" /\ c.again /\ c.reply = "Internal"
         => c.failed \/ rows[c.room].type = "deleted"

HistoryOK == \A k \in Calls : ToldOK(call[k]) /\ RetryOK(call[k], rooms)

LEMMA CallIsTyped ==
  ASSUME IInv, HistoryOK, NEW k \in Calls
  PROVE  /\ call[k] \in CallState /\ Asked(k) /\ Pending(k)
         /\ ToldOK(call[k]) /\ RetryOK(call[k], rooms)
BY DEF IInv, CallsOK, HistoryOK

LEMMA StepMovesRooms ==
  ASSUME IInv, [Next]_vars
  PROVE  RoomsMove
<1>1. CASE UNCHANGED rooms
  BY <1>1 DEF IInv, Tables, RoomsMove
<1>2. ASSUME NEW k \in Calls, NEW r \in RoomIDs, NEW direct \in BOOLEAN, Creates(k, r, direct)
      PROVE  RoomsMove
  BY <1>2 DEF IInv, Tables, Creates, RoomsMove
<1>3. ASSUME NEW k \in Calls, DeleteWrite(k), rooms' # rooms
      PROVE  RoomsMove
  <2> DEFINE r == call[k].room
  <2>1. Exists(r) /\ rooms' = [rooms EXCEPT ![r].type = "deleted"]
    BY <1>3 DEF DeleteWrite
  <2>2. rooms \in [RoomIDs -> Row]
    BY DEF IInv, Tables
  <2> QED BY <2>1, <2>2 DEF RoomsMove, Row, RoomType, Exists
<1>4. ASSUME NEW k \in Calls, Handle(k), rooms' # rooms
      PROVE  \/ DeleteWrite(k)
             \/ \E r \in RoomIDs : Creates(k, r, TRUE) \/ Creates(k, r, FALSE)
  BY <1>4 DEF Handle, ReadRoom, ReadRequester, ReadOwner, ReadRemover, ReadTarget,
              CreateGroup, CreateDirect, UpdateWrite, AddWrite, RemoveWrite, ReadMembers,
              Publish, EventLost, QueryFails
<1>5. ASSUME NEW k \in Calls, Handle(k) PROVE RoomsMove
  BY <1>1, <1>2, <1>3, <1>4, <1>5
<1>6. [Next]_vars =>
        UNCHANGED rooms \/ \E k \in Calls : Handle(k)
  BY DEF Next, Begin, Retry, vars
<1> QED BY <1>1, <1>5, <1>6

LEMMA HistoryMoves ==
  ASSUME IInv, HistoryOK, RoomsMove, NEW k \in Calls, NEW new,
         Becomes(k, new), ToldOK(new), RetryOK(new, rooms')
  PROVE  HistoryOK'
<1>1. call'[k] = new /\ \A j \in Calls \ {k} : call'[j] = call[j]
  BY DEF IInv, CallsOK, Becomes
<1>2. ASSUME NEW j \in Calls \ {k} PROVE RetryOK(call[j], rooms')
  <2>1. RetryOK(call[j], rooms) /\ Asked(j)
    BY CallIsTyped
  <2>2. call[j].op = "add" => call[j].room \in RoomIDs
    BY <2>1 DEF Asked, Op, Create
  <2> QED BY <2>1, <2>2 DEF RetryOK, RoomsMove
<1> QED BY <1>1, <1>2 DEF HistoryOK

(* Answers, failures, and steps to the next query.                          *)
LEMMA AnswerTells ==
  ASSUME IInv, HistoryOK, RoomsMove, NEW k \in Calls, NEW code, Answer(k, code),
         code = "OK" => call[k].op = "members" \/ (~call[k].effect /\ ~call[k].told),
         call[k].op = "add" /\ call[k].again /\ code = "Internal"
           => rooms'[call[k].room].type = "deleted"
  PROVE  HistoryOK'
<1> DEFINE c == call[k]
           new == [c EXCEPT !.at = "reply", !.reply = code]
<1>1. c \in CallState /\ RetryOK(c, rooms) /\ (c.op = "add" => c.room \in RoomIDs)
  BY CallIsTyped DEF Asked, Op, Create
<1>2. /\ new.op = c.op /\ new.at = "reply" /\ new.reply = code /\ new.effect = c.effect
      /\ new.told = c.told /\ new.again = c.again /\ new.room = c.room
      /\ new.failed = c.failed
  BY <1>1 DEF CallState
<1>3. Becomes(k, new)
  BY DEF Answer
<1> HIDE DEF new
<1>4. ToldOK(new)
  BY <1>2 DEF ToldOK
<1>5. RetryOK(new, rooms')
  BY <1>1, <1>2 DEF RetryOK, RoomsMove
<1> QED BY <1>3, <1>4, <1>5, HistoryMoves

LEMMA FailTells ==
  ASSUME IInv, HistoryOK, RoomsMove, NEW k \in Calls, NEW effect \in BOOLEAN,
         Fail(k, effect),
         call[k].op = "add" /\ effect => rooms'[call[k].room].type \in {"group", "deleted"}
  PROVE  HistoryOK'
<1> DEFINE c == call[k]
           new == [c EXCEPT !.at = "reply", !.reply = "Internal",
                            !.failed = TRUE, !.effect = effect]
<1>1. c \in CallState /\ RetryOK(c, rooms) /\ (c.op = "add" => c.room \in RoomIDs)
  BY CallIsTyped DEF Asked, Op, Create
<1>2. /\ new.op = c.op /\ new.at = "reply" /\ new.reply = "Internal"
      /\ new.effect = effect /\ new.failed = TRUE
      /\ new.again = c.again /\ new.room = c.room
  BY <1>1 DEF CallState
<1>3. Becomes(k, new)
  BY DEF Fail
<1> HIDE DEF new
<1>4. ToldOK(new)
  BY <1>2 DEF ToldOK
<1>5. RetryOK(new, rooms')
  BY <1>1, <1>2 DEF RetryOK, RoomsMove
<1> QED BY <1>3, <1>4, <1>5, HistoryMoves

LEMMA GotoTells ==
  ASSUME IInv, HistoryOK, RoomsMove, NEW k \in Calls,
         NEW point \in Point \ {"reply"}, Goto(k, point),
         ToldOK([call[k] EXCEPT !.at = point])
  PROVE  HistoryOK'
<1> DEFINE c == call[k]
           new == [c EXCEPT !.at = point]
<1>1. c \in CallState /\ RetryOK(c, rooms) /\ (c.op = "add" => c.room \in RoomIDs)
  BY CallIsTyped DEF Asked, Op, Create
<1>2. /\ new.op = c.op /\ new.at = point /\ new.effect = c.effect
      /\ new.again = c.again /\ new.room = c.room
  BY <1>1 DEF CallState
<1>3. Becomes(k, new) /\ ToldOK(new)
  BY DEF Goto
<1> HIDE DEF new
<1>5. RetryOK(new, rooms')
  BY <1>1, <1>2 DEF RetryOK, RoomsMove
<1> QED BY <1>3, <1>5, HistoryMoves

(* The reads go on to a point before the write, or to the write itself.     *)
LEMMA ReadGoesOn ==
  ASSUME NEW c \in CallState, ToldOK(c), NEW point \in Point,
         c.at \in {"room", "role", "requester", "target"}, c.at # "reply",
         \/ point \in {"role", "requester", "target"}
         \/ point = "write" /\ c.op # "delete"
         \/ point = "members" /\ c.op \in {"members", "delete"}
  PROVE  ToldOK([c EXCEPT !.at = point])
<1> DEFINE new == [c EXCEPT !.at = point]
<1>1. ~c.effect /\ ~c.told
  BY DEF ToldOK
<1>2. /\ new.op = c.op /\ new.at = point /\ new.effect = c.effect /\ new.told = c.told
  BY DEF CallState
<1> HIDE DEF new
<1>3. ToldOK(new)
  BY <1>1, <1>2 DEF ToldOK
<1> QED BY <1>3 DEF new

LEMMA WroteTells ==
  ASSUME IInv, HistoryOK, RoomsMove, NEW k \in Calls, call[k].at = "write",
         NEW r \in RoomIDs, NEW point \in {"members", "reply"}, Wrote(k, r, point),
         call[k].op \in Op \ {"members"},
         point = "reply" <=> call[k].op = "delete",
         call[k].op = "add" => rooms'[r].type \in {"group", "deleted"} /\ r = call[k].room
  PROVE  HistoryOK'
<1> DEFINE c == call[k]
           new == [c EXCEPT !.at = point, !.room = r, !.effect = TRUE,
                            !.reply = IF point = "reply" THEN "OK" ELSE ""]
<1>1. c \in CallState /\ ToldOK(c)
  BY CallIsTyped
<1>2. /\ new.op = c.op /\ new.at = point /\ new.effect = TRUE /\ new.told = c.told
      /\ new.failed = c.failed /\ new.again = c.again /\ new.room = r
  BY <1>1 DEF CallState
<1>3. Becomes(k, new) \/ Fail(k, TRUE)
  BY DEF Wrote
<1> HIDE DEF new
<1>4. ToldOK(new)
  BY <1>1, <1>2 DEF ToldOK
<1>5. RetryOK(new, rooms')
  BY <1>2 DEF RetryOK
<1>6. CASE Becomes(k, new)
  BY <1>4, <1>5, <1>6, HistoryMoves
<1>7. CASE Fail(k, TRUE)
  BY <1>7, FailTells
<1> QED BY <1>3, <1>6, <1>7

LEMMA ReadsTell ==
  ASSUME IInv, HistoryOK, RoomsMove, NEW k \in Calls,
         \/ ReadRoom(k) \/ ReadRequester(k) \/ ReadOwner(k) \/ ReadRemover(k)
         \/ ReadTarget(k)
  PROVE  HistoryOK'
<1> DEFINE c == call[k]
<1>1. /\ c \in CallState /\ ToldOK(c) /\ Asked(k) /\ Pending(k) /\ RetryOK(c, rooms)
      /\ c.at \in {"room", "role", "requester", "target"} /\ rooms' = rooms
      /\ rooms \in [RoomIDs -> Row]
  BY CallIsTyped
     DEF ReadRoom, ReadRequester, ReadOwner, ReadRemover, ReadTarget, At, IInv, Tables
<1>2. ASSUME NEW code \in {"NotFound", "PermissionDenied"}, Answer(k, code)
      PROVE  HistoryOK'
  BY <1>2, AnswerTells
<1>3. ASSUME NEW point \in Point \ {"reply"}, Goto(k, point),
             \/ point \in {"role", "requester", "target"}
             \/ point = "write" /\ c.op # "delete"
             \/ point = "members" /\ c.op \in {"members", "delete"}
      PROVE  HistoryOK'
  BY <1>1, <1>3, ReadGoesOn, GotoTells
<1>4. CASE ReadRoom(k)
  <2> DEFINE r == c.room
  <2>1. c.at = "room" /\ c.op \in Op \ Create /\ r \in RoomIDs
    BY <1>1, <1>4 DEF ReadRoom, Asked
  <2>2. CASE Answer(k, "NotFound")
    BY <1>2, <2>2
  <2>3. CASE rooms[r].type = "direct" /\ Answer(k, "Internal")
    <3>1. ~(c.op = "add" /\ c.again)
      BY <1>1, <2>3 DEF RetryOK
    <3> QED BY <2>3, <3>1, AnswerTells
  <2>4. CASE Goto(k, AfterRoom(c.op))
    <3>1. \/ AfterRoom(c.op) \in {"requester", "role"}
          \/ AfterRoom(c.op) = "members" /\ c.op = "members"
      BY DEF AfterRoom
    <3>2. AfterRoom(c.op) \in Point \ {"reply"}
      BY <3>1 DEF Point
    <3> QED BY <1>3, <2>4, <3>1, <3>2
  <2> QED BY <1>4, <2>2, <2>3, <2>4 DEF ReadRoom
<1>5. CASE ReadRequester(k)
  BY <1>2, <1>3, <1>5 DEF ReadRequester, At, Point
<1>6. CASE ReadOwner(k)
  BY <1>2, <1>3, <1>6 DEF ReadOwner, At, Point
<1>7. CASE ReadRemover(k)
  BY <1>2, <1>3, <1>7 DEF ReadRemover, At, Point
<1>8. CASE ReadTarget(k)
  BY <1>2, <1>3, <1>8 DEF ReadTarget, At, Point
<1> QED BY <1>4, <1>5, <1>6, <1>7, <1>8

LEMMA WritesTell ==
  ASSUME IInv, HistoryOK, RoomsMove, NEW k \in Calls,
         \/ CreateGroup(k) \/ CreateDirect(k) \/ UpdateWrite(k) \/ DeleteWrite(k)
         \/ AddWrite(k) \/ RemoveWrite(k)
  PROVE  HistoryOK'
<1> DEFINE c == call[k]
           r == c.room
<1>1. /\ c \in CallState /\ ToldOK(c) /\ Asked(k) /\ Pending(k)
      /\ c.at = "write" /\ c.op \in Op \ {"members"} /\ rooms \in [RoomIDs -> Row]
      /\ c.op \notin Create => r \in RoomIDs
  BY CallIsTyped
     DEF CreateGroup, CreateDirect, UpdateWrite, DeleteWrite, AddWrite, RemoveWrite, At,
         IInv, Tables, Asked, Op, Create
<1>2. ASSUME NEW code \in {"NotFound", "AlreadyExists", "Internal"}, Answer(k, code),
             c.op # "add"
      PROVE  HistoryOK'
  BY <1>2, AnswerTells
<1>3. CASE CreateGroup(k)
  BY <1>1, <1>3, WroteTells DEF CreateGroup, Creates, At
<1>4. CASE CreateDirect(k)
  BY <1>1, <1>2, <1>4, WroteTells DEF CreateDirect, Creates, At
<1>5. CASE UpdateWrite(k)
  BY <1>1, <1>2, <1>5, WroteTells DEF UpdateWrite, At, Create
<1>6. CASE DeleteWrite(k)
  BY <1>1, <1>2, <1>6, WroteTells DEF DeleteWrite, At, Create
<1>7. CASE AddWrite(k)
  <2>1. /\ c.op = "add" /\ r \in RoomIDs /\ rooms' = rooms
        /\ rooms[r].type \notin {"unused", "direct"} /\ ~c.effect /\ ~c.told
    BY <1>1, <1>7 DEF AddWrite, At, Pending, Underway, Create, Op, ToldOK
  <2>2. rooms[r].type \in {"group", "deleted"}
    BY <1>1, <2>1 DEF Row, RoomType
  <2>3. CASE Answer(k, "OK")
    BY <2>1, <2>3, AnswerTells
  <2>4. CASE ~Exists(r) /\ Answer(k, "Internal")
    BY <2>1, <2>2, <2>4, AnswerTells DEF Exists, RoomType
  <2>5. CASE Wrote(k, r, "members")
    BY <1>1, <2>1, <2>2, <2>5, WroteTells
  <2> QED BY <1>7, <2>3, <2>4, <2>5 DEF AddWrite
<1>8. CASE RemoveWrite(k)
  BY <1>1, <1>2, <1>8, WroteTells DEF RemoveWrite, At, Create
<1> QED BY <1>3, <1>4, <1>5, <1>6, <1>7, <1>8

LEMMA EventTells ==
  ASSUME IInv, HistoryOK, RoomsMove, NEW k \in Calls,
         call[k].at \in {"members", "publish"}, call[k].op # "members",
         NEW told \in BOOLEAN, NEW failed \in BOOLEAN, AfterEvent(k, told, failed),
         told \/ failed
  PROVE  HistoryOK'
<1> DEFINE c == call[k]
           new == [c EXCEPT !.at = IF c.op = "delete" THEN "write" ELSE "reply",
                            !.reply = IF c.op = "delete" THEN "" ELSE "OK",
                            !.told = told, !.failed = failed]
<1>1. c \in CallState /\ ToldOK(c) /\ RetryOK(c, rooms) /\ (c.op = "add" => c.room \in RoomIDs)
  BY CallIsTyped DEF Asked, Op, Create
<1>2. /\ new.op = c.op /\ new.effect = c.effect /\ new.told = told /\ new.failed = failed
      /\ new.at = IF c.op = "delete" THEN "write" ELSE "reply"
      /\ new.reply = IF c.op = "delete" THEN "" ELSE "OK"
      /\ new.again = c.again /\ new.room = c.room
  BY <1>1 DEF CallState
<1>3. Becomes(k, new)
  BY DEF AfterEvent
<1> HIDE DEF new
<1>4. c.effect <=> c.op # "delete"
  BY <1>1 DEF ToldOK
<1>5. ToldOK(new)
  BY <1>2, <1>4 DEF ToldOK
<1>6. RetryOK(new, rooms')
  BY <1>1, <1>2 DEF RetryOK, RoomsMove
<1> QED BY <1>3, <1>5, <1>6, HistoryMoves

LEMMA EventsTell ==
  ASSUME IInv, HistoryOK, RoomsMove, NEW k \in Calls,
         ReadMembers(k) \/ Publish(k) \/ EventLost(k) \/ QueryFails(k)
  PROVE  HistoryOK'
<1> DEFINE c == call[k]
<1>1. c \in CallState /\ ToldOK(c) /\ Asked(k) /\ RetryOK(c, rooms)
  BY CallIsTyped
<1>2. CASE ReadMembers(k)
  <2>1. CASE c.op = "members" /\ Answer(k, "OK")
    BY <2>1, AnswerTells
  <2>2. CASE c.op # "members" /\ Goto(k, "publish")
    <3> DEFINE new == [c EXCEPT !.at = "publish"]
    <3>1. /\ new.op = c.op /\ new.at = "publish" /\ new.effect = c.effect
          /\ new.told = c.told
      BY <1>1 DEF CallState
    <3>2. c.at = "members"
      BY <1>2 DEF ReadMembers
    <3> HIDE DEF new
    <3>3. ToldOK(new)
      BY <1>1, <2>2, <3>1, <3>2 DEF ToldOK
    <3>4. "publish" \in Point \ {"reply"}
      BY DEF Point
    <3> QED BY <2>2, <3>3, <3>4, GotoTells DEF new
  <2> QED BY <1>2, <2>1, <2>2 DEF ReadMembers
<1>3. CASE Publish(k)
  <2>1. c.op # "members"
    BY <1>1, <1>3 DEF Publish, ToldOK
  <2> QED BY <1>1, <1>3, <2>1, EventTells DEF Publish, CallState
<1>4. CASE EventLost(k)
  BY <1>4, EventTells DEF EventLost
<1>5. CASE QueryFails(k)
  <2>1. c.op = "add" => c.room \in RoomIDs
    BY <1>1 DEF Asked, Op, Create
  <2> QED BY <1>1, <1>5, <2>1, FailTells DEF QueryFails, CallState, RetryOK, RoomsMove
<1> QED BY <1>2, <1>3, <1>4, <1>5

(* A new call has nothing behind it; the retry of an AddMember has the room *)
(* of the first.                                                            *)
LEMMA RequestsTell ==
  ASSUME IInv, HistoryOK, RoomsMove, NEW k \in Calls,
         \/ \E op \in Op, r \in RoomIDs \cup {NoRoom}, u, by \in Users \cup {NoUser} :
              Begin(k, op, r, u, by)
         \/ Retry(k)
  PROVE  HistoryOK'
<1> DEFINE c == call[k]
<1>1. c \in CallState /\ Asked(k) /\ RetryOK(c, rooms)
  BY CallIsTyped
<1>2. ASSUME NEW op \in Op, NEW r \in RoomIDs \cup {NoRoom},
             NEW u \in Users \cup {NoUser}, NEW by \in Users \cup {NoUser},
             Begin(k, op, r, u, by)
      PROVE  HistoryOK'
  <2> DEFINE new == IF InvalidDirect(op, u, by)
                    THEN [Fresh(op, r, u, by) EXCEPT !.at = "reply", !.reply = "Internal"]
                    ELSE Fresh(op, r, u, by)
  <2>1. Becomes(k, new)
    BY <1>2 DEF Begin
  <2>2. /\ new.op = op /\ new.effect = FALSE /\ new.told = FALSE /\ new.again = FALSE
        /\ \/ new.at \in {"room", "write"} /\ new.reply = ""
           \/ new.at = "reply" /\ new.reply = "Internal"
        /\ new.at = "write" => op \in Create
    BY DEF Fresh
  <2> HIDE DEF new
  <2>3. ToldOK(new) /\ RetryOK(new, rooms')
    BY <2>2 DEF ToldOK, RetryOK, Create
  <2> QED BY <2>1, <2>3, HistoryMoves
<1>3. CASE Retry(k)
  <2> DEFINE new == [Fresh(c.op, c.room, c.user, c.by) EXCEPT !.again = TRUE]
  <2>1. Becomes(k, new) /\ c.op \in {"add", "remove"} /\ c.effect
    BY <1>3 DEF Retry, At
  <2>2. /\ new.op = c.op /\ new.effect = FALSE /\ new.told = FALSE /\ new.at = "room"
        /\ new.room = c.room
    BY <2>1 DEF Fresh, Create
  <2> HIDE DEF new
  <2>3. ToldOK(new)
    BY <2>2 DEF ToldOK
  <2>4. c.op = "add" => c.room \in RoomIDs /\ rooms[c.room].type \in {"group", "deleted"}
    BY <1>1, <2>1 DEF Asked, RetryOK, Op, Create
  <2>5. RetryOK(new, rooms')
    BY <2>2, <2>4 DEF RetryOK, RoomsMove
  <2> QED BY <2>1, <2>3, <2>5, HistoryMoves
<1> QED BY <1>2, <1>3

LEMMA InitHistory == Init => HistoryOK
<1> SUFFICES ASSUME Init, NEW k \in Calls PROVE ToldOK(call[k]) /\ RetryOK(call[k], rooms)
  BY DEF HistoryOK
<1>1. call[k].at = "idle" /\ call[k].op = "none" /\ ~call[k].effect /\ ~call[k].told
  BY DEF Init, Fresh
<1> QED BY <1>1 DEF ToldOK, RetryOK

LEMMA StepHistory == IInv /\ HistoryOK /\ [Next]_vars => HistoryOK'
<1> SUFFICES ASSUME IInv, HistoryOK, [Next]_vars PROVE HistoryOK'
  OBVIOUS
<1>1. RoomsMove
  BY StepMovesRooms
<1>2. CASE UNCHANGED vars
  BY <1>2 DEF HistoryOK, vars
<1>3. CASE Next
  BY <1>1, <1>3, RequestsTell, ReadsTell, WritesTell, EventsTell DEF Next, Handle
<1> QED BY <1>2, <1>3

-----------------------------------------------------------------------------
(* Theorems *)

(* The rows and the calls always hold values of their types.                *)
THEOREM RoomTypes == Spec => []TypeOK
<1>1. IInv => TypeOK
  BY DEF IInv, Tables, CallsOK, TypeOK
<1> QED BY <1>1, InitInv, StepInv, PTL DEF Spec

(* A room always has one owner, its creator: no interleaving of RemoveMember*)
(* with itself, AddMember or DeleteRoom removes or replaces it.             *)
THEOREM RoomOwner == Spec => []OneOwner
<1>1. IInv => OneOwner
  BY DEF IInv, Tables
<1> QED BY <1>1, InitInv, StepInv, PTL DEF Spec

(* A direct room always has its creator and one other user as members.      *)
THEOREM RoomDirectFixed == Spec => []DirectRoomFixed
<1>1. IInv => DirectRoomFixed
  BY DEF IInv, Tables
<1> QED BY <1>1, InitInv, StepInv, PTL DEF Spec

(* No two users ever have two direct rooms, in whichever order and from     *)
(* however many calls they create them.                                     *)
THEOREM RoomOnePerPair == Spec => []OneDirectRoomPerPair
<1>1. IInv => OneDirectRoomPerPair
  BY DEF IInv, Tables
<1> QED BY <1>1, InitInv, StepInv, PTL DEF Spec

(* A call that has done all it wanted, of whichever kind, has told the room *)
(* of a change and of nothing but a change: the order of write and event    *)
(* differs between DeleteRoom and the others, and both keep it.             *)
THEOREM RoomChangesTold == Spec => []EveryChangeTold
<1>1. HistoryOK => EveryChangeTold
  <2> SUFFICES ASSUME HistoryOK, NEW k \in Calls, Answered(k, Op \ {"members"}),
                      call[k].reply = "OK", ~call[k].failed
               PROVE  call[k].told <=> call[k].effect
    BY DEF EveryChangeTold
  <2>1. ToldOK(call[k]) /\ call[k].at = "reply" /\ call[k].op # "members"
    BY DEF HistoryOK, Answered, At
  <2> QED BY <2>1 DEF ToldOK
<1> QED BY <1>1, InitInv, StepInv, InitHistory, StepHistory, PTL DEF Spec

(* The retry of an AddMember whose answer was lost meets no error but a     *)
(* room that is gone or a database that fails again, whatever other calls   *)
(* did between the two.                                                     *)
THEOREM RoomAddRetry == Spec => []AddRetrySafe
<1>1. IInv /\ HistoryOK => AddRetrySafe
  <2> SUFFICES ASSUME IInv, HistoryOK, NEW k \in Calls, Answered(k, {"add"}),
                      call[k].again, call[k].reply = "Internal", ~call[k].failed
               PROVE  ~Exists(call[k].room)
    BY DEF AddRetrySafe
  <2>1. RetryOK(call[k], rooms) /\ call[k].at = "reply" /\ call[k].op = "add"
    BY DEF HistoryOK, Answered, At
  <2> QED BY <2>1 DEF RetryOK, Exists, RoomType
<1> QED BY <1>1, InitInv, StepInv, InitHistory, StepHistory, PTL DEF Spec

=============================================================================
