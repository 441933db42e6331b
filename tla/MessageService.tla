---------------------------- MODULE MessageService ----------------------------
(***************************************************************************)
(* The message service (services/message): its gRPC handlers over the      *)
(* table messages and the room service, which they ask who is a member.    *)
(* A call makes one query or one remote call at a time; other calls, and   *)
(* changes of membership, happen in between.  What a call read, it uses    *)
(* later.                                                                  *)
(*                                                                         *)
(* External: PostgreSQL, JetStream and the room service, each of which may *)
(* fail.  Left out: contents and their types, recipients, and the page that*)
(* GetMessages reads for a member (that is MessageHistory).                *)
(***************************************************************************)
EXTENDS Naturals, FiniteSets

CONSTANTS
  Users, Rooms,
  Messages,   (* the identifiers gen_random_uuid draws, each at most once  *)
  Unknown,    (* an identifier no message has                              *)
  Calls,      (* concurrent calls; one that has answered is reused         *)
  Attempts,   (* how often the room service is asked: the retry delays, or *)
              (* once if there are none                                    *)
  NoUser, NoRoom, NoMessage

ASSUME MessageAssumption ==
  /\ Attempts \in Nat \ {0}
  /\ NoUser \notin Users /\ NoRoom \notin Rooms
  /\ {Unknown, NoMessage} \cap Messages = {} /\ Unknown # NoMessage

VARIABLES
  messages,   (* messages[m]: the row of m                                 *)
  members,    (* the room service's pairs <<room, user>>                   *)
  call        (* call[k]: the request of k and how far it is               *)

vars == <<messages, members, call>>

Ids == Messages \cup {Unknown}

Row == [state : {"unused", "sent", "deleted"}, room : Rooms \cup {NoRoom},
        sender : Users \cup {NoUser}, replyTo : Ids \cup {NoMessage}]

Op == {"send", "list", "get", "delete"}
Code == {"", "OK", "InvalidArgument", "NotFound", "PermissionDenied", "Internal"}
Point == {"idle", "message", "member", "target", "write", "recipients", "publish",
          "reply"}

(* msg: the message, or the reply target of a send;                         *)
(* tries: the attempts of this remote call so far that may be repeated.     *)
(* History: effect: it wrote, and which row; seen: "failed", something did  *)
(* that is not repeated; "gone", the target had been deleted when the       *)
(* request came; "member", the caller has been a member of the room at some *)
(* moment of the call; "told", it published.                                *)
Mark == {"failed", "gone", "member", "told"}

CallState ==
  [op : Op \cup {"none"}, room : Rooms \cup {NoRoom}, by : Users \cup {NoUser},
   msg : Ids \cup {NoMessage}, at : Point, tries : 0 .. Attempts, reply : Code,
   effect : Messages \cup {NoMessage}, seen : SUBSET Mark]

-----------------------------------------------------------------------------
(* The progress of a call *)

At(k, ops, point) == call[k].op \in ops /\ call[k].at = point

Becomes(k, new) == call' = [call EXCEPT ![k] = new]

(* The next remote call counts its attempts anew.                           *)
Goto(k, point) == Becomes(k, [call[k] EXCEPT !.at = point, !.tries = 0])

Answer(k, code) == Becomes(k, [call[k] EXCEPT !.at = "reply", !.reply = code])

(* The room of the membership question: a message carries its own.          *)
RoomOf(k) == IF call[k].op \in {"get", "delete"} THEN messages[call[k].msg].room
                                                 ELSE call[k].room

IsMember(k) == <<RoomOf(k), call[k].by>> \in members

(* The mark of a request whose caller is a member. *)
WasMember(op, r, u, m, pairs) ==
  {x \in {"member"} :
     <<IF op \in {"get", "delete"} THEN messages[m].room ELSE r, u>> \in pairs}

Stored(m) == messages[m].state # "unused"

-----------------------------------------------------------------------------
(* Requests *)

WellFormed(op, r, m) ==
  /\ r = NoRoom <=> op \in {"get", "delete"}
  /\ m = NoMessage => op \in {"send", "list"}
  /\ op = "list" => m = NoMessage
  /\ m \in Messages => Stored(m)

WasGone(op, m) ==
  {x \in {"gone"} : op = "send" /\ m # NoMessage /\ messages[m].state = "deleted"}

Begin(k, op, r, u, m) ==
  /\ call[k].at \in {"idle", "reply"}
  /\ WellFormed(op, r, m)
  /\ Becomes(k, [op |-> op, room |-> r, by |-> u, msg |-> m,
                 at |-> IF op \in {"send", "list"} THEN "member" ELSE "message",
                 tries |-> 0, reply |-> "", effect |-> NoMessage,
                 seen |-> WasGone(op, m) \cup WasMember(op, r, u, m, members)])
  /\ UNCHANGED <<messages, members>>

-----------------------------------------------------------------------------
(* Reads *)

(* GetMessageByID returns deleted messages as well.                         *)
ReadMessage(k) ==
  /\ At(k, {"get", "delete"}, "message")
  /\ \/ Stored(call[k].msg) /\ Goto(k, "member")
     \/ ~Stored(call[k].msg) /\ Answer(k, "NotFound")
  /\ UNCHANGED <<messages, members>>

Admitted(k) ==
  IF call[k].op = "send" THEN Goto(k, IF call[k].msg = NoMessage THEN "write" ELSE "target")
  ELSE IF call[k].op \in {"list", "get"} THEN Answer(k, "OK")
  ELSE IF messages[call[k].msg].sender # call[k].by THEN Answer(k, "PermissionDenied")
  ELSE Goto(k, "write")

(* The handler of DeleteMessage does not know the error of a non-member.    *)
Rejected(k) == Answer(k, IF call[k].op = "delete" THEN "Internal" ELSE "PermissionDenied")

AskMemberNot(k) ==
  /\ call[k].at = "member"
  /\ Admitted(k)
  /\ UNCHANGED <<messages, members>>
AskMember(k) ==
  /\ call[k].at = "member"
  /\ \/ IsMember(k) /\ Admitted(k)
     \/ ~IsMember(k) /\ Rejected(k)
  /\ UNCHANGED <<messages, members>>

ReadTargetAny(k) ==
  /\ At(k, {"send"}, "target")
  /\ LET target == messages[call[k].msg]
     IN \/ target.state = "sent" /\ Goto(k, "write")
        \/ target.state # "sent" /\ Answer(k, "InvalidArgument")
  /\ UNCHANGED <<messages, members>>
ReadTarget(k) ==
  /\ At(k, {"send"}, "target")
  /\ LET target == messages[call[k].msg]
         valid == target.state = "sent" /\ target.room = call[k].room
     IN \/ valid /\ Goto(k, "write")
        \/ ~valid /\ Answer(k, "InvalidArgument")
  /\ UNCHANGED <<messages, members>>

-----------------------------------------------------------------------------
(* Writes: the answer of the database may get lost after the write.         *)

Wrote(k, m, point) ==
  \/ Becomes(k, [call[k] EXCEPT !.at = point, !.tries = 0, !.effect = m,
                                !.reply = IF point = "reply" THEN "OK" ELSE ""])
  \/ Becomes(k, [call[k] EXCEPT !.at = "reply", !.reply = "Internal",
                                !.effect = m, !.seen = @ \cup {"failed"}])

CreateMessage(k) ==
  /\ At(k, {"send"}, "write")
  /\ \E m \in Messages :
       /\ messages[m].state = "unused"
       /\ messages' = [messages EXCEPT ![m] =
                         [state |-> "sent", room |-> call[k].room,
                          sender |-> call[k].by, replyTo |-> call[k].msg]]
       /\ Wrote(k, m, "recipients")
  /\ UNCHANGED members

SoftDeleteAgain(k) ==
  /\ At(k, {"delete"}, "write")
  /\ messages' = [messages EXCEPT ![call[k].msg].state = "deleted"]
  /\ Wrote(k, call[k].msg, "reply")
  /\ UNCHANGED members
(* The repository's "not found" is not the error the handler knows.         *)
SoftDeleteMessage(k) ==
  /\ At(k, {"delete"}, "write")
  /\ LET m == call[k].msg
     IN \/ messages[m].state = "deleted" /\ Answer(k, "Internal") /\ UNCHANGED messages
        \/ /\ messages[m].state = "sent"
           /\ messages' = [messages EXCEPT ![m].state = "deleted"]
           /\ Wrote(k, m, "reply")
  /\ UNCHANGED members

-----------------------------------------------------------------------------
(* The event *)

GetRoomMembers(k) ==
  /\ At(k, {"send"}, "recipients")
  /\ Goto(k, "publish")
  /\ UNCHANGED <<messages, members>>

Publish(k) ==
  /\ At(k, {"send"}, "publish")
  /\ Becomes(k, [call[k] EXCEPT !.at = "reply", !.reply = "OK",
                                !.seen = @ \cup {"told"}])
  /\ UNCHANGED <<messages, members>>

(* The message is sent all the same. *)
EventLost(k) ==
  Becomes(k, [call[k] EXCEPT !.at = "reply", !.reply = "OK",
                                !.seen = @ \cup {"failed"}])

PublishFails(k) ==
  /\ At(k, {"send"}, "publish")
  /\ EventLost(k)
  /\ UNCHANGED <<messages, members>>

-----------------------------------------------------------------------------
(* Failures *)

Fail(k) ==
  Becomes(k, [call[k] EXCEPT !.at = "reply", !.reply = "Internal",
                                !.seen = @ \cup {"failed"}])

QueryFails(k) ==
  /\ call[k].at \in {"message", "target", "write"}
  /\ Fail(k)
  /\ UNCHANGED <<messages, members>>

(* Only "unavailable" and "deadline exceeded" are tried again.              *)
RemoteCallFails(k) ==
  /\ call[k].at \in {"member", "recipients"}
  /\ IF call[k].at = "member" THEN Fail(k) ELSE EventLost(k)
  /\ UNCHANGED <<messages, members>>

Attempted(k, again) ==
  LET tries == call[k].tries + 1
  IN /\ call[k].at \in {"member", "recipients"}
     /\ \/ again /\ Becomes(k, [call[k] EXCEPT !.tries = tries])
        \/ /\ ~again
           /\ Becomes(k, [call[k] EXCEPT !.at = "reply", !.tries = tries, !.reply =
                            IF call[k].at = "member" THEN "Internal" ELSE "OK"])
     /\ UNCHANGED <<messages, members>>

AttemptFailsEarly(k) == Attempted(k, call[k].tries + 2 < Attempts)
AttemptFails(k) == Attempted(k, call[k].tries + 1 < Attempts)

-----------------------------------------------------------------------------
(* The room service lets users in and out meanwhile.                        *)
MembershipChanges(r, u) ==
  /\ members' = IF <<r, u>> \in members THEN members \ {<<r, u>>}
                                        ELSE members \cup {<<r, u>>}
  /\ call' = [k \in Calls |->
                IF call[k].at \in {"idle", "reply"} THEN call[k]
                ELSE [call[k] EXCEPT !.seen = @ \cup
                  WasMember(call[k].op, call[k].room, call[k].by, call[k].msg, members')]]
  /\ UNCHANGED messages

-----------------------------------------------------------------------------

Init ==
  /\ messages = [m \in Ids |-> [state |-> "unused", room |-> NoRoom,
                                     sender |-> NoUser, replyTo |-> NoMessage]]
  /\ members \in SUBSET (Rooms \X Users)
  /\ call = [k \in Calls |->
               [op |-> "none", room |-> NoRoom, by |-> NoUser, msg |-> NoMessage,
                at |-> "idle", tries |-> 0, reply |-> "", effect |-> NoMessage,
                seen |-> {}]]

Handle(k) ==
  \/ ReadMessage(k) \/ AskMember(k) \/ ReadTarget(k)
  \/ CreateMessage(k) \/ SoftDeleteMessage(k)
  \/ GetRoomMembers(k) \/ Publish(k) \/ PublishFails(k)
  \/ QueryFails(k) \/ RemoteCallFails(k) \/ AttemptFails(k)

Next ==
  \/ \E k \in Calls :
       \/ \E op \in Op, r \in Rooms \cup {NoRoom}, u \in Users,
             m \in Ids \cup {NoMessage} : Begin(k, op, r, u, m)
       \/ Handle(k)
  \/ \E r \in Rooms, u \in Users : MembershipChanges(r, u)

Spec == Init /\ [][Next]_vars

-----------------------------------------------------------------------------
(* Properties *)

TypeOK ==
  /\ messages \in [Ids -> Row]
  /\ members \subseteq Rooms \X Users
  /\ call \in [Calls -> CallState]

Answered(k, ops) == At(k, ops, "reply")

(* Nobody sends to a room, or deletes from it, without having been a member *)
(* at some moment of the call (later, membership may be gone); and nobody   *)
(* deletes the message of another.                                          *)
Authorised ==
  \A k \in Calls :
    call[k].effect # NoMessage =>
      /\ "member" \in call[k].seen
      /\ messages[call[k].effect].sender = call[k].by

(* A message is deleted once: of two calls that race to delete it, one      *)
(* succeeds.                                                                *)
DeletedOnce ==
  \A j, k \in Calls :
      /\ Answered(j, {"delete"}) /\ call[j].reply = "OK"
      /\ Answered(k, {"delete"}) /\ call[k].reply = "OK"
      /\ call[j].msg = call[k].msg
    => j = k

(* A reply answers a message that is there and belongs to the same room.    *)
RepliesInRoom ==
  \A m \in Messages :
    Stored(m) /\ messages[m].replyTo # NoMessage =>
      /\ Stored(messages[m].replyTo)
      /\ messages[messages[m].replyTo].room = messages[m].room

(* No call replies to a message that was deleted before the call began.  It *)
(* may be deleted during the call: the check and the insert are two queries.*)
DeletedTargetRefused ==
  \A k \in Calls :
    call[k].op = "send" /\ "gone" \in call[k].seen => call[k].effect = NoMessage

(* Both hold of what the check of reply_to_id was made for. *)
RepliesFit == RepliesInRoom /\ DeletedTargetRefused

(* "Retry up to 3 attempts": as long as the room service fails in a way     *)
(* that is repeated, and fewer times than there are attempts, a send is not *)
(* answered "internal", and the others are told of what was sent.           *)
FailuresMasked ==
  \A k \in Calls :
    Answered(k, {"send"}) /\ "failed" \notin call[k].seen /\ call[k].tries < Attempts =>
      /\ call[k].reply # "Internal"
      /\ call[k].reply = "OK" => "told" \in call[k].seen

=============================================================================
