---------------------------- MODULE MessageProofs ----------------------------
(***************************************************************************)
(* Proofs about MessageService, for any users, rooms, messages, concurrent *)
(* calls and number of attempts: the types, who may write, that a message  *)
(* is deleted once, where replies point, and what retries hide.            *)
(*                                                                         *)
(* A handler writes on the strength of answers it got several queries ago. *)
(* The invariant carries what they established (Fits) to the write.  It    *)
(* survives what other calls do in between because the rows of messages    *)
(* only move from unused to sent to deleted and keep the rest (RowsMove),  *)
(* and because "has been a member", unlike "is", is not undone.            *)
(***************************************************************************)
EXTENDS MessageService, TLAPS

RoomIn(c, rows) == IF c.op \in {"get", "delete"} THEN rows[c.msg].room ELSE c.room

(* What a call c knows of the table and the members.                        *)
Fits(c, rows, pairs) ==
  /\ c.msg \in Messages => rows[c.msg].state # "unused"
  /\ c.op = "none" => c.at = "idle"
  /\ c.at # "reply" => c.tries < Attempts
  /\ c.op \in {"get", "delete"} => c.msg \in Ids
  /\ c.at \in {"target", "recipients", "publish"} => c.op = "send"
  /\ c.at = "target" => c.msg # NoMessage
  /\ c.at = "write" => c.op \in {"send", "delete"}
  /\ c.at \notin {"idle", "reply"} /\ <<RoomIn(c, rows), c.by>> \in pairs
       => "member" \in c.seen
  /\ c.at \in {"target", "write", "recipients", "publish"} => "member" \in c.seen
  /\ c.at \in {"message", "member", "target", "write"} => c.effect = NoMessage
  /\ c.effect # NoMessage =>
       /\ "member" \in c.seen
       /\ rows[c.effect].state # "unused" /\ rows[c.effect].sender = c.by
  /\ c.op = "delete" /\ c.at \in {"member", "write"} => c.msg \in Messages
  /\ c.op = "delete" /\ c.at = "write" => rows[c.msg].sender = c.by
  /\ c.op = "delete" /\ c.at = "reply" /\ c.reply = "OK" => rows[c.msg].state = "deleted"
  /\ c.op = "send" /\ c.at = "write" /\ c.msg # NoMessage =>
       c.msg \in Messages /\ rows[c.msg].room = c.room
  /\ c.op = "send" /\ "gone" \in c.seen =>
       /\ c.at \in {"member", "target", "reply"} /\ c.effect = NoMessage
       /\ c.msg \in Messages /\ rows[c.msg].state = "deleted"
  /\ c.op = "send" /\ c.at = "reply" /\ "failed" \notin c.seen /\ c.tries < Attempts =>
       /\ c.reply # "Internal"
       /\ c.reply = "OK" => "told" \in c.seen

Tables ==
  /\ messages \in [Ids -> Row]
  /\ members \subseteq Rooms \X Users
  /\ messages[Unknown].state = "unused" /\ messages[Unknown].room = NoRoom
  /\ RepliesInRoom

CallsOK ==
  /\ call \in [Calls -> CallState]
  /\ \A k \in Calls : Fits(call[k], messages, members)
  /\ DeletedOnce

IInv == Tables /\ CallsOK

(* What a step does to the rows. *)
RowsMove ==
  /\ messages'[Unknown] = messages[Unknown]
  /\ \A m \in Ids :
       messages[m].state # "unused" =>
         /\ messages'[m].room = messages[m].room
         /\ messages'[m].sender = messages[m].sender
         /\ messages'[m].replyTo = messages[m].replyTo
         /\ messages'[m].state \in {messages[m].state, "deleted"}

-----------------------------------------------------------------------------
(* Who keeps still *)

LEMMA SameRows ==
  ASSUME Tables, UNCHANGED <<messages, members>>
  PROVE  Tables' /\ RowsMove
BY DEF Tables, RowsMove, RepliesInRoom, Stored

LEMMA FitsLasts ==
  ASSUME Tables, RowsMove, messages' \in [Ids -> Row],
         NEW c \in CallState, Fits(c, messages, members)
  PROVE  Fits(c, messages', members)
<1>1. c.msg \in Ids => RoomIn(c, messages') = RoomIn(c, messages) \/ c.msg \notin Messages
  BY DEF RowsMove, RoomIn, Fits, Ids
<1>2. RoomIn(c, messages') = RoomIn(c, messages)
  BY <1>1 DEF RowsMove, RoomIn, Fits, Ids
<1>3. c.effect \in Messages \cup {NoMessage}
  BY DEF CallState
<1>4. \A m \in Messages : m # NoMessage /\ m \in Ids
  BY MessageAssumption DEF Ids
<1> QED BY <1>2, <1>3, <1>4 DEF Fits, RowsMove

(* Call k becomes c, and if that is the end of a deletion, no other deleted *)
(* the message before.                                                      *)
LEMMA CallMoves ==
  ASSUME IInv, RowsMove, messages' \in [Ids -> Row], UNCHANGED members,
         NEW k \in Calls, NEW c \in CallState, Becomes(k, c),
         Fits(c, messages', members),
         c.op = "delete" /\ c.at = "reply" /\ c.reply = "OK"
           => messages[c.msg].state # "deleted"
  PROVE  CallsOK'
<1>1. call' \in [Calls -> CallState] /\ call'[k] = c /\ \A j \in Calls \ {k} : call'[j] = call[j]
  BY DEF IInv, CallsOK, Becomes
<1>2. \A j \in Calls : Fits(call'[j], messages', members')
  <2> SUFFICES ASSUME NEW j \in Calls PROVE Fits(call'[j], messages', members)
    OBVIOUS
  <2>1. CASE j = k
    BY <1>1, <2>1
  <2>2. CASE j # k
    BY <1>1, <2>2, FitsLasts DEF IInv, CallsOK
  <2> QED BY <2>1, <2>2
<1>3. DeletedOnce'
  <2> SUFFICES ASSUME NEW i \in Calls, NEW j \in Calls,
                      call'[i].op = "delete", call'[i].at = "reply", call'[i].reply = "OK",
                      call'[j].op = "delete", call'[j].at = "reply", call'[j].reply = "OK",
                      call'[i].msg = call'[j].msg
               PROVE  i = j
    BY DEF DeletedOnce, Answered, At
  <2>1. CASE i # k /\ j # k
    BY <1>1, <2>1 DEF IInv, CallsOK, DeletedOnce, Answered, At
  <2>2. \A l \in Calls \ {k} :
          call[l].op = "delete" /\ call[l].at = "reply" /\ call[l].reply = "OK"
            => messages[call[l].msg].state = "deleted"
    BY DEF IInv, CallsOK, Fits
  <2>3. CASE (i = k) # (j = k)
    BY <1>1, <2>2, <2>3
  <2> QED BY <2>1, <2>3
<1> QED BY <1>1, <1>2, <1>3 DEF CallsOK

LEMMA OnlyCallMoves ==
  ASSUME IInv, UNCHANGED <<messages, members>>,
         NEW k \in Calls, NEW c \in CallState, Becomes(k, c),
         Fits(c, messages, members),
         ~(c.op = "delete" /\ c.at = "reply" /\ c.reply = "OK")
  PROVE  IInv'
<1>1. Tables' /\ RowsMove
  BY SameRows DEF IInv
<1>2. messages' = messages /\ messages \in [Ids -> Row]
  BY DEF IInv, Tables
<1>3. Fits(c, messages', members)
  BY <1>2
<1> QED BY <1>1, <1>2, <1>3, CallMoves DEF IInv

-----------------------------------------------------------------------------
(* The steps of a call *)

LEMMA FirstAttempt == 0 \in 0 .. Attempts /\ 0 < Attempts
BY MessageAssumption

LEMMA CallFits ==
  ASSUME IInv, NEW k \in Calls
  PROVE  /\ call[k] \in CallState /\ Fits(call[k], messages, members)
         /\ messages \in [Ids -> Row] /\ Tables
BY DEF IInv, CallsOK, Tables

LEMMA BeginStep ==
  ASSUME IInv, NEW k \in Calls, NEW op \in Op, NEW r \in Rooms \cup {NoRoom},
         NEW u \in Users, NEW m \in Ids \cup {NoMessage}, Begin(k, op, r, u, m)
  PROVE  IInv'
<1> DEFINE c == [op |-> op, room |-> r, by |-> u, msg |-> m,
                 at |-> IF op \in {"send", "list"} THEN "member" ELSE "message",
                 tries |-> 0, reply |-> "", effect |-> NoMessage,
                 seen |-> WasGone(op, m) \cup WasMember(op, r, u, m, members)]
<1>1. c \in CallState
  BY MessageAssumption DEF CallState, WasGone, WasMember, Mark, Point, Code
<1>2. Fits(c, messages, members)
  <2>1. "member" \in WasMember(op, r, u, m, members) <=> <<RoomIn(c, messages), u>> \in members
    BY DEF WasMember, RoomIn
  <2>2. "gone" \in WasGone(op, m) =>
          op = "send" /\ m # NoMessage /\ messages[m].state = "deleted"
    BY DEF WasGone
  <2>3. "member" \notin WasGone(op, m) /\ "gone" \notin WasMember(op, r, u, m, members)
    BY DEF WasGone, WasMember
  <2>4. m = Unknown => messages[m].state = "unused"
    BY DEF IInv, Tables
  <2>5. /\ c.op = op /\ c.room = r /\ c.by = u /\ c.msg = m /\ c.effect = NoMessage
        /\ c.at = (IF op \in {"send", "list"} THEN "member" ELSE "message")
        /\ c.seen = WasGone(op, m) \cup WasMember(op, r, u, m, members)
        /\ c.tries = 0
    OBVIOUS
  <2>6. /\ m = NoMessage => op \in {"send", "list"}
        /\ m \in Messages => messages[m].state # "unused"
    BY DEF Begin, WellFormed, Stored
  <2> HIDE DEF c
  <2> QED BY <2>1, <2>2, <2>3, <2>4, <2>5, <2>6, FirstAttempt DEF Fits, Ids, Op
<1>3. Becomes(k, c) /\ UNCHANGED <<messages, members>> /\ c.at # "reply"
  BY DEF Begin
<1> HIDE DEF c
<1> QED BY <1>1, <1>2, <1>3, OnlyCallMoves

(* A call that only moves on, or ends without success. *)
LEMMA GoesOn ==
  ASSUME IInv, NEW k \in Calls, NEW point \in Point \ {"reply"},
         Fits([call[k] EXCEPT !.at = point, !.tries = 0], messages, members),
         Goto(k, point), UNCHANGED <<messages, members>>
  PROVE  IInv'
<1> DEFINE c == [call[k] EXCEPT !.at = point, !.tries = 0]
<1>0. call[k] \in CallState
  BY CallFits
<1>1. c \in CallState
  BY <1>0, FirstAttempt DEF CallState
<1>2. c.at # "reply"
  BY <1>0 DEF CallState
<1>3. Fits(c, messages, members) /\ Becomes(k, c)
  BY DEF Goto
<1> HIDE DEF c
<1> QED BY <1>1, <1>2, <1>3, OnlyCallMoves

LEMMA Ends ==
  ASSUME IInv, NEW k \in Calls, NEW code \in Code,
         call[k].at # "idle", Answer(k, code), UNCHANGED <<messages, members>>,
         code = "OK" => call[k].op \notin {"send", "delete"},
         code = "Internal" => call[k].op # "send"
  PROVE  IInv'
<1> DEFINE c == [call[k] EXCEPT !.at = "reply", !.reply = code]
<1>0. /\ call[k] \in CallState /\ Fits(call[k], messages, members)
  BY CallFits
<1>1. c \in CallState
  BY <1>0 DEF CallState, Point
<1>2. Fits(c, messages, members)
  BY <1>0 DEF Fits, RoomIn, CallState
<1>3. Becomes(k, c) /\ ~(c.op = "delete" /\ c.reply = "OK")
  BY <1>0 DEF Answer, CallState
<1> HIDE DEF c
<1> QED BY <1>1, <1>2, <1>3, OnlyCallMoves

LEMMA Fails ==
  ASSUME IInv, NEW k \in Calls, NEW code \in {"OK", "Internal"},
         call[k].at # "idle", code = "OK" => call[k].op # "delete",
         Becomes(k, [call[k] EXCEPT !.at = "reply", !.reply = code,
                                    !.seen = @ \cup {"failed"}]),
         UNCHANGED <<messages, members>>
  PROVE  IInv'
<1> DEFINE c == [call[k] EXCEPT !.at = "reply", !.reply = code, !.seen = @ \cup {"failed"}]
<1>0. call[k] \in CallState /\ Fits(call[k], messages, members)
  BY CallFits
<1>1. c \in CallState
  BY <1>0 DEF CallState, Point, Code, Mark
<1>2. Fits(c, messages, members)
  BY <1>0 DEF Fits, RoomIn, CallState
<1>3. ~(c.op = "delete" /\ c.reply = "OK")
  BY <1>0 DEF CallState
<1> HIDE DEF c
<1> QED BY <1>1, <1>2, <1>3, OnlyCallMoves DEF c

LEMMA ReadMessageStep ==
  ASSUME IInv, NEW k \in Calls, ReadMessage(k)
  PROVE  IInv'
<1>0. /\ call[k] \in CallState /\ Fits(call[k], messages, members) /\ Tables
      /\ call[k].op \in {"get", "delete"} /\ call[k].at = "message"
  BY CallFits DEF ReadMessage, At
<1>1. CASE Stored(call[k].msg) /\ Goto(k, "member")
  <2>1. call[k].msg \in Messages
    BY <1>0, <1>1 DEF Stored, Tables, Fits, Ids
  <2>2. Fits([call[k] EXCEPT !.at = "member", !.tries = 0], messages, members)
    BY <1>0, <2>1, FirstAttempt DEF Fits, RoomIn, CallState
  <2> QED BY <1>1, <2>2, GoesOn DEF ReadMessage, Point
<1>2. CASE Answer(k, "NotFound")
  BY <1>0, <1>2, Ends DEF ReadMessage, Code
<1> QED BY <1>1, <1>2 DEF ReadMessage

LEMMA AskMemberStep ==
  ASSUME IInv, NEW k \in Calls, AskMember(k)
  PROVE  IInv'
<1>0. /\ call[k] \in CallState /\ Fits(call[k], messages, members) /\ Tables
      /\ call[k].at = "member" /\ UNCHANGED <<messages, members>>
  BY CallFits DEF AskMember
<1>1. CASE ~IsMember(k) /\ Rejected(k)
  BY <1>0, <1>1, Ends DEF Rejected, Code
<1>2. CASE IsMember(k) /\ Admitted(k)
  <2>1. "member" \in call[k].seen
    BY <1>0, <1>2 DEF IsMember, RoomOf, RoomIn, Fits
  <2>2. CASE call[k].op = "send"
    <3> DEFINE p == IF call[k].msg = NoMessage THEN "write" ELSE "target"
    <3>1. Fits([call[k] EXCEPT !.at = p, !.tries = 0], messages, members)
      BY <1>0, <2>1, <2>2, MessageAssumption DEF Fits, RoomIn, CallState
    <3> QED BY <1>0, <1>2, <2>2, <3>1, GoesOn DEF Admitted, Point
  <2>3. CASE call[k].op \in {"list", "get"}
    BY <1>0, <1>2, <2>3, Ends DEF Admitted, Code
  <2>4. CASE call[k].op = "delete" /\ messages[call[k].msg].sender # call[k].by
    BY <1>0, <1>2, <2>4, Ends DEF Admitted, Code
  <2>5. CASE call[k].op = "delete" /\ messages[call[k].msg].sender = call[k].by
    <3>1. Fits([call[k] EXCEPT !.at = "write", !.tries = 0], messages, members)
      BY <1>0, <2>1, <2>5, FirstAttempt DEF Fits, RoomIn, CallState
    <3> QED BY <1>0, <1>2, <2>5, <3>1, GoesOn DEF Admitted, Point
  <2>6. call[k].op # "none"
    BY <1>0 DEF Fits
  <2> QED BY <1>0, <2>2, <2>3, <2>4, <2>5, <2>6 DEF CallState, Op
<1> QED BY <1>1, <1>2 DEF AskMember

LEMMA ReadTargetStep ==
  ASSUME IInv, NEW k \in Calls, ReadTarget(k)
  PROVE  IInv'
<1>0. /\ call[k] \in CallState /\ Fits(call[k], messages, members) /\ Tables
      /\ call[k].at = "target" /\ call[k].op = "send" /\ UNCHANGED <<messages, members>>
  BY CallFits DEF ReadTarget, At
<1>1. CASE /\ messages[call[k].msg].state = "sent"
           /\ messages[call[k].msg].room = call[k].room
           /\ Goto(k, "write")
  <2>1. call[k].msg \in Messages
    BY <1>0, <1>1 DEF Fits, Tables, CallState, Ids
  <2>2. Fits([call[k] EXCEPT !.at = "write", !.tries = 0], messages, members)
    BY <1>0, <1>1, <2>1, FirstAttempt DEF Fits, RoomIn, CallState
  <2> QED BY <1>0, <1>1, <2>2, GoesOn DEF Point
<1>2. CASE Answer(k, "InvalidArgument")
  BY <1>0, <1>2, Ends DEF Code
<1> QED BY <1>1, <1>2 DEF ReadTarget

LEMMA CreateMessageStep ==
  ASSUME IInv, NEW k \in Calls, CreateMessage(k)
  PROVE  IInv'
<1>0. /\ call[k] \in CallState /\ Fits(call[k], messages, members) /\ Tables
      /\ call[k].at = "write" /\ call[k].op = "send" /\ members' = members
      /\ "member" \in call[k].seen
  BY CallFits DEF CreateMessage, At, Fits
<1>1. PICK m \in Messages :
        /\ messages[m].state = "unused"
        /\ messages' = [messages EXCEPT ![m] =
                          [state |-> "sent", room |-> call[k].room,
                           sender |-> call[k].by, replyTo |-> call[k].msg]]
        /\ Wrote(k, m, "recipients")
  BY DEF CreateMessage
<1>2. m \in Ids /\ m # Unknown /\ m # NoMessage
  BY MessageAssumption DEF Ids
<1>3. messages' \in [Ids -> Row] /\ RowsMove
  BY <1>0, <1>1, <1>2 DEF Tables, Row, RowsMove, CallState
<1>4. RepliesInRoom'
  <2> SUFFICES ASSUME NEW q \in Messages, messages'[q].state # "unused",
                      messages'[q].replyTo # NoMessage
               PROVE  /\ messages'[messages'[q].replyTo].state # "unused"
                      /\ messages'[messages'[q].replyTo].room = messages'[q].room
    BY DEF RepliesInRoom, Stored
  <2>0. q \in Ids
    BY DEF Ids
  <2>1. CASE q = m
    <3>1. messages'[q] = [state |-> "sent", room |-> call[k].room,
                          sender |-> call[k].by, replyTo |-> call[k].msg]
      BY <1>0, <1>1, <1>2, <2>1 DEF Tables
    <3>2. /\ call[k].msg \in Messages /\ messages[call[k].msg].state # "unused"
          /\ messages[call[k].msg].room = call[k].room
      BY <1>0, <3>1 DEF Fits
    <3>3. call[k].msg \in Ids /\ call[k].msg # m
      BY <1>1, <3>2 DEF Ids
    <3>4. messages'[call[k].msg] = messages[call[k].msg]
      BY <1>0, <1>1, <3>3 DEF Tables
    <3> QED BY <3>1, <3>2, <3>4
  <2>2. CASE q # m
    <3>1. messages'[q] = messages[q]
      BY <1>0, <1>1, <2>0, <2>2 DEF Tables
    <3>2. /\ messages[messages[q].replyTo].state # "unused"
          /\ messages[messages[q].replyTo].room = messages[q].room
      BY <1>0, <3>1 DEF Tables, RepliesInRoom, Stored
    <3>3. messages[q].replyTo \in Ids /\ messages[q].replyTo # m
      BY <1>0, <1>1, <2>0, <3>1, <3>2 DEF Tables, Row
    <3>4. messages'[messages[q].replyTo] = messages[messages[q].replyTo]
      BY <1>0, <1>1, <3>3 DEF Tables
    <3> QED BY <3>1, <3>2, <3>4
  <2> QED BY <2>1, <2>2
<1>5. Tables'
  BY <1>0, <1>3, <1>4 DEF Tables, RowsMove
<1>6. /\ messages'[m].state = "sent" /\ messages'[m].sender = call[k].by
      /\ call[k].msg \in Messages => messages'[call[k].msg].state # "unused"
  BY <1>0, <1>1, <1>2 DEF Tables, Fits, Ids
<1> DEFINE c == [call[k] EXCEPT !.at = "recipients", !.tries = 0, !.effect = m, !.reply = ""]
           d == [call[k] EXCEPT !.at = "reply", !.reply = "Internal", !.effect = m,
                                !.seen = @ \cup {"failed"}]
<1>7. c \in CallState /\ d \in CallState
  BY <1>0, FirstAttempt DEF CallState, Point, Code, Mark
<1>8. Fits(c, messages', members) /\ Fits(d, messages', members)
  BY <1>0, <1>2, <1>6, FirstAttempt DEF Fits, RoomIn, CallState
<1>9. Becomes(k, c) \/ Becomes(k, d)
  BY <1>1 DEF Wrote
<1>10. c.op = "send" /\ d.op = "send"
  BY <1>0 DEF CallState
<1> HIDE DEF c, d
<1> QED BY <1>0, <1>3, <1>5, <1>7, <1>8, <1>9, <1>10, CallMoves DEF IInv

LEMMA SoftDeleteMessageStep ==
  ASSUME IInv, NEW k \in Calls, SoftDeleteMessage(k)
  PROVE  IInv'
<1> DEFINE m == call[k].msg
<1>0. /\ call[k] \in CallState /\ Fits(call[k], messages, members) /\ Tables
      /\ call[k].at = "write" /\ call[k].op = "delete" /\ members' = members
  BY CallFits DEF SoftDeleteMessage, At
<1>1. CASE Answer(k, "Internal") /\ UNCHANGED messages
  BY <1>0, <1>1, Ends DEF Code
<1>2. CASE /\ messages[m].state = "sent"
           /\ messages' = [messages EXCEPT ![m].state = "deleted"]
           /\ Wrote(k, m, "reply")
  <2>1. m \in Messages /\ m \in Ids /\ m # Unknown /\ m # NoMessage
    BY <1>0, MessageAssumption DEF Fits, Ids
  <2>2. /\ messages' \in [Ids -> Row] /\ RowsMove
        /\ messages'[m].state = "deleted" /\ messages'[m].sender = messages[m].sender
    BY <1>0, <1>2, <2>1 DEF Tables, Row, RowsMove
  <2>3. RepliesInRoom'
    <3>1. \A q \in Ids :
            /\ messages'[q].room = messages[q].room
            /\ messages'[q].replyTo = messages[q].replyTo
            /\ messages'[q].state # "unused" <=> messages[q].state # "unused"
      BY <1>0, <1>2, <2>1 DEF Tables, Row
    <3>2. \A q \in Messages : q \in Ids /\ messages[q].replyTo \in Ids \cup {NoMessage}
      BY <1>0 DEF Tables, Row, Ids
    <3> QED BY <1>0, <3>1, <3>2 DEF Tables, RepliesInRoom, Stored
  <2>4. Tables'
    BY <1>0, <2>2, <2>3 DEF Tables, RowsMove
  <2> DEFINE c == [call[k] EXCEPT !.at = "reply", !.tries = 0, !.effect = m, !.reply = "OK"]
             d == [call[k] EXCEPT !.at = "reply", !.reply = "Internal", !.effect = m,
                                  !.seen = @ \cup {"failed"}]
  <2>5. c \in CallState /\ d \in CallState
    BY <1>0, <2>1, FirstAttempt DEF CallState, Point, Code, Mark
  <2>6. Fits(c, messages', members) /\ Fits(d, messages', members)
    BY <1>0, <2>1, <2>2 DEF Fits, RoomIn, CallState
  <2>7. Becomes(k, c) \/ Becomes(k, d)
    BY <1>2 DEF Wrote
  <2>8. c.msg = m /\ d.msg = m /\ messages[m].state # "deleted"
    BY <1>0, <1>2 DEF CallState
  <2> HIDE DEF c, d, m
  <2> QED BY <1>0, <2>2, <2>4, <2>5, <2>6, <2>7, <2>8, CallMoves DEF IInv
<1> QED BY <1>1, <1>2 DEF SoftDeleteMessage

LEMMA EventStep ==
  ASSUME IInv, NEW k \in Calls, GetRoomMembers(k) \/ Publish(k) \/ PublishFails(k)
  PROVE  IInv'
<1>0. /\ call[k] \in CallState /\ Fits(call[k], messages, members)
      /\ call[k].at # "idle" /\ call[k].op = "send" /\ UNCHANGED <<messages, members>>
  BY CallFits DEF GetRoomMembers, Publish, PublishFails, At
<1>1. CASE GetRoomMembers(k)
  <2>1. Fits([call[k] EXCEPT !.at = "publish", !.tries = 0], messages, members)
    BY <1>0, <1>1, FirstAttempt DEF Fits, RoomIn, CallState, GetRoomMembers, At
  <2> QED BY <1>0, <1>1, <2>1, GoesOn DEF GetRoomMembers, Point
<1>2. CASE Publish(k)
  <2> DEFINE c == [call[k] EXCEPT !.at = "reply", !.reply = "OK", !.seen = @ \cup {"told"}]
  <2>1. c \in CallState
    BY <1>0 DEF CallState, Point, Code, Mark
  <2>2. Fits(c, messages, members) /\ c.op = "send"
    BY <1>0, <1>2 DEF Fits, RoomIn, CallState, Publish, At
  <2>3. Becomes(k, c)
    BY <1>2 DEF Publish
  <2> HIDE DEF c
  <2> QED BY <1>0, <2>1, <2>2, <2>3, OnlyCallMoves
<1>3. CASE PublishFails(k)
  BY <1>0, <1>3, Fails DEF PublishFails, EventLost
<1> QED BY <1>1, <1>2, <1>3

LEMMA FailureStep ==
  ASSUME IInv, NEW k \in Calls, QueryFails(k) \/ RemoteCallFails(k)
  PROVE  IInv'
<1>0. /\ Fits(call[k], messages, members)
      /\ call[k].at # "idle" /\ UNCHANGED <<messages, members>>
  BY CallFits DEF QueryFails, RemoteCallFails
<1>1. CASE Fail(k)
  BY <1>0, <1>1, Fails DEF Fail
<1>2. CASE call[k].at = "recipients" /\ EventLost(k)
  <2>1. call[k].op = "send"
    BY <1>0, <1>2 DEF Fits
  <2> QED BY <1>0, <1>2, <2>1, Fails DEF EventLost
<1> QED BY <1>1, <1>2 DEF QueryFails, RemoteCallFails

LEMMA AttemptFailsStep ==
  ASSUME IInv, NEW k \in Calls, AttemptFails(k)
  PROVE  IInv'
<1> DEFINE tries == call[k].tries + 1
           code == IF call[k].at = "member" THEN "Internal" ELSE "OK"
           c == [call[k] EXCEPT !.tries = tries]
           d == [call[k] EXCEPT !.at = "reply", !.tries = tries, !.reply = code]
<1>0. /\ call[k] \in CallState /\ Fits(call[k], messages, members)
      /\ call[k].at \in {"member", "recipients"} /\ UNCHANGED <<messages, members>>
  BY CallFits DEF AttemptFails, Attempted
<1>1. call[k].tries \in 0 .. Attempts /\ Attempts \in Nat
  BY <1>0, MessageAssumption DEF CallState
<1>2. CASE tries < Attempts /\ Becomes(k, c)
  <2>1. tries \in 0 .. Attempts
    BY <1>1, <1>2
  <2>2. c \in CallState
    BY <1>0, <2>1 DEF CallState
  <2>3. Fits(c, messages, members) /\ c.at # "reply"
    BY <1>0, <1>2 DEF Fits, RoomIn, CallState
  <2> HIDE DEF c
  <2> QED BY <1>0, <1>2, <2>2, <2>3, OnlyCallMoves
<1>3. CASE ~(tries < Attempts) /\ Becomes(k, d)
  <2>1. tries \in 0 .. Attempts /\ tries >= Attempts
    BY <1>0, <1>1, <1>3 DEF Fits
  <2>2. d \in CallState
    BY <1>0, <2>1 DEF CallState, Point, Code
  <2>3. ~(d.tries < Attempts) /\ ~(d.op = "delete" /\ d.reply = "OK")
    BY <1>0, <1>1, <2>1 DEF Fits, CallState
  <2>4. Fits(d, messages, members)
    BY <1>0, <2>3 DEF Fits, RoomIn, CallState
  <2> HIDE DEF d
  <2> QED BY <1>0, <1>3, <2>2, <2>3, <2>4, OnlyCallMoves
<1> QED BY <1>2, <1>3 DEF AttemptFails, Attempted

LEMMA MembershipChangesStep ==
  ASSUME IInv, NEW r \in Rooms, NEW u \in Users, MembershipChanges(r, u)
  PROVE  IInv'
<1>1. messages' = messages /\ members' \subseteq Rooms \X Users
  BY DEF MembershipChanges, IInv, Tables
<1>2. Tables'
  BY <1>1 DEF IInv, Tables, RepliesInRoom, Stored
<1>3. ASSUME NEW k \in Calls
      PROVE  /\ call'[k] \in CallState /\ Fits(call'[k], messages', members')
             /\ call'[k].op = call[k].op /\ call'[k].at = call[k].at
             /\ call'[k].reply = call[k].reply /\ call'[k].msg = call[k].msg
  <2>0. call[k] \in CallState /\ Fits(call[k], messages, members)
    BY CallFits
  <2>1. CASE call[k].at \in {"idle", "reply"}
    <3>1. call'[k] = call[k]
      BY <2>1 DEF MembershipChanges
    <3> QED BY <1>1, <2>0, <2>1, <3>1 DEF Fits
  <2>2. CASE call[k].at \notin {"idle", "reply"}
    <3> DEFINE now == WasMember(call[k].op, call[k].room, call[k].by, call[k].msg, members')
               c == [call[k] EXCEPT !.seen = @ \cup now]
    <3>1. call'[k] = c
      BY <2>2 DEF MembershipChanges
    <3>2. now \subseteq {"member"}
      BY DEF WasMember
    <3>3. <<RoomIn(call[k], messages), call[k].by>> \in members' => "member" \in now
      BY DEF WasMember, RoomIn
    <3> HIDE DEF now
    <3>4. c \in CallState
      BY <2>0, <3>2 DEF CallState, Mark
    <3>5. Fits(c, messages, members')
      BY <2>0, <2>2, <3>2, <3>3 DEF Fits, RoomIn, CallState
    <3>6. c.op = call[k].op /\ c.at = call[k].at /\ c.reply = call[k].reply /\ c.msg = call[k].msg
      BY <2>0 DEF CallState
    <3> HIDE DEF c
    <3> QED BY <1>1, <3>1, <3>4, <3>5, <3>6
  <2> QED BY <2>1, <2>2
<1>4. call' \in [Calls -> CallState]
  <2>1. call' = [k \in Calls |-> call'[k]]
    BY DEF MembershipChanges
  <2> QED BY <1>3, <2>1
<1>5. DeletedOnce'
  BY <1>3 DEF IInv, CallsOK, DeletedOnce, Answered, At
<1> QED BY <1>2, <1>3, <1>4, <1>5 DEF IInv, CallsOK

-----------------------------------------------------------------------------

LEMMA Initially == Init => IInv
<1> SUFFICES ASSUME Init PROVE IInv
  OBVIOUS
<1>1. Tables
  BY MessageAssumption DEF Init, Tables, Row, Ids, RepliesInRoom, Stored
<1>2. \A k \in Calls : call[k] \in CallState
  BY FirstAttempt DEF Init, CallState, Mark, Code, Point
<1>3. \A k \in Calls : Fits(call[k], messages, members)
  BY MessageAssumption, FirstAttempt DEF Init, Fits, RoomIn
<1>4. call \in [Calls -> CallState] /\ DeletedOnce
  BY <1>2 DEF Init, DeletedOnce, Answered, At
<1> QED BY <1>1, <1>3, <1>4 DEF IInv, CallsOK

LEMMA Invariance == Spec => []IInv
<1>1. ASSUME IInv, [Next]_vars PROVE IInv'
  <2>1. CASE UNCHANGED vars
    <3>1. UNCHANGED <<messages, members, call>>
      BY <2>1 DEF vars
    <3> QED BY <1>1, <3>1 DEF IInv, Tables, CallsOK, RepliesInRoom, Stored, DeletedOnce,
                              Answered, At
  <2>2. ASSUME NEW k \in Calls, NEW op \in Op, NEW r \in Rooms \cup {NoRoom},
               NEW u \in Users, NEW m \in Ids \cup {NoMessage}, Begin(k, op, r, u, m)
        PROVE  IInv'
    BY <1>1, <2>2, BeginStep
  <2>3. ASSUME NEW k \in Calls, Handle(k) PROVE IInv'
    BY <1>1, <2>3, ReadMessageStep, AskMemberStep, ReadTargetStep, CreateMessageStep,
       SoftDeleteMessageStep, EventStep, FailureStep, AttemptFailsStep DEF Handle
  <2>4. ASSUME NEW r \in Rooms, NEW u \in Users, MembershipChanges(r, u) PROVE IInv'
    BY <1>1, <2>4, MembershipChangesStep
  <2> QED BY <1>1, <2>1, <2>2, <2>3, <2>4 DEF Next
<1> QED BY <1>1, Initially, PTL DEF Spec

(* Rows, memberships and calls keep their types (all of message.go). *)
THEOREM MessageTypes == Spec => []TypeOK
<1>1. IInv => TypeOK
  BY DEF IInv, Tables, CallsOK, TypeOK
<1> QED BY <1>1, Invariance, PTL

(* Who wrote to a room was a member of it during the call, and who deleted  *)
(* a message had sent it (the checks of SendMessage and DeleteMessage).     *)
THEOREM MessageAuthorised == Spec => []Authorised
<1>1. IInv => Authorised
  BY DEF IInv, CallsOK, Fits, Authorised
<1> QED BY <1>1, Invariance, PTL

(* Of any number of concurrent deletions of a message one succeeds (the     *)
(* condition deleted_at IS NULL of SoftDeleteMessage).                      *)
THEOREM MessageDeletedOnce == Spec => []DeletedOnce
<1>1. IInv => DeletedOnce
  BY DEF IInv, CallsOK
<1> QED BY <1>1, Invariance, PTL

(* Replies stay in their room, and none is made to what was deleted before  *)
(* the call (the check of reply_to_id in SendMessage).                      *)
THEOREM MessageRepliesFit == Spec => []RepliesFit
<1>1. IInv => RepliesFit
  BY DEF IInv, Tables, CallsOK, Fits, RepliesFit, DeletedTargetRefused
<1> QED BY <1>1, Invariance, PTL

(* Whatever the number of attempts: failures that are repeated, and fewer   *)
(* of them than there are attempts, are not seen (withRetry).               *)
THEOREM MessageFailuresMasked == Spec => []FailuresMasked
<1>1. IInv => FailuresMasked
  BY DEF IInv, CallsOK, Fits, FailuresMasked, Answered, At
<1> QED BY <1>1, Invariance, PTL

=============================================================================
