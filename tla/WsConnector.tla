---------------------------- MODULE WsConnector ----------------------------
(***************************************************************************)
(* The connections of the WebSocket connector                              *)
(* (services/websocket/internal/handler/ws.go) around its hub.  A          *)
(* connection is served by three goroutines, readPump, writePump and       *)
(* pingPump, that share a cancellable context, an outbound channel and the *)
(* socket; they and the hub meet on the hub's channels and on outbound.    *)
(*                                                                         *)
(* The socket is external (nhooyr.io/websocket, modelled from its uses):   *)
(* up[c] turns FALSE when the peer leaves, when a read, write or ping runs *)
(* into its deadline, when the context of a pending read is cancelled, or  *)
(* when this side closes it; from then on every operation on it fails.     *)
(*                                                                         *)
(* Left out: GetRoomUserCount, which only tests call, and the wording of   *)
(* the replies "pong" and "error", which all are the envelope Reply here.  *)
(***************************************************************************)
EXTENDS SequencesExt

CONSTANTS
  Conns, UserOf, RoomIDs, BufferSize,   (* as in Hub                       *)
  WriteBuffer,    (* write_buffer: the capacity of an outbound channel     *)
  MaxEvents,      (* bound: how many events are published                  *)
  MaxMessages     (* bound: how many messages a client sends               *)

Events == 1 .. MaxEvents    (* an event is its place in publication order  *)
Reply == 0                  (* any answer of the server to a client message*)
NoRoom == <<>>

ASSUME ConnectorAssumption ==
  /\ IsFiniteSet(Conns)
  /\ DOMAIN UserOf = Conns
  /\ BufferSize \in Nat \ {0}
  /\ {WriteBuffer, MaxEvents, MaxMessages} \subseteq Nat
  /\ NoRoom \notin RoomIDs

VARIABLES
  rooms, userIDs, connRooms, register, unregister, disconnect, broadcast,
  roomCount, slow, countCh, waiting, running,       (* the hub             *)
  reader,      (* reader[c]: where HandleWS, then readPump, stands         *)
  request,     (* request[c]: the room reader[c] is handing to the hub     *)
  writer,      (* writer[c]: where writePump stands                        *)
  held,        (* held[c]: what writePump took and is writing, as <<>> or  *)
               (* a one-element sequence                                   *)
  pinger,      (* pinger[c]: where pingPump stands                         *)
  cancelled,   (* the connections whose shared context is cancelled        *)
  outbound,    (* outbound[c]: the contents of the channel                 *)
  closed,      (* the connections whose outbound channel is closed         *)
  up,          (* up[c]: the socket works                                  *)
  published,   (* how many events were handed to BroadcastToRoom           *)
  messages,    (* messages[c]: how many messages the client has sent       *)
  offered,     (* history: the events the hub handed to c's Send, and the  *)
               (* replies that it took                                     *)
  delivered    (* history: what was written to c's socket                  *)

hubVars == <<rooms, userIDs, connRooms, register, unregister, disconnect,
             broadcast, roomCount, slow, countCh, waiting, running>>
pumpVars == <<reader, request, writer, pinger>>
channelVars == <<held, outbound, closed>>
socketVars == <<cancelled, up>>
historyVars == <<published, messages, offered, delivered>>
vars == <<hubVars, pumpVars, channelVars, socketVars, historyVars>>

H == INSTANCE Hub WITH Callers <- {}

Goto(pc, c, from, to) ==
  /\ pc[c] = from
  /\ pc' = [pc EXCEPT ![c] = to]

Cancel(c) == cancelled' = cancelled \cup {c}

-----------------------------------------------------------------------------
(* Send and closeOutbound *)

FreeAndOne(c) ==
  IF c \in closed THEN 0
  ELSE WriteBuffer + 1 - Len(outbound[c]) + (IF writer[c] = "parked" THEN 1 ELSE 0)
(* How many envelopes Send can take from c's senders, with no step of c's   *)
(* goroutines in between: into the buffer, and one into the hands of a      *)
(* writePump that waits in its receive.  A send on a closed channel panics, *)
(* recovered.                                                               *)
Free(c) ==
  IF c \in closed THEN 0
  ELSE WriteBuffer - Len(outbound[c]) + (IF writer[c] = "parked" THEN 1 ELSE 0)

Taken(c, n) == IF n <= Free(c) THEN n ELSE Free(c)

Copies(n, data) == [i \in 1 .. n |-> data]

(* The three states of the connections that Send moves, after copies[c]     *)
(* calls of c's Send(data).                                                 *)
Send(copies, data) ==
  LET handed == {c \in Conns : writer[c] = "parked" /\ Taken(c, copies[c]) > 0}
      queued(c) == Taken(c, copies[c]) - (IF c \in handed THEN 1 ELSE 0)
  IN /\ writer' = [c \in Conns |-> IF c \in handed THEN "write" ELSE writer[c]]
     /\ held' = [c \in Conns |-> IF c \in handed THEN <<data>> ELSE held[c]]
     /\ outbound' = [c \in Conns |-> outbound[c] \o Copies(queued(c), data)]

CloseOutbound(c) == closed' = closed \cup {c}

-----------------------------------------------------------------------------
(* HandleWS, after its ticket: an initial room is registered first, and the *)
(* pumps start when the hub has taken it.                                   *)

StartPumps(c) ==
  /\ writer' = [writer EXCEPT ![c] = "idle"]
  /\ pinger' = [pinger EXCEPT ![c] = "wait"]

Accept(c) ==
  /\ up' = [up EXCEPT ![c] = TRUE]
  /\ \/ /\ Goto(reader, c, "new", "read")
        /\ StartPumps(c)
        /\ UNCHANGED request
     \/ \E r \in RoomIDs :
          /\ Goto(reader, c, "new", "initial")
          /\ request' = [request EXCEPT ![c] = r]
          /\ UNCHANGED <<writer, pinger>>
  /\ UNCHANGED <<hubVars, channelVars, cancelled, published, messages, offered, delivered>>

RegisterInitial(c) ==
  /\ Goto(reader, c, "initial", "read")
  /\ H!Register(c, request[c])
  /\ request' = [request EXCEPT ![c] = NoRoom]
  /\ StartPumps(c)
  /\ UNCHANGED <<channelVars, socketVars, historyVars>>

-----------------------------------------------------------------------------
(* readPump *)

ClientSends(c) ==
  /\ reader[c] = "read" /\ up[c] /\ c \notin cancelled
  /\ messages[c] < MaxMessages
  /\ messages' = [messages EXCEPT ![c] = @ + 1]
  /\ UNCHANGED <<hubVars, pinger, closed, socketVars, published, delivered>>

ReadSubscribe(c, r) ==
  /\ ClientSends(c)
  /\ Goto(reader, c, "read", "subscribe")
  /\ request' = [request EXCEPT ![c] = r]
  /\ UNCHANGED <<writer, held, outbound, offered>>

ReadUnsubscribe(c, r) ==
  /\ ClientSends(c)
  /\ Goto(reader, c, "read", "unsubscribe")
  /\ request' = [request EXCEPT ![c] = r]
  /\ UNCHANGED <<writer, held, outbound, offered>>

(* A ping, or a message that is answered with an error, whatever becomes of *)
(* the answer.                                                              *)
ReadOther(c) ==
  /\ ClientSends(c)
  /\ Send([d \in Conns |-> IF d = c THEN 1 ELSE 0], Reply)
  /\ offered' = [offered EXCEPT ![c] = @ \o Copies(Taken(c, 1), Reply)]
  /\ UNCHANGED <<reader, request>>

HandOver(c) ==
  /\ \/ Goto(reader, c, "subscribe", "read") /\ H!Register(c, request[c])
     \/ Goto(reader, c, "unsubscribe", "read") /\ H!Unregister(c, request[c])
  /\ request' = [request EXCEPT ![c] = NoRoom]
  /\ UNCHANGED <<writer, pinger, channelVars, socketVars, historyVars>>

(* A cancelled read closes the socket. *)
ReadFails(c) ==
  /\ ~up[c] \/ c \in cancelled
  /\ Goto(reader, c, "read", "disconnect")
  /\ up' = [up EXCEPT ![c] = FALSE]
  /\ Cancel(c)
  /\ UNCHANGED <<hubVars, request, writer, pinger, channelVars, historyVars>>

ReaderDisconnects(c) ==
  /\ Goto(reader, c, "disconnect", "closeOutbound")
  /\ H!Disconnect(c)
  /\ UNCHANGED <<request, writer, pinger, channelVars, socketVars, historyVars>>

ReaderEndsOpen(c) ==
  /\ Goto(reader, c, "closeOutbound", "done")
  /\ UNCHANGED <<hubVars, request, writer, pinger, channelVars, socketVars,
                 historyVars>>
ReaderEnds(c) ==
  /\ Goto(reader, c, "closeOutbound", "done")
  /\ CloseOutbound(c)
  /\ UNCHANGED <<hubVars, request, writer, pinger, held, outbound, socketVars,
                 historyVars>>

-----------------------------------------------------------------------------
(* writePump *)

WriterTakes(c) ==
  /\ Goto(writer, c, "idle", "write")
  /\ outbound[c] # <<>>
  /\ held' = [held EXCEPT ![c] = <<Head(outbound[c])>>]
  /\ outbound' = [outbound EXCEPT ![c] = Tail(@)]
  /\ UNCHANGED <<hubVars, reader, request, pinger, closed, socketVars, historyVars>>

WriterParks(c) ==
  /\ outbound[c] = <<>> /\ c \notin closed
  /\ Goto(writer, c, "idle", "parked")
  /\ UNCHANGED <<hubVars, reader, request, pinger, channelVars, socketVars,
                 historyVars>>

(* The range over outbound ends when it is closed and drained. *)
WriterFinishes(c) ==
  /\ outbound[c] = <<>> /\ c \in closed
  /\ writer[c] \in {"idle", "parked"}
  /\ writer' = [writer EXCEPT ![c] = "done"]
  /\ Cancel(c)
  /\ UNCHANGED <<hubVars, reader, request, pinger, channelVars, up, historyVars>>

WriteSucceeds(c) ==
  /\ up[c]
  /\ Goto(writer, c, "write", "idle")
  /\ held' = [held EXCEPT ![c] = <<>>]
  /\ delivered' = [delivered EXCEPT ![c] = @ \o held[c]]
  /\ UNCHANGED <<hubVars, reader, request, pinger, outbound, closed, socketVars,
                 published, messages, offered>>

WriteFails(c) ==
  /\ ~up[c] \/ c \in cancelled
  /\ Goto(writer, c, "write", "disconnect")
  /\ up' = [up EXCEPT ![c] = FALSE]
  /\ held' = [held EXCEPT ![c] = <<>>]
  /\ UNCHANGED <<hubVars, reader, request, pinger, outbound, closed, cancelled,
                 historyVars>>

WriterDisconnectsOnly(c) ==
  /\ Goto(writer, c, "disconnect", "done")
  /\ H!Disconnect(c)
  /\ UNCHANGED <<reader, request, pinger, channelVars, socketVars, historyVars>>
WriterDisconnects(c) ==
  /\ Goto(writer, c, "disconnect", "done")
  /\ H!Disconnect(c)
  /\ Cancel(c)
  /\ UNCHANGED <<reader, request, pinger, channelVars, up, historyVars>>

-----------------------------------------------------------------------------
(* pingPump *)

PingerStops(c) ==
  /\ c \in cancelled
  /\ Goto(pinger, c, "wait", "done")
  /\ UNCHANGED <<hubVars, reader, request, writer, channelVars, socketVars,
                 historyVars>>

PingFails(c) ==
  /\ ~up[c]
  /\ Goto(pinger, c, "wait", "disconnect")
  /\ UNCHANGED <<hubVars, reader, request, writer, channelVars, socketVars,
                 historyVars>>

PingerDisconnects(c) ==
  /\ Goto(pinger, c, "disconnect", "closeOutbound")
  /\ H!Disconnect(c)
  /\ UNCHANGED <<reader, request, writer, channelVars, socketVars, historyVars>>

PingerEnds(c) ==
  /\ Goto(pinger, c, "closeOutbound", "done")
  /\ CloseOutbound(c)
  /\ Cancel(c)
  /\ UNCHANGED <<hubVars, reader, request, writer, held, outbound, up, historyVars>>

-----------------------------------------------------------------------------
(* The socket, the subscriber and the hub *)

(* The peer leaves, or an operation runs into its deadline. *)
SocketFails(c) ==
  /\ up[c]
  /\ up' = [up EXCEPT ![c] = FALSE]
  /\ UNCHANGED <<hubVars, pumpVars, channelVars, cancelled, historyVars>>

(* A handler of the subscriber broadcasts the next event. *)
Publish(r) ==
  /\ published < MaxEvents
  /\ H!BroadcastToRoom(r, published + 1)
  /\ published' = published + 1
  /\ UNCHANGED <<pumpVars, channelVars, socketVars, messages, offered, delivered>>

HubRequests ==
  /\ H!RunRegister \/ H!RunUnregister \/ H!RunDisconnect
  /\ UNCHANGED <<pumpVars, channelVars, socketVars, historyVars>>

HubBroadcastsIgnoring ==
  LET copies == [c \in Conns |-> H!Entries(Head(broadcast).roomID, c)]
      event == Head(broadcast).envelope
  IN /\ H!RunBroadcast(Conns)
     /\ Send(copies, event)
     /\ offered' = [c \in Conns |-> offered[c] \o Copies(copies[c], event)]
     /\ UNCHANGED <<reader, request, pinger, closed, socketVars, published,
                    messages, delivered>>
(* Run sends once for each entry of the room's slices, duplicates of a      *)
(* connection included if there were any.                                   *)
HubBroadcasts ==
  LET copies == [c \in Conns |-> H!Entries(Head(broadcast).roomID, c)]
      event == Head(broadcast).envelope
  IN /\ H!RunBroadcast({c \in Conns : copies[c] <= Free(c)})
     /\ Send(copies, event)
     /\ offered' = [c \in Conns |-> offered[c] \o Copies(copies[c], event)]
     /\ UNCHANGED <<reader, request, pinger, closed, socketVars, published,
                    messages, delivered>>

HubStops ==
  /\ H!RunStop
  /\ UNCHANGED <<pumpVars, channelVars, socketVars, historyVars>>

(* The Close that sendToRoom spawned for a slow connection. *)
CloseSlow(c) ==
  /\ H!CloseSlow(c)
  /\ up' = [up EXCEPT ![c] = FALSE]
  /\ UNCHANGED <<pumpVars, channelVars, cancelled, historyVars>>

-----------------------------------------------------------------------------

Init ==
  /\ H!Init
  /\ reader = [c \in Conns |-> "new"] /\ request = [c \in Conns |-> NoRoom]
  /\ writer = [c \in Conns |-> "off"] /\ pinger = [c \in Conns |-> "off"]
  /\ held = [c \in Conns |-> <<>>] /\ outbound = [c \in Conns |-> <<>>]
  /\ closed = {} /\ cancelled = {}
  /\ up = [c \in Conns |-> FALSE]
  /\ published = 0 /\ messages = [c \in Conns |-> 0]
  /\ offered = [c \in Conns |-> <<>>] /\ delivered = [c \in Conns |-> <<>>]

ReadPump(c) ==
  \/ RegisterInitial(c)
  \/ HandOver(c)
  \/ ReadFails(c)
  \/ ReaderDisconnects(c)
  \/ ReaderEnds(c)

WritePump(c) ==
  \/ WriterTakes(c)
  \/ WriterParks(c)
  \/ WriterFinishes(c)
  \/ WriteFails(c)
  \/ WriterDisconnects(c)

PingPump(c) ==
  \/ PingerStops(c)
  \/ PingFails(c)
  \/ PingerDisconnects(c)
  \/ PingerEnds(c)

Client(c) ==
  \/ Accept(c)
  \/ \E r \in RoomIDs : ReadSubscribe(c, r) \/ ReadUnsubscribe(c, r)
  \/ ReadOther(c)
  \/ SocketFails(c)

Next ==
  \/ \E c \in Conns : Client(c) \/ ReadPump(c) \/ WritePump(c) \/ PingPump(c)
  \/ \E c \in Conns : WriteSucceeds(c) \/ CloseSlow(c)
  \/ \E r \in RoomIDs : Publish(r)
  \/ HubRequests
  \/ HubBroadcasts
  \/ HubStops

Spec == Init /\ [][Next]_vars

(* A goroutine that can run, runs; select serves a case that stays ready; a *)
(* write ends, if only by its deadline, and so does the wait for a tick or  *)
(* a cancellation.  Nothing obliges a client to send or to leave.           *)
Fairness ==
  /\ \A c \in Conns :
       /\ WF_vars(ReadPump(c))
       /\ WF_vars(WritePump(c) \/ WriteSucceeds(c))
       /\ WF_vars(PingPump(c))
       /\ WF_vars(CloseSlow(c))
  /\ WF_vars(HubRequests /\ register' # register)
  /\ WF_vars(HubRequests /\ unregister' # unregister)
  /\ WF_vars(HubRequests /\ disconnect' # disconnect)
  /\ WF_vars(HubBroadcasts)

FairSpec == Spec /\ Fairness

-----------------------------------------------------------------------------
(* Properties *)

(* The types of the variables; the hub's are checked by Hub's TypeOK.       *)
TypeOK ==
  /\ reader \in [Conns -> {"new", "initial", "read", "subscribe", "unsubscribe",
                           "disconnect", "closeOutbound", "done"}]
  /\ request \in [Conns -> RoomIDs \cup {NoRoom}]
  /\ writer \in [Conns -> {"off", "idle", "parked", "write", "disconnect", "done"}]
  /\ pinger \in [Conns -> {"off", "wait", "disconnect", "closeOutbound", "done"}]
  /\ {held, outbound, offered, delivered} \subseteq [Conns -> Seq(Events \cup {Reply})]
  /\ \A c \in Conns :
       /\ Len(held[c]) = (IF writer[c] = "write" THEN 1 ELSE 0)
       /\ Len(outbound[c]) <= WriteBuffer
       /\ writer[c] = "parked" => outbound[c] = <<>>
       /\ request[c] # NoRoom <=> reader[c] \in {"initial", "subscribe", "unsubscribe"}
  /\ closed \subseteq Conns /\ cancelled \subseteq Conns
  /\ up \in [Conns -> BOOLEAN]
  /\ published \in 0 .. MaxEvents
  /\ messages \in [Conns -> 0 .. MaxMessages]

(* What was written to c's socket, what writePump holds and what is queued. *)
Sent(c) == delivered[c] \o held[c] \o outbound[c]

(* A connection whose socket works and that the hub has not marked slow has *)
(* lost nothing: what it was written, holds and has queued is, in order,    *)
(* everything the hub ever offered it, among the replies that Send took.    *)
(* Send drops an event silently only for a connection that is being closed  *)
(* (sendToRoom, Send).                                                      *)
NoSilentLoss ==
  \A c \in Conns : up[c] /\ c \notin slow => offered[c] = Sent(c)

(* The events of s, but for the replies among them, are in publication      *)
(* order and none is there twice.                                           *)
InOrder(s) ==
  \A i, j \in DOMAIN s : i < j /\ Reply \notin {s[i], s[j]} => s[i] < s[j]

(* A client sees the events in the order in which they were broadcast, each *)
(* at most once, over all its rooms, subscriptions and duplicates of them.  *)
DeliveredInOrder == \A c \in Conns : InOrder(delivered[c])

(* The hub gives up only on a slow client, one that is behind with          *)
(* envelopes waiting in its buffer, or whose outbound channel is closed:    *)
(* "If the buffer is full, the connection is closed" (sendToRoom, Send).    *)
(* Without write_buffer, which the shipped configuration does not set,      *)
(* WriteBuffer is 0 and the code does not keep to it: a client that has     *)
(* written all it was sent is cut off because its writePump has not got     *)
(* back to its receive.                                                     *)
SlowOnlyWhenBehind ==
  [][\A c \in slow' \ slow : outbound[c] # <<>> \/ c \in closed]_vars

(* A pump that has ended has woken the others: the read and the wait for a  *)
(* tick by the cancelled context, and the range over outbound, which sees   *)
(* no context, by the close of the channel, which only the end of readPump  *)
(* is sure to bring.  A channel that is closed is one that somebody still   *)
(* answers for: its connection is on its way out.                           *)
EndWakesOthers ==
  \A c \in Conns :
    /\ "done" \in {reader[c], writer[c], pinger[c]} => c \in cancelled
    /\ reader[c] = "done" => c \in closed
    /\ c \in closed => c \in cancelled /\ ~up[c]

Ended(c) == reader[c] = "done" /\ writer[c] = "done" /\ pinger[c] = "done"

(* Once the socket of a connection is gone, whichever pump notices, all     *)
(* three pumps end, even those blocked on a hub channel or on outbound, for *)
(* as long as the hub runs.                                                 *)
PumpsStop ==
  \A c \in Conns :
    ~up[c] /\ reader[c] # "new" ~> (Ended(c) \/ ~running)

(* Nothing of c waits on the channels of the hub. *)
Settled(c) ==
  /\ c \notin Range(disconnect)
  /\ \A q \in Range(register) \cup Range(unregister) : q.conn # c

(* The hub forgets a connection that has ended: its Disconnect "removes     *)
(* from ALL subscribed rooms".                                              *)
EndedLeavesRooms ==
  \A c \in Conns : Ended(c) /\ Settled(c) => \A r \in RoomIDs : c \notin H!Recipients(r)

=============================================================================
