--------------------------- MODULE EventDelivery ---------------------------
(***************************************************************************)
(* From the streams to the hub: the durable consumers of the WebSocket     *)
(* connector (services/websocket/internal/subscriber/events.go), over the  *)
(* broadcast channel of its hub, while the process around them             *)
(* (services/websocket/cmd/main.go) starts, stops and crashes.             *)
(*                                                                         *)
(* JetStream and its client are external, modelled from the settings the   *)
(* code gives them: streams and durable consumers outlive the process, a   *)
(* new consumer begins with the oldest event, an event is acknowledged     *)
(* explicitly, comes again after AckWait and at most MaxDeliver times, and *)
(* Consume runs the handler of a consumer for one event after the other.   *)
(*                                                                         *)
(* The hub has no connections here: who receives a broadcast is the        *)
(* subject of WsConnector.                                                 *)
(***************************************************************************)
EXTENDS SequencesExt

CONSTANTS
  MaxEvents,   (* bound: how many events are published                     *)
  KindOf,      (* KindOf[e]: the subject of an event                       *)
  RoomOf,      (* RoomOf[e]: the room it names                             *)
  Garbled,     (* events whose payload may be one that does not unmarshal  *)
  MaxDeliver,  (* nats.max_deliver                                         *)
  BufferSize,  (* hub_buffer_size                                          *)
  MaxEnds      (* bound: how often the process ends                        *)

Events == 1 .. MaxEvents    (* an event is its place in publication order  *)

(* The consumers, in the order in which Start provisions them, and the      *)
(* stream of each.                                                          *)
Kinds == <<"message.created", "room.membership.changed", "room.updated">>
Streams == {"MESSAGE", "ROOM"}
StreamOf(i) == IF i = 1 THEN "MESSAGE" ELSE "ROOM"
Consumers == DOMAIN Kinds
ConsumerOf(e) == CHOOSE i \in Consumers : Kinds[i] = KindOf[e]

ASSUME DeliveryAssumption ==
  /\ {MaxEvents, MaxEnds} \subseteq Nat
  /\ {MaxDeliver, BufferSize} \subseteq Nat \ {0}
  /\ DOMAIN KindOf = Events /\ Range(KindOf) \subseteq Range(Kinds)
  /\ DOMAIN RoomOf = Events
  /\ Garbled \subseteq Events

VARIABLES
  rooms, userIDs, connRooms, register, unregister, disconnect, broadcast,
  roomCount, slow, countCh, waiting, running,       (* the hub             *)
  streams,     (* the streams their owners have provisioned                *)
  durable,     (* the consumers that exist at the server                   *)
  published,   (* how many events are in the streams                       *)
  unreadable,  (* those whose payload does not unmarshal                   *)
  delivery,    (* delivery[e]: the server's record of an event             *)
  process,     (* "down", "up", or "stopping" once its context is done     *)
  step,        (* how many consumers Start has provisioned, and 1 more     *)
               (* once it consumes from them                               *)
  draining,    (* Drain was called on them                                 *)
  inbox,       (* inbox[i]: delivered to consumer i and not yet handled    *)
  handler,     (* handler[i]: the event in its handler, and where          *)
  ends,        (* how often the process has ended                          *)
  feed,        (* history: the events Run has broadcast, in order          *)
  lost         (* history: events on the channel of a process that ended   *)

hubVars == <<rooms, userIDs, connRooms, register, unregister, disconnect,
             broadcast, roomCount, slow, countCh, waiting, running>>
streamVars == <<streams, durable, published, unreadable>>
processVars == <<process, step, draining, ends>>
historyVars == <<feed, lost>>
vars == <<hubVars, streamVars, delivery, processVars, inbox, handler, historyVars>>

H == INSTANCE Hub WITH Callers <- {}, Conns <- {}, UserOf <- <<>>,
                       RoomIDs <- {RoomOf[e] : e \in Events}

Idle == [at |-> "idle", event |-> 0]

-----------------------------------------------------------------------------
(* The streams *)

(* The service that owns a stream has started: ProvisionStreams. *)
Provision(s) ==
  /\ s \notin streams
  /\ streams' = streams \cup {s}
  /\ UNCHANGED <<hubVars, durable, published, unreadable, delivery, processVars,
                 inbox, handler, historyVars>>

(* A service publishes; JetStream has stored the event. *)
Publish ==
  LET e == published + 1
  IN /\ published < MaxEvents
     /\ StreamOf(ConsumerOf(e)) \in streams
     /\ published' = e
     /\ \/ UNCHANGED unreadable
        \/ e \in Garbled /\ unreadable' = unreadable \cup {e}
     /\ delivery' = [delivery EXCEPT ![e].state = "stored"]
     /\ UNCHANGED <<hubVars, streams, durable, processVars, inbox, handler,
                    historyVars>>

-----------------------------------------------------------------------------
(* Start: three consumers are created, or found, and then consumed from.    *)
(* ProvisionConsumerWithRetry goes on asking while the stream is missing.   *)

Launch ==
  /\ process = "down"
  /\ process' = "up"
  /\ UNCHANGED <<hubVars, streamVars, delivery, step, draining, ends, inbox,
                 handler, historyVars>>

Provisioned(i) ==
  /\ process = "up" /\ step + 1 = i
  /\ StreamOf(i) \in streams
  /\ step' = i
  /\ UNCHANGED <<hubVars, streams, published, unreadable, process, draining, ends,
                 inbox, handler, historyVars>>

ProvisionConsumerMissed(i) == Provisioned(i) /\ UNCHANGED <<durable, delivery>>
ProvisionConsumerNew(i) ==
  /\ Provisioned(i)
  /\ durable' = durable \cup {i}
  /\ delivery' = [e \in Events |->
       IF i \notin durable /\ e <= published /\ ConsumerOf(e) = i
       THEN [delivery[e] EXCEPT !.state = "settled"]
       ELSE delivery[e]]
ProvisionConsumer(i) ==
  /\ Provisioned(i)
  /\ durable' = durable \cup {i}
  /\ UNCHANGED delivery

Consume ==
  /\ process # "down" /\ step = Len(Kinds)
  /\ step' = step + 1
  /\ UNCHANGED <<hubVars, streamVars, delivery, process, draining, ends, inbox,
                 handler, historyVars>>

Started == step > Len(Kinds)

-----------------------------------------------------------------------------
(* The consumers at the server *)

(* New events are delivered in the order of the stream; one that comes      *)
(* again may come at any place among them.                                  *)
Deliver(e) ==
  LET i == ConsumerOf(e)
  IN /\ process # "down" /\ Started /\ ~draining
     /\ delivery[e].state = "stored" /\ delivery[e].count < MaxDeliver
     /\ \A d \in 1 .. e - 1 : ConsumerOf(d) = i => delivery[d].count > 0
     /\ delivery' = [delivery EXCEPT ![e] =
                       [state |-> "out", count |-> @.count + 1]]
     /\ inbox' = [inbox EXCEPT ![i] = Append(@, e)]
     /\ UNCHANGED <<hubVars, streamVars, processVars, handler, historyVars>>

AckWaitExpires(e) ==
  /\ delivery[e].state = "out"
  /\ delivery' = [delivery EXCEPT ![e].state = "stored"]
  /\ UNCHANGED <<hubVars, streamVars, processVars, inbox, handler, historyVars>>

Settle(e) == delivery' = [delivery EXCEPT ![e].state = "settled"]

-----------------------------------------------------------------------------
(* The handlers.  An acknowledgement may not arrive, which is only logged.  *)

Handling(e) == [at |-> IF e \in unreadable THEN "term" ELSE "broadcast", event |-> e]

TakeAcks(i) ==
  /\ handler[i] = Idle /\ inbox[i] # <<>>
  /\ inbox' = [inbox EXCEPT ![i] = Tail(@)]
  /\ handler' = [handler EXCEPT ![i] = Handling(Head(inbox[i]))]
  /\ Settle(Head(inbox[i]))
  /\ UNCHANGED <<hubVars, streamVars, processVars, historyVars>>
Take(i) ==
  /\ handler[i] = Idle /\ inbox[i] # <<>>
  /\ inbox' = [inbox EXCEPT ![i] = Tail(@)]
  /\ handler' = [handler EXCEPT ![i] = Handling(Head(inbox[i]))]
  /\ UNCHANGED <<hubVars, streamVars, delivery, processVars, historyVars>>

(* BroadcastToRoom waits while the channel is full, and for ever if Run has *)
(* returned meanwhile.                                                      *)
HandOver(i) ==
  LET e == handler[i].event
  IN /\ handler[i].at = "broadcast"
     /\ H!BroadcastToRoom(RoomOf[e], e)
     /\ handler' = [handler EXCEPT ![i].at = "ack"]
     /\ UNCHANGED <<streamVars, delivery, processVars, inbox, historyVars>>

AckUntilHeard(i) ==
  /\ handler[i].at \in {"ack", "term"}
  /\ \/ /\ Settle(handler[i].event)
        /\ handler' = [handler EXCEPT ![i] = Idle]
     \/ /\ handler' = [handler EXCEPT ![i] = Handling(@.event)]
        /\ UNCHANGED delivery
  /\ UNCHANGED <<hubVars, streamVars, processVars, inbox, historyVars>>
(* Ack, or Term of an event that does not unmarshal. *)
Ack(i) ==
  /\ handler[i].at \in {"ack", "term"}
  /\ Settle(handler[i].event) \/ UNCHANGED delivery
  /\ handler' = [handler EXCEPT ![i] = Idle]
  /\ UNCHANGED <<hubVars, streamVars, processVars, inbox, historyVars>>

-----------------------------------------------------------------------------
(* The hub, and the end of the process *)

HubBroadcasts ==
  /\ H!RunBroadcast({})
  /\ feed' = Append(feed, Head(broadcast).envelope)
  /\ UNCHANGED <<streamVars, delivery, processVars, inbox, handler, lost>>

(* The context of run is done: from here on Run, the goroutine that drains  *)
(* the consumers and run itself go their own ways.                          *)
Signal ==
  /\ process = "up"
  /\ ends < MaxEnds
  /\ process' = "stopping"
  /\ UNCHANGED <<hubVars, streamVars, delivery, step, draining, ends, inbox,
                 handler, historyVars>>

HubStops ==
  /\ process = "stopping"
  /\ H!RunStop
  /\ UNCHANGED <<streamVars, delivery, processVars, inbox, handler, historyVars>>

(* What is in the inboxes is still handled. *)
Drain ==
  /\ process = "stopping" /\ Started /\ ~draining
  /\ draining' = TRUE
  /\ UNCHANGED <<hubVars, streamVars, delivery, process, step, ends, inbox, handler,
                 historyVars>>

(* The memory of the process is gone, the server remembers. *)
End ==
  /\ process' = "down" /\ step' = 0 /\ draining' = FALSE
  /\ inbox' = [i \in Consumers |-> <<>>]
  /\ handler' = [i \in Consumers |-> Idle]
  /\ ends' = ends + 1
  /\ lost' = lost \cup {m.envelope : m \in Range(broadcast)}
  /\ broadcast' = <<>> /\ running' = TRUE
  /\ UNCHANGED <<rooms, userIDs, connRooms, register, unregister, disconnect,
                 roomCount, slow, countCh, waiting, streamVars, delivery, feed>>

(* run returns: after the server was shut down, or out of Start if that     *)
(* was still waiting for a stream.  Nothing waits for the handlers.         *)
Exit == process = "stopping" /\ End

Crash == process # "down" /\ ends < MaxEnds /\ End

-----------------------------------------------------------------------------

Init ==
  /\ H!Init
  /\ streams = {} /\ durable = {} /\ published = 0 /\ unreadable = {}
  /\ delivery = [e \in Events |-> [state |-> "unpublished", count |-> 0]]
  /\ process = "down" /\ step = 0
  /\ draining = FALSE
  /\ inbox = [i \in Consumers |-> <<>>]
  /\ handler = [i \in Consumers |-> Idle]
  /\ ends = 0 /\ feed = <<>> /\ lost = {}

Start == Consume \/ \E i \in Consumers : ProvisionConsumer(i)

Handle(i) == Take(i) \/ HandOver(i) \/ Ack(i)

Next ==
  \/ \E s \in Streams : Provision(s)
  \/ Publish
  \/ Launch
  \/ Start
  \/ \E e \in Events : Deliver(e) \/ AckWaitExpires(e)
  \/ \E i \in Consumers : Handle(i)
  \/ HubBroadcasts
  \/ Signal \/ HubStops \/ Drain \/ Exit \/ Crash

Spec == Init /\ [][Next]_vars

(* The owners of the streams come up; JetStream delivers what it may and    *)
(* takes back what is not acknowledged; a goroutine that can run, runs.     *)
(* Nobody is obliged to publish, to start the process or to end it.         *)
Fairness ==
  /\ \A s \in Streams : WF_vars(Provision(s))
  /\ WF_vars(Start)
  /\ \A e \in Events : WF_vars(Deliver(e)) /\ WF_vars(AckWaitExpires(e))
  /\ \A i \in Consumers : WF_vars(Handle(i))
  /\ WF_vars(HubBroadcasts)

FairSpec == Spec /\ Fairness

-----------------------------------------------------------------------------
(* Properties *)

Broadcast(e) == e \in Range(feed)

OnChannel(e) == \E m \in Range(broadcast) : m.envelope = e

InHand(i) == IF handler[i] = Idle THEN <<>> ELSE <<handler[i].event>>

(* The types of the variables; an event is with the consumer of its subject,*)
(* and only while that is being consumed from.                              *)
TypeOK ==
  /\ streams \subseteq Streams /\ durable \subseteq Consumers
  /\ published \in 0 .. MaxEvents /\ unreadable \subseteq Garbled
  /\ delivery \in [Events -> [state : {"unpublished", "stored", "out", "settled"},
                              count : 0 .. MaxDeliver]]
  /\ process \in {"down", "up", "stopping"}
  /\ step \in 0 .. Len(Kinds) + 1
  /\ draining \in BOOLEAN
  /\ \A i \in Consumers :
       /\ handler[i].at \in {"idle", "broadcast", "ack", "term"}
       /\ \A e \in Range(inbox[i] \o InHand(i)) :
            e <= published /\ ConsumerOf(e) = i /\ i \in durable
       /\ ~Started => inbox[i] \o InHand(i) = <<>>
  /\ Range(feed) \cup lost \subseteq 1 .. published

(* An event is acknowledged only when it is out of the handler's hands:     *)
(* broadcast already, or on the channel of a hub, and the only ones that    *)
(* are never broadcast were there when a process ended.  (The handlers call *)
(* BroadcastToRoom before Ack.)                                             *)
AckedIsHandedOver ==
  \A e \in Events \ unreadable :
    delivery[e].state = "settled" => Broadcast(e) \/ OnChannel(e) \/ e \in lost

(* Clients see an event again only if JetStream delivered it again, and     *)
(* never more than MaxDeliver times, through lost acknowledgements, slow    *)
(* handlers, restarts and drains alike.                                     *)
OncePerDelivery ==
  \A e \in Events :
    Cardinality({n \in DOMAIN feed : feed[n] = e}) <= delivery[e].count

(* Of one subject, an event overtakes an earlier one only if that one was   *)
(* delivered again: what arrives at the first attempt is broadcast in the   *)
(* order of the stream.                                                     *)
OnlyRedeliveriesOvertaken ==
  \A m, n \in DOMAIN feed :
    m < n /\ feed[n] < feed[m] /\ ConsumerOf(feed[n]) = ConsumerOf(feed[m])
      => delivery[feed[n]].count > 1

(* Both: but for redeliveries, a client sees the stream of each subject.    *)
FeedFollowsStream == OncePerDelivery /\ OnlyRedeliveriesOvertaken

(* What excuses an event that is not broadcast: it cannot be read, its      *)
(* deliveries are used up, or it was on the channel of a process that ended.*)
Excused(e) ==
  \/ e \in unreadable
  \/ delivery[e].state = "stored" /\ delivery[e].count = MaxDeliver
  \/ e \in lost

(* If the connector stays up in the end, however often it ended before, it  *)
(* catches up: again and again every event so far is broadcast or excused,  *)
(* those published before its first start and while it was down included.   *)
CatchesUp ==
  <>[](process = "up") =>
    []<>(\A e \in 1 .. published : Broadcast(e) \/ Excused(e))

=============================================================================
