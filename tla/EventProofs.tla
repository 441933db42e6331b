---------------------------- MODULE EventProofs ----------------------------
(***************************************************************************)
(* Proofs about EventDelivery, for any number of events, any buffer size,  *)
(* any MaxDeliver and any number of restarts and crashes: an event is      *)
(* acknowledged only once it is handed over, and the feed of the clients   *)
(* follows the stream but for redeliveries.                                *)
(*                                                                         *)
(* The server settles what a handler acknowledges, so the invariant has to *)
(* follow the event into the handler: what waits there for its Ack is      *)
(* handed over (AcksHandedOver), what waits for its Term cannot be read    *)
(* (TermsUnreadable).  "Handed over" survives every step because an event  *)
(* only moves on: from the channel to the feed, or, when the process ends, *)
(* from the channel to lost.                                               *)
(*                                                                         *)
(* How often and in which order events reach the feed is settled long      *)
(* before they do: the invariant speaks of the line of a consumer (handler,*)
(* then inbox) and of the line of the hub (feed, then channel) that all    *)
(* three consumers hand over to (LinesOK).  Copies of an event are counted *)
(* over both lines; order is kept within a line and from one to the next;  *)
(* and the server's rule for first deliveries (DeliveredInTurn) is what    *)
(* makes an early event at the end of a line one that came again.          *)
(*                                                                         *)
(* Then about the processes that carry and keep the streams, ServiceProcess*)
(* for any deployments and bounds: a server that serves has the connections*)
(* of its handlers, room in errCh for its error, and its streams; handlers *)
(* of events begin with every connection open.  The invariant is one of    *)
(* each process (ServiceOK); it counts the errors that wait in errCh with  *)
(* those still owed, where a process stands says how much of its start is  *)
(* behind it, and events end with NATS, which is first to close (EventsOK).*)
(* A process touches the others only by the streams it provisions, and     *)
(* those never go away (ProcessMoves).                                     *)
(***************************************************************************)
EXTENDS EventDelivery, ServiceProcess, FiniteSetTheorems, SequenceTheorems, TLAPS

HandedOver(e) == Broadcast(e) \/ OnChannel(e) \/ e \in lost

Message == [roomID : {RoomOf[e] : e \in Events}, envelope : Events]

DeliveryTypes ==
  /\ published \in 0 .. MaxEvents
  /\ unreadable \subseteq Events
  /\ delivery \in [Events -> [state : {"unpublished", "stored", "out", "settled"},
                              count : Nat]]
  /\ inbox \in [Consumers -> Seq(Events)]
  /\ handler \in [Consumers -> [at : {"idle", "broadcast", "ack", "term"},
                                event : 0 .. MaxEvents]]
  /\ broadcast \in Seq(Message)
  /\ feed \in Seq(Events)
  /\ lost \subseteq Events

HoldsEvent ==
  \A i \in Consumers : handler[i].at # "idle" => handler[i].event \in Events

AcksHandedOver ==
  \A i \in Consumers : handler[i].at = "ack" => HandedOver(handler[i].event)

TermsUnreadable ==
  \A i \in Consumers : handler[i].at = "term" => handler[i].event \in unreadable

IInv ==
  /\ DeliveryTypes
  /\ HoldsEvent /\ AcksHandedOver /\ TermsUnreadable
  /\ AckedIsHandedOver

-----------------------------------------------------------------------------
(* Handing over *)

LEMMA Settled ==
  ASSUME IInv, NEW e \in Events, e \notin unreadable, delivery[e].state = "settled"
  PROVE  HandedOver(e)
BY DEF IInv, AckedIsHandedOver, HandedOver

(* The invariant of the handlers and of the server's record, after a step   *)
(* that takes nothing back and neither gives a handler an event nor settles *)
(* one.                                                                     *)
LEMMA NothingNew ==
  ASSUME IInv,
         \A e \in Events : HandedOver(e) => HandedOver(e)',
         unreadable \subseteq unreadable',
         \A i \in Consumers : handler'[i] = handler[i] \/ handler'[i] = Idle,
         \A e \in Events : delivery'[e].state = "settled" =>
                             delivery[e].state = "settled"
  PROVE  HoldsEvent' /\ AcksHandedOver' /\ TermsUnreadable' /\ AckedIsHandedOver'
<1>1. HoldsEvent' /\ AcksHandedOver' /\ TermsUnreadable'
  BY DEF IInv, HoldsEvent, AcksHandedOver, TermsUnreadable, Idle, HandedOver
<1>2. AckedIsHandedOver'
  BY DEF IInv, AckedIsHandedOver, HandedOver
<1> QED BY <1>1, <1>2

LEMMA HandedOverKept ==
  ASSUME UNCHANGED <<feed, broadcast, lost>>
  PROVE  \A e \in Events : HandedOver(e) <=> HandedOver(e)'
BY DEF HandedOver, Broadcast, OnChannel

LEMMA HandedOverOnAppend ==
  ASSUME DeliveryTypes, NEW m \in Message, broadcast' = Append(broadcast, m),
         UNCHANGED <<feed, lost>>
  PROVE  /\ \A e \in Events : HandedOver(e) => HandedOver(e)'
         /\ HandedOver(m.envelope)'
<1>1. /\ Len(broadcast') = Len(broadcast) + 1
      /\ \A n \in 1 .. Len(broadcast) : broadcast'[n] = broadcast[n]
      /\ broadcast'[Len(broadcast) + 1] = m
      /\ DOMAIN broadcast' = 1 .. Len(broadcast) + 1
      /\ DOMAIN broadcast = 1 .. Len(broadcast)
      /\ Len(broadcast) \in Nat
  BY DEF DeliveryTypes
<1>2. Range(broadcast) \subseteq Range(broadcast') /\ m \in Range(broadcast')
  BY <1>1 DEF Range
<1> QED BY <1>2 DEF HandedOver, Broadcast, OnChannel

LEMMA HandedOverOnTail ==
  ASSUME DeliveryTypes, broadcast # <<>>, broadcast' = Tail(broadcast),
         feed' = Append(feed, Head(broadcast).envelope), UNCHANGED lost
  PROVE  /\ \A e \in Events : HandedOver(e) => HandedOver(e)'
         /\ broadcast' \in Seq(Message) /\ feed' \in Seq(Events)
<1>1. /\ Len(broadcast) \in Nat \ {0} /\ DOMAIN broadcast = 1 .. Len(broadcast)
      /\ broadcast' \in Seq(Message) /\ Len(broadcast') = Len(broadcast) - 1
      /\ DOMAIN broadcast' = 1 .. Len(broadcast) - 1
      /\ \A n \in 1 .. Len(broadcast) - 1 : broadcast'[n] = broadcast[n + 1]
      /\ Head(broadcast) = broadcast[1] /\ Head(broadcast) \in Message
  BY DEF DeliveryTypes
<1>2. \A n \in DOMAIN broadcast : n = 1 \/ (n - 1 \in DOMAIN broadcast'
                                           /\ broadcast'[n - 1] = broadcast[n])
  BY <1>1
<1>3. \A m \in Range(broadcast) : m = Head(broadcast) \/ m \in Range(broadcast')
  <2>1. TAKE m \in Range(broadcast)
  <2>2. PICK n \in DOMAIN broadcast : m = broadcast[n]
    BY DEF Range
  <2>3. CASE n = 1
    BY <1>1, <2>2, <2>3
  <2>4. CASE n - 1 \in DOMAIN broadcast' /\ broadcast'[n - 1] = broadcast[n]
    BY <2>2, <2>4 DEF Range
  <2> QED BY <1>2, <2>3, <2>4
<1> DEFINE h == Head(broadcast).envelope
<1>4. h \in Events
  BY <1>1 DEF Message
<1> HIDE DEF h
<1>5. /\ feed' = Append(feed, h) /\ feed' \in Seq(Events)
      /\ Len(feed) \in Nat /\ DOMAIN feed = 1 .. Len(feed)
      /\ DOMAIN feed' = 1 .. Len(feed) + 1
      /\ \A n \in 1 .. Len(feed) : feed'[n] = feed[n]
      /\ feed'[Len(feed) + 1] = h
  BY <1>4 DEF DeliveryTypes, h
<1>6. Range(feed) \subseteq Range(feed') /\ h \in Range(feed')
  BY <1>5 DEF Range
<1>7. ASSUME NEW e \in Events, HandedOver(e)
      PROVE  HandedOver(e)'
  <2>1. CASE Broadcast(e)
    BY <2>1, <1>6 DEF HandedOver, Broadcast
  <2>2. CASE OnChannel(e)
    <3>1. PICK m \in Range(broadcast) : m.envelope = e
      BY <2>2 DEF OnChannel
    <3>2. CASE m = Head(broadcast)
      BY <3>1, <3>2, <1>6 DEF HandedOver, Broadcast, h
    <3>3. CASE m \in Range(broadcast')
      BY <3>1, <3>3 DEF HandedOver, OnChannel
    <3> QED BY <1>3, <3>2, <3>3
  <2>3. CASE e \in lost
    BY <2>3 DEF HandedOver
  <2> QED BY <1>7, <2>1, <2>2, <2>3 DEF HandedOver
<1> QED BY <1>1, <1>5, <1>7

-----------------------------------------------------------------------------
(* The handlers *)

LEMMA TakeKeeps ==
  ASSUME IInv, NEW i \in Consumers, Take(i)
  PROVE  IInv'
<1> DEFINE e == Head(inbox[i])
           h == Handling(e)
<1>1. /\ inbox[i] \in Seq(Events) /\ inbox[i] # <<>>
      /\ inbox' = [inbox EXCEPT ![i] = Tail(@)]
      /\ handler' = [handler EXCEPT ![i] = h]
      /\ UNCHANGED <<hubVars, streamVars, delivery, historyVars>>
  BY DEF IInv, DeliveryTypes, Take
<1>2. e \in Events /\ Tail(inbox[i]) \in Seq(Events)
  BY <1>1
<1>3. inbox' \in [Consumers -> Seq(Events)]
  BY <1>1, <1>2 DEF IInv, DeliveryTypes
<1>4. /\ h \in [at : {"idle", "broadcast", "ack", "term"}, event : 0 .. MaxEvents]
      /\ h.event = e /\ h.at \in {"broadcast", "term"}
      /\ h.at = "term" => e \in unreadable
  <2> HIDE DEF e
  <2> QED BY <1>2, DeliveryAssumption DEF Handling, Events
<1> HIDE DEF e, h
<1>5. \A j \in Consumers : handler'[j] = handler[j] \/ (handler'[j] = h /\ j = i)
  BY <1>1 DEF IInv, DeliveryTypes
<1>6. DeliveryTypes'
  BY <1>1, <1>3, <1>4 DEF IInv, DeliveryTypes, hubVars, streamVars, historyVars
<1>7. \A d \in Events : HandedOver(d) <=> HandedOver(d)'
  BY <1>1, HandedOverKept DEF hubVars, historyVars
<1>8. HoldsEvent' /\ AcksHandedOver' /\ TermsUnreadable'
  BY <1>1, <1>2, <1>4, <1>5, <1>7
     DEF IInv, HoldsEvent, AcksHandedOver, TermsUnreadable, streamVars
<1>9. AckedIsHandedOver'
  BY <1>1 DEF IInv, AckedIsHandedOver, Broadcast, OnChannel, hubVars, streamVars,
              historyVars
<1> QED BY <1>6, <1>8, <1>9 DEF IInv

LEMMA HandOverKeeps ==
  ASSUME IInv, NEW i \in Consumers, HandOver(i)
  PROVE  IInv'
<1> DEFINE e == handler[i].event
           m == [roomID |-> RoomOf[e], envelope |-> e]
<1>1. e \in Events
  BY DEF IInv, HoldsEvent, HandOver
<1>2. /\ broadcast' = Append(broadcast, m)
      /\ handler' = [handler EXCEPT ![i].at = "ack"]
      /\ UNCHANGED <<streamVars, delivery, inbox, historyVars>>
  BY DEF HandOver, H!BroadcastToRoom
<1>3. m \in Message /\ m.envelope = e
  BY <1>1 DEF Message
<1> HIDE DEF m
<1>4. broadcast' \in Seq(Message)
  BY <1>2, <1>3 DEF IInv, DeliveryTypes
<1>5. DeliveryTypes'
  BY <1>2, <1>4 DEF IInv, DeliveryTypes, streamVars, historyVars
<1>6. (\A d \in Events : HandedOver(d) => HandedOver(d)') /\ HandedOver(e)'
  BY <1>2, <1>3, HandedOverOnAppend DEF IInv, historyVars
<1>7. \A j \in Consumers : /\ handler'[j].event = handler[j].event
                           /\ handler'[j].at = IF j = i THEN "ack" ELSE handler[j].at
  BY <1>2 DEF IInv, DeliveryTypes
<1>8. HoldsEvent'
  BY <1>1, <1>7 DEF IInv, HoldsEvent
<1>9. AcksHandedOver'
  <2> SUFFICES ASSUME NEW j \in Consumers, handler'[j].at = "ack"
               PROVE  HandedOver(handler[j].event)'
    BY DEF AcksHandedOver
  <2>1. CASE j = i
    BY <2>1, <1>6, <1>7 DEF HandedOver, Broadcast, OnChannel
  <2>2. CASE j # i
    <3>1. handler[j].at = "ack"
      BY <2>2, <1>7
    <3>2. handler[j].event \in Events /\ HandedOver(handler[j].event)
      BY <3>1 DEF IInv, HoldsEvent, AcksHandedOver
    <3> QED BY <3>2, <1>6, <1>7 DEF HandedOver, Broadcast, OnChannel
  <2> QED BY <2>1, <2>2
<1>10. TermsUnreadable'
  BY <1>2, <1>7 DEF IInv, TermsUnreadable, streamVars
<1>11. AckedIsHandedOver'
  BY <1>2, <1>6 DEF IInv, AckedIsHandedOver, HandedOver, streamVars
<1> QED BY <1>5, <1>8, <1>9, <1>10, <1>11 DEF IInv

(* The step AckedIsHandedOver is about: what is acknowledged waited for it  *)
(* at "ack", and is handed over, or at "term", and cannot be read.          *)
LEMMA AckKeeps ==
  ASSUME IInv, NEW i \in Consumers, Ack(i)
  PROVE  IInv'
<1> DEFINE e == handler[i].event
<1>1. e \in Events /\ (HandedOver(e) \/ e \in unreadable)
  BY DEF IInv, HoldsEvent, AcksHandedOver, TermsUnreadable, Ack
<1>2. /\ handler' = [handler EXCEPT ![i] = Idle]
      /\ delivery' = [delivery EXCEPT ![e].state = "settled"] \/ UNCHANGED delivery
      /\ UNCHANGED <<hubVars, streamVars, inbox, historyVars>>
  BY DEF Ack, Settle
<1>3. DeliveryTypes'
  <2>1. delivery' \in [Events -> [state : {"unpublished", "stored", "out", "settled"},
                                  count : Nat]]
    <3>1. delivery \in [Events -> [state : {"unpublished", "stored", "out", "settled"},
                                   count : Nat]]
      BY DEF IInv, DeliveryTypes
    <3>2. CASE delivery' = [delivery EXCEPT ![e].state = "settled"]
      <4>1. delivery[e].count \in Nat
        BY <1>1, <3>1
      <4> HIDE DEF e
      <4> QED BY <1>1, <3>1, <3>2, <4>1
    <3>3. CASE UNCHANGED delivery
      BY <3>1, <3>3
    <3> QED BY <1>2, <3>2, <3>3
  <2>2. Idle \in [at : {"idle", "broadcast", "ack", "term"}, event : 0 .. MaxEvents]
    BY DeliveryAssumption DEF Idle
  <2>3. handler' \in [Consumers -> [at : {"idle", "broadcast", "ack", "term"},
                                    event : 0 .. MaxEvents]]
    BY <1>2, <2>2 DEF IInv, DeliveryTypes
  <2> QED BY <1>2, <2>1, <2>3
          DEF IInv, DeliveryTypes, hubVars, streamVars, historyVars
<1>4. \A j \in Consumers : handler'[j] = handler[j] \/ handler'[j] = Idle
  BY <1>2 DEF IInv, DeliveryTypes
<1>5. \A d \in Events : HandedOver(d) <=> HandedOver(d)'
  BY <1>2, HandedOverKept DEF hubVars, historyVars
<1>6. HoldsEvent' /\ AcksHandedOver' /\ TermsUnreadable'
  BY <1>2, <1>4, <1>5
     DEF IInv, HoldsEvent, AcksHandedOver, TermsUnreadable, Idle, streamVars
<1>7. \A d \in Events : delivery'[d].state = "settled"
                          => delivery[d].state = "settled" \/ d = e
  BY <1>1, <1>2 DEF IInv, DeliveryTypes
<1>8. AckedIsHandedOver'
  <2> SUFFICES ASSUME NEW d \in Events, d \notin unreadable',
                      delivery'[d].state = "settled"
               PROVE  HandedOver(d)'
    BY DEF AckedIsHandedOver, HandedOver
  <2>1. d \notin unreadable
    BY <1>2 DEF streamVars
  <2>2. HandedOver(d)
    BY <1>1, <1>7, <2>1, Settled
  <2> QED BY <2>2, <1>5
<1> QED BY <1>3, <1>6, <1>8 DEF IInv

-----------------------------------------------------------------------------
(* The hub and the process *)

LEMMA HubBroadcastsKeeps ==
  ASSUME IInv, HubBroadcasts
  PROVE  IInv'
<1>1. /\ broadcast # <<>> /\ broadcast' = Tail(broadcast)
      /\ feed' = Append(feed, Head(broadcast).envelope)
      /\ UNCHANGED <<streamVars, delivery, inbox, handler, lost>>
  BY DEF HubBroadcasts, H!RunBroadcast
<1>2. /\ \A e \in Events : HandedOver(e) => HandedOver(e)'
      /\ broadcast' \in Seq(Message) /\ feed' \in Seq(Events)
  BY <1>1, HandedOverOnTail DEF IInv
<1>3. DeliveryTypes'
  BY <1>1, <1>2 DEF IInv, DeliveryTypes, streamVars
<1>4. HoldsEvent' /\ AcksHandedOver' /\ TermsUnreadable' /\ AckedIsHandedOver'
  BY <1>1, <1>2, NothingNew DEF streamVars
<1> QED BY <1>3, <1>4 DEF IInv

LEMMA EndKeeps ==
  ASSUME IInv, End
  PROVE  IInv'
<1>1. /\ inbox' = [i \in Consumers |-> <<>>]
      /\ handler' = [i \in Consumers |-> Idle]
      /\ lost' = lost \cup {m.envelope : m \in Range(broadcast)}
      /\ broadcast' = <<>>
      /\ UNCHANGED <<streamVars, delivery, feed>>
  BY DEF End
<1>2. \A m \in Range(broadcast) : m.envelope \in Events
  <2>1. TAKE m \in Range(broadcast)
  <2>2. PICK n \in DOMAIN broadcast : m = broadcast[n]
    BY DEF Range
  <2>3. m \in Message
    BY <2>2 DEF IInv, DeliveryTypes
  <2> QED BY <2>3 DEF Message
<1>3. DeliveryTypes'
  BY <1>1, <1>2, DeliveryAssumption DEF IInv, DeliveryTypes, Idle, streamVars
<1>4. \A e \in Events : HandedOver(e) => HandedOver(e)'
  BY <1>1 DEF HandedOver, Broadcast, OnChannel
<1>5. HoldsEvent' /\ AcksHandedOver' /\ TermsUnreadable' /\ AckedIsHandedOver'
  BY <1>1, <1>4, NothingNew DEF streamVars
<1> QED BY <1>3, <1>5 DEF IInv

-----------------------------------------------------------------------------
(* The streams and the server *)

LEMMA PublishKeeps ==
  ASSUME IInv, Publish
  PROVE  IInv'
<1> DEFINE e == published + 1
<1>1. /\ e \in Events /\ published' = e
      /\ unreadable' = unreadable \/ unreadable' = unreadable \cup {e}
      /\ delivery' = [delivery EXCEPT ![e].state = "stored"]
      /\ UNCHANGED <<hubVars, inbox, handler, historyVars>>
  BY DeliveryAssumption DEF IInv, DeliveryTypes, Publish, Events
<1>2. DeliveryTypes'
  <2>1. e \in 0 .. MaxEvents
    BY <1>1, DeliveryAssumption DEF Events
  <2> HIDE DEF e
  <2>2. delivery' \in [Events -> [state : {"unpublished", "stored", "out", "settled"},
                                  count : Nat]]
    BY <1>1 DEF IInv, DeliveryTypes
  <2>3. unreadable' \subseteq Events
    BY <1>1 DEF IInv, DeliveryTypes
  <2> QED BY <1>1, <2>1, <2>2, <2>3 DEF IInv, DeliveryTypes, hubVars, historyVars
<1>3. \A d \in Events : HandedOver(d) <=> HandedOver(d)'
  BY <1>1, HandedOverKept DEF hubVars, historyVars
<1>4. \A d \in Events : delivery'[d].state = "settled" => delivery[d].state = "settled"
  BY <1>1 DEF IInv, DeliveryTypes
<1>5. HoldsEvent' /\ AcksHandedOver' /\ TermsUnreadable' /\ AckedIsHandedOver'
  BY <1>1, <1>3, <1>4, NothingNew
<1> QED BY <1>2, <1>5 DEF IInv

LEMMA DeliverKeeps ==
  ASSUME IInv, NEW e \in Events, ConsumerOf(e) \in Consumers, Deliver(e)
  PROVE  IInv'
<1> DEFINE i == ConsumerOf(e)
<1>1. /\ delivery' = [delivery EXCEPT ![e] = [state |-> "out", count |-> @.count + 1]]
      /\ inbox' = [inbox EXCEPT ![i] = Append(@, e)]
      /\ UNCHANGED <<hubVars, streamVars, handler, historyVars>>
  BY DEF Deliver
<1>i. i \in Consumers
  OBVIOUS
<1> HIDE DEF i
<1>2. delivery' \in [Events -> [state : {"unpublished", "stored", "out", "settled"},
                                count : Nat]]
  BY <1>1 DEF IInv, DeliveryTypes
<1>3. inbox' \in [Consumers -> Seq(Events)]
  <2>1. inbox[i] \in Seq(Events)
    BY <1>i DEF IInv, DeliveryTypes
  <2>2. Append(inbox[i], e) \in Seq(Events)
    BY <2>1
  <2> QED BY <1>1, <2>2 DEF IInv, DeliveryTypes
<1>4. DeliveryTypes'
  BY <1>1, <1>2, <1>3 DEF IInv, DeliveryTypes, hubVars, streamVars, historyVars
<1>5. \A d \in Events : HandedOver(d) <=> HandedOver(d)'
  BY <1>1, HandedOverKept DEF hubVars, historyVars
<1>6. \A d \in Events : delivery'[d].state = "settled" => delivery[d].state = "settled"
  BY <1>1 DEF IInv, DeliveryTypes
<1>7. HoldsEvent' /\ AcksHandedOver' /\ TermsUnreadable' /\ AckedIsHandedOver'
  BY <1>1, <1>5, <1>6, NothingNew DEF streamVars
<1> QED BY <1>4, <1>7 DEF IInv

LEMMA AckWaitExpiresKeeps ==
  ASSUME IInv, NEW e \in Events, AckWaitExpires(e)
  PROVE  IInv'
<1>1. /\ delivery' = [delivery EXCEPT ![e].state = "stored"]
      /\ UNCHANGED <<hubVars, streamVars, inbox, handler, historyVars>>
  BY DEF AckWaitExpires
<1>2. DeliveryTypes'
  BY <1>1 DEF IInv, DeliveryTypes, hubVars, streamVars, historyVars
<1>3. \A d \in Events : HandedOver(d) <=> HandedOver(d)'
  BY <1>1, HandedOverKept DEF hubVars, historyVars
<1>4. \A d \in Events : delivery'[d].state = "settled" => delivery[d].state = "settled"
  BY <1>1 DEF IInv, DeliveryTypes
<1>5. HoldsEvent' /\ AcksHandedOver' /\ TermsUnreadable' /\ AckedIsHandedOver'
  BY <1>1, <1>3, <1>4, NothingNew DEF streamVars
<1> QED BY <1>2, <1>5 DEF IInv

(* Starting, stopping and draining leave events where they are. *)
LEMMA OthersKeep ==
  ASSUME IInv,
         UNCHANGED <<published, unreadable, delivery, inbox, handler, broadcast,
                     feed, lost>>
  PROVE  IInv'
<1>1. DeliveryTypes'
  BY DEF IInv, DeliveryTypes
<1>2. \A e \in Events : HandedOver(e) <=> HandedOver(e)'
  BY HandedOverKept
<1>3. HoldsEvent' /\ AcksHandedOver' /\ TermsUnreadable' /\ AckedIsHandedOver'
  BY <1>2, NothingNew
<1> QED BY <1>1, <1>3 DEF IInv

-----------------------------------------------------------------------------

LEMMA ConsumerExists ==
  ASSUME NEW e \in Events
  PROVE  ConsumerOf(e) \in Consumers
<1>1. KindOf[e] \in Range(Kinds)
  BY DeliveryAssumption DEF Range
<1>2. \E i \in Consumers : Kinds[i] = KindOf[e]
  BY <1>1 DEF Range, Consumers
<1> QED BY <1>2, Zenon DEF ConsumerOf

LEMMA InitInv == Init => IInv
<1> SUFFICES ASSUME Init PROVE IInv
  OBVIOUS
<1>1. /\ published = 0 /\ unreadable = {} /\ lost = {}
      /\ broadcast = <<>> /\ feed = <<>>
      /\ inbox = [i \in Consumers |-> <<>>]
      /\ handler = [i \in Consumers |-> Idle]
      /\ delivery = [e \in Events |-> [state |-> "unpublished", count |-> 0]]
  BY DEF Init, H!Init
<1>2. DeliveryTypes
  BY <1>1, DeliveryAssumption DEF DeliveryTypes, Idle
<1>3. \A i \in Consumers : handler[i].at = "idle"
  BY <1>1 DEF Idle
<1>4. HoldsEvent /\ AcksHandedOver /\ TermsUnreadable
  BY <1>3 DEF HoldsEvent, AcksHandedOver, TermsUnreadable
<1>5. AckedIsHandedOver
  BY <1>1 DEF AckedIsHandedOver
<1> QED BY <1>2, <1>4, <1>5 DEF IInv

LEMMA NextKeeps == IInv /\ [Next]_vars => IInv'
<1> SUFFICES ASSUME IInv, [Next]_vars PROVE IInv'
  OBVIOUS
<1> USE DEF hubVars, streamVars, processVars, historyVars
<1>1. CASE \E s \in Streams : Provision(s)
  BY <1>1, OthersKeep DEF Provision
<1>2. CASE Publish
  BY <1>2, PublishKeeps
<1>3. CASE Launch
  BY <1>3, OthersKeep DEF Launch
<1>4. CASE Start
  BY <1>4, OthersKeep DEF Start, Consume, ProvisionConsumer, Provisioned
<1>5. CASE \E e \in Events : Deliver(e) \/ AckWaitExpires(e)
  BY <1>5, ConsumerExists, DeliverKeeps, AckWaitExpiresKeeps
<1>6. CASE \E i \in Consumers : Handle(i)
  BY <1>6, TakeKeeps, HandOverKeeps, AckKeeps DEF Handle
<1>7. CASE HubBroadcasts
  BY <1>7, HubBroadcastsKeeps
<1>8. CASE Signal \/ HubStops \/ Drain
  BY <1>8, OthersKeep DEF Signal, HubStops, H!RunStop, Drain
<1>9. CASE Exit \/ Crash
  BY <1>9, EndKeeps DEF Exit, Crash
<1>10. CASE UNCHANGED vars
  BY <1>10, OthersKeep DEF vars
<1> QED
  BY <1>1, <1>2, <1>3, <1>4, <1>5, <1>6, <1>7, <1>8, <1>9, <1>10 DEF Next

-----------------------------------------------------------------------------
(* The way of an event to the feed.  The events of every subject that were  *)
(* handed to the hub, broadcast or still on its channel, form one line;     *)
(* those of a consumer that were not handed over yet form another behind it.*)

Join(fed, msgs) == fed \o [n \in DOMAIN msgs |-> msgs[n].envelope]

Handed == Join(feed, broadcast)

Line(h, box) == IF h.at = "broadcast" THEN <<h.event>> \o box ELSE box

Waiting(i) == Line(handler[i], inbox[i])

Places(s, e) == {n \in DOMAIN s : s[n] = e}

Copies(s, e) == Cardinality(Places(s, e))

Overtakes(d, e) == d < e /\ ConsumerOf(d) = ConsumerOf(e)

Again == {e \in Events : delivery[e].count > 1}

(* Of a line, what has overtaken an earlier event is in "again". *)
InTurn(s, again) ==
  \A m, n \in DOMAIN s : m < n /\ Overtakes(s[n], s[m]) => s[n] \in again

(* The same of a line and the one behind it. *)
InTurnBehind(s, t, again) ==
  \A m \in DOMAIN s, n \in DOMAIN t : Overtakes(t[n], s[m]) => t[n] \in again

CopiesBounded ==
  \A e \in Events :
    Copies(Handed, e) + Copies(Waiting(ConsumerOf(e)), e) <= delivery[e].count

(* JetStream delivers an event for the first time when all before it have   *)
(* been delivered.                                                          *)
DeliveredInTurn ==
  \A e \in Events : delivery[e].count > 0 =>
    \A d \in Events : Overtakes(d, e) => delivery[d].count > 0

LinesInTurn ==
  /\ InTurn(Handed, Again)
  /\ \A i \in Consumers :
       /\ Range(Waiting(i)) \subseteq {e \in Events : ConsumerOf(e) = i}
       /\ InTurn(Waiting(i), Again)
       /\ InTurnBehind(Handed, Waiting(i), Again)

LinesOK == CopiesBounded /\ DeliveredInTurn /\ LinesInTurn

(* Copies of an event in a sequence. *)

LEMMA PlacesFinite ==
  ASSUME NEW s \in Seq(Events), NEW e
  PROVE  /\ IsFiniteSet(Places(s, e))
         /\ Copies(s, e) \in Nat
         /\ e \in Range(s) => Copies(s, e) > 0
         /\ s = <<>> => Copies(s, e) = 0
<1>1. Len(s) \in Nat /\ DOMAIN s = 1 .. Len(s)
  OBVIOUS
<1>2. IsFiniteSet(Places(s, e))
  <2>1. IsFiniteSet(1 .. Len(s))
    BY <1>1, FS_Interval
  <2> QED BY <1>1, <2>1, FS_Subset DEF Places
<1>3. Copies(s, e) \in Nat /\ (Copies(s, e) = 0 <=> Places(s, e) = {})
  BY <1>2, FS_CardinalityType, FS_EmptySet DEF Copies
<1>4. e \in Range(s) => Places(s, e) # {}
  BY DEF Range, Places
<1>5. s = <<>> => Places(s, e) = {}
  BY DEF Places
<1> QED BY <1>2, <1>3, <1>4, <1>5

LEMMA CopiesOnAppend ==
  ASSUME NEW s \in Seq(Events), NEW x \in Events, NEW e
  PROVE  Copies(Append(s, x), e) = Copies(s, e) + (IF x = e THEN 1 ELSE 0)
<1> DEFINE t == Append(s, x)
           l == Len(s) + 1
<1>1. /\ Len(s) \in Nat /\ DOMAIN s = 1 .. Len(s) /\ DOMAIN t = 1 .. l
      /\ \A n \in 1 .. Len(s) : t[n] = s[n]
      /\ t[l] = x
  BY AppendProperties
<1> HIDE DEF t
<1>2. l \notin Places(s, e) /\ l \in Nat
  BY <1>1 DEF Places
<1>3. CASE x = e
  <2>1. Places(t, e) = Places(s, e) \cup {l}
    BY <1>1, <1>3 DEF Places
  <2>2. Cardinality(Places(s, e) \cup {l}) = Cardinality(Places(s, e)) + 1
    BY <1>2, PlacesFinite, FS_AddElement
  <2> QED BY <1>3, <2>1, <2>2 DEF Copies, t
<1>4. CASE x # e
  <2>1. Places(t, e) = Places(s, e)
    BY <1>1, <1>4 DEF Places
  <2> QED BY <1>4, <2>1, PlacesFinite DEF Copies, t
<1> QED BY <1>3, <1>4

LEMMA CopiesOnTail ==
  ASSUME NEW s \in Seq(Events), s # <<>>, NEW e
  PROVE  Copies(s, e) = Copies(Tail(s), e) + (IF Head(s) = e THEN 1 ELSE 0)
<1> DEFINE t == Tail(s)
           S == Places(s, e) \ {1}
           shift == [n \in S |-> n - 1]
<1>1. /\ Len(s) \in Nat \ {0} /\ DOMAIN s = 1 .. Len(s)
      /\ DOMAIN t = 1 .. Len(s) - 1 /\ t \in Seq(Events)
      /\ \A n \in 1 .. Len(s) - 1 : t[n] = s[n + 1]
      /\ Head(s) = s[1]
  BY EmptySeq, HeadTailProperties
<1> HIDE DEF t
<1>2. shift \in Bijection(S, Places(t, e))
  <2>1. \A n \in S : n \in 2 .. Len(s) /\ s[n] = e
    BY <1>1 DEF Places
  <2>2. \A n \in S : n - 1 \in Places(t, e)
    BY <1>1, <2>1 DEF Places
  <2>3. \A m \in Places(t, e) : m + 1 \in S /\ m = (m + 1) - 1
    BY <1>1 DEF Places
  <2>4. \A m, n \in S : m - 1 = n - 1 => m = n
    BY <2>1
  <2> HIDE DEF S
  <2>5. \A m \in Places(t, e) : \E n \in S : shift[n] = m
    BY <2>3
  <2> QED BY <2>2, <2>4, <2>5 DEF Bijection, Injection, Surjection, IsInjective
<1>3. IsFiniteSet(Places(s, e))
  BY PlacesFinite
<1>4. IsFiniteSet(S)
  BY <1>3, FS_Subset
<1>5. Cardinality(Places(t, e)) = Cardinality(S)
  BY <1>2, <1>4, FS_Bijection DEF ExistsBijection
<1>6. CASE s[1] = e
  <2>1. Places(s, e) = S \cup {1} /\ 1 \notin S
    BY <1>1, <1>6 DEF Places
  <2>2. Cardinality(S \cup {1}) = Cardinality(S) + 1
    BY <1>4, <2>1, FS_AddElement
  <2> QED BY <1>1, <1>5, <1>6, <2>1, <2>2 DEF Copies, t
<1>7. CASE s[1] # e
  <2>1. Places(s, e) = S
    BY <1>7 DEF Places
  <2>2. Copies(t, e) = Copies(s, e)
    BY <1>5, <2>1 DEF Copies
  <2>3. Copies(s, e) \in Nat
    BY PlacesFinite
  <2> HIDE DEF S, shift
  <2> QED BY <1>1, <1>7, <2>2, <2>3 DEF t
<1> QED BY <1>6, <1>7

LEMMA CopiesOfPrefix ==
  ASSUME NEW s \in Seq(Events), NEW t \in Seq(Events), NEW e
  PROVE  Copies(s, e) <= Copies(s \o t, e)
<1>1. /\ s \o t \in Seq(Events)
      /\ \A n \in DOMAIN s : n \in DOMAIN (s \o t) /\ (s \o t)[n] = s[n]
  BY ConcatProperties
<1>2. Places(s, e) \subseteq Places(s \o t, e)
  BY <1>1 DEF Places
<1> QED BY <1>1, <1>2, PlacesFinite, FS_Subset DEF Copies

(* Events in turn: at the end of a line, and from the end of the one before.*)

LEMMA InTurnOnAppend ==
  ASSUME NEW s \in Seq(Events), NEW x \in Events, NEW again, InTurn(s, again),
         \A y \in Range(s) : Overtakes(x, y) => x \in again
  PROVE  InTurn(Append(s, x), again)
<1> DEFINE t == Append(s, x)
<1>1. /\ Len(s) \in Nat /\ DOMAIN s = 1 .. Len(s) /\ DOMAIN t = 1 .. Len(s) + 1
      /\ \A n \in 1 .. Len(s) : t[n] = s[n]
      /\ t[Len(s) + 1] = x
  BY AppendProperties
<1> HIDE DEF t
<1>2. SUFFICES ASSUME NEW m \in DOMAIN t, NEW n \in DOMAIN t, m < n,
                      Overtakes(t[n], t[m])
               PROVE  t[n] \in again
  BY DEF InTurn, t
<1>3. m \in DOMAIN s /\ t[m] = s[m]
  BY <1>1, <1>2
<1>4. CASE n \in DOMAIN s
  BY <1>1, <1>2, <1>3, <1>4 DEF InTurn
<1>5. CASE n \notin DOMAIN s
  <2>1. t[n] = x /\ s[m] \in Range(s)
    BY <1>1, <1>3, <1>5 DEF Range
  <2> QED BY <1>2, <1>3, <2>1
<1> QED BY <1>4, <1>5

LEMMA InTurnOnTail ==
  ASSUME NEW s \in Seq(Events), s # <<>>, NEW again, InTurn(s, again)
  PROVE  /\ InTurn(Tail(s), again)
         /\ \A d \in Range(Tail(s)) : Overtakes(d, Head(s)) => d \in again
         /\ Head(s) \in Range(s) /\ Range(Tail(s)) \subseteq Range(s)
<1> DEFINE t == Tail(s)
<1>1. /\ Len(s) \in Nat \ {0} /\ DOMAIN s = 1 .. Len(s)
      /\ DOMAIN t = 1 .. Len(s) - 1
      /\ \A n \in 1 .. Len(s) - 1 : t[n] = s[n + 1]
      /\ Head(s) = s[1]
  BY EmptySeq, HeadTailProperties
<1> HIDE DEF t
<1>2. \A n \in DOMAIN t : n + 1 \in DOMAIN s /\ t[n] = s[n + 1] /\ 1 < n + 1
  BY <1>1
<1>3. InTurn(t, again)
  <2> SUFFICES ASSUME NEW m \in DOMAIN t, NEW n \in DOMAIN t, m < n,
                      Overtakes(t[n], t[m])
               PROVE  t[n] \in again
    BY DEF InTurn
  <2>1. m + 1 < n + 1
    BY <1>1
  <2> QED BY <1>2, <2>1 DEF InTurn
<1>4. \A d \in Range(t) : Overtakes(d, Head(s)) => d \in again
  BY <1>1, <1>2 DEF InTurn, Range
<1>5. Head(s) \in Range(s) /\ Range(t) \subseteq Range(s)
  BY <1>1, <1>2 DEF Range
<1> QED BY <1>3, <1>4, <1>5 DEF t

LEMMA InTurnOfPrefix ==
  ASSUME NEW s \in Seq(Events), NEW t \in Seq(Events), NEW again,
         InTurn(s \o t, again)
  PROVE  InTurn(s, again)
<1>1. \A n \in DOMAIN s : n \in DOMAIN (s \o t) /\ (s \o t)[n] = s[n]
  BY ConcatProperties
<1> QED BY <1>1 DEF InTurn

LEMMA RangeOnAppend ==
  ASSUME NEW s \in Seq(Events), NEW x \in Events
  PROVE  Range(Append(s, x)) = Range(s) \cup {x}
<1>1. /\ Len(s) \in Nat /\ DOMAIN s = 1 .. Len(s)
      /\ DOMAIN Append(s, x) = 1 .. Len(s) + 1
      /\ \A n \in 1 .. Len(s) : Append(s, x)[n] = s[n]
      /\ Append(s, x)[Len(s) + 1] = x
  BY AppendProperties
<1>2. 1 .. Len(s) + 1 = 1 .. Len(s) \cup {Len(s) + 1}
  BY <1>1
<1> QED BY <1>1, <1>2 DEF Range

LEMMA BehindIsByElement ==
  ASSUME NEW s, NEW t, NEW again
  PROVE  InTurnBehind(s, t, again) <=>
           \A e \in Range(s), d \in Range(t) : Overtakes(d, e) => d \in again
BY DEF InTurnBehind, Range

(* The line of the hub. *)

LEMMA JoinShape ==
  ASSUME NEW fed \in Seq(Events), NEW msgs \in Seq(Message)
  PROVE  /\ Join(fed, msgs) \in Seq(Events)
         /\ Len(Join(fed, msgs)) = Len(fed) + Len(msgs)
         /\ \A n \in 1 .. Len(fed) : Join(fed, msgs)[n] = fed[n]
         /\ \A n \in 1 .. Len(msgs) : Join(fed, msgs)[Len(fed) + n] = msgs[n].envelope
<1> DEFINE es == [n \in DOMAIN msgs |-> msgs[n].envelope]
<1>1. Len(msgs) \in Nat /\ DOMAIN msgs = 1 .. Len(msgs) /\ Len(fed) \in Nat
  OBVIOUS
<1>2. \A n \in DOMAIN msgs : msgs[n].envelope \in Events
  <2>1. \A n \in DOMAIN msgs : msgs[n] \in Message
    BY <1>1, ElementOfSeq
  <2> QED BY <2>1 DEF Message
<1>3. es \in [1 .. Len(msgs) -> Events]
  BY <1>1, <1>2
<1>4. es \in Seq(Events) /\ Len(es) = Len(msgs)
  BY <1>1, <1>3, SeqDef
<1>5. \A n \in 1 .. Len(msgs) : es[n] = msgs[n].envelope
  BY <1>1
<1> HIDE DEF es
<1>6. /\ fed \o es \in Seq(Events) /\ Len(fed \o es) = Len(fed) + Len(es)
      /\ \A n \in 1 .. Len(fed) + Len(es) :
           (fed \o es)[n] = IF n <= Len(fed) THEN fed[n] ELSE es[n - Len(fed)]
  BY <1>4, ConcatProperties
<1> QED BY <1>1, <1>4, <1>5, <1>6 DEF Join, es

LEMMA JoinIsPrefixed ==
  ASSUME NEW fed \in Seq(Events), NEW msgs \in Seq(Message)
  PROVE  \E t \in Seq(Events) : Join(fed, msgs) = fed \o t
<1> DEFINE es == [n \in DOMAIN msgs |-> msgs[n].envelope]
<1>1. Len(msgs) \in Nat /\ DOMAIN msgs = 1 .. Len(msgs)
  OBVIOUS
<1>2. \A n \in DOMAIN msgs : msgs[n].envelope \in Events
  <2>1. \A n \in DOMAIN msgs : msgs[n] \in Message
    BY <1>1, ElementOfSeq
  <2> QED BY <2>1 DEF Message
<1>3. es \in Seq(Events)
  BY <1>1, <1>2, SeqDef
<1> QED BY <1>3 DEF Join

LEMMA JoinOnAppend ==
  ASSUME NEW fed \in Seq(Events), NEW msgs \in Seq(Message), NEW m \in Message
  PROVE  Join(fed, Append(msgs, m)) = Append(Join(fed, msgs), m.envelope)
<1> DEFINE b == Append(msgs, m)
           s == Join(fed, b)
           j == Join(fed, msgs)
           t == Append(j, m.envelope)
           l == Len(fed) + Len(msgs)
<1>1. /\ Len(fed) \in Nat /\ Len(msgs) \in Nat
      /\ b \in Seq(Message) /\ Len(b) = Len(msgs) + 1
      /\ \A n \in 1 .. Len(msgs) : b[n] = msgs[n]
      /\ b[Len(msgs) + 1] = m
      /\ m.envelope \in Events
  BY AppendProperties DEF Message
<1> HIDE DEF b
<1>2. /\ s \in Seq(Events) /\ Len(s) = Len(fed) + Len(b)
      /\ \A n \in 1 .. Len(fed) : s[n] = fed[n]
      /\ \A n \in 1 .. Len(b) : s[Len(fed) + n] = b[n].envelope
  BY <1>1, JoinShape
<1>3. /\ j \in Seq(Events) /\ Len(j) = l
      /\ \A n \in 1 .. Len(fed) : j[n] = fed[n]
      /\ \A n \in 1 .. Len(msgs) : j[Len(fed) + n] = msgs[n].envelope
  BY JoinShape
<1> HIDE DEF j, s
<1>4. /\ t \in Seq(Events) /\ Len(t) = l + 1
      /\ \A n \in 1 .. l : t[n] = j[n]
      /\ t[l + 1] = m.envelope
  BY <1>1, <1>3, AppendProperties
<1> HIDE DEF t
<1>5. \A n \in 1 .. l + 1 : s[n] = t[n]
  <2> TAKE n \in 1 .. l + 1
  <2>1. CASE n \in 1 .. Len(fed)
    BY <2>1, <1>1, <1>2, <1>3, <1>4
  <2>2. CASE n - Len(fed) \in 1 .. Len(msgs)
    <3> DEFINE k == n - Len(fed)
    <3>1. n = Len(fed) + k /\ k \in 1 .. Len(b) /\ n \in 1 .. l
      BY <2>2, <1>1
    <3>2. s[n] = b[k].envelope /\ j[n] = msgs[k].envelope
      BY <2>2, <3>1, <1>2, <1>3
    <3> QED BY <2>2, <3>1, <3>2, <1>1, <1>4
  <2>3. CASE n = l + 1
    <3>1. n = Len(fed) + Len(b) /\ Len(b) \in 1 .. Len(b)
      BY <2>3, <1>1
    <3>2. s[n] = b[Len(b)].envelope
      BY <3>1, <1>2
    <3> QED BY <2>3, <3>2, <1>1, <1>4
  <2> QED BY <1>1, <2>1, <2>2, <2>3
<1>6. s = t
  BY <1>1, <1>2, <1>4, <1>5, SeqEqual
<1> QED BY <1>6 DEF s, t, j, b

LEMMA JoinOnBroadcast ==
  ASSUME NEW fed \in Seq(Events), NEW msgs \in Seq(Message), msgs # <<>>
  PROVE  Join(Append(fed, Head(msgs).envelope), Tail(msgs)) = Join(fed, msgs)
<1> DEFINE h == Head(msgs).envelope
           f == Append(fed, h)
           b == Tail(msgs)
           s == Join(f, b)
           t == Join(fed, msgs)
           l == Len(fed) + Len(msgs)
<1>1. /\ Len(msgs) \in Nat \ {0} /\ Len(fed) \in Nat
      /\ b \in Seq(Message) /\ Len(b) = Len(msgs) - 1
      /\ \A n \in 1 .. Len(msgs) - 1 : b[n] = msgs[n + 1]
      /\ Head(msgs) = msgs[1] /\ Head(msgs) \in Message
  BY EmptySeq, HeadTailProperties
<1>2. h \in Events
  BY <1>1 DEF Message
<1> HIDE DEF h, b
<1>3. /\ f \in Seq(Events) /\ Len(f) = Len(fed) + 1
      /\ \A n \in 1 .. Len(fed) : f[n] = fed[n]
      /\ f[Len(fed) + 1] = h
  BY <1>2, AppendProperties
<1> HIDE DEF f
<1>4. /\ s \in Seq(Events) /\ Len(s) = Len(f) + Len(b)
      /\ \A n \in 1 .. Len(f) : s[n] = f[n]
      /\ \A n \in 1 .. Len(b) : s[Len(f) + n] = b[n].envelope
  BY <1>1, <1>3, JoinShape
<1>5. /\ t \in Seq(Events) /\ Len(t) = l
      /\ \A n \in 1 .. Len(fed) : t[n] = fed[n]
      /\ \A n \in 1 .. Len(msgs) : t[Len(fed) + n] = msgs[n].envelope
  BY JoinShape
<1> HIDE DEF s, t
<1>6. \A n \in 1 .. l : s[n] = t[n]
  <2> TAKE n \in 1 .. l
  <2>1. CASE n \in 1 .. Len(fed)
    BY <2>1, <1>1, <1>3, <1>4, <1>5
  <2>2. CASE n = Len(fed) + 1
    <3>1. s[n] = h
      BY <2>2, <1>1, <1>3, <1>4
    <3>2. 1 \in 1 .. Len(msgs) /\ t[Len(fed) + 1] = msgs[1].envelope
      <4>1. 1 \in 1 .. Len(msgs)
        BY <1>1
      <4> QED BY <4>1, <1>5
    <3> QED BY <2>2, <3>1, <3>2, <1>1 DEF h
  <2>3. CASE n - Len(f) \in 1 .. Len(msgs) - 1
    <3> DEFINE k == n - Len(f)
    <3>1. n = Len(f) + k /\ n = Len(fed) + (k + 1) /\ k + 1 \in 1 .. Len(msgs)
      BY <2>3, <1>1, <1>3
    <3>2. s[n] = b[k].envelope /\ t[n] = msgs[k + 1].envelope
      BY <2>3, <3>1, <1>1, <1>4, <1>5
    <3> QED BY <2>3, <3>2, <1>1
  <2> QED BY <1>1, <1>3, <2>1, <2>2, <2>3
<1>7. s = t
  BY <1>1, <1>3, <1>4, <1>5, <1>6, SeqEqual
<1> QED BY <1>7 DEF s, t, f, b, h

(* What leaves one of two heaps and may join the other. *)
LEMMA SumKept ==
  ASSUME NEW a \in Nat, NEW b \in Nat, NEW c \in Nat, NEW d \in Nat, NEW n \in Nat,
         NEW one \in Nat, a + b <= n, c <= a + one, b = d + one
  PROVE  c + d <= n
OBVIOUS

(* The steps *)

LEMMA LinesTyped ==
  ASSUME IInv
  PROVE  /\ Handed \in Seq(Events)
         /\ \A i \in Consumers : Waiting(i) \in Seq(Events)
         /\ \A e \in Events : delivery[e].count \in Nat
<1>1. Handed \in Seq(Events)
  BY JoinShape DEF IInv, DeliveryTypes, Handed
<1>2. ASSUME NEW i \in Consumers PROVE Waiting(i) \in Seq(Events)
  <2>1. inbox[i] \in Seq(Events)
    BY DEF IInv, DeliveryTypes
  <2>2. handler[i].at = "broadcast" => handler[i].event \in Events
    BY DEF IInv, HoldsEvent
  <2> QED BY <2>1, <2>2 DEF Waiting, Line
<1> QED BY <1>1, <1>2 DEF IInv, DeliveryTypes

LEMMA LinesStay ==
  ASSUME IInv, LinesOK, Handed' = Handed,
         \A i \in Consumers : Waiting(i)' = Waiting(i),
         \A e \in Events : delivery'[e].count = delivery[e].count
  PROVE  LinesOK'
<1>1. Again' = Again
  BY DEF Again
<1>2. CopiesBounded'
  BY ConsumerExists DEF LinesOK, CopiesBounded
<1>3. DeliveredInTurn'
  BY DEF LinesOK, DeliveredInTurn
<1>4. LinesInTurn'
  BY <1>1 DEF LinesOK, LinesInTurn
<1> QED BY <1>2, <1>3, <1>4 DEF LinesOK

(* The first of a line leaves it, for the line of the hub or for good. *)
LEMMA LinesOnTail ==
  ASSUME IInv, LinesOK, NEW i \in Consumers, Waiting(i) # <<>>,
         Waiting(i)' = Tail(Waiting(i)),
         \A j \in Consumers \ {i} : Waiting(j)' = Waiting(j),
         UNCHANGED delivery,
         \/ Handed' = Handed
         \/ Handed' = Append(Handed, Head(Waiting(i)))
  PROVE  LinesOK'
<1> DEFINE w == Waiting(i)
           h == Head(w)
<1>1. /\ Handed \in Seq(Events) /\ w \in Seq(Events) /\ Tail(w) \in Seq(Events)
      /\ \A j \in Consumers : Waiting(j) \in Seq(Events)
      /\ h \in Events
  BY LinesTyped
<1>2. Again' = Again
  BY DEF Again
<1>3. /\ InTurn(Tail(w), Again)
      /\ \A d \in Range(Tail(w)) : Overtakes(d, h) => d \in Again
      /\ h \in Range(w) /\ Range(Tail(w)) \subseteq Range(w)
  BY <1>1, InTurnOnTail DEF LinesOK, LinesInTurn
<1>4. ConsumerOf(h) = i
  BY <1>3 DEF LinesOK, LinesInTurn
<1>5. \A e \in Range(Handed), d \in Range(w) : Overtakes(d, e) => d \in Again
  BY BehindIsByElement DEF LinesOK, LinesInTurn
<1>6. CopiesBounded'
  <2> SUFFICES ASSUME NEW e \in Events
               PROVE  Copies(Handed', e) + Copies(Waiting(ConsumerOf(e))', e)
                        <= delivery[e].count
    BY DEF CopiesBounded
  <2> DEFINE j == ConsumerOf(e)
  <2>1. j \in Consumers /\ Waiting(j) \in Seq(Events)
    BY <1>1, ConsumerExists
  <2>2. Copies(Handed, e) + Copies(Waiting(j), e) <= delivery[e].count
    BY DEF LinesOK, CopiesBounded
  <2>3. /\ Copies(Handed, e) \in Nat /\ Copies(Waiting(j), e) \in Nat
        /\ delivery[e].count \in Nat /\ Copies(Tail(w), e) \in Nat
    BY <1>1, <2>1, PlacesFinite, LinesTyped
  <2>4. Copies(w, e) = Copies(Tail(w), e) + (IF h = e THEN 1 ELSE 0)
    BY <1>1, CopiesOnTail
  <2>5. Copies(Append(Handed, h), e) = Copies(Handed, e) + (IF h = e THEN 1 ELSE 0)
    BY <1>1, CopiesOnAppend
  <2> DEFINE one == IF h = e THEN 1 ELSE 0
  <2>6. /\ Copies(Handed', e) \in Nat
        /\ Copies(Handed', e) <= Copies(Handed, e) + one
    <3>1. CASE Handed' = Handed
      BY <2>3, <3>1
    <3>2. CASE Handed' = Append(Handed, h)
      BY <2>3, <2>5, <3>2
    <3> QED BY <3>1, <3>2
  <2>7. Copies(Waiting(j), e) = Copies(Waiting(j)', e) + one
    <3>1. CASE j = i
      BY <2>4, <3>1
    <3>2. CASE j # i
      <4>1. one = 0 /\ Waiting(j)' = Waiting(j)
        BY <1>4, <2>1, <3>2
      <4> QED BY <2>3, <4>1
    <3> QED BY <3>1, <3>2
  <2>8. Copies(Waiting(j)', e) \in Nat
    <3>1. CASE j = i
      BY <2>3, <3>1
    <3>2. CASE j # i
      BY <2>1, <2>3, <3>2
    <3> QED BY <3>1, <3>2
  <2>9. one \in {0, 1}
    OBVIOUS
  <2> HIDE DEF one, j, h, w
  <2>10. Copies(Handed', e) + Copies(Waiting(j)', e) <= delivery[e].count
    <3>1. one \in Nat
      BY <2>9
    <3> QED BY <2>2, <2>3, <2>6, <2>7, <2>8, <3>1, SumKept
  <2> QED BY <2>10 DEF j
<1>7. DeliveredInTurn'
  BY DEF LinesOK, DeliveredInTurn
<1>8. CASE Handed' = Handed
  <2>1. ASSUME NEW j \in Consumers
        PROVE  /\ Range(Waiting(j)') \subseteq Range(Waiting(j))
               /\ InTurn(Waiting(j)', Again)
    BY <1>3 DEF LinesOK, LinesInTurn
  <2>2. ASSUME NEW j \in Consumers
        PROVE  InTurnBehind(Handed', Waiting(j)', Again)
    BY <1>8, <2>1, BehindIsByElement DEF LinesOK, LinesInTurn
  <2>3. LinesInTurn'
    BY <1>2, <1>8, <2>1, <2>2 DEF LinesOK, LinesInTurn
  <2> QED BY <1>6, <1>7, <2>3 DEF LinesOK
<1>9. CASE Handed' = Append(Handed, h)
  <2>1. Range(Handed') = Range(Handed) \cup {h}
    BY <1>1, <1>9, RangeOnAppend
  <2>2. InTurn(Handed', Again)
    BY <1>1, <1>3, <1>5, <1>9, InTurnOnAppend DEF LinesOK, LinesInTurn
  <2>3. ASSUME NEW j \in Consumers
        PROVE  /\ Range(Waiting(j)') \subseteq {e \in Events : ConsumerOf(e) = j}
               /\ InTurn(Waiting(j)', Again)
               /\ InTurnBehind(Handed', Waiting(j)', Again)
    <3>1. /\ Range(Waiting(j)') \subseteq Range(Waiting(j))
          /\ InTurn(Waiting(j)', Again)
      BY <1>3 DEF LinesOK, LinesInTurn
    <3>2. Range(Waiting(j)') \subseteq {e \in Events : ConsumerOf(e) = j}
      BY <3>1 DEF LinesOK, LinesInTurn
    <3>3. ASSUME NEW e \in Range(Handed'), NEW d \in Range(Waiting(j)'),
                 Overtakes(d, e)
          PROVE  d \in Again
      <4>1. CASE e \in Range(Handed)
        BY <3>1, <3>3, <4>1, BehindIsByElement DEF LinesOK, LinesInTurn
      <4>2. CASE e = h
        <5>1. j = i
          BY <1>4, <3>2, <3>3, <4>2 DEF Overtakes
        <5> QED BY <1>3, <3>3, <4>2, <5>1
      <4> QED BY <2>1, <4>1, <4>2
    <3>4. InTurnBehind(Handed', Waiting(j)', Again)
      BY <3>3, BehindIsByElement
    <3> QED BY <3>1, <3>2, <3>4
  <2>4. LinesInTurn'
    BY <1>2, <2>2, <2>3 DEF LinesInTurn
  <2> QED BY <1>6, <1>7, <2>4 DEF LinesOK
<1> QED BY <1>8, <1>9

LEMMA InLineIsDelivered ==
  ASSUME IInv, LinesOK, NEW i \in Consumers,
         NEW e \in Range(Handed) \cup Range(Waiting(i))
  PROVE  e \in Events /\ delivery[e].count > 0
<1>1. /\ Handed \in Seq(Events) /\ Waiting(i) \in Seq(Events)
      /\ Range(Waiting(i)) \subseteq {d \in Events : ConsumerOf(d) = i}
  BY LinesTyped DEF LinesOK, LinesInTurn
<1>2. e \in Events
  BY <1>1, RangeOfSeq
<1> DEFINE j == ConsumerOf(e)
<1>3. j \in Consumers /\ Waiting(j) \in Seq(Events) /\ delivery[e].count \in Nat
  BY <1>2, ConsumerExists, LinesTyped
<1>4. e \in Range(Handed) \/ e \in Range(Waiting(j))
  BY <1>1
<1>5. /\ Copies(Handed, e) \in Nat /\ Copies(Waiting(j), e) \in Nat
      /\ e \in Range(Handed) => Copies(Handed, e) > 0
      /\ e \in Range(Waiting(j)) => Copies(Waiting(j), e) > 0
  BY <1>1, <1>3, PlacesFinite
<1>6. Copies(Handed, e) + Copies(Waiting(j), e) <= delivery[e].count
  BY <1>2 DEF LinesOK, CopiesBounded
<1> HIDE DEF j
<1> QED BY <1>2, <1>3, <1>4, <1>5, <1>6

(* A delivery goes to the end of its line, behind whatever was delivered    *)
(* before: if it comes before one of those, it was delivered before too.    *)
LEMMA LinesOnDeliver ==
  ASSUME IInv, LinesOK, NEW e \in Events, NEW i \in Consumers, i = ConsumerOf(e),
         \A d \in 1 .. e - 1 : ConsumerOf(d) = i => delivery[d].count > 0,
         delivery' = [delivery EXCEPT ![e] = [state |-> "out", count |-> @.count + 1]],
         Handed' = Handed,
         Waiting(i)' = Append(Waiting(i), e),
         \A j \in Consumers \ {i} : Waiting(j)' = Waiting(j)
  PROVE  LinesOK'
<1> DEFINE w == Waiting(i)
<1>1. /\ Handed \in Seq(Events) /\ w \in Seq(Events)
      /\ \A j \in Consumers : Waiting(j) \in Seq(Events)
      /\ \A d \in Events : delivery[d].count \in Nat
  BY LinesTyped
<1>2. \A d \in Events : delivery'[d].count =
                          IF d = e THEN delivery[d].count + 1 ELSE delivery[d].count
  BY DEF IInv, DeliveryTypes
<1>3. Again \subseteq Again'
  BY <1>1, <1>2 DEF Again
<1>4. ASSUME NEW x \in Range(Handed) \cup Range(w), Overtakes(e, x)
      PROVE  e \in Again'
  <2>1. x \in Events /\ delivery[x].count > 0
    BY InLineIsDelivered
  <2>2. delivery[e].count > 0
    BY <1>4, <2>1 DEF LinesOK, DeliveredInTurn
  <2> QED BY <1>1, <1>2, <2>2 DEF Again
<1>5. CopiesBounded'
  <2> SUFFICES ASSUME NEW d \in Events
               PROVE  Copies(Handed, d) + Copies(Waiting(ConsumerOf(d))', d)
                        <= delivery'[d].count
    BY DEF CopiesBounded
  <2> DEFINE j == ConsumerOf(d)
             one == IF e = d THEN 1 ELSE 0
  <2>1. j \in Consumers /\ Waiting(j) \in Seq(Events)
    BY <1>1, ConsumerExists
  <2>2. Copies(Handed, d) + Copies(Waiting(j), d) <= delivery[d].count
    BY DEF LinesOK, CopiesBounded
  <2>3. Copies(Handed, d) \in Nat /\ Copies(Waiting(j), d) \in Nat
    BY <1>1, <2>1, PlacesFinite
  <2>4. Copies(Append(w, e), d) = Copies(w, d) + one
    BY <1>1, CopiesOnAppend
  <2>5. Copies(Waiting(j)', d) = Copies(Waiting(j), d) + one
    <3>1. CASE j = i
      BY <2>4, <3>1
    <3>2. CASE j # i
      <4>1. one = 0 /\ Waiting(j)' = Waiting(j)
        BY <2>1, <3>2
      <4> QED BY <2>3, <4>1
    <3> QED BY <3>1, <3>2
  <2>6. delivery'[d].count = delivery[d].count + one
    BY <1>1, <1>2
  <2>7. one \in {0, 1} /\ delivery[d].count \in Nat
    BY <1>1
  <2> HIDE DEF one, j
  <2>8. Copies(Handed, d) + Copies(Waiting(j)', d) <= delivery'[d].count
    BY <2>2, <2>3, <2>5, <2>6, <2>7
  <2> QED BY <2>8 DEF j
<1>6. DeliveredInTurn'
  <2> SUFFICES ASSUME NEW x \in Events, delivery'[x].count > 0,
                      NEW d \in Events, Overtakes(d, x)
               PROVE  delivery'[d].count > 0
    BY DEF DeliveredInTurn
  <2>1. delivery[d].count > 0 => delivery'[d].count > 0
    BY <1>1, <1>2
  <2>2. CASE x = e
    <3>1. d \in 1 .. e - 1 /\ ConsumerOf(d) = i
      BY <2>2, DeliveryAssumption DEF Overtakes, Events
    <3> QED BY <2>1, <3>1
  <2>3. CASE x # e
    BY <1>2, <2>1, <2>3 DEF LinesOK, DeliveredInTurn
  <2> QED BY <2>2, <2>3
<1>7. InTurn(Handed, Again')
  BY <1>3 DEF LinesOK, LinesInTurn, InTurn
<1>8. ASSUME NEW j \in Consumers
      PROVE  /\ Range(Waiting(j)') \subseteq {d \in Events : ConsumerOf(d) = j}
             /\ InTurn(Waiting(j)', Again')
             /\ InTurnBehind(Handed, Waiting(j)', Again')
  <2>1. /\ Range(Waiting(j)) \subseteq {d \in Events : ConsumerOf(d) = j}
        /\ InTurn(Waiting(j), Again')
        /\ \A x \in Range(Handed), d \in Range(Waiting(j)) :
             Overtakes(d, x) => d \in Again'
    BY <1>3, BehindIsByElement DEF LinesOK, LinesInTurn, InTurn
  <2>2. CASE j # i
    <3>1. Waiting(j)' = Waiting(j)
      BY <2>2
    <3> QED BY <2>1, <3>1, BehindIsByElement
  <2>3. CASE j = i
    <3>1. Range(Append(w, e)) = Range(w) \cup {e}
      BY <1>1, RangeOnAppend
    <3>2. InTurn(Append(w, e), Again')
      BY <1>1, <1>4, <2>1, <2>3, InTurnOnAppend
    <3>3. \A x \in Range(Handed), d \in Range(Append(w, e)) :
            Overtakes(d, x) => d \in Again'
      BY <1>4, <2>1, <2>3, <3>1
    <3> HIDE DEF w
    <3>4. InTurnBehind(Handed, Append(w, e), Again')
      BY <3>3, BehindIsByElement
    <3> QED BY <2>1, <2>3, <3>1, <3>2, <3>4 DEF w
  <2> QED BY <2>2, <2>3
<1>9. LinesInTurn'
  BY <1>7, <1>8 DEF LinesInTurn
<1> QED BY <1>5, <1>6, <1>9 DEF LinesOK

(* When the process ends, all lines are lost but what was broadcast. *)
LEMMA LinesOnEnd ==
  ASSUME IInv, LinesOK, End
  PROVE  LinesOK'
<1>1. PICK t \in Seq(Events) : Handed = feed \o t
  BY JoinIsPrefixed DEF IInv, DeliveryTypes, Handed
<1>2. /\ inbox' = [i \in Consumers |-> <<>>]
      /\ handler' = [i \in Consumers |-> Idle]
      /\ broadcast' = <<>> /\ feed' = feed /\ delivery' = delivery
      /\ feed \in Seq(Events)
  BY DEF End, IInv, DeliveryTypes
<1>3. \A i \in Consumers : Waiting(i)' = <<>>
  BY <1>2 DEF Waiting, Line, Idle
<1>4. Handed' = feed
  <2>1. [n \in DOMAIN <<>> |-> (<<>>)[n].envelope] = <<>>
    OBVIOUS
  <2>2. Handed' = feed \o <<>>
    BY <1>2, <2>1 DEF Handed, Join
  <2> QED BY <1>2, <2>2, ConcatEmptySeq
<1>5. CopiesBounded'
  <2> SUFFICES ASSUME NEW e \in Events
               PROVE  Copies(feed, e) + Copies(Waiting(ConsumerOf(e))', e)
                        <= delivery[e].count
    BY <1>2, <1>4 DEF CopiesBounded
  <2> DEFINE w == Waiting(ConsumerOf(e))
  <2>1. ConsumerOf(e) \in Consumers /\ w \in Seq(Events) /\ Handed \in Seq(Events)
    BY ConsumerExists, LinesTyped
  <2>2. Waiting(ConsumerOf(e))' = <<>>
    BY <1>3, <2>1
  <2>3. <<>> \in Seq(Events)
    OBVIOUS
  <2>4. Copies(<<>>, e) = 0
    BY <2>3, PlacesFinite
  <2>5. Copies(feed, e) <= Copies(Handed, e)
    BY <1>1, <1>2, CopiesOfPrefix
  <2>6. /\ Copies(feed, e) \in Nat /\ Copies(Handed, e) \in Nat /\ Copies(w, e) \in Nat
        /\ delivery[e].count \in Nat
    BY <1>2, <2>1, PlacesFinite, LinesTyped
  <2>7. Copies(Handed, e) + Copies(w, e) <= delivery[e].count
    BY DEF LinesOK, CopiesBounded
  <2> HIDE DEF w
  <2> QED BY <2>2, <2>4, <2>5, <2>6, <2>7
<1>6. DeliveredInTurn'
  BY <1>2 DEF LinesOK, DeliveredInTurn
<1>7. LinesInTurn'
  <2>1. InTurn(feed, Again)
    BY <1>1, <1>2, InTurnOfPrefix DEF LinesOK, LinesInTurn
  <2>2. \A i \in Consumers : DOMAIN Waiting(i)' = {}
    BY <1>3
  <2> QED BY <1>2, <1>3, <1>4, <2>1, <2>2 DEF LinesInTurn, InTurn, InTurnBehind, Again, Range
<1> QED BY <1>5, <1>6, <1>7 DEF LinesOK

LEMMA InitLines == Init => LinesOK
<1> SUFFICES ASSUME Init PROVE LinesOK
  OBVIOUS
<1>1. /\ broadcast = <<>> /\ feed = <<>>
      /\ inbox = [i \in Consumers |-> <<>>]
      /\ handler = [i \in Consumers |-> Idle]
      /\ delivery = [e \in Events |-> [state |-> "unpublished", count |-> 0]]
  BY DEF Init, H!Init
<1>2. \A i \in Consumers : Waiting(i) = <<>>
  BY <1>1 DEF Waiting, Line, Idle
<1>3. Handed = <<>>
  <2>1. [n \in DOMAIN <<>> |-> (<<>>)[n].envelope] = <<>>
    OBVIOUS
  <2>2. Handed = <<>> \o <<>>
    BY <1>1, <2>1 DEF Handed, Join
  <2> QED BY <2>2
<1>4. <<>> \in Seq(Events)
  OBVIOUS
<1>5. CopiesBounded
  <2> SUFFICES ASSUME NEW e \in Events
               PROVE  Copies(Handed, e) + Copies(Waiting(ConsumerOf(e)), e)
                        <= delivery[e].count
    BY DEF CopiesBounded
  <2>1. Copies(<<>>, e) = 0
    BY <1>4, PlacesFinite
  <2> QED BY <1>1, <1>2, <1>3, <2>1, ConsumerExists
<1>6. DeliveredInTurn
  BY <1>1 DEF DeliveredInTurn
<1>7. LinesInTurn
  BY <1>2, <1>3 DEF LinesInTurn, InTurn, InTurnBehind, Range
<1> QED BY <1>5, <1>6, <1>7 DEF LinesOK

LEMMA HeadOfLine ==
  ASSUME NEW x \in Events, NEW box \in Seq(Events)
  PROVE  /\ <<x>> \o box # <<>> /\ Head(<<x>> \o box) = x /\ Tail(<<x>> \o box) = box
         /\ \A e \in Events : <<x>> \o Append(box, e) = Append(<<x>> \o box, e)
<1> DEFINE l == <<x>> \o box
<1>1. <<x>> \in Seq(Events) /\ Len(<<x>>) = 1 /\ Len(box) \in Nat
  OBVIOUS
<1>2. /\ l \in Seq(Events) /\ Len(l) = 1 + Len(box) /\ l[1] = x
      /\ \A n \in 1 .. Len(box) : l[n + 1] = box[n]
  BY <1>1, ConcatProperties
<1> HIDE DEF l
<1>3. l # <<>> /\ Head(l) = x
  BY <1>1, <1>2
<1>4. /\ Tail(l) \in Seq(Events) /\ Len(Tail(l)) = Len(box)
      /\ \A n \in 1 .. Len(box) : Tail(l)[n] = box[n]
  BY <1>1, <1>2, <1>3, HeadTailProperties
<1>5. Tail(l) = box
  BY <1>4, SeqEqual
<1>6. ASSUME NEW e \in Events PROVE <<x>> \o Append(box, e) = Append(<<x>> \o box, e)
  <2>1. <<e>> \in Seq(Events) /\ Append(box, e) = box \o <<e>>
    BY AppendIsConcat
  <2>2. <<x>> \o (box \o <<e>>) = (<<x>> \o box) \o <<e>>
    BY <1>1, <2>1, ConcatAssociative
  <2>3. Append(l, e) = l \o <<e>>
    BY <1>2, AppendIsConcat
  <2> QED BY <2>1, <2>2, <2>3 DEF l
<1> QED BY <1>3, <1>5, <1>6 DEF l

LEMMA TakeInLine ==
  ASSUME IInv, LinesOK, NEW i \in Consumers, Take(i)
  PROVE  LinesOK'
<1> DEFINE e == Head(inbox[i])
           h == Handling(e)
<1>1. /\ handler[i].at # "broadcast"
      /\ inbox[i] \in Seq(Events) /\ inbox[i] # <<>>
      /\ inbox' = [inbox EXCEPT ![i] = Tail(@)]
      /\ handler' = [handler EXCEPT ![i] = h]
      /\ UNCHANGED <<delivery, broadcast, feed>>
  BY DEF IInv, DeliveryTypes, Take, Idle, hubVars, historyVars
<1>2. e \in Events /\ Tail(inbox[i]) \in Seq(Events)
  BY <1>1
<1>3. Waiting(i) = inbox[i] /\ Waiting(i)' = Line(h, Tail(inbox[i]))
  BY <1>1 DEF IInv, DeliveryTypes, Waiting, Line
<1>4. Handed' = Handed
  BY <1>1 DEF Handed
<1>5. \A j \in Consumers \ {i} : Waiting(j)' = Waiting(j)
  BY <1>1 DEF IInv, DeliveryTypes, Waiting
<1>6. CASE e \in unreadable
  <2>1. Waiting(i)' = Tail(Waiting(i))
    BY <1>3, <1>6 DEF Line, Handling
  <2> QED BY <1>1, <1>3, <1>4, <1>5, <2>1, LinesOnTail
<1>7. CASE e \notin unreadable
  <2>1. Waiting(i)' = <<e>> \o Tail(inbox[i])
    BY <1>3, <1>7 DEF Line, Handling
  <2>2. <<e>> \o Tail(inbox[i]) = inbox[i]
    <3> DEFINE s == inbox[i]
    <3>1. s \in Seq(Events) /\ s # <<>>
      BY <1>1
    <3> HIDE DEF s
    <3>2. <<Head(s)>> \o Tail(s) = s
      BY <3>1
    <3> QED BY <3>2 DEF s
  <2>3. \A j \in Consumers : Waiting(j)' = Waiting(j)
    BY <1>3, <1>5, <2>1, <2>2
  <2> QED BY <1>1, <1>4, <2>3, LinesStay
<1> QED BY <1>6, <1>7

LEMMA HandOverInLine ==
  ASSUME IInv, LinesOK, NEW i \in Consumers, HandOver(i)
  PROVE  LinesOK'
<1> DEFINE e == handler[i].event
           m == [roomID |-> RoomOf[e], envelope |-> e]
<1>1. /\ e \in Events /\ handler[i].at = "broadcast"
      /\ broadcast' = Append(broadcast, m)
      /\ handler' = [handler EXCEPT ![i].at = "ack"]
      /\ UNCHANGED <<delivery, inbox, feed>>
      /\ inbox[i] \in Seq(Events)
  BY DEF IInv, DeliveryTypes, HoldsEvent, HandOver, H!BroadcastToRoom, historyVars
<1>2. m \in Message /\ m.envelope = e
  BY <1>1 DEF Message
<1>3. Waiting(i) = <<e>> \o inbox[i] /\ Waiting(i)' = inbox[i]
  BY <1>1 DEF IInv, DeliveryTypes, Waiting, Line
<1> HIDE DEF e, m
<1>4. Handed' = Append(Handed, e)
  BY <1>1, <1>2, JoinOnAppend DEF IInv, DeliveryTypes, Handed
<1>5. /\ Waiting(i) # <<>> /\ Head(Waiting(i)) = e
      /\ Waiting(i)' = Tail(Waiting(i))
  BY <1>1, <1>3, HeadOfLine
<1>6. \A j \in Consumers \ {i} : Waiting(j)' = Waiting(j)
  BY <1>1 DEF IInv, DeliveryTypes, Waiting
<1> QED BY <1>1, <1>4, <1>5, <1>6, LinesOnTail

LEMMA AckInLine ==
  ASSUME IInv, LinesOK, NEW i \in Consumers, Ack(i)
  PROVE  LinesOK'
<1>1. /\ handler[i].at \in {"ack", "term"}
      /\ handler' = [handler EXCEPT ![i] = Idle]
      /\ \/ delivery' = [delivery EXCEPT ![handler[i].event].state = "settled"]
         \/ UNCHANGED delivery
      /\ UNCHANGED <<broadcast, inbox, feed>>
  BY DEF Ack, Settle, hubVars, historyVars
<1>2. \A j \in Consumers : Waiting(j)' = Waiting(j)
  BY <1>1 DEF IInv, DeliveryTypes, Waiting, Line, Idle
<1>3. \A e \in Events : delivery'[e].count = delivery[e].count
  <2> DEFINE d == handler[i].event
  <2>1. delivery' = [delivery EXCEPT ![d].state = "settled"] \/ UNCHANGED delivery
    BY <1>1
  <2> HIDE DEF d
  <2>2. CASE delivery' = [delivery EXCEPT ![d].state = "settled"]
    BY <2>2 DEF IInv, DeliveryTypes
  <2> QED BY <2>1, <2>2
<1> QED BY <1>1, <1>2, <1>3, LinesStay DEF Handed

LEMMA DeliverInLine ==
  ASSUME IInv, LinesOK, NEW e \in Events, Deliver(e)
  PROVE  LinesOK'
<1> DEFINE i == ConsumerOf(e)
<1>1. i \in Consumers
  BY ConsumerExists
<1>2. /\ \A d \in 1 .. e - 1 : ConsumerOf(d) = i => delivery[d].count > 0
      /\ delivery' = [delivery EXCEPT ![e] = [state |-> "out", count |-> @.count + 1]]
      /\ inbox' = [inbox EXCEPT ![i] = Append(@, e)]
      /\ UNCHANGED <<broadcast, feed, handler>>
  BY DEF Deliver, hubVars, historyVars
<1>3. i = ConsumerOf(e)
  OBVIOUS
<1> HIDE DEF i
<1>4. inbox[i] \in Seq(Events) /\ inbox'[i] = Append(inbox[i], e)
  BY <1>1, <1>2 DEF IInv, DeliveryTypes
<1>5. Waiting(i)' = Append(Waiting(i), e)
  <2>1. handler[i].at = "broadcast" => handler[i].event \in Events
    BY <1>1 DEF IInv, HoldsEvent
  <2>2. handler'[i] = handler[i]
    BY <1>2
  <2> QED BY <1>4, <2>1, <2>2, HeadOfLine DEF Waiting, Line
<1>6. \A j \in Consumers \ {i} : Waiting(j)' = Waiting(j)
  BY <1>2 DEF IInv, DeliveryTypes, Waiting
<1>7. Handed' = Handed
  BY <1>2 DEF Handed
<1> QED BY <1>1, <1>2, <1>3, <1>5, <1>6, <1>7, LinesOnDeliver

LEMMA StepLines == IInv /\ LinesOK /\ [Next]_vars => LinesOK'
<1> SUFFICES ASSUME IInv, LinesOK, [Next]_vars PROVE LinesOK'
  OBVIOUS
<1> USE DEF hubVars, streamVars, processVars, historyVars
<1>1. ASSUME UNCHANGED <<inbox, handler, broadcast, feed>>,
             \A e \in Events : delivery'[e].count = delivery[e].count
      PROVE  LinesOK'
  BY <1>1, LinesStay DEF Handed, Waiting
<1>2. CASE \E s \in Streams : Provision(s)
  BY <1>1, <1>2 DEF Provision
<1>3. CASE Publish
  <2>1. delivery' = [delivery EXCEPT ![published + 1].state = "stored"]
    BY <1>3 DEF Publish
  <2>2. \A e \in Events : delivery'[e].count = delivery[e].count
    BY <2>1 DEF IInv, DeliveryTypes
  <2> QED BY <1>1, <1>3, <2>2 DEF Publish
<1>4. CASE Launch
  BY <1>1, <1>4 DEF Launch
<1>5. CASE Start
  BY <1>1, <1>5 DEF Start, Consume, ProvisionConsumer, Provisioned
<1>6. ASSUME NEW e \in Events, Deliver(e) PROVE LinesOK'
  BY <1>6, DeliverInLine
<1>7. ASSUME NEW e \in Events, AckWaitExpires(e) PROVE LinesOK'
  <2>1. \A d \in Events : delivery'[d].count = delivery[d].count
    BY <1>7 DEF AckWaitExpires, IInv, DeliveryTypes
  <2> QED BY <1>1, <1>7, <2>1 DEF AckWaitExpires
<1>8. CASE \E i \in Consumers : Handle(i)
  BY <1>8, TakeInLine, HandOverInLine, AckInLine DEF Handle
<1>9. CASE HubBroadcasts
  <2>1. /\ broadcast # <<>> /\ broadcast' = Tail(broadcast)
        /\ feed' = Append(feed, Head(broadcast).envelope)
        /\ UNCHANGED <<delivery, inbox, handler>>
    BY <1>9 DEF HubBroadcasts, H!RunBroadcast
  <2>2. Handed' = Handed
    BY <2>1, JoinOnBroadcast DEF IInv, DeliveryTypes, Handed
  <2> QED BY <2>1, <2>2, LinesStay DEF Waiting
<1>10. CASE Signal \/ HubStops \/ Drain
  BY <1>1, <1>10 DEF Signal, HubStops, H!RunStop, Drain
<1>11. CASE Exit \/ Crash
  BY <1>11, LinesOnEnd DEF Exit, Crash
<1>12. CASE UNCHANGED vars
  BY <1>1, <1>12 DEF vars
<1> QED BY <1>2, <1>3, <1>4, <1>5, <1>6, <1>7, <1>8, <1>9, <1>10, <1>11, <1>12 DEF Next

-----------------------------------------------------------------------------
(* What the server and the process hold *)

Of(i) == {e \in 1 .. published : ConsumerOf(e) = i}

ServerOK ==
  /\ streams \subseteq Streams /\ durable \subseteq Consumers
  /\ unreadable \subseteq Garbled
  /\ \A e \in Events : /\ delivery[e].count <= MaxDeliver
                       /\ delivery[e].state # "unpublished" => e <= published

(* Consumers are provisioned before anything is consumed from them. *)
ProcessOK ==
  /\ process \in {"down", "up", "stopping"}
  /\ step \in 0 .. Len(Kinds) + 1
  /\ draining \in BOOLEAN
  /\ \A i \in Consumers : i <= step => i \in durable
  /\ ~Started => \A i \in Consumers : inbox[i] = <<>> /\ handler[i] = Idle

EventsKnown ==
  /\ Range(Handed) \cup lost \subseteq 1 .. published
  /\ \A i \in Consumers : /\ Range(inbox[i]) \subseteq Of(i)
                          /\ handler[i] # Idle => handler[i].event \in Of(i)

RangesOK == ServerOK /\ ProcessOK /\ EventsKnown

LEMMA ThreeKinds == Len(Kinds) = 3 /\ Consumers = 1 .. 3
BY DEF Kinds, Consumers

LEMMA JoinRange ==
  ASSUME NEW fed \in Seq(Events), NEW msgs \in Seq(Message)
  PROVE  /\ Range(fed) \subseteq Range(Join(fed, msgs))
         /\ \A m \in Range(msgs) : m.envelope \in Range(Join(fed, msgs))
<1> DEFINE j == Join(fed, msgs)
<1>1. /\ DOMAIN j = 1 .. Len(fed) + Len(msgs) /\ Len(fed) \in Nat /\ Len(msgs) \in Nat
      /\ DOMAIN fed = 1 .. Len(fed) /\ DOMAIN msgs = 1 .. Len(msgs)
      /\ \A n \in 1 .. Len(fed) : j[n] = fed[n]
      /\ \A n \in 1 .. Len(msgs) : j[Len(fed) + n] = msgs[n].envelope
  BY JoinShape
<1> HIDE DEF j
<1>2. /\ \A n \in DOMAIN fed : n \in DOMAIN j
      /\ \A n \in DOMAIN msgs : Len(fed) + n \in DOMAIN j
  BY <1>1
<1> QED BY <1>1, <1>2 DEF Range, j

(* Steps of the process and of the server that move no event. *)
LEMMA NoEventMoves ==
  ASSUME EventsKnown, UNCHANGED <<feed, broadcast, lost, inbox, handler>>,
         published' = published \/ published' = published + 1, published \in Nat
  PROVE  EventsKnown'
<1>1. Handed' = Handed
  BY DEF Handed
<1>2. 1 .. published \subseteq 1 .. published'
  OBVIOUS
<1>3. \A i \in Consumers : Of(i) \subseteq Of(i)'
  BY <1>2 DEF Of
<1> QED BY <1>1, <1>2, <1>3 DEF EventsKnown

LEMMA HandlersKnow ==
  ASSUME IInv, EventsKnown, NEW i \in Consumers, Handle(i)
  PROVE  EventsKnown'
<1>1. published' = published /\ lost' = lost /\ feed' = feed
  BY DEF Handle, Take, HandOver, Ack, streamVars, historyVars
<1>2. \A j \in Consumers : Of(j)' = Of(j)
  BY <1>1 DEF Of
<1>3. CASE Take(i)
  <2>1. /\ inbox[i] \in Seq(Events) /\ inbox[i] # <<>>
        /\ inbox' = [inbox EXCEPT ![i] = Tail(@)]
        /\ handler' = [handler EXCEPT ![i] = Handling(Head(inbox[i]))]
        /\ broadcast' = broadcast
    BY <1>3 DEF IInv, DeliveryTypes, Take, hubVars
  <2>2. Head(inbox[i]) \in Range(inbox[i]) /\ Range(Tail(inbox[i])) \subseteq Range(inbox[i])
    <3>1. InTurn(inbox[i], Events)
      BY <2>1 DEF InTurn
    <3> QED BY <2>1, <3>1, InTurnOnTail
  <2>3. Handling(Head(inbox[i])).event \in Of(i)
    BY <2>2 DEF EventsKnown, Handling
  <2>4. \A j \in Consumers : /\ Range(inbox'[j]) \subseteq Of(j)
                             /\ handler'[j] # Idle => handler'[j].event \in Of(j)
    <3> HIDE DEF Handling
    <3>1. \A j \in Consumers :
            /\ inbox'[j] = IF j = i THEN Tail(inbox[i]) ELSE inbox[j]
            /\ handler'[j] = IF j = i THEN Handling(Head(inbox[i])) ELSE handler[j]
      BY <2>1 DEF IInv, DeliveryTypes
    <3> QED BY <2>2, <2>3, <3>1 DEF EventsKnown
  <2> QED BY <1>1, <1>2, <2>1, <2>4 DEF EventsKnown, Handed
<1>4. CASE HandOver(i)
  <2> DEFINE e == handler[i].event
             m == [roomID |-> RoomOf[e], envelope |-> e]
  <2>1. /\ e \in Events /\ handler[i].at = "broadcast"
        /\ broadcast' = Append(broadcast, m)
        /\ handler' = [handler EXCEPT ![i].at = "ack"]
        /\ inbox' = inbox
    BY <1>4 DEF IInv, HoldsEvent, HandOver, H!BroadcastToRoom
  <2>2. m \in Message /\ m.envelope = e
    BY <2>1 DEF Message
  <2>3. e \in Of(i)
    BY <2>1 DEF EventsKnown, Idle
  <2> HIDE DEF m
  <2>4. Handed' = Append(Handed, e)
    BY <1>1, <2>1, <2>2, JoinOnAppend DEF IInv, DeliveryTypes, Handed
  <2>5. Range(Handed') = Range(Handed) \cup {e}
    BY <2>1, <2>4, LinesTyped, RangeOnAppend
  <2>6. \A j \in Consumers : handler'[j].event = handler[j].event
                             /\ (j # i => handler'[j] = handler[j])
    BY <2>1 DEF IInv, DeliveryTypes
  <2> QED BY <1>1, <1>2, <2>1, <2>3, <2>5, <2>6 DEF EventsKnown, Of
<1>5. CASE Ack(i)
  <2>1. handler' = [handler EXCEPT ![i] = Idle] /\ inbox' = inbox /\ broadcast' = broadcast
    BY <1>5 DEF Ack, hubVars
  <2>2. \A j \in Consumers : handler'[j] \in {handler[j], Idle}
    BY <2>1 DEF IInv, DeliveryTypes
  <2> QED BY <1>1, <1>2, <2>1, <2>2 DEF EventsKnown, Handed
<1> QED BY <1>3, <1>4, <1>5 DEF Handle

LEMMA DeliverKnows ==
  ASSUME IInv, RangesOK, NEW e \in Events, Deliver(e)
  PROVE  RangesOK'
<1> DEFINE i == ConsumerOf(e)
<1>1. /\ i \in Consumers
      /\ delivery[e].state = "stored" /\ delivery[e].count < MaxDeliver
      /\ delivery' = [delivery EXCEPT ![e] = [state |-> "out", count |-> @.count + 1]]
      /\ inbox' = [inbox EXCEPT ![i] = Append(@, e)]
      /\ Started
      /\ UNCHANGED <<hubVars, streamVars, processVars, handler, historyVars>>
  BY ConsumerExists DEF Deliver
<1>2. e \in Of(i)
  BY <1>1, DeliveryAssumption DEF RangesOK, ServerOK, Of, Events, IInv, DeliveryTypes
<1> HIDE DEF i
<1>3. ServerOK'
  <2>1. \A d \in Events : /\ delivery'[d].count \in {delivery[d].count, delivery[e].count + 1}
                          /\ delivery[e].count + 1 <= MaxDeliver
                          /\ d # e => delivery'[d] = delivery[d]
    BY <1>1, DeliveryAssumption DEF IInv, DeliveryTypes
  <2>2. e <= published
    BY <1>1 DEF RangesOK, ServerOK
  <2> QED BY <1>1, <2>1, <2>2 DEF RangesOK, ServerOK, streamVars
<1>4. ProcessOK'
  BY <1>1 DEF RangesOK, ProcessOK, Started, processVars, streamVars
<1>5. EventsKnown'
  <2>1. Handed' = Handed /\ \A j \in Consumers : Of(j)' = Of(j)
    BY <1>1 DEF Handed, Of, hubVars, historyVars, streamVars
  <2>2. inbox[i] \in Seq(Events)
    BY <1>1 DEF IInv, DeliveryTypes
  <2>3. Range(Append(inbox[i], e)) = Range(inbox[i]) \cup {e}
    BY <2>2, RangeOnAppend
  <2>4. \A j \in Consumers : inbox'[j] = IF j = i THEN Append(inbox[i], e) ELSE inbox[j]
    BY <1>1 DEF IInv, DeliveryTypes
  <2> QED BY <1>1, <1>2, <2>1, <2>3, <2>4
          DEF RangesOK, EventsKnown, historyVars, streamVars
<1> QED BY <1>3, <1>4, <1>5 DEF RangesOK

LEMMA EndKnows ==
  ASSUME IInv, RangesOK, End
  PROVE  RangesOK'
<1>1. /\ process' = "down" /\ step' = 0 /\ draining' = FALSE
      /\ inbox' = [i \in Consumers |-> <<>>]
      /\ handler' = [i \in Consumers |-> Idle]
      /\ lost' = lost \cup {m.envelope : m \in Range(broadcast)}
      /\ broadcast' = <<>> /\ feed' = feed
      /\ UNCHANGED <<streams, durable, published, unreadable, delivery>>
  BY DEF End, streamVars
<1>2. ServerOK'
  BY <1>1 DEF RangesOK, ServerOK
<1>3. ProcessOK'
  <2>1. \A i \in Consumers : /\ inbox'[i] = <<>> /\ handler'[i] = Idle
                             /\ ~(i <= step')
    BY <1>1, ThreeKinds
  <2>2. process' \in {"down", "up", "stopping"} /\ step' \in 0 .. Len(Kinds) + 1
    BY <1>1, ThreeKinds
  <2>3. draining' \in BOOLEAN
    BY <1>1
  <2> QED BY <2>1, <2>2, <2>3 DEF ProcessOK
<1>4. Handed' = feed
  <2>1. [n \in DOMAIN <<>> |-> (<<>>)[n].envelope] = <<>>
    OBVIOUS
  <2>2. Handed' = feed \o <<>>
    BY <1>1, <2>1 DEF Handed, Join
  <2> QED BY <2>2, ConcatEmptySeq DEF IInv, DeliveryTypes
<1>5. /\ Range(feed) \subseteq Range(Handed)
      /\ \A m \in Range(broadcast) : m.envelope \in Range(Handed)
  BY JoinRange DEF IInv, DeliveryTypes, Handed
<1>6. \A i \in Consumers : Range(inbox'[i]) = {} /\ handler'[i] = Idle
  BY <1>1 DEF Range
<1>7. EventsKnown'
  BY <1>1, <1>4, <1>5, <1>6 DEF RangesOK, EventsKnown
<1> QED BY <1>2, <1>3, <1>7 DEF RangesOK

LEMMA StartKnows ==
  ASSUME IInv, RangesOK, Start
  PROVE  RangesOK'
<1>1. UNCHANGED <<streams, published, unreadable, delivery, process, draining, inbox,
                  handler, broadcast, feed, lost>>
  BY DEF Start, Consume, ProvisionConsumer, Provisioned, hubVars, streamVars, historyVars
<1>2. CASE Consume
  <2>1. step = 3 /\ step' = 4 /\ durable' = durable
    BY <1>2, ThreeKinds DEF Consume, streamVars
  <2> QED BY <1>1, <2>1, ThreeKinds, NoEventMoves
          DEF RangesOK, ServerOK, ProcessOK, Started, IInv, DeliveryTypes
<1>3. ASSUME NEW i \in Consumers, ProvisionConsumer(i) PROVE RangesOK'
  <2>1. step + 1 = i /\ step' = i /\ durable' = durable \cup {i}
    BY <1>3 DEF ProvisionConsumer, Provisioned
  <2> QED BY <1>1, <2>1, ThreeKinds, NoEventMoves
          DEF RangesOK, ServerOK, ProcessOK, Started, IInv, DeliveryTypes
<1> QED BY <1>2, <1>3 DEF Start

LEMMA StepRanges == IInv /\ RangesOK /\ [Next]_vars => RangesOK'
<1> SUFFICES ASSUME IInv, RangesOK, [Next]_vars PROVE RangesOK'
  OBVIOUS
<1> USE DEF hubVars, streamVars, processVars, historyVars
<1>1. published \in Nat
  BY DEF IInv, DeliveryTypes
<1>2. CASE \E s \in Streams : Provision(s)
  BY <1>1, <1>2, NoEventMoves DEF Provision, RangesOK, ServerOK, ProcessOK, Started
<1>3. CASE Publish
  <2>1. /\ published' = published + 1
        /\ delivery' = [delivery EXCEPT ![published + 1].state = "stored"]
        /\ unreadable' = unreadable
             \/ (unreadable' = unreadable \cup {published + 1} /\ published + 1 \in Garbled)
        /\ UNCHANGED <<streams, durable, process, step, draining, inbox, handler,
                       broadcast, feed, lost>>
    BY <1>3 DEF Publish
  <2>2. \A e \in Events : /\ delivery'[e].count = delivery[e].count
                          /\ delivery'[e].state # "unpublished" =>
                               delivery[e].state # "unpublished" \/ e = published + 1
    BY <1>1, <2>1 DEF IInv, DeliveryTypes
  <2>3. ServerOK'
    <3> SUFFICES ASSUME NEW e \in Events, delivery'[e].state # "unpublished"
                 PROVE  e <= published'
      BY <2>1, <2>2 DEF RangesOK, ServerOK
    <3>1. e <= published \/ e = published + 1
      BY <2>2 DEF RangesOK, ServerOK
    <3> QED BY <1>1, <2>1, <3>1, DeliveryAssumption DEF Events
  <2> QED BY <1>1, <2>1, <2>3, NoEventMoves DEF RangesOK, ProcessOK, Started
<1>4. CASE Launch
  BY <1>1, <1>4, NoEventMoves DEF Launch, RangesOK, ServerOK, ProcessOK, Started
<1>5. CASE Start
  BY <1>5, StartKnows
<1>6. ASSUME NEW e \in Events, Deliver(e) PROVE RangesOK'
  BY <1>6, DeliverKnows
<1>7. ASSUME NEW e \in Events, AckWaitExpires(e) PROVE RangesOK'
  <2>1. /\ delivery[e].state = "out"
        /\ delivery' = [delivery EXCEPT ![e].state = "stored"]
        /\ UNCHANGED <<streamVars, processVars, inbox, handler, broadcast, feed, lost>>
    BY <1>7 DEF AckWaitExpires
  <2>2. \A d \in Events : /\ delivery'[d].count = delivery[d].count
                          /\ delivery'[d].state # "unpublished" =>
                               delivery[d].state # "unpublished"
    BY <2>1 DEF IInv, DeliveryTypes
  <2> QED BY <1>1, <2>1, <2>2, NoEventMoves DEF RangesOK, ServerOK, ProcessOK, Started
<1>8. ASSUME NEW i \in Consumers, Handle(i) PROVE RangesOK'
  <2>1. UNCHANGED <<streams, durable, published, unreadable, process, step, draining>>
    BY <1>8 DEF Handle, Take, HandOver, Ack
  <2>2. ServerOK'
    <3>1. \/ UNCHANGED delivery
          \/ /\ handler[i].at # "idle"
             /\ delivery' = [delivery EXCEPT ![handler[i].event].state = "settled"]
      BY <1>8 DEF Handle, Take, HandOver, Ack, Settle
    <3> DEFINE d == handler[i].event
    <3>2. handler[i].at # "idle" => d \in Of(i)
      BY DEF RangesOK, EventsKnown, Idle
    <3>3. \/ UNCHANGED delivery
          \/ d \in Of(i) /\ delivery' = [delivery EXCEPT ![d].state = "settled"]
      BY <3>1, <3>2
    <3> HIDE DEF d
    <3>4. \A e \in Events : /\ delivery'[e].count = delivery[e].count
                            /\ e # d => delivery'[e] = delivery[e]
      <4>1. CASE delivery' = [delivery EXCEPT ![d].state = "settled"]
        BY <4>1 DEF IInv, DeliveryTypes
      <4> QED BY <3>3, <4>1
    <3>5. d \in Of(i) => d <= published
      BY <1>1 DEF Of
    <3> QED BY <2>1, <3>3, <3>4, <3>5 DEF RangesOK, ServerOK
  <2>3. ProcessOK'
    <3>1. ~Started => /\ inbox[i] = <<>>
                      /\ handler[i] = Idle
      BY DEF RangesOK, ProcessOK
    <3>2. handler[i] # Idle \/ inbox[i] # <<>>
      BY <1>8 DEF Handle, Take, HandOver, Ack, Idle
    <3> QED BY <2>1, <3>1, <3>2 DEF RangesOK, ProcessOK, Started
  <2> QED BY <1>8, <2>2, <2>3, HandlersKnow DEF RangesOK
<1>9. CASE HubBroadcasts
  <2>1. /\ broadcast # <<>> /\ broadcast' = Tail(broadcast)
        /\ feed' = Append(feed, Head(broadcast).envelope)
        /\ UNCHANGED <<streamVars, delivery, processVars, inbox, handler, lost>>
    BY <1>9 DEF HubBroadcasts, H!RunBroadcast
  <2>2. Handed' = Handed
    BY <2>1, JoinOnBroadcast DEF IInv, DeliveryTypes, Handed
  <2>3. \A i \in Consumers : Of(i)' = Of(i)
    BY <2>1 DEF Of
  <2> QED BY <2>1, <2>2, <2>3
          DEF RangesOK, ServerOK, ProcessOK, EventsKnown, Started
<1>10. CASE Signal \/ HubStops \/ Drain
  BY <1>1, <1>10, NoEventMoves
     DEF Signal, HubStops, H!RunStop, Drain, RangesOK, ServerOK, ProcessOK, Started
<1>11. CASE Exit \/ Crash
  BY <1>11, EndKnows DEF Exit, Crash
<1>12. CASE UNCHANGED vars
  BY <1>1, <1>12, NoEventMoves DEF vars, RangesOK, ServerOK, ProcessOK, Started
<1> QED BY <1>2, <1>3, <1>4, <1>5, <1>6, <1>7, <1>8, <1>9, <1>10, <1>11, <1>12 DEF Next

LEMMA InitRanges == Init => RangesOK
<1> SUFFICES ASSUME Init PROVE RangesOK
  OBVIOUS
<1>1. /\ streams = {} /\ durable = {} /\ published = 0 /\ unreadable = {}
      /\ process = "down" /\ step = 0 /\ draining = FALSE
      /\ lost = {} /\ feed = <<>> /\ broadcast = <<>>
      /\ inbox = [i \in Consumers |-> <<>>]
      /\ handler = [i \in Consumers |-> Idle]
      /\ delivery = [e \in Events |-> [state |-> "unpublished", count |-> 0]]
  BY DEF Init, H!Init
<1>2. ServerOK
  BY <1>1, DeliveryAssumption DEF ServerOK
<1>3. ProcessOK
  <2>1. \A i \in Consumers : /\ inbox[i] = <<>> /\ handler[i] = Idle
                             /\ ~(i <= step)
    BY <1>1, ThreeKinds
  <2>2. process \in {"down", "up", "stopping"} /\ step \in 0 .. Len(Kinds) + 1
    BY <1>1, ThreeKinds
  <2>3. draining \in BOOLEAN
    BY <1>1
  <2> QED BY <2>1, <2>2, <2>3 DEF ProcessOK
<1>4. Range(Handed) = {}
  <2>1. [n \in DOMAIN <<>> |-> (<<>>)[n].envelope] = <<>>
    OBVIOUS
  <2>2. Handed = <<>> \o <<>>
    BY <1>1, <2>1 DEF Handed, Join
  <2>3. Handed = <<>>
    BY <2>2
  <2> QED BY <2>3 DEF Range
<1>5. EventsKnown
  BY <1>1, <1>4 DEF EventsKnown, Range
<1> QED BY <1>2, <1>3, <1>5 DEF RangesOK

-----------------------------------------------------------------------------
(* Theorems *)

(* All variables hold values of their types in every behaviour, and an event*)
(* is with the consumer of its subject only, and only after Start.          *)
THEOREM DeliveryTypeOK == Spec => []TypeOK
<1>1. IInv /\ RangesOK => TypeOK
  <2> SUFFICES ASSUME IInv, RangesOK PROVE TypeOK
    OBVIOUS
  <2>1. delivery \in [Events -> [state : {"unpublished", "stored", "out", "settled"},
                                count : 0 .. MaxDeliver]]
    <3>1. \A e \in Events : delivery[e].count \in 0 .. MaxDeliver
      BY DeliveryAssumption DEF IInv, DeliveryTypes, RangesOK, ServerOK
    <3> QED BY <3>1 DEF IInv, DeliveryTypes
  <2>2. Range(feed) \cup lost \subseteq 1 .. published
    BY JoinRange DEF IInv, DeliveryTypes, RangesOK, EventsKnown, Handed
  <2>3. ASSUME NEW i \in Consumers
        PROVE  /\ handler[i].at \in {"idle", "broadcast", "ack", "term"}
               /\ \A e \in Range(inbox[i] \o InHand(i)) :
                    e <= published /\ ConsumerOf(e) = i /\ i \in durable
               /\ ~Started => inbox[i] \o InHand(i) = <<>>
    <3>1. inbox[i] \in Seq(Events) /\ InHand(i) \in Seq(Events)
      <4>1. handler[i] # Idle => handler[i].event \in Events
        BY DeliveryAssumption DEF RangesOK, EventsKnown, Of, IInv, DeliveryTypes, Events
      <4> QED BY <4>1 DEF IInv, DeliveryTypes, InHand
    <3>2. Range(InHand(i)) \subseteq Of(i)
      <4>1. \A x : Range(<<x>>) = {x} /\ Range(<<>>) = {}
        BY DEF Range
      <4> QED BY <4>1 DEF InHand, RangesOK, EventsKnown
    <3>3. Range(inbox[i] \o InHand(i)) \subseteq Of(i)
      BY <3>1, <3>2, RangeConcatenation DEF RangesOK, EventsKnown
    <3>4. Started => i \in durable
      BY ThreeKinds DEF RangesOK, ProcessOK, Started
    <3>5. ~Started => inbox[i] = <<>> /\ InHand(i) = <<>>
      BY DEF RangesOK, ProcessOK, InHand
    <3>6. inbox[i] \o InHand(i) # <<>> => Started
      BY <3>5
    <3>7. Range(<<>>) = {}
      BY DEF Range
    <3>8. \A e \in Of(i) : e <= published /\ ConsumerOf(e) = i
      BY DEF Of, IInv, DeliveryTypes
    <3>9. handler[i].at \in {"idle", "broadcast", "ack", "term"}
      BY DEF IInv, DeliveryTypes
    <3> QED BY <3>3, <3>4, <3>5, <3>6, <3>7, <3>8, <3>9
  <2> QED BY <2>1, <2>2, <2>3
          DEF TypeOK, RangesOK, ServerOK, ProcessOK, IInv, DeliveryTypes
<1> QED BY <1>1, InitInv, NextKeeps, InitRanges, StepRanges, PTL DEF Spec

(* The handlers acknowledge after BroadcastToRoom and never before, so an   *)
(* acknowledged event is broadcast, on the channel, or was on the channel   *)
(* of a process that ended, however often events are redelivered, consumers *)
(* drained and processes killed.                                            *)
THEOREM DeliveryAcked == Spec => []AckedIsHandedOver
<1>1. IInv => AckedIsHandedOver
  BY DEF IInv
<1> QED BY InitInv, NextKeeps, <1>1, PTL DEF Spec

(* Lost acknowledgements, slow handlers, restarts and drains make JetStream *)
(* deliver again; but for that, what a client sees of a subject is its      *)
(* stream: no event is broadcast more often than it was delivered, and only *)
(* one that was delivered again comes after a later one.                    *)
THEOREM DeliveryFeed == Spec => []FeedFollowsStream
<1>1. IInv /\ LinesOK => FeedFollowsStream
  <2> SUFFICES ASSUME IInv, LinesOK PROVE FeedFollowsStream
    OBVIOUS
  <2>1. PICK t \in Seq(Events) : Handed = feed \o t
    BY JoinIsPrefixed DEF IInv, DeliveryTypes, Handed
  <2>2. feed \in Seq(Events) /\ Handed \in Seq(Events)
    BY LinesTyped DEF IInv, DeliveryTypes
  <2>3. OncePerDelivery
    <3> SUFFICES ASSUME NEW e \in Events
                 PROVE  Copies(feed, e) <= delivery[e].count
      BY DEF OncePerDelivery, Copies, Places
    <3> DEFINE w == Waiting(ConsumerOf(e))
    <3>1. w \in Seq(Events)
      BY ConsumerExists, LinesTyped
    <3>2. /\ Copies(feed, e) \in Nat /\ Copies(Handed, e) \in Nat
          /\ Copies(w, e) \in Nat /\ delivery[e].count \in Nat
      BY <2>2, <3>1, PlacesFinite, LinesTyped
    <3>3. Copies(Handed, e) + Copies(w, e) <= delivery[e].count
      BY DEF LinesOK, CopiesBounded
    <3>4. Copies(feed, e) <= Copies(Handed, e)
      BY <2>1, <2>2, CopiesOfPrefix
    <3> HIDE DEF w
    <3> QED BY <3>2, <3>3, <3>4
  <2>4. OnlyRedeliveriesOvertaken
    <3>1. InTurn(feed, Again)
      BY <2>1, <2>2, InTurnOfPrefix DEF LinesOK, LinesInTurn
    <3> QED BY <3>1 DEF OnlyRedeliveriesOvertaken, InTurn, Overtakes, Again
  <2> QED BY <2>3, <2>4 DEF FeedFollowsStream
<1> QED BY <1>1, InitInv, NextKeeps, InitLines, StepLines, PTL DEF Spec

-----------------------------------------------------------------------------
(***************************************************************************)
(* The start: its steps and the Close calls they defer                     *)
(***************************************************************************)

W(s) == StartOf(s)
C(s) == Connections(s)

Provisioning == {"provision", "consume"}

StepNames ==
  Provisioning \cup {"postgres", "valkey", "nats", "authClient", "userClient",
                    "roomClient", "messageClient"}

(* The place of the step that is about streams; past the end if none is.    *)
StreamStep(s) == IF s = "auth" THEN 4 ELSE IF s = "gateway" THEN 6 ELSE 3

(* How many connections are open after k steps. *)
OpenAfter(s, k) == IF k < StreamStep(s) THEN k ELSE k - 1

(* The streams a service cannot do without. *)
Needs(s) == Owned(s) \cup Consumed(s)

(* The connection to NATS, if there is one, is opened last and closed first.*)
NatsIsLast(s) == \A j \in 1 .. Len(C(s)) : C(s)[j] = "nats" => j = Len(C(s))

(* What a start has to be like: the step i is the one about streams, or it  *)
(* opens the next connection; who consumes does so at last.                 *)
StepFits(s, i) ==
  /\ OpenAfter(s, i - 1) \in 0 .. Len(C(s)) /\ OpenAfter(s, i) \in 0 .. Len(C(s))
  /\ IF i = StreamStep(s)
       THEN /\ W(s)[i] \in Provisioning /\ ~Contains(C(s), W(s)[i])
            /\ OpenAfter(s, i) = OpenAfter(s, i - 1)
            /\ W(s)[i] = "provision" => Consumed(s) = {}
            /\ W(s)[i] = "consume"
                 => Owned(s) = {} /\ i = Len(W(s)) /\ NatsIsLast(s)
       ELSE /\ W(s)[i] \notin Provisioning /\ Contains(C(s), W(s)[i])
            /\ OpenAfter(s, i) = OpenAfter(s, i - 1) + 1
            /\ C(s)[OpenAfter(s, i)] = W(s)[i]

LEMMA StartFits ==
  ASSUME NEW s \in Services
  PROVE  /\ W(s) \in Seq(StepNames) /\ C(s) \in Seq(StepNames)
         /\ Len(W(s)) \in Nat /\ Len(C(s)) \in Nat /\ StreamStep(s) \in Nat \ {0}
         /\ OpenAfter(s, 0) = 0 /\ OpenAfter(s, Len(W(s))) = Len(C(s))
         /\ Len(W(s)) < StreamStep(s) => Needs(s) = {}
         /\ \A i \in 1 .. Len(W(s)) : StepFits(s, i)
<1>1. CASE s = "auth"
  <2> DEFINE w == <<"postgres", "valkey", "nats", "provision">>
             c == <<"postgres", "valkey", "nats">>
  <2>1. W(s) = w /\ C(s) = c /\ StreamStep(s) = 4
    BY <1>1 DEF W, C, StartOf, Connections, StreamStep, StartAuth
  <2>2. Owned(s) = {"AUTH"} /\ Consumed(s) = {}
    BY <1>1 DEF Owned, Consumed
  <2>3. w \in Seq(StepNames) /\ c \in Seq(StepNames) /\ Len(w) = 4 /\ Len(c) = 3
    BY DEF StepNames, Provisioning
  <2>4. /\ w[1] = "postgres" /\ w[2] = "valkey" /\ w[3] = "nats" /\ w[4] = "provision"
        /\ c[1] = "postgres" /\ c[2] = "valkey" /\ c[3] = "nats"
    OBVIOUS
  <2> HIDE DEF w, c
  <2>5. \A i \in 1 .. 4 : StepFits(s, i)
    BY <2>1, <2>2, <2>3, <2>4 DEF StepFits, OpenAfter, Contains, Provisioning, NatsIsLast
  <2> QED BY <2>1, <2>2, <2>3, <2>5 DEF OpenAfter, Needs
<1>2. CASE s = "user"
  <2> DEFINE w == <<"postgres", "nats", "consume">>
             c == <<"postgres", "nats">>
  <2>1. W(s) = w /\ C(s) = c /\ StreamStep(s) = 3
    BY <1>2 DEF W, C, StartOf, Connections, StreamStep, StartUser
  <2>2. Owned(s) = {} /\ Consumed(s) = {"AUTH"}
    BY <1>2 DEF Owned, Consumed
  <2>3. w \in Seq(StepNames) /\ c \in Seq(StepNames) /\ Len(w) = 3 /\ Len(c) = 2
    BY DEF StepNames, Provisioning
  <2>4. /\ w[1] = "postgres" /\ w[2] = "nats" /\ w[3] = "consume"
        /\ c[1] = "postgres" /\ c[2] = "nats"
    OBVIOUS
  <2> HIDE DEF w, c
  <2>5. \A i \in 1 .. 3 : StepFits(s, i)
    BY <2>1, <2>2, <2>3, <2>4 DEF StepFits, OpenAfter, Contains, Provisioning, NatsIsLast
  <2> QED BY <2>1, <2>2, <2>3, <2>5 DEF OpenAfter, Needs
<1>3. CASE s = "room"
  <2> DEFINE w == <<"postgres", "nats", "provision">>
             c == <<"postgres", "nats">>
  <2>1. W(s) = w /\ C(s) = c /\ StreamStep(s) = 3
    BY <1>3 DEF W, C, StartOf, Connections, StreamStep, StartRoom
  <2>2. Owned(s) = {"ROOM"} /\ Consumed(s) = {}
    BY <1>3 DEF Owned, Consumed
  <2>3. w \in Seq(StepNames) /\ c \in Seq(StepNames) /\ Len(w) = 3 /\ Len(c) = 2
    BY DEF StepNames, Provisioning
  <2>4. /\ w[1] = "postgres" /\ w[2] = "nats" /\ w[3] = "provision"
        /\ c[1] = "postgres" /\ c[2] = "nats"
    OBVIOUS
  <2> HIDE DEF w, c
  <2>5. \A i \in 1 .. 3 : StepFits(s, i)
    BY <2>1, <2>2, <2>3, <2>4 DEF StepFits, OpenAfter, Contains, Provisioning, NatsIsLast
  <2> QED BY <2>1, <2>2, <2>3, <2>5 DEF OpenAfter, Needs
<1>4. CASE s = "message"
  <2> DEFINE w == <<"postgres", "nats", "provision", "roomClient">>
             c == <<"postgres", "nats", "roomClient">>
  <2>1. W(s) = w /\ C(s) = c /\ StreamStep(s) = 3
    BY <1>4 DEF W, C, StartOf, Connections, StreamStep, StartMessage
  <2>2. Owned(s) = {"MESSAGE"} /\ Consumed(s) = {}
    BY <1>4 DEF Owned, Consumed
  <2>3. w \in Seq(StepNames) /\ c \in Seq(StepNames) /\ Len(w) = 4 /\ Len(c) = 3
    BY DEF StepNames, Provisioning
  <2>4. /\ w[1] = "postgres" /\ w[2] = "nats" /\ w[3] = "provision" /\ w[4] = "roomClient"
        /\ c[1] = "postgres" /\ c[2] = "nats" /\ c[3] = "roomClient"
    OBVIOUS
  <2> HIDE DEF w, c
  <2>5. \A i \in 1 .. 4 : StepFits(s, i)
    BY <2>1, <2>2, <2>3, <2>4 DEF StepFits, OpenAfter, Contains, Provisioning, NatsIsLast
  <2> QED BY <2>1, <2>2, <2>3, <2>5 DEF OpenAfter, Needs
<1>5. CASE s = "websocket"
  <2> DEFINE w == <<"valkey", "nats", "consume">>
             c == <<"valkey", "nats">>
  <2>1. W(s) = w /\ C(s) = c /\ StreamStep(s) = 3
    BY <1>5 DEF W, C, StartOf, Connections, StreamStep, StartWebsocket
  <2>2. Owned(s) = {} /\ Consumed(s) = {"MESSAGE", "ROOM"}
    BY <1>5 DEF Owned, Consumed
  <2>3. w \in Seq(StepNames) /\ c \in Seq(StepNames) /\ Len(w) = 3 /\ Len(c) = 2
    BY DEF StepNames, Provisioning
  <2>4. /\ w[1] = "valkey" /\ w[2] = "nats" /\ w[3] = "consume"
        /\ c[1] = "valkey" /\ c[2] = "nats"
    OBVIOUS
  <2> HIDE DEF w, c
  <2>5. \A i \in 1 .. 3 : StepFits(s, i)
    BY <2>1, <2>2, <2>3, <2>4 DEF StepFits, OpenAfter, Contains, Provisioning, NatsIsLast
  <2> QED BY <2>1, <2>2, <2>3, <2>5 DEF OpenAfter, Needs
<1>6. CASE s = "gateway"
  <2> DEFINE w == <<"valkey", "authClient", "userClient", "roomClient", "messageClient">>
             c == <<"valkey", "authClient", "userClient", "roomClient", "messageClient">>
  <2>1. W(s) = w /\ C(s) = c /\ StreamStep(s) = 6
    BY <1>6 DEF W, C, StartOf, Connections, StreamStep, StartGateway
  <2>2. Owned(s) = {} /\ Consumed(s) = {}
    BY <1>6 DEF Owned, Consumed
  <2>3. w \in Seq(StepNames) /\ c \in Seq(StepNames) /\ Len(w) = 5 /\ Len(c) = 5
    BY DEF StepNames, Provisioning
  <2>4. /\ w[1] = "valkey" /\ w[2] = "authClient" /\ w[3] = "userClient"
        /\ w[4] = "roomClient" /\ w[5] = "messageClient"
        /\ c[1] = "valkey" /\ c[2] = "authClient" /\ c[3] = "userClient"
        /\ c[4] = "roomClient" /\ c[5] = "messageClient"
    OBVIOUS
  <2> HIDE DEF w, c
  <2>5. \A i \in 1 .. 5 : StepFits(s, i)
    BY <2>1, <2>2, <2>3, <2>4 DEF StepFits, OpenAfter, Contains, Provisioning, NatsIsLast
  <2> QED BY <2>1, <2>2, <2>3, <2>5 DEF OpenAfter, Needs
<1> QED BY <1>1, <1>2, <1>3, <1>4, <1>5, <1>6 DEF Services


-----------------------------------------------------------------------------
(* The invariant of a process                                              *)

ServerNames == {"grpc", "health", "http"}

ProcessType ==
  [at : {"down", "start", "serve", "graceful", "gracefulOnError", "shutdown", "close"},
   todo : Seq(StepNames), opened : Seq(StepNames), signalled : BOOLEAN,
   server : [ServerNames -> {"off", "serving", "failed", "ended"}],
   errCh : Nat, consumer : {"off", "some", "on", "drained"},
   requests : 0 .. MaxRequests, events : 0 .. MaxRequests, forced : BOOLEAN]

(* How many steps are behind p. *)
Behind(s, p) == Len(W(s)) - Len(p.todo)

(* What is left is the end of the start, what is open is the beginning of   *)
(* the connections.                                                         *)
InOrderOfStart(s, p) ==
  /\ Len(p.todo) <= Len(W(s))
  /\ \A i \in 1 .. Len(p.todo) : p.todo[i] = W(s)[Behind(s, p) + i]
  /\ Len(p.opened) <= Len(C(s))
  /\ \A i \in 1 .. Len(p.opened) : p.opened[i] = C(s)[i]

Starting(s, p, made) ==
  /\ Len(p.opened) = OpenAfter(s, Behind(s, p))
  /\ Behind(s, p) >= StreamStep(s) => Needs(s) \subseteq made
  /\ \A g \in ServerNames : p.server[g] = "off"
  /\ p.errCh = 0 /\ p.requests = 0 /\ ~p.forced
  /\ p.todo # <<>> => p.consumer = "off" /\ p.events = 0

(* Past the start, everything is open and provisioned.                      *)
Ready(s, p, made) ==
  Len(p.opened) = Len(C(s)) /\ Needs(s) \subseteq made

NotServing(s, p) == p.server[Main(s)] # "serving"

(* An error that a server has to report, or will have.                      *)
Owes(state) == IF state \in {"serving", "failed"} THEN 1 ELSE 0

Owed(s, p) ==
  IF IsGRPC(s) THEN Owes(p.server["grpc"]) + Owes(p.server["health"])
               ELSE Owes(p.server["http"])

(* Events come only when all is open, and no more once Close has begun.     *)
EventsOK(s, p, made) ==
  /\ p.consumer # "off" => NatsIsLast(s)
  /\ p.consumer # "off" \/ p.events > 0 => Needs(s) \subseteq made
  /\ p.consumer \in {"some", "on"} /\ Contains(p.opened, "nats")
       => Len(p.opened) = Len(C(s))
  /\ p.events > 0 /\ p.at # "close" => Len(p.opened) = Len(C(s))

ServiceOK(s, p, made) ==
  /\ p \in ProcessType
  /\ p.at = "down" => p = Down
  /\ InOrderOfStart(s, p)
  /\ p.at = "start" => Starting(s, p, made)
  /\ p.at \in {"serve", "graceful", "gracefulOnError", "shutdown"}
       => Ready(s, p, made)
  /\ p.at \in {"graceful", "gracefulOnError", "shutdown"} => NotServing(s, p)
  /\ p.at = "shutdown" /\ IsGRPC(s) /\ ~p.forced => p.requests = 0
  /\ p.at = "close" /\ ~p.forced => NotServing(s, p) /\ p.requests = 0
  /\ p.errCh + Owed(s, p) <= ErrChCapacity(s)
  /\ p.server[Main(s)] = "serving" \/ p.requests > 0 => Needs(s) \subseteq made
  /\ EventsOK(s, p, made)

ProcInv ==
  /\ deployed \in Deployments
  /\ proc = [s \in Services |-> proc[s]]
  /\ provisioned \subseteq {"AUTH", "ROOM", "MESSAGE"}
  /\ \A s \in Services : ServiceOK(s, proc[s], provisioned)

(* A step of one process that keeps it sound keeps the invariant: streams   *)
(* only come to exist.                                                      *)
LEMMA ProcessMoves ==
  ASSUME ProcInv, NEW s \in Services, NEW q,
         proc' = [proc EXCEPT ![s] = q], UNCHANGED deployed,
         provisioned \subseteq provisioned',
         provisioned' \subseteq {"AUTH", "ROOM", "MESSAGE"},
         ServiceOK(s, q, provisioned')
  PROVE  ProcInv'
<1>1. \A t \in Services \ {s} : proc'[t] = proc[t]
  BY DEF ProcInv
<1>2. proc'[s] = q /\ proc' = [t \in Services |-> proc'[t]]
  BY DEF ProcInv
<1>3. ASSUME NEW t \in Services \ {s}
      PROVE  ServiceOK(t, proc[t], provisioned')
  <2>1. ServiceOK(t, proc[t], provisioned)
    BY DEF ProcInv
  <2> QED BY <2>1 DEF ServiceOK, Starting, Ready, EventsOK
<1> QED BY <1>1, <1>2, <1>3 DEF ProcInv

LEMMA ServersOf ==
  ASSUME NEW s \in Services
  PROVE  /\ Main(s) \in ServerNames /\ Servers(s) \subseteq ServerNames
         /\ ErrChCapacity(s) \in Nat
         /\ IsGRPC(s) => Main(s) = "grpc" /\ Servers(s) = {"grpc", "health"}
                         /\ ErrChCapacity(s) = 2
         /\ ~IsGRPC(s) => Main(s) = "http" /\ Servers(s) = {"http"}
                          /\ ErrChCapacity(s) = 1
BY DEF Main, Servers, ErrChCapacity, ServerNames

LEMMA DownIsSound ==
  ASSUME NEW s \in Services, NEW made
  PROVE  ServiceOK(s, Down, made)
<1>1. /\ Down \in ProcessType
      /\ Down.at = "down" /\ Down.opened = <<>> /\ Down.todo = <<>>
      /\ Down.errCh = 0 /\ Down.requests = 0 /\ ~Down.forced
      /\ Down.consumer = "off" /\ Down.events = 0
      /\ \A g \in ServerNames : Down.server[g] = "off"
  BY ProcessAssumption DEF Down, ProcessType, ServerNames
<1>2. InOrderOfStart(s, Down)
  BY <1>1, StartFits DEF InOrderOfStart
<1>3. Owed(s, Down) = 0
  BY <1>1 DEF Owed, Owes, ServerNames
<1>4. EventsOK(s, Down, made)
  BY <1>1 DEF EventsOK
<1> QED BY <1>1, <1>2, <1>3, <1>4, ServersOf DEF ServiceOK

-----------------------------------------------------------------------------
(* From launch to the select *)

LEMMA LaunchKeeps ==
  ASSUME ProcInv, NEW s \in Services, LaunchProcess(s)
  PROVE  ProcInv'
<1> DEFINE p == proc[s]
           q == [p EXCEPT !.at = "start", !.todo = StartOf(s)]
<1>1. p = Down
  BY DEF ProcInv, ServiceOK, LaunchProcess, At
<1>2. /\ q.at = "start" /\ q.todo = W(s) /\ q.opened = <<>>
      /\ q.errCh = 0 /\ q.requests = 0 /\ ~q.forced
      /\ q.consumer = "off" /\ q.events = 0
      /\ \A g \in ServerNames : q.server[g] = "off"
  BY <1>1 DEF Down, W, ServerNames
<1>3. q \in ProcessType
  <2>1. W(s) = StartOf(s) /\ W(s) \in Seq(StepNames) /\ Down \in ProcessType
    BY StartFits, DownIsSound DEF ServiceOK, W
  <2> QED BY <1>1, <2>1 DEF ProcessType
<1>4. proc' = [proc EXCEPT ![s] = q] /\ UNCHANGED <<deployed, provisioned>>
  BY DEF LaunchProcess
<1> HIDE DEF q
<1>5. InOrderOfStart(s, q) /\ Behind(s, q) = 0
  BY <1>2, StartFits DEF InOrderOfStart, Behind
<1>6. Starting(s, q, provisioned)
  BY <1>2, <1>5, StartFits DEF Starting
<1>7. Owed(s, q) = 0
  BY <1>2 DEF Owed, Owes, ServerNames
<1>8. ServiceOK(s, q, provisioned)
  <2>1. EventsOK(s, q, provisioned)
    BY <1>2 DEF EventsOK
  <2> QED BY <1>2, <1>3, <1>5, <1>6, <1>7, <2>1, ServersOf DEF ServiceOK
<1> QED BY <1>4, <1>8, ProcessMoves DEF ProcInv

(* A step that is about streams opens nothing, any other opens the next     *)
(* connection.                                                              *)
LEMMA StepKeeps ==
  ASSUME ProcInv, NEW s \in Services, Step(s)
  PROVE  ProcInv'
<1> DEFINE p == proc[s]
           x == Head(p.todo)
           o == IF Contains(C(s), x) THEN Append(p.opened, x) ELSE p.opened
           c == IF x = "consume" THEN "on" ELSE p.consumer
           q == [p EXCEPT !.todo = Tail(p.todo), !.consumer = c, !.opened = o]
           k == Behind(s, p)
<1>1. /\ ServiceOK(s, p, provisioned) /\ p.at = "start" /\ p.todo # <<>>
      /\ p \in ProcessType /\ p.todo \in Seq(StepNames) /\ p.opened \in Seq(StepNames)
      /\ Starting(s, p, provisioned) /\ InOrderOfStart(s, p)
  BY DEF ProcInv, ServiceOK, Step, At, ProcessType
<1>2. proc' = [proc EXCEPT ![s] = q]
  BY DEF Step, C
<1>3. /\ Len(p.todo) > 0 /\ x = p.todo[1] /\ x \in StepNames
      /\ Tail(p.todo) \in Seq(StepNames) /\ Len(Tail(p.todo)) = Len(p.todo) - 1
      /\ \A i \in 1 .. Len(p.todo) - 1 : Tail(p.todo)[i] = p.todo[i + 1]
  BY <1>1
<1>4. k + 1 \in 1 .. Len(W(s)) /\ x = W(s)[k + 1] /\ StepFits(s, k + 1) /\ k \in Nat
  <2>1. /\ Len(W(s)) \in Nat /\ Len(p.todo) \in Nat /\ Len(p.todo) <= Len(W(s))
        /\ p.todo[1] = W(s)[Behind(s, p) + 1]
    BY <1>1, <1>3, StartFits DEF InOrderOfStart
  <2>2. k = Len(W(s)) - Len(p.todo)
    BY DEF Behind
  <2> HIDE DEF k, p
  <2>3. k + 1 \in 1 .. Len(W(s)) /\ k \in Nat
    BY <1>3, <2>1, <2>2
  <2> QED BY <1>3, <2>1, <2>3, StartFits DEF k
<1>5. /\ o \in Seq(StepNames) /\ Len(o) = OpenAfter(s, k + 1) /\ Len(o) <= Len(C(s))
      /\ \A i \in 1 .. Len(o) : o[i] = C(s)[i]
  <2>1. Len(p.opened) = OpenAfter(s, k) /\ Len(p.opened) \in Nat
    BY <1>1 DEF Starting
  <2>2. \A i \in 1 .. Len(p.opened) : p.opened[i] = C(s)[i]
    BY <1>1 DEF InOrderOfStart
  <2>3. CASE k + 1 = StreamStep(s)
    <3>1. o = p.opened /\ OpenAfter(s, k + 1) = OpenAfter(s, k)
      BY <1>4, <2>3 DEF StepFits
    <3>2. OpenAfter(s, k + 1) <= Len(C(s))
      BY <1>4, StartFits DEF StepFits
    <3> HIDE DEF o, k, p, x
    <3> QED BY <1>1, <2>1, <2>2, <3>1, <3>2
  <2>4. CASE k + 1 # StreamStep(s)
    <3>1. /\ o = Append(p.opened, x) /\ OpenAfter(s, k + 1) = OpenAfter(s, k) + 1
          /\ C(s)[OpenAfter(s, k + 1)] = x
      <4>1. /\ Contains(C(s), x) /\ OpenAfter(s, k + 1) = OpenAfter(s, (k + 1) - 1) + 1
            /\ C(s)[OpenAfter(s, k + 1)] = x
        BY <1>4, <2>4 DEF StepFits
      <4>2. (k + 1) - 1 = k
        BY <1>4
      <4> QED BY <4>1, <4>2
    <3>2. OpenAfter(s, k + 1) <= Len(C(s))
      BY <1>4, StartFits DEF StepFits
    <3> QED BY <1>1, <1>3, <2>1, <2>2, <3>1, <3>2
  <2> QED BY <2>3, <2>4
<1>6. /\ provisioned \subseteq provisioned'
      /\ provisioned' \subseteq {"AUTH", "ROOM", "MESSAGE"}
  BY DEF Step, ProcInv, Owned
<1>7. k + 1 >= StreamStep(s) => Needs(s) \subseteq provisioned'
  <2>1. CASE k + 1 = StreamStep(s)
    <3>1. x = "provision" \/ x = "consume"
      BY <1>4, <2>1 DEF StepFits, Provisioning
    <3>2. CASE x = "provision"
      BY <1>4, <2>1, <3>2 DEF StepFits, Step, Needs
    <3>3. CASE x = "consume"
      BY <1>4, <2>1, <3>3 DEF StepFits, Step, Needs
    <3> QED BY <3>1, <3>2, <3>3
  <2>2. CASE k + 1 # StreamStep(s)
    <3>1. k >= StreamStep(s) => Needs(s) \subseteq provisioned
      BY <1>1 DEF Starting
    <3>2. k \in Nat /\ StreamStep(s) \in Nat
      BY <1>4, StartFits
    <3> HIDE DEF k
    <3>3. k + 1 >= StreamStep(s) => k >= StreamStep(s)
      BY <2>2, <3>2
    <3> QED BY <1>6, <3>1, <3>3
  <2> QED BY <2>1, <2>2
<1>8. /\ q \in ProcessType /\ q.todo = Tail(p.todo) /\ q.opened = o /\ q.at = "start"
      /\ q.server = p.server /\ q.errCh = p.errCh /\ q.requests = p.requests
      /\ q.forced = p.forced /\ q.consumer = c /\ q.events = p.events
  BY <1>1, <1>3, <1>5 DEF ProcessType
<1>15. x = "consume" => k + 1 = Len(W(s)) /\ NatsIsLast(s)
  BY <1>4 DEF StepFits, Provisioning
<1>16. p.consumer = "off" /\ p.events = 0
  BY <1>1 DEF Starting
<1>17. EventsOK(s, q, provisioned') /\ (q.todo # <<>> => q.consumer = "off" /\ q.events = 0)
  <2>1. CASE x = "consume"
    <3>1. /\ q.consumer = "on" /\ q.events = 0
          /\ Len(q.opened) = Len(C(s)) /\ NatsIsLast(s)
      BY <1>5, <1>8, <1>15, <1>16, <2>1, StartFits
    <3>2. Needs(s) \subseteq provisioned'
      BY <1>7, <1>15, <2>1, StartFits
    <3>3. q.todo = <<>>
      <4>1. /\ k = Len(W(s)) - Len(p.todo) /\ k + 1 = Len(W(s)) /\ k \in Nat
            /\ Len(W(s)) \in Nat /\ Len(p.todo) \in Nat
        BY <1>1, <1>4, <1>15, <2>1, StartFits DEF Behind
      <4>2. Len(p.todo) = 1
        <5>1. \A a, b, i \in Nat : i = a - b /\ i + 1 = a => b = 1
          OBVIOUS
        <5> HIDE DEF k, p
        <5> QED BY <4>1, <5>1, Zenon
      <4>3. q.todo \in Seq(StepNames) /\ Len(q.todo) = 0
        BY <1>3, <1>8, <4>2
      <4> HIDE DEF q
      <4> QED BY <4>3
    <3> QED BY <3>1, <3>2, <3>3 DEF EventsOK
  <2>2. CASE x # "consume"
    BY <1>8, <1>16, <2>2 DEF EventsOK
  <2> QED BY <2>1, <2>2
<1> HIDE DEF q, o, x, c
<1>9. Behind(s, q) = k + 1 /\ Len(q.todo) = Len(p.todo) - 1 /\ Len(p.todo) \in Nat
  <2>1. Len(W(s)) \in Nat /\ Len(p.todo) \in Nat /\ Len(q.todo) = Len(p.todo) - 1
    BY <1>1, <1>3, <1>8, StartFits
  <2> QED BY <2>1 DEF Behind
<1>10. InOrderOfStart(s, q)
  <2>1. Len(W(s)) \in Nat /\ Len(p.todo) <= Len(W(s)) /\ k \in Nat
    BY <1>1, <1>4, StartFits DEF InOrderOfStart
  <2>2. \A i \in 1 .. Len(p.todo) : p.todo[i] = W(s)[k + i]
    BY <1>1 DEF InOrderOfStart
  <2>3. \A i \in 1 .. Len(q.todo) : q.todo[i] = p.todo[i + 1]
    BY <1>3, <1>8, <1>9
  <2> HIDE DEF k
  <2>4. \A i \in 1 .. Len(q.todo) : q.todo[i] = W(s)[k + 1 + i]
    <3> TAKE i \in 1 .. Len(q.todo)
    <3>1. i + 1 \in 1 .. Len(p.todo) /\ k + (i + 1) = k + 1 + i
      BY <1>9, <2>1
    <3> QED BY <2>2, <2>3, <3>1
  <2>5. Len(q.todo) <= Len(W(s))
    BY <1>9, <2>1
  <2> QED BY <1>5, <1>8, <1>9, <2>4, <2>5 DEF InOrderOfStart
<1>11. Starting(s, q, provisioned')
  BY <1>1, <1>5, <1>7, <1>8, <1>9, <1>17 DEF Starting
<1>12. Owed(s, q) = Owed(s, p)
  BY <1>8 DEF Owed
<1>13. ServiceOK(s, q, provisioned')
  BY <1>1, <1>8, <1>10, <1>11, <1>12, <1>17, ServersOf DEF ServiceOK, Starting
<1>14. UNCHANGED deployed
  BY DEF Step
<1> QED BY <1>2, <1>6, <1>13, <1>14, ProcessMoves

(* What run leaves alone when it goes on with the same connections.         *)
SameStart(p, q) ==
  /\ q.todo = p.todo /\ q.opened = p.opened
  /\ q.consumer = p.consumer /\ q.events = p.events

LEMMA SameOrder ==
  ASSUME NEW s, NEW p, NEW q, SameStart(p, q), InOrderOfStart(s, p)
  PROVE  InOrderOfStart(s, q)
BY DEF SameStart, InOrderOfStart, Behind

LEMMA SameEvents ==
  ASSUME NEW s, NEW p, NEW q, NEW made, SameStart(p, q), EventsOK(s, p, made),
         p.at = "close" => q.at = "close"
  PROVE  EventsOK(s, q, made)
BY DEF SameStart, EventsOK

(* A start that fails, or ends while it waits, leaves servers that never    *)
(* served.                                                                  *)
LEMMA GiveUpKeeps ==
  ASSUME ProcInv, NEW s \in Services, At(s, "start"),
         proc' = [proc EXCEPT ![s].at = "close"], UNCHANGED <<deployed, provisioned>>
  PROVE  ProcInv'
<1> DEFINE p == proc[s]
           q == [p EXCEPT !.at = "close"]
<1>1. /\ ServiceOK(s, p, provisioned) /\ p.at = "start" /\ p \in ProcessType
      /\ Starting(s, p, provisioned) /\ InOrderOfStart(s, p)
  BY DEF ProcInv, ServiceOK, At
<1>2. /\ q \in ProcessType /\ SameStart(p, q) /\ q.at = "close"
      /\ q.server = p.server /\ q.errCh = p.errCh /\ q.requests = p.requests
  BY <1>1 DEF ProcessType, SameStart
<1>3. proc' = [proc EXCEPT ![s] = q]
  OBVIOUS
<1> HIDE DEF q
<1>4. InOrderOfStart(s, q)
  BY <1>1, <1>2, SameOrder
<1>5. NotServing(s, q) /\ Owed(s, q) = Owed(s, p) /\ q.requests = 0
  BY <1>1, <1>2, ServersOf DEF NotServing, Owed, Starting
<1>6. ServiceOK(s, q, provisioned)
  BY <1>1, <1>2, <1>4, <1>5, SameEvents DEF ServiceOK, NotServing
<1> QED BY <1>3, <1>6, ProcessMoves DEF ProcInv

(* A start that fails half-way through its consumers leaves some of them.   *)
LEMMA HalfStartedKeeps ==
  ASSUME ProcInv, NEW s \in Services, At(s, "start"), proc[s].todo = <<"consume">>,
         Consumed(s) \subseteq provisioned,
         proc' = [proc EXCEPT ![s].at = "close", ![s].consumer = "some"],
         UNCHANGED <<deployed, provisioned>>
  PROVE  ProcInv'
<1> DEFINE p == proc[s]
           q == [p EXCEPT !.at = "close", !.consumer = "some"]
<1>1. /\ ServiceOK(s, p, provisioned) /\ p.at = "start" /\ p \in ProcessType
      /\ Starting(s, p, provisioned) /\ InOrderOfStart(s, p)
  BY DEF ProcInv, ServiceOK, At
<1>2. /\ q \in ProcessType /\ q.at = "close" /\ q.todo = p.todo /\ q.opened = p.opened
      /\ q.server = p.server /\ q.errCh = p.errCh /\ q.requests = p.requests
      /\ q.consumer = "some" /\ q.events = 0
  <2>1. p.events = 0
    BY <1>1 DEF Starting
  <2> QED BY <1>1, <2>1 DEF ProcessType
<1>3. proc' = [proc EXCEPT ![s] = q]
  OBVIOUS
<1> HIDE DEF q
<1>4. InOrderOfStart(s, q)
  BY <1>1, <1>2 DEF InOrderOfStart, Behind
<1>5. NotServing(s, q) /\ Owed(s, q) = Owed(s, p) /\ q.requests = 0
  BY <1>1, <1>2, ServersOf DEF NotServing, Owed, Starting
<1>6. /\ Len(p.todo) = 1 /\ p.todo[1] = "consume" /\ Len(W(s)) \in Nat \ {0}
      /\ Behind(s, p) = Len(W(s)) - 1
  BY <1>1, StartFits DEF InOrderOfStart, Behind
<1>7. W(s)[Len(W(s))] = "consume" /\ StepFits(s, Len(W(s)))
  <2>1. p.todo[1] = W(s)[Behind(s, p) + 1] /\ Behind(s, p) + 1 = Len(W(s))
    BY <1>1, <1>6 DEF InOrderOfStart
  <2> QED BY <1>6, <2>1, StartFits
<1>8. /\ Len(p.opened) = Len(C(s)) /\ Owned(s) = {} /\ NatsIsLast(s)
  <2>1. /\ OpenAfter(s, Len(W(s))) = OpenAfter(s, Len(W(s)) - 1)
        /\ Owned(s) = {} /\ NatsIsLast(s)
    BY <1>7 DEF StepFits, Provisioning
  <2> QED BY <1>1, <1>6, <2>1, StartFits DEF Starting
<1>9. EventsOK(s, q, provisioned)
  BY <1>2, <1>8 DEF EventsOK, Needs
<1>10. ServiceOK(s, q, provisioned)
  BY <1>1, <1>2, <1>4, <1>5, <1>9 DEF ServiceOK, NotServing
<1> QED BY <1>3, <1>10, ProcessMoves DEF ProcInv

LEMMA StepFailsKeeps ==
  ASSUME ProcInv, NEW s \in Services, StepFails(s)
  PROVE  ProcInv'
<1>1. At(s, "start") /\ UNCHANGED <<deployed, provisioned>>
  BY DEF StepFails
<1>2. CASE proc' = [proc EXCEPT ![s].at = "close"]
  BY <1>1, <1>2, GiveUpKeeps
<1>3. CASE /\ ConsumersOf(s) > 1 /\ proc[s].todo = <<"consume">>
           /\ Consumed(s) \subseteq provisioned
           /\ proc' = [proc EXCEPT ![s].at = "close", ![s].consumer = "some"]
  BY <1>1, <1>3, HalfStartedKeeps
<1> QED BY <1>2, <1>3 DEF StepFails

LEMMA ServeKeeps ==
  ASSUME ProcInv, NEW s \in Services, Serve(s)
  PROVE  ProcInv'
<1> DEFINE p == proc[s]
           up == [g \in DOMAIN p.server |->
                    IF g \in Servers(s) THEN "serving" ELSE p.server[g]]
           q == [p EXCEPT !.at = "serve", !.server = up]
<1>1. /\ ServiceOK(s, p, provisioned) /\ p.at = "start" /\ p \in ProcessType
      /\ Starting(s, p, provisioned) /\ InOrderOfStart(s, p) /\ p.todo = <<>>
  BY DEF ProcInv, ServiceOK, At, Serve
<1>2. /\ up \in [ServerNames -> {"off", "serving", "failed", "ended"}]
      /\ \A g \in ServerNames :
           up[g] = IF g \in Servers(s) THEN "serving" ELSE "off"
  BY <1>1 DEF ProcessType, Starting
<1>3. /\ q \in ProcessType /\ SameStart(p, q) /\ q.at = "serve"
      /\ q.server = up /\ q.errCh = p.errCh /\ q.requests = p.requests
  BY <1>1, <1>2 DEF ProcessType, SameStart
<1>4. proc' = [proc EXCEPT ![s] = q] /\ UNCHANGED <<deployed, provisioned>>
  BY DEF Serve
<1> HIDE DEF q, up
<1>5. InOrderOfStart(s, q)
  BY <1>1, <1>3, SameOrder
<1>6. Ready(s, q, provisioned)
  <2>1. Behind(s, p) = Len(W(s)) /\ Len(W(s)) \in Nat
    BY <1>1, StartFits DEF Behind
  <2>2. Len(W(s)) >= StreamStep(s) => Needs(s) \subseteq provisioned
    BY <1>1, <2>1 DEF Starting
  <2>3. Len(p.opened) = Len(C(s)) /\ StreamStep(s) \in Nat
    BY <1>1, <2>1, StartFits DEF Starting
  <2>4. Len(W(s)) < StreamStep(s) => Needs(s) = {}
    BY StartFits
  <2> QED BY <1>3, <2>1, <2>2, <2>3, <2>4 DEF Ready, SameStart
<1>7. Owed(s, q) <= ErrChCapacity(s) /\ Owed(s, q) \in Nat
  <2>1. CASE IsGRPC(s)
    BY <1>2, <1>3, <2>1, ServersOf DEF Owed, Owes, ServerNames
  <2>2. CASE ~IsGRPC(s)
    BY <1>2, <1>3, <2>2, ServersOf DEF Owed, Owes, ServerNames
  <2> QED BY <2>1, <2>2
<1>8. ServiceOK(s, q, provisioned)
  BY <1>1, <1>3, <1>5, <1>6, <1>7, ServersOf, SameEvents DEF ServiceOK, Starting, Ready
<1> QED BY <1>4, <1>8, ProcessMoves DEF ProcInv

-----------------------------------------------------------------------------
(* Around the process                                                      *)

LEMMA RequestKeeps ==
  ASSUME ProcInv, NEW s \in Services, Request(s)
  PROVE  ProcInv'
<1> DEFINE p == proc[s]
           q == [p EXCEPT !.requests = p.requests + 1]
<1>1. /\ ServiceOK(s, p, provisioned) /\ p \in ProcessType /\ InOrderOfStart(s, p)
      /\ p.server[Main(s)] = "serving"
  BY DEF ProcInv, ServiceOK, Request
<1>2. /\ q \in ProcessType /\ SameStart(p, q) /\ q.at = p.at /\ q.forced = p.forced
      /\ q.server = p.server /\ q.errCh = p.errCh /\ q.requests = p.requests + 1
  <2>1. MaxRequests \in Nat /\ p.requests \in 0 .. MaxRequests
    BY <1>1, ProcessAssumption DEF ProcessType
  <2>2. p.requests + 1 \in 0 .. MaxRequests
    BY <2>1 DEF Request
  <2> QED BY <1>1, <2>2 DEF ProcessType, SameStart
<1>3. proc' = [proc EXCEPT ![s] = q] /\ UNCHANGED <<deployed, provisioned>>
  BY DEF Request
<1>4. /\ p.at \in {"serve", "close"} /\ (p.at = "close" => p.forced)
      /\ Needs(s) \subseteq provisioned
  <2>1. p.at # "down"
    BY <1>1, ServersOf DEF ServiceOK, Down, ServerNames
  <2>2. p.at # "start"
    BY <1>1, ServersOf DEF ServiceOK, Starting
  <2>3. p.at \notin {"graceful", "gracefulOnError", "shutdown"}
    BY <1>1 DEF ServiceOK, NotServing
  <2>4. (p.at = "close" => p.forced) /\ Needs(s) \subseteq provisioned
    BY <1>1 DEF ServiceOK, NotServing
  <2> QED BY <1>1, <2>1, <2>2, <2>3, <2>4 DEF ProcessType
<1> HIDE DEF q
<1>5. InOrderOfStart(s, q) /\ Owed(s, q) = Owed(s, p)
  BY <1>1, <1>2, SameOrder DEF Owed
<1>6. p.at = "serve" => Ready(s, q, provisioned)
  BY <1>1, <1>2 DEF ServiceOK, Ready, SameStart
<1>7. ServiceOK(s, q, provisioned)
  BY <1>1, <1>2, <1>4, <1>5, <1>6, SameEvents DEF ServiceOK
<1> QED BY <1>3, <1>7, ProcessMoves DEF ProcInv

LEMMA RequestEndsKeeps ==
  ASSUME ProcInv, NEW s \in Services, RequestEnds(s)
  PROVE  ProcInv'
<1> DEFINE p == proc[s]
           q == [p EXCEPT !.requests = p.requests - 1]
<1>1. /\ ServiceOK(s, p, provisioned) /\ p \in ProcessType /\ InOrderOfStart(s, p)
      /\ p.requests > 0
  BY DEF ProcInv, ServiceOK, RequestEnds
<1>2. /\ q \in ProcessType /\ SameStart(p, q) /\ q.at = p.at /\ q.forced = p.forced
      /\ q.server = p.server /\ q.errCh = p.errCh
  <2>1. MaxRequests \in Nat /\ p.requests \in 0 .. MaxRequests
    BY <1>1, ProcessAssumption DEF ProcessType
  <2>2. p.requests - 1 \in 0 .. MaxRequests
    BY <1>1, <2>1
  <2> HIDE DEF p
  <2> QED BY <1>1, <2>2 DEF ProcessType, SameStart
<1>3. proc' = [proc EXCEPT ![s] = q] /\ UNCHANGED <<deployed, provisioned>>
  BY DEF RequestEnds
<1>4. /\ p.at \notin {"down", "start"}
      /\ (p.at = "shutdown" /\ IsGRPC(s) => p.forced)
      /\ (p.at = "close" => p.forced)
      /\ Needs(s) \subseteq provisioned
  BY <1>1 DEF ServiceOK, Starting, Down
<1> HIDE DEF q
<1>5. InOrderOfStart(s, q) /\ Owed(s, q) = Owed(s, p)
  BY <1>1, <1>2, SameOrder DEF Owed
<1>6. Ready(s, p, provisioned) => Ready(s, q, provisioned)
  BY <1>2 DEF Ready, SameStart
<1>7. NotServing(s, p) => NotServing(s, q)
  BY <1>2 DEF NotServing
<1>8. ServiceOK(s, q, provisioned)
  BY <1>1, <1>2, <1>4, <1>5, <1>6, <1>7, SameEvents DEF ServiceOK
<1> QED BY <1>3, <1>8, ProcessMoves DEF ProcInv

(* What the events of a process, or its consumers, change of it; a process  *)
(* in which they do anything has done all of its start.                     *)
LEMMA EventsMove ==
  ASSUME ProcInv, NEW s \in Services,
         NEW consumer \in {"off", "some", "on", "drained"}, NEW n \in 0 .. MaxRequests,
         proc[s].consumer # "off" \/ proc[s].events > 0,
         LET q == [proc[s] EXCEPT !.consumer = consumer, !.events = n]
         IN  EventsOK(s, q, provisioned),
         proc' = [proc EXCEPT ![s].consumer = consumer, ![s].events = n],
         UNCHANGED <<deployed, provisioned>>
  PROVE  ProcInv'
<1> DEFINE p == proc[s]
           q == [p EXCEPT !.consumer = consumer, !.events = n]
<1>1. /\ ServiceOK(s, p, provisioned) /\ p \in ProcessType /\ InOrderOfStart(s, p)
  BY DEF ProcInv, ServiceOK
<1>2. /\ q \in ProcessType /\ q.todo = p.todo /\ q.opened = p.opened
      /\ q.at = p.at /\ q.forced = p.forced
      /\ q.server = p.server /\ q.errCh = p.errCh /\ q.requests = p.requests
  BY <1>1 DEF ProcessType
<1>3. proc' = [proc EXCEPT ![s] = q] /\ EventsOK(s, q, provisioned)
  OBVIOUS
<1>4. p.at # "down" /\ (p.at = "start" => p.todo = <<>>)
  <2>1. Down.consumer = "off" /\ Down.events = 0
    BY DEF Down
  <2>2. p.at = "down" => p = Down
    BY <1>1 DEF ServiceOK
  <2>3. p.at = "start" => Starting(s, p, provisioned)
    BY <1>1 DEF ServiceOK
  <2>4. p.consumer # "off" \/ p.events > 0
    OBVIOUS
  <2> HIDE DEF p
  <2> QED BY <2>1, <2>2, <2>3, <2>4 DEF Starting
<1> HIDE DEF q
<1>5. InOrderOfStart(s, q) /\ Owed(s, q) = Owed(s, p)
  BY <1>1, <1>2 DEF InOrderOfStart, Behind, Owed
<1>6. Starting(s, p, provisioned) => p.todo # <<>> \/ Starting(s, q, provisioned)
  BY <1>2 DEF Starting, Behind
<1>7. Ready(s, p, provisioned) => Ready(s, q, provisioned)
  BY <1>2 DEF Ready
<1>8. NotServing(s, p) => NotServing(s, q)
  BY <1>2 DEF NotServing
<1>9. ServiceOK(s, q, provisioned)
  BY <1>1, <1>2, <1>3, <1>4, <1>5, <1>6, <1>7, <1>8 DEF ServiceOK
<1> QED BY <1>3, <1>9, ProcessMoves DEF ProcInv

(* What the three actions read of a process. *)
LEMMA EventFields ==
  ASSUME ProcInv, NEW s \in Services
  PROVE  /\ proc[s] \in ProcessType /\ EventsOK(s, proc[s], provisioned)
         /\ proc[s].consumer \in {"off", "some", "on", "drained"}
         /\ proc[s].events \in 0 .. MaxRequests /\ MaxRequests \in Nat
BY ProcessAssumption DEF ProcInv, ServiceOK, ProcessType

LEMMA EventComesKeeps ==
  ASSUME ProcInv, NEW s \in Services, EventComes(s)
  PROVE  ProcInv'
<1> DEFINE p == proc[s]
           n == p.events + 1
           q == [p EXCEPT !.consumer = p.consumer, !.events = n]
<1>1. /\ p \in ProcessType /\ EventsOK(s, p, provisioned)
      /\ n \in 0 .. MaxRequests /\ n > 0
      /\ p.consumer \in {"some", "on"} /\ Contains(p.opened, "nats")
  BY EventFields DEF EventComes, Delivering
<1>2. /\ q.consumer = p.consumer /\ q.opened = p.opened /\ q.at = p.at /\ q.events = n
  BY <1>1 DEF ProcessType
<1>3. /\ proc' = [proc EXCEPT ![s].consumer = p.consumer, ![s].events = n]
      /\ UNCHANGED <<deployed, provisioned>>
  BY <1>1 DEF EventComes, ProcInv, ProcessType
<1>4. EventsOK(s, q, provisioned)
  <2> HIDE DEF q, n, p
  <2> QED BY <1>1, <1>2 DEF EventsOK
<1>5. p.consumer \in {"off", "some", "on", "drained"} /\ p.consumer # "off"
  BY <1>1
<1> HIDE DEF n
<1> QED BY <1>1, <1>3, <1>4, <1>5, EventsMove

LEMMA EventHandledKeeps ==
  ASSUME ProcInv, NEW s \in Services, EventHandled(s)
  PROVE  ProcInv'
<1> DEFINE p == proc[s]
           n == p.events - 1
           q == [p EXCEPT !.consumer = p.consumer, !.events = n]
<1>1. /\ p \in ProcessType /\ EventsOK(s, p, provisioned)
      /\ n \in 0 .. MaxRequests /\ p.events > 0
      /\ p.consumer \in {"off", "some", "on", "drained"}
  BY EventFields DEF EventHandled
<1>2. /\ q.consumer = p.consumer /\ q.opened = p.opened /\ q.at = p.at /\ q.events = n
  BY <1>1 DEF ProcessType
<1>3. /\ proc' = [proc EXCEPT ![s].consumer = p.consumer, ![s].events = n]
      /\ UNCHANGED <<deployed, provisioned>>
  BY <1>1 DEF EventHandled, ProcInv, ProcessType
<1>4. EventsOK(s, q, provisioned)
  <2> HIDE DEF q, n, p
  <2> QED BY <1>1, <1>2 DEF EventsOK
<1> HIDE DEF n
<1> QED BY <1>1, <1>3, <1>4, EventsMove

LEMMA DrainedKeeps ==
  ASSUME ProcInv, NEW s \in Services, Drained(s)
  PROVE  ProcInv'
<1> DEFINE p == proc[s]
           q == [p EXCEPT !.consumer = "drained", !.events = p.events]
<1>1. /\ p \in ProcessType /\ EventsOK(s, p, provisioned)
      /\ p.events \in 0 .. MaxRequests /\ p.consumer = "on"
  BY EventFields DEF Drained
<1>2. /\ q.consumer = "drained" /\ q.opened = p.opened /\ q.at = p.at
      /\ q.events = p.events
  BY <1>1 DEF ProcessType
<1>3. /\ proc' = [proc EXCEPT ![s].consumer = "drained", ![s].events = p.events]
      /\ UNCHANGED <<deployed, provisioned>>
  BY <1>1 DEF Drained, ProcInv, ProcessType
<1>4. EventsOK(s, q, provisioned)
  <2> HIDE DEF q, p
  <2> QED BY <1>1, <1>2 DEF EventsOK
<1>5. "drained" \in {"off", "some", "on", "drained"} /\ p.consumer # "off"
  BY <1>1
<1> QED BY <1>1, <1>3, <1>4, <1>5, EventsMove

(* A server that changes, or whose error moves into errCh, as long as what  *)
(* is owed stays: no server comes to serve, and none that is off changes.   *)
LEMMA ServerMoves ==
  ASSUME ProcInv, NEW s \in Services, NEW g \in Servers(s),
         NEW state \in {"failed", "ended"}, NEW n \in Nat,
         proc[s].server[g] # "off",
         n + Owes(state) <= proc[s].errCh + Owes(proc[s].server[g]),
         proc' = [proc EXCEPT ![s].server[g] = state, ![s].errCh = n],
         UNCHANGED <<deployed, provisioned>>
  PROVE  ProcInv'
<1> DEFINE p == proc[s]
           up == [p.server EXCEPT ![g] = state]
           q == [p EXCEPT !.server = up, !.errCh = n]
<1>1. /\ ServiceOK(s, p, provisioned) /\ p \in ProcessType /\ InOrderOfStart(s, p)
      /\ g \in ServerNames
  BY ServersOf DEF ProcInv, ServiceOK
<1>2. /\ up \in [ServerNames -> {"off", "serving", "failed", "ended"}]
      /\ up[g] = state /\ \A h \in ServerNames \ {g} : up[h] = p.server[h]
  BY <1>1 DEF ProcessType
<1>3. /\ q \in ProcessType /\ SameStart(p, q) /\ q.at = p.at /\ q.forced = p.forced
      /\ q.server = up /\ q.errCh = n /\ q.requests = p.requests
  BY <1>1, <1>2 DEF ProcessType, SameStart
<1>4. proc' = [proc EXCEPT ![s] = q] /\ UNCHANGED <<deployed, provisioned>>
  OBVIOUS
<1>5. p.at \notin {"down", "start"}
  BY <1>1 DEF ServiceOK, Starting, Down, ServerNames
<1> HIDE DEF q, up
<1>6. InOrderOfStart(s, q)
  BY <1>1, <1>3, SameOrder
<1>7. q.errCh + Owed(s, q) <= ErrChCapacity(s)
  <2>1. p.errCh + Owed(s, p) <= ErrChCapacity(s) /\ p.errCh \in Nat
    BY <1>1 DEF ServiceOK, ProcessType
  <2>2. CASE IsGRPC(s)
    BY <1>2, <1>3, <2>1, <2>2, ServersOf DEF Owed, Owes, ServerNames
  <2>3. CASE ~IsGRPC(s)
    BY <1>2, <1>3, <2>1, <2>3, ServersOf DEF Owed, Owes, ServerNames
  <2> QED BY <2>2, <2>3
<1>8. Ready(s, p, provisioned) => Ready(s, q, provisioned)
  BY <1>3 DEF Ready, SameStart
<1>9. q.server[Main(s)] = "serving" => p.server[Main(s)] = "serving"
  BY <1>2, <1>3, ServersOf
<1>10. ServiceOK(s, q, provisioned)
  BY <1>1, <1>3, <1>5, <1>6, <1>7, <1>8, <1>9, SameEvents DEF ServiceOK, NotServing
<1> QED BY <1>4, <1>10, ProcessMoves DEF ProcInv

LEMMA ServerFailsKeeps ==
  ASSUME ProcInv, NEW s \in Services, NEW g \in Servers(s), ServerFails(s, g)
  PROVE  ProcInv'
<1> DEFINE n == proc[s].errCh
<1>1. n \in Nat /\ proc[s] \in ProcessType /\ g \in ServerNames
  BY ServersOf DEF ProcInv, ServiceOK, ProcessType
<1>2. proc' = [proc EXCEPT ![s].server[g] = "failed", ![s].errCh = n]
  BY <1>1 DEF ServerFails, ProcInv, ProcessType
<1>3. UNCHANGED <<deployed, provisioned>> /\ proc[s].server[g] = "serving"
  BY DEF ServerFails
<1>4. n + Owes("failed") <= proc[s].errCh + Owes(proc[s].server[g])
  BY <1>1, <1>3 DEF Owes
<1> QED BY <1>1, <1>2, <1>3, <1>4, ServerMoves

LEMMA ReportKeeps ==
  ASSUME ProcInv, NEW s \in Services, NEW g \in Servers(s), Report(s, g)
  PROVE  ProcInv'
<1> DEFINE n == proc[s].errCh + 1
<1>1. n \in Nat /\ proc[s].errCh \in Nat
  BY DEF ProcInv, ServiceOK, ProcessType
<1>2. /\ UNCHANGED <<deployed, provisioned>> /\ proc[s].server[g] = "failed"
      /\ proc' = [proc EXCEPT ![s].server[g] = "ended", ![s].errCh = n]
  BY DEF Report
<1>3. n + Owes("ended") <= proc[s].errCh + Owes(proc[s].server[g])
  BY <1>1, <1>2 DEF Owes
<1> QED BY <1>1, <1>2, <1>3, ServerMoves

LEMMA SignalKeeps ==
  ASSUME ProcInv, NEW s \in Services, SignalProcess(s)
  PROVE  ProcInv'
<1> DEFINE p == proc[s]
           q == [p EXCEPT !.signalled = TRUE]
<1>1. /\ ServiceOK(s, p, provisioned) /\ p \in ProcessType /\ InOrderOfStart(s, p)
      /\ p.at # "down"
  BY DEF ProcInv, ServiceOK, SignalProcess, At
<1>2. /\ q \in ProcessType /\ SameStart(p, q) /\ q.at = p.at /\ q.forced = p.forced
      /\ q.server = p.server /\ q.errCh = p.errCh /\ q.requests = p.requests
  BY <1>1 DEF ProcessType, SameStart
<1>3. proc' = [proc EXCEPT ![s] = q] /\ UNCHANGED <<deployed, provisioned>>
  BY DEF SignalProcess
<1> HIDE DEF q
<1>4. InOrderOfStart(s, q) /\ Owed(s, q) = Owed(s, p)
  BY <1>1, <1>2, SameOrder DEF Owed
<1>5. Starting(s, p, provisioned) => Starting(s, q, provisioned)
  BY <1>2 DEF Starting, SameStart, Behind
<1>6. Ready(s, p, provisioned) => Ready(s, q, provisioned)
  BY <1>2 DEF Ready, SameStart
<1>7. NotServing(s, p) => NotServing(s, q)
  BY <1>2 DEF NotServing
<1>8. ServiceOK(s, q, provisioned)
  BY <1>1, <1>2, <1>4, <1>5, <1>6, <1>7, SameEvents DEF ServiceOK
<1> QED BY <1>3, <1>8, ProcessMoves DEF ProcInv

-----------------------------------------------------------------------------
(* From the select to the exit *)

(* A server told to stop owes no more than before, and does not serve.      *)
LEMMA QuietServes ==
  ASSUME NEW s \in Services, NEW g \in ServerNames, proc[s] \in ProcessType,
         NEW q \in ProcessType, q.server = Quiet(s, g)
  PROVE  /\ Quiet(s, g) \in [ServerNames -> {"off", "serving", "failed", "ended"}]
         /\ Quiet(s, g)[g] # "serving"
         /\ \A h \in ServerNames : Quiet(s, g)[h] = "serving"
              => proc[s].server[h] = "serving"
         /\ Owed(s, q) <= Owed(s, proc[s])
         /\ Owed(s, q) \in Nat /\ Owed(s, proc[s]) \in Nat
<1>1. /\ Quiet(s, g) \in [ServerNames -> {"off", "serving", "failed", "ended"}]
      /\ Quiet(s, g)[g] # "serving"
      /\ \A h \in ServerNames : Quiet(s, g)[h] = "serving"
           => proc[s].server[h] = "serving"
  BY DEF Quiet, ProcessType
<1>2. \A h \in ServerNames : /\ Owes(q.server[h]) <= Owes(proc[s].server[h])
                             /\ Owes(q.server[h]) \in {0, 1}
                             /\ Owes(proc[s].server[h]) \in {0, 1}
  BY DEF Quiet, ProcessType, Owes
<1>3. "grpc" \in ServerNames /\ "health" \in ServerNames /\ "http" \in ServerNames
  BY DEF ServerNames
<1>4. Owed(s, q) <= Owed(s, proc[s]) /\ Owed(s, q) \in Nat /\ Owed(s, proc[s]) \in Nat
  BY <1>2, <1>3 DEF Owed
<1> QED BY <1>1, <1>4

(* What Quiet gives is a server array whatever the record around it.        *)
LEMMA QuietType ==
  ASSUME NEW s \in Services, NEW g \in ServerNames, proc[s] \in ProcessType
  PROVE  Quiet(s, g) \in [ServerNames -> {"off", "serving", "failed", "ended"}]
BY DEF Quiet, ProcessType

(* A process that leaves the select: all of it is there, and it may be      *)
(* serving.                                                                 *)
LEMMA AtSelect ==
  ASSUME ProcInv, NEW s \in Services, At(s, "serve")
  PROVE  /\ proc[s] \in ProcessType /\ InOrderOfStart(s, proc[s])
         /\ Ready(s, proc[s], provisioned)
         /\ proc[s].errCh + Owed(s, proc[s]) <= ErrChCapacity(s)
         /\ proc[s].errCh \in Nat /\ Owed(s, proc[s]) \in Nat
         /\ EventsOK(s, proc[s], provisioned) /\ proc[s].at = "serve"
<1>1. /\ ServiceOK(s, proc[s], provisioned) /\ proc[s].at = "serve"
      /\ proc[s] \in ProcessType
  BY DEF ProcInv, At, ServiceOK
<1>2. Owed(s, proc[s]) \in Nat
  BY DEF Owed, Owes
<1> QED BY <1>1, <1>2 DEF ServiceOK, ProcessType

LEMMA TakeErrorKeeps ==
  ASSUME ProcInv, NEW s \in Services, TakeError(s)
  PROVE  ProcInv'
<1> DEFINE p == proc[s]
<1>1. /\ p \in ProcessType /\ InOrderOfStart(s, p) /\ Ready(s, p, provisioned)
      /\ p.errCh + Owed(s, p) <= ErrChCapacity(s)
      /\ p.errCh \in Nat \ {0} /\ p.errCh - 1 \in Nat /\ Owed(s, p) \in Nat
      /\ EventsOK(s, p, provisioned) /\ p.at = "serve"
  BY AtSelect DEF TakeError
<1>2. CASE IsGRPC(s)
  <2> DEFINE q == [p EXCEPT !.at = "gracefulOnError", !.errCh = p.errCh - 1,
                            !.server = Quiet(s, "grpc"), !.forced = FALSE]
  <2>1. proc' = [proc EXCEPT ![s] = q] /\ UNCHANGED <<deployed, provisioned>>
    BY <1>2 DEF TakeError
  <2>2. Main(s) = "grpc" /\ "grpc" \in ServerNames /\ ErrChCapacity(s) \in Nat
    BY <1>2, ServersOf
  <2>3. /\ q \in ProcessType /\ SameStart(p, q) /\ q.at = "gracefulOnError"
        /\ q.server = Quiet(s, "grpc") /\ q.errCh = p.errCh - 1
    <3>1. Quiet(s, "grpc") \in [ServerNames -> {"off", "serving", "failed", "ended"}]
      BY <1>1, <2>2, QuietType
    <3> HIDE DEF p
    <3> QED BY <1>1, <3>1 DEF ProcessType, SameStart
  <2> HIDE DEF q
  <2>4. InOrderOfStart(s, q) /\ Ready(s, q, provisioned) /\ NotServing(s, q)
    BY <1>1, <2>2, <2>3, SameOrder, QuietServes DEF Ready, SameStart, NotServing
  <2>5. q.errCh + Owed(s, q) <= ErrChCapacity(s)
    BY <1>1, <2>2, <2>3, QuietServes
  <2>6. ServiceOK(s, q, provisioned)
    BY <1>1, <2>3, <2>4, <2>5, SameEvents DEF ServiceOK, Ready
  <2> QED BY <2>1, <2>6, ProcessMoves DEF ProcInv
<1>3. CASE ~IsGRPC(s)
  <2> DEFINE q == [p EXCEPT !.at = "close", !.errCh = p.errCh - 1, !.forced = TRUE]
  <2>1. proc' = [proc EXCEPT ![s] = q] /\ UNCHANGED <<deployed, provisioned>>
    <3> DEFINE w == [p EXCEPT !.at = "close", !.errCh = p.errCh - 1, !.server = p.server,
                              !.forced = TRUE]
    <3>1. /\ proc' = [proc EXCEPT ![s] = w]
          /\ UNCHANGED <<deployed, provisioned>>
      BY <1>3 DEF TakeError
    <3>2. w = q
      <4> HIDE DEF p
      <4> QED BY <1>1 DEF ProcessType
    <3> HIDE DEF w, q
    <3> QED BY <3>1, <3>2
  <2>2. /\ q \in ProcessType /\ SameStart(p, q) /\ q.at = "close" /\ q.forced
        /\ q.server = p.server /\ q.errCh = p.errCh - 1
    <3> HIDE DEF p
    <3> QED BY <1>1 DEF ProcessType, SameStart
  <2> HIDE DEF q
  <2>3. InOrderOfStart(s, q) /\ Owed(s, q) = Owed(s, p)
    BY <1>1, <2>2, SameOrder DEF Owed
  <2>4. q.errCh + Owed(s, q) <= ErrChCapacity(s)
    BY <1>1, <2>2, <2>3, ServersOf
  <2>5. ServiceOK(s, q, provisioned)
    BY <1>1, <2>2, <2>3, <2>4, SameEvents DEF ServiceOK, Ready
  <2> QED BY <2>1, <2>5, ProcessMoves DEF ProcInv
<1> QED BY <1>2, <1>3

LEMMA TakeSignalKeeps ==
  ASSUME ProcInv, NEW s \in Services, TakeSignal(s)
  PROVE  ProcInv'
<1> DEFINE p == proc[s]
           place == IF IsGRPC(s) THEN "graceful" ELSE "shutdown"
           q == [p EXCEPT !.at = place, !.server = Quiet(s, Main(s))]
<1>1. /\ p \in ProcessType /\ InOrderOfStart(s, p) /\ Ready(s, p, provisioned)
      /\ p.errCh + Owed(s, p) <= ErrChCapacity(s)
      /\ p.errCh \in Nat /\ Owed(s, p) \in Nat
      /\ Main(s) \in ServerNames /\ ErrChCapacity(s) \in Nat
      /\ EventsOK(s, p, provisioned) /\ p.at = "serve"
  BY AtSelect, ServersOf DEF TakeSignal
<1>2. proc' = [proc EXCEPT ![s] = q] /\ UNCHANGED <<deployed, provisioned>>
  BY DEF TakeSignal
<1>3. /\ q \in ProcessType /\ SameStart(p, q) /\ q.at = place
      /\ q.server = Quiet(s, Main(s)) /\ q.errCh = p.errCh
  <2>1. Quiet(s, Main(s)) \in [ServerNames -> {"off", "serving", "failed", "ended"}]
    BY <1>1, QuietType
  <2> HIDE DEF p
  <2> QED BY <1>1, <2>1 DEF ProcessType, SameStart
<1> HIDE DEF q
<1>4. InOrderOfStart(s, q) /\ Ready(s, q, provisioned) /\ NotServing(s, q)
  BY <1>1, <1>3, SameOrder, QuietServes DEF Ready, SameStart, NotServing
<1>5. q.errCh + Owed(s, q) <= ErrChCapacity(s)
  BY <1>1, <1>3, QuietServes
<1>6. ServiceOK(s, q, provisioned)
  BY <1>1, <1>3, <1>4, <1>5, SameEvents DEF ServiceOK, Ready
<1> QED BY <1>2, <1>6, ProcessMoves DEF ProcInv

(* A process on its way down, for whatever reason: it does not serve, and   *)
(* run may go on to the next place.                                         *)
LEMMA GoesOn ==
  ASSUME ProcInv, NEW s \in Services,
         proc[s].at \in {"graceful", "gracefulOnError", "shutdown"},
         NEW place \in {"shutdown", "close"}, NEW n \in Nat, n <= proc[s].errCh,
         NEW server \in {proc[s].server, Quiet(s, "health")}, NEW forced \in BOOLEAN,
         (place = "shutdown" /\ IsGRPC(s)) \/ place = "close"
           => proc[s].requests = 0 \/ forced,
         proc' = [proc EXCEPT ![s].at = place, ![s].errCh = n, ![s].server = server,
                              ![s].forced = forced],
         UNCHANGED <<deployed, provisioned>>
  PROVE  ProcInv'
<1> DEFINE p == proc[s]
           q == [p EXCEPT !.at = place, !.errCh = n, !.server = server,
                          !.forced = forced]
<1>1. /\ ServiceOK(s, p, provisioned) /\ p \in ProcessType /\ InOrderOfStart(s, p)
      /\ Ready(s, p, provisioned) /\ NotServing(s, p)
      /\ p.errCh + Owed(s, p) <= ErrChCapacity(s) /\ p.errCh \in Nat
      /\ Main(s) \in ServerNames /\ ErrChCapacity(s) \in Nat
  BY ServersOf DEF ProcInv, ServiceOK, ProcessType
<1>2. /\ "health" \in ServerNames
      /\ server \in [ServerNames -> {"off", "serving", "failed", "ended"}]
  BY <1>1, QuietType DEF ProcessType, ServerNames
<1>3. proc' = [proc EXCEPT ![s] = q]
  OBVIOUS
<1>4. /\ q \in ProcessType /\ SameStart(p, q) /\ q.at = place /\ q.server = server
      /\ q.errCh = n /\ q.requests = p.requests /\ q.forced = forced
  BY <1>1, <1>2 DEF ProcessType, SameStart
<1> HIDE DEF q
<1>5. /\ Owed(s, q) <= Owed(s, p) /\ Owed(s, q) \in Nat /\ Owed(s, p) \in Nat
      /\ NotServing(s, q)
  <2>1. CASE server = p.server
    BY <1>1, <1>4, <2>1 DEF Owed, Owes, NotServing
  <2>2. CASE server = Quiet(s, "health")
    BY <1>1, <1>2, <1>4, <2>2, QuietServes DEF NotServing
  <2> QED BY <2>1, <2>2
<1>6. InOrderOfStart(s, q) /\ Ready(s, q, provisioned)
  BY <1>1, <1>4, SameOrder DEF Ready, SameStart
<1>7. q.errCh + Owed(s, q) <= ErrChCapacity(s)
  BY <1>1, <1>4, <1>5
<1>8. ServiceOK(s, q, provisioned)
  BY <1>1, <1>4, <1>5, <1>6, <1>7, SameEvents DEF ServiceOK, Ready
<1> QED BY <1>3, <1>8, ProcessMoves DEF ProcInv

(* The record of a process, field by field, as the steps leave it.          *)
LEMMA Fields ==
  ASSUME ProcInv, NEW s \in Services
  PROVE  /\ proc[s] \in ProcessType /\ proc[s].errCh \in Nat
         /\ proc[s].forced \in BOOLEAN
         /\ proc = [proc EXCEPT ![s].errCh = proc[s].errCh]
BY DEF ProcInv, ServiceOK, ProcessType

LEMMA GracefulStopKeeps ==
  ASSUME ProcInv, NEW s \in Services, GracefulStop(s)
  PROVE  ProcInv'
<1> DEFINE p == proc[s]
<1>1. p \in ProcessType /\ p.errCh \in Nat /\ p.forced \in BOOLEAN /\ p.requests = 0
  BY Fields DEF GracefulStop
<1>2. PICK place \in {"shutdown", "close"} :
        /\ p.at \in {"graceful", "gracefulOnError"}
        /\ proc' = [proc EXCEPT ![s].at = place]
  BY DEF GracefulStop, At
<1>3. proc' = [proc EXCEPT ![s].at = place, ![s].errCh = p.errCh,
                           ![s].server = p.server, ![s].forced = p.forced]
  BY <1>1, <1>2 DEF ProcessType, ProcInv
<1>4. UNCHANGED <<deployed, provisioned>>
  BY DEF GracefulStop
<1>5. /\ p.at \in {"graceful", "gracefulOnError", "shutdown"} /\ p.errCh <= p.errCh
      /\ p.server \in {p.server, Quiet(s, "health")}
  BY <1>1, <1>2
<1> QED BY <1>1, <1>2, <1>3, <1>4, <1>5, GoesOn

LEMMA StopKeeps ==
  ASSUME ProcInv, NEW s \in Services, Stop(s)
  PROVE  ProcInv'
<1> DEFINE p == proc[s]
<1>1. p \in ProcessType /\ p.errCh \in Nat /\ p.at = "graceful"
  BY Fields DEF Stop, At
<1>2. /\ proc' = [proc EXCEPT ![s].at = "shutdown", ![s].errCh = p.errCh,
                              ![s].server = p.server, ![s].forced = TRUE]
      /\ UNCHANGED <<deployed, provisioned>>
  BY <1>1 DEF Stop, ProcessType, ProcInv
<1>3. /\ p.at \in {"graceful", "gracefulOnError", "shutdown"} /\ p.errCh <= p.errCh
      /\ p.server \in {p.server, Quiet(s, "health")} /\ TRUE \in BOOLEAN
  BY <1>1
<1> QED BY <1>1, <1>2, <1>3, GoesOn

LEMMA ShutdownKeeps ==
  ASSUME ProcInv, NEW s \in Services, Shutdown(s)
  PROVE  ProcInv'
<1> DEFINE p == proc[s]
           server == IF IsGRPC(s) THEN Quiet(s, "health") ELSE p.server
           n == IF s \in {"auth", "user", "room"} /\ p.errCh > 0
                  THEN p.errCh - 1 ELSE p.errCh
           forced == p.forced \/ (~IsGRPC(s) /\ p.requests > 0)
<1>1. /\ p \in ProcessType /\ p.errCh \in Nat /\ p.at = "shutdown"
      /\ p.forced \in BOOLEAN
  BY Fields DEF Shutdown, At
<1>2. /\ proc' = [proc EXCEPT ![s].at = "close", ![s].errCh = n,
                              ![s].server = server, ![s].forced = forced]
      /\ UNCHANGED <<deployed, provisioned>>
  <2>1. UNCHANGED <<deployed, provisioned>>
    BY DEF Shutdown
  <2>2. proc' = [proc EXCEPT ![s].at = "close", ![s].server = server, ![s].errCh = n,
                             ![s].forced = forced]
    BY Zenon DEF Shutdown
  <2> HIDE DEF server, n, forced
  <2> QED BY <1>1, <2>1, <2>2
<1>3. n \in Nat /\ n <= p.errCh
  BY <1>1
<1>4. p.requests = 0 \/ forced
  <2>1. IsGRPC(s) /\ ~p.forced => p.requests = 0
    BY <1>1 DEF ProcInv, ServiceOK
  <2>2. p.requests \in 0 .. MaxRequests /\ MaxRequests \in Nat
    BY <1>1, ProcessAssumption DEF ProcessType
  <2>3. p.requests = 0 \/ p.requests > 0
    BY <2>2
  <2> QED BY <2>1, <2>3
<1>5. forced \in BOOLEAN /\ server \in {p.server, Quiet(s, "health")}
  OBVIOUS
<1> HIDE DEF n, server, forced
<1> QED BY <1>1, <1>2, <1>3, <1>4, <1>5, GoesOn

LEMMA CloseKeeps ==
  ASSUME ProcInv, NEW s \in Services, Close(s)
  PROVE  ProcInv'
<1> DEFINE p == proc[s]
           o == Front(p.opened)
           q == [p EXCEPT !.opened = o]
<1>1. /\ ServiceOK(s, p, provisioned) /\ p \in ProcessType /\ InOrderOfStart(s, p)
      /\ p.at = "close" /\ p.opened # <<>> /\ p.opened \in Seq(StepNames)
  BY DEF ProcInv, ServiceOK, Close, At, ProcessType
<1>2. /\ o \in Seq(StepNames) /\ Len(o) = Len(p.opened) - 1 /\ Len(p.opened) \in Nat \ {0}
      /\ \A i \in 1 .. Len(o) : o[i] = p.opened[i]
  BY <1>1 DEF Front
<1>3. /\ q \in ProcessType /\ q.opened = o /\ q.todo = p.todo /\ q.at = p.at
      /\ q.server = p.server /\ q.errCh = p.errCh /\ q.requests = p.requests
      /\ q.forced = p.forced /\ q.consumer = p.consumer /\ q.events = p.events
  BY <1>1, <1>2 DEF ProcessType
<1>4. proc' = [proc EXCEPT ![s] = q] /\ UNCHANGED <<deployed, provisioned>>
  BY DEF Close
<1> HIDE DEF q, o
<1>5. InOrderOfStart(s, q)
  <2>1. Len(C(s)) \in Nat /\ Len(p.opened) <= Len(C(s)) /\ Len(o) <= Len(p.opened)
    BY <1>1, <1>2, StartFits DEF InOrderOfStart
  <2>2. Len(o) <= Len(C(s)) /\ \A i \in 1 .. Len(o) : o[i] = C(s)[i]
    BY <1>1, <1>2, <2>1 DEF InOrderOfStart
  <2> QED BY <1>1, <1>3, <2>2 DEF InOrderOfStart, Behind
<1>6. Owed(s, q) = Owed(s, p) /\ (NotServing(s, p) => NotServing(s, q))
  BY <1>3 DEF Owed, NotServing
<1>7. EventsOK(s, q, provisioned)
  <2>1. EventsOK(s, p, provisioned)
    BY <1>1 DEF ServiceOK
  <2>2. ASSUME q.consumer # "off", Contains(o, "nats")
        PROVE  ~(q.consumer \in {"some", "on"})
    <3>1. PICK i \in 1 .. Len(o) : C(s)[i] = "nats" /\ p.opened[i] = "nats"
      BY <1>1, <1>2, <1>3, <1>5, <2>2 DEF Contains, InOrderOfStart
    <3>2. i \in 1 .. Len(p.opened) /\ i # Len(p.opened)
      BY <1>2, <3>1
    <3>3. Len(C(s)) \in Nat /\ Len(p.opened) <= Len(C(s))
      BY <1>1, StartFits DEF InOrderOfStart
    <3>4. i = Len(C(s))
      BY <1>3, <2>1, <2>2, <3>1, <3>2, <3>3 DEF EventsOK, NatsIsLast
    <3> QED BY <1>2, <3>2, <3>3, <3>4
  <2> QED BY <1>1, <1>3, <2>1, <2>2 DEF EventsOK
<1>8. ServiceOK(s, q, provisioned)
  BY <1>1, <1>3, <1>5, <1>6, <1>7 DEF ServiceOK
<1> QED BY <1>4, <1>8, ProcessMoves DEF ProcInv

LEMMA ExitKeeps ==
  ASSUME ProcInv, NEW s \in Services, ExitProcess(s)
  PROVE  ProcInv'
<1>1. proc' = [proc EXCEPT ![s] = Down] /\ UNCHANGED <<deployed, provisioned>>
  BY DEF ExitProcess
<1> QED BY <1>1, DownIsSound, ProcessMoves DEF ProcInv

-----------------------------------------------------------------------------

LEMMA ProcInitInv == ProcInit => ProcInv
BY DownIsSound DEF ProcInit, ProcInv

LEMMA ProcNextKeeps == ProcInv /\ [ProcNext]_procVars => ProcInv'
<1> SUFFICES ASSUME ProcInv, [ProcNext]_procVars PROVE ProcInv'
  OBVIOUS
<1>1. CASE UNCHANGED procVars
  BY <1>1 DEF procVars, ProcInv, ServiceOK, Starting, Ready, EventsOK
<1>2. CASE ProcNext
  <2>1. PICK s \in deployed :
          \/ LaunchProcess(s) \/ Run(s) \/ StepFails(s)
          \/ Request(s) \/ RequestEnds(s)
          \/ EventComes(s) \/ EventHandled(s) \/ Drained(s)
          \/ \E g \in Servers(s) : ServerFails(s, g) \/ Report(s, g)
          \/ SignalProcess(s)
    BY <1>2 DEF ProcNext
  <2>2. s \in Services
    BY ProcessAssumption DEF ProcInv
  <2>3. CASE LaunchProcess(s)
    BY <2>2, <2>3, LaunchKeeps
  <2>4. CASE Run(s)
    <3>1. CASE WaitEnds(s)
      BY <2>2, <3>1, GiveUpKeeps DEF WaitEnds
    <3> QED BY <2>2, <2>4, <3>1, StepKeeps, ServeKeeps, TakeErrorKeeps, TakeSignalKeeps,
               GracefulStopKeeps, StopKeeps, ShutdownKeeps, CloseKeeps, ExitKeeps DEF Run
  <2>5. CASE StepFails(s)
    BY <2>2, <2>5, StepFailsKeeps
  <2>6. CASE Request(s) \/ RequestEnds(s)
    BY <2>2, <2>6, RequestKeeps, RequestEndsKeeps
  <2>7. CASE \E g \in Servers(s) : ServerFails(s, g) \/ Report(s, g)
    BY <2>2, <2>7, ServerFailsKeeps, ReportKeeps
  <2>8. CASE SignalProcess(s)
    BY <2>2, <2>8, SignalKeeps
  <2>9. CASE EventComes(s) \/ EventHandled(s) \/ Drained(s)
    BY <2>2, <2>9, EventComesKeeps, EventHandledKeeps, DrainedKeeps
  <2> QED BY <2>1, <2>3, <2>4, <2>5, <2>6, <2>7, <2>8, <2>9
<1> QED BY <1>1, <1>2

LEMMA ProcInvariance == ProcSpec => []ProcInv
<1> QED BY ProcInitInv, ProcNextKeeps, PTL DEF ProcSpec

(* Elements one by one make a suffix and a prefix.                          *)
LEMMA EndAndBeginning ==
  ASSUME NEW S, NEW s \in Seq(S), NEW t \in Seq(S), Len(s) <= Len(t)
  PROVE  /\ (\A i \in 1 .. Len(s) : s[i] = t[i]) => IsPrefix(s, t)
         /\ (\A i \in 1 .. Len(s) : s[i] = t[Len(t) - Len(s) + i]) => IsSuffix(s, t)
<1>1. ASSUME NEW a \in Seq(S), NEW b \in Seq(S), Len(a) <= Len(b),
             \A i \in 1 .. Len(a) : a[i] = b[i]
      PROVE  IsPrefix(a, b)
  <2>1. Len(a) \in Nat /\ Len(b) \in Nat
    OBVIOUS
  <2>2. /\ SubSeq(a, 1, Len(a)) \in Seq(S) /\ SubSeq(b, 1, Len(a)) \in Seq(S)
        /\ Len(SubSeq(a, 1, Len(a))) = Len(a) /\ Len(SubSeq(b, 1, Len(a))) = Len(a)
        /\ \A i \in 1 .. Len(a) : /\ SubSeq(a, 1, Len(a))[i] = a[i]
                                  /\ SubSeq(b, 1, Len(a))[i] = b[i]
    BY <1>1, <2>1
  <2>3. SubSeq(a, 1, Len(a)) = SubSeq(b, 1, Len(a))
    BY <1>1, <2>2, SeqEqual
  <2> QED BY <1>1, <2>3 DEF IsPrefix
<1>2. ASSUME \A i \in 1 .. Len(s) : s[i] = t[Len(t) - Len(s) + i]
      PROVE  IsSuffix(s, t)
  <2>1. Len(s) \in Nat /\ Len(t) \in Nat
    OBVIOUS
  <2>2. /\ Reverse(s) \in Seq(S) /\ Len(Reverse(s)) = Len(s)
        /\ Reverse(t) \in Seq(S) /\ Len(Reverse(t)) = Len(t)
    BY <2>1 DEF Reverse
  <2>3. ASSUME NEW i \in 1 .. Len(s)
        PROVE  Reverse(s)[i] = Reverse(t)[i]
    <3>1. /\ Len(s) - i + 1 \in 1 .. Len(s) /\ i \in 1 .. Len(t)
          /\ Len(t) - Len(s) + (Len(s) - i + 1) = Len(t) - i + 1
      BY <2>1
    <3> QED BY <1>2, <3>1 DEF Reverse
  <2> QED BY <1>1, <2>2, <2>3 DEF IsSuffix
<1> QED BY <1>1, <1>2

(* The types of the processes hold: what is left of a start is its end, and *)
(* what is open the beginning of the connections.                           *)
THEOREM ProcessTypes == ProcSpec => []ProcTypeOK
<1>1. ProcInv => ProcTypeOK
  <2> SUFFICES ASSUME ProcInv PROVE ProcTypeOK
    OBVIOUS
  <2>1. ASSUME NEW s \in Services
        PROVE  /\ proc[s] \in ProcessType /\ (At(s, "down") => proc[s] = Down)
               /\ IsSuffix(proc[s].todo, StartOf(s))
               /\ IsPrefix(proc[s].opened, Connections(s))
               /\ proc[s].errCh \in 0 .. ErrChCapacity(s)
    <3> DEFINE p == proc[s]
    <3>1. /\ ServiceOK(s, p, provisioned) /\ p \in ProcessType /\ InOrderOfStart(s, p)
          /\ p.todo \in Seq(StepNames) /\ p.opened \in Seq(StepNames) /\ p.errCh \in Nat
      BY DEF ProcInv, ServiceOK, ProcessType
    <3>2. IsSuffix(p.todo, W(s))
      BY <3>1, StartFits, EndAndBeginning DEF InOrderOfStart, Behind
    <3>3. IsPrefix(p.opened, C(s))
      BY <3>1, StartFits, EndAndBeginning DEF InOrderOfStart
    <3>4. p.errCh <= ErrChCapacity(s)
      <4>1. Owed(s, p) \in Nat /\ ErrChCapacity(s) \in Nat
        BY ServersOf DEF Owed, Owes
      <4> QED BY <3>1, <4>1 DEF ServiceOK
    <3>5. ErrChCapacity(s) \in Nat
      BY ServersOf
    <3> QED BY <3>1, <3>2, <3>3, <3>4, <3>5 DEF W, C, ServiceOK, At
  <2>2. deployed \in Deployments /\ provisioned \subseteq {"AUTH", "ROOM", "MESSAGE"}
    BY DEF ProcInv
  <2> QED BY <2>1, <2>2 DEF ProcTypeOK, ProcessType
<1> QED BY <1>1, ProcInvariance, PTL

(* A server that serves has what the handlers of its requests and its       *)
(* goroutine need, on the way up and on the way down: the connections, room *)
(* for its error, and the streams; a handler of events has its streams.     *)
THEOREM ProcessServersSound == ProcSpec => []ServersSound
<1>1. ProcInv => ServersSound
  <2> SUFFICES ASSUME ProcInv, NEW s \in Services
               PROVE  /\ proc[s].requests > 0 /\ ~proc[s].forced
                           => proc[s].opened = Connections(s)
                      /\ (\E g \in Servers(s) : proc[s].server[g] = "failed")
                           => proc[s].errCh < ErrChCapacity(s)
                      /\ (\/ proc[s].server[Main(s)] = "serving"
                          \/ proc[s].requests > 0 \/ proc[s].events > 0)
                           => Owned(s) \cup Consumed(s) \subseteq provisioned
    BY DEF ServersSound, ConnectionsOutliveRequests, ErrorsNeverBlock, ServingHasStreams
  <2> DEFINE p == proc[s]
  <2>1. /\ ServiceOK(s, p, provisioned) /\ p \in ProcessType /\ InOrderOfStart(s, p)
        /\ p.opened \in Seq(StepNames) /\ p.errCh \in Nat
    BY DEF ProcInv, ServiceOK, ProcessType
  <2>2. ASSUME p.requests > 0, ~p.forced
        PROVE  p.opened = Connections(s)
    <3>1. p.at # "down"
      BY <2>1, <2>2 DEF ServiceOK, Down
    <3>2. p.at # "start" /\ p.at # "close"
      BY <2>1, <2>2 DEF ServiceOK, Starting
    <3>3. Ready(s, p, provisioned)
      BY <2>1, <3>1, <3>2 DEF ServiceOK, ProcessType
    <3>4. p.opened = C(s)
      BY <2>1, <3>3, StartFits, SeqEqual DEF InOrderOfStart, Ready
    <3> QED BY <3>4 DEF C
  <2>3. ASSUME NEW g \in Servers(s), p.server[g] = "failed"
        PROVE  p.errCh < ErrChCapacity(s)
    <3>1. p.errCh + Owed(s, p) <= ErrChCapacity(s)
      BY <2>1 DEF ServiceOK
    <3>2. Owed(s, p) \in Nat \ {0} /\ ErrChCapacity(s) \in Nat
      BY <2>3, ServersOf DEF Owed, Owes
    <3> QED BY <2>1, <3>1, <3>2
  <2>4. p.server[Main(s)] = "serving" \/ p.requests > 0 \/ p.events > 0
          => Owned(s) \cup Consumed(s) \subseteq provisioned
    BY <2>1 DEF ServiceOK, EventsOK, Needs
  <2> QED BY <2>2, <2>3, <2>4
<1> QED BY <1>1, ProcInvariance, PTL

(* Handlers of events, for which nobody waits: each begins with every       *)
(* connection open, and keeps them until run has returned.                  *)
THEOREM ProcessEventsFindConnections == ProcSpec => []EventsFindConnections
<1>1. ProcInv => EventsFindConnections
  <2> SUFFICES ASSUME ProcInv, NEW s \in Services,
                      Delivering(s) \/ (proc[s].events > 0 /\ ~At(s, "close"))
               PROVE  proc[s].opened = Connections(s)
    BY DEF EventsFindConnections
  <2>1. /\ proc[s].opened \in Seq(StepNames) /\ InOrderOfStart(s, proc[s])
        /\ EventsOK(s, proc[s], provisioned)
    BY DEF ProcInv, ServiceOK, ProcessType
  <2>2. Len(proc[s].opened) = Len(C(s))
    BY <2>1 DEF EventsOK, Delivering, At
  <2> QED BY <2>1, <2>2, StartFits, SeqEqual DEF InOrderOfStart, C
<1> QED BY <1>1, ProcInvariance, PTL

=============================================================================
