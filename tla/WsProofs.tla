------------------------------ MODULE WsProofs ------------------------------
(***************************************************************************)
(* Proofs about WsConnector, for any number of connections, rooms, events  *)
(* and client messages, any user of each connection and any capacities.    *)
(*                                                                         *)
(* The connector runs a hub: HP is the module of the proofs about Hub, for *)
(* the connector's hub.  Every step of the connector is a step of that hub *)
(* or leaves it alone (StepIsHubStep), so that its invariant HP!IInv holds *)
(* here too.  On top of it stands WsInv:                                   *)
(*                                                                         *)
(*   - NewOK: the hub knows nothing of a connection that has not come, and *)
(*     its writePump starts after its initial room was registered;         *)
(*   - QueueOrder: the broadcasts on the hub's channel are in publication  *)
(*     order;                                                              *)
(*   - SentOrder: what was written to a connection, is held by its         *)
(*     writePump or queued for it is in that order, and precedes every     *)
(*     broadcast on the hub's channel, until its writePump gives up;       *)
(*   - NoSilentLoss, which with the above and TypeOK is inductive.         *)
(*                                                                         *)
(* The hub sends once for each entry of a connection in a room; since its  *)
(* invariant knows of one entry at most, that is once to each recipient    *)
(* (HubBroadcastsOnce), and the rest is said of such sends (SendOnce).     *)
(*                                                                         *)
(* Beside it, WakesOK says of each connection how its three pumps end.     *)
(*                                                                         *)
(* StepSent and StepConn are the two views of a step that the proofs share:*)
(* what it does to the envelopes of a connection, and to the rest of it.   *)
(***************************************************************************)
EXTENDS WsConnector, SequenceTheorems, TLAPS

HP == INSTANCE HubProofs WITH Callers <- {}

Envelopes == Events \cup {Reply}

LEMMA HubAssumed == HP!HubAssumption
BY ConnectorAssumption DEF HP!HubAssumption, HP!IsFiniteSet, IsFiniteSet

-----------------------------------------------------------------------------
(* Sequences of envelopes *)

LEMMA EnvelopeNumbers ==
  Envelopes \subseteq Nat /\ Reply \in Envelopes /\ \A e \in Events : e # Reply /\ e \in Nat
BY ConnectorAssumption DEF Envelopes, Events, Reply

LEMMA ConcatAppend ==
  ASSUME NEW S, NEW a \in Seq(S), NEW b \in Seq(S), NEW e \in S
  PROVE  a \o Append(b, e) = Append(a \o b, e)
<1>1. a \o Append(b, e) = a \o (b \o <<e>>) /\ <<e>> \in Seq(S)
  <2>1. Append(b, e) = b \o <<e>>
    BY AppendIsConcat
  <2>2. <<e>> \in Seq(S)
    OBVIOUS
  <2> QED BY <2>1, <2>2
<1>2. a \o (b \o <<e>>) = (a \o b) \o <<e>>
  BY <1>1, ConcatAssociative
<1>3. (a \o b) \in Seq(S)
  BY ConcatProperties
<1> QED BY <1>1, <1>2, <1>3, AppendIsConcat

LEMMA HeadBack ==
  ASSUME NEW S, NEW s \in Seq(S), s # <<>>
  PROVE  Head(s) \in S /\ Tail(s) \in Seq(S) /\ <<Head(s)>> \o Tail(s) = s
<1>1. Head(s) \in S /\ Tail(s) \in Seq(S)
  BY HeadTailProperties
<1> DEFINE t == <<Head(s)>> \o Tail(s)
<1>2. /\ t \in Seq(S) /\ Len(t) = Len(s)
      /\ \A i \in 1 .. Len(s) : t[i] = IF i = 1 THEN Head(s) ELSE Tail(s)[i - 1]
  BY <1>1, HeadTailProperties
<1> HIDE DEF t
<1>3. \A i \in 1 .. Len(s) : t[i] = s[i]
  <2> TAKE i \in 1 .. Len(s)
  <2>1. CASE i = 1
    BY <1>2, <2>1
  <2>2. CASE i # 1
    <3>1. i - 1 \in 1 .. Len(Tail(s))
      BY <2>2, HeadTailProperties
    <3>2. Tail(s)[i - 1] = s[(i - 1) + 1]
      BY <3>1, HeadTailProperties
    <3> QED BY <1>2, <2>2, <3>2
  <2> QED BY <2>1, <2>2
<1>4. t = s
  BY <1>2, <1>3, SeqEqual
<1> QED BY <1>1, <1>4 DEF t

(* The tail of an ordered sequence has what the sequence has, one earlier. *)
LEMMA TailIndex ==
  ASSUME NEW S, NEW s \in Seq(S), s # <<>>
  PROVE  /\ Tail(s) \in Seq(S) /\ DOMAIN Tail(s) = 1 .. Len(s) - 1
         /\ \A i \in DOMAIN Tail(s) : i + 1 \in DOMAIN s /\ Tail(s)[i] = s[i + 1]
BY HeadTailProperties

LEMMA AppendInOrder ==
  ASSUME NEW s \in Seq(Envelopes), InOrder(s), NEW e \in Envelopes,
         e = Reply \/ \A x \in Range(s) : x < e
  PROVE  InOrder(Append(s, e))
<1> DEFINE t == Append(s, e)
<1>1. /\ Len(t) = Len(s) + 1 /\ t[Len(s) + 1] = e /\ DOMAIN t = 1 .. Len(s) + 1
      /\ \A i \in 1 .. Len(s) : t[i] = s[i]
  BY AppendProperties
<1> HIDE DEF t
<1> SUFFICES ASSUME NEW i \in DOMAIN t, NEW j \in DOMAIN t, i < j, Reply \notin {t[i], t[j]}
             PROVE  t[i] < t[j]
  BY DEF InOrder, t
<1>2. i \in 1 .. Len(s)
  BY <1>1
<1>3. CASE j = Len(s) + 1
  BY <1>1, <1>2, <1>3 DEF Range
<1>4. CASE j # Len(s) + 1
  BY <1>1, <1>2, <1>4 DEF InOrder
<1> QED BY <1>3, <1>4

LEMMA PrefixInOrder ==
  ASSUME NEW s \in Seq(Envelopes), NEW t \in Seq(Envelopes), InOrder(s \o t)
  PROVE  InOrder(s)
<1>1. \A i \in DOMAIN s : i \in DOMAIN (s \o t) /\ (s \o t)[i] = s[i]
  BY ConcatProperties
<1> QED BY <1>1 DEF InOrder

LEMMA AppendRangeIs ==
  ASSUME NEW S, NEW s \in Seq(S), NEW e \in S
  PROVE  Range(Append(s, e)) = Range(s) \cup {e}
<1> DEFINE t == Append(s, e)
<1>1. /\ DOMAIN t = 1 .. Len(s) + 1 /\ t[Len(s) + 1] = e
      /\ DOMAIN s = 1 .. Len(s) /\ \A i \in 1 .. Len(s) : t[i] = s[i]
  BY AppendProperties
<1> HIDE DEF t
<1>2. \A i \in DOMAIN t : i \in DOMAIN s \/ i = Len(s) + 1
  BY <1>1
<1>3. Range(t) \subseteq Range(s) \cup {e} /\ Range(s) \subseteq Range(t)
  BY <1>1, <1>2 DEF Range
<1>4. e \in Range(t)
  BY <1>1 DEF Range
<1> QED BY <1>3, <1>4 DEF t

-----------------------------------------------------------------------------
(* The hub's part of a step *)

LEMMA SameHubActions ==
  /\ H!Init => HP!Init
  /\ \A c \in Conns, r \in RoomIDs :
       (H!Register(c, r) => HP!Register(c, r)) /\ (H!Unregister(c, r) => HP!Unregister(c, r))
  /\ \A c \in Conns :
       (H!Disconnect(c) => HP!Disconnect(c)) /\ (H!CloseSlow(c) => HP!CloseSlow(c))
  /\ \A r \in RoomIDs, e \in Events : H!BroadcastToRoom(r, e) => HP!BroadcastToRoom(r, e)
  /\ (H!RunUnregister => HP!RunUnregister) /\ (H!RunDisconnect => HP!RunDisconnect)
  /\ (H!RunRegister => HP!RunRegister) /\ (H!RunStop => HP!RunStop)
  /\ \A C : H!RunBroadcast(C) => HP!RunBroadcast(C)
  /\ \A r : H!Recipients(r) = HP!Recipients(r)
  /\ \A r, c : H!Entries(r, c) = HP!Entries(r, c)
<1>1. \A r : H!Recipients(r) = HP!Recipients(r)
  BY DEF HP!Recipients, H!Recipients, HP!Room, H!Room, HP!Lookup, H!Lookup, HP!Range, H!Range
<1>2. H!Init => HP!Init
  BY DEF H!Init, HP!Init
<1>3. \A c \in Conns, r \in RoomIDs :
        (H!Register(c, r) => HP!Register(c, r)) /\ (H!Unregister(c, r) => HP!Unregister(c, r))
  BY DEF H!Register, HP!Register, H!Unregister, HP!Unregister, H!index, HP!index
<1>4. \A c \in Conns :
        (H!Disconnect(c) => HP!Disconnect(c)) /\ (H!CloseSlow(c) => HP!CloseSlow(c))
  BY DEF H!Disconnect, HP!Disconnect, H!CloseSlow, HP!CloseSlow, H!index, HP!index
<1>5. \A r \in RoomIDs, e \in Events : H!BroadcastToRoom(r, e) => HP!BroadcastToRoom(r, e)
  BY DEF H!BroadcastToRoom, HP!BroadcastToRoom, H!index, HP!index
<1>6. H!RunStop => HP!RunStop
  BY DEF H!RunStop, HP!RunStop, H!index, HP!index
<1>7. \A C : H!RunBroadcast(C) => HP!RunBroadcast(C)
  BY <1>1 DEF H!RunBroadcast, HP!RunBroadcast, H!SendToRoom, HP!SendToRoom, H!index, HP!index
<1>8. H!RunRegister => HP!RunRegister
  BY DEF H!RunRegister, HP!RunRegister, H!AddConn, HP!AddConn, H!Store, HP!Store,
     H!UserConns, HP!UserConns, H!Room, HP!Room, H!ConnRooms, HP!ConnRooms, H!Lookup, HP!Lookup,
     H!Contains, HP!Contains, H!index, HP!index
<1>9. \A s, e : H!RemoveFirst(s, e) = HP!RemoveFirst(s, e)
  <2>1. \A T : H!Min(T) = HP!Min(T)
    BY Zenon DEF H!Min, HP!Min
  <2> QED BY <2>1, Zenon DEF H!RemoveFirst, HP!RemoveFirst, H!RemoveAt, HP!RemoveAt,
                              H!SelectInSeq, HP!SelectInSeq
<1>10. \A R, u, c : H!StripRooms(R, u, c) = HP!StripRooms(R, u, c)
  <2>1. \A m, u, c : H!StripUser(m, u, c) = HP!StripUser(m, u, c)
    <3>1. \A m, u, d : H!Lookup(m, u, d) = HP!Lookup(m, u, d)
      BY Zenon DEF H!Lookup, HP!Lookup
    <3>2. \A m, u, v : H!Store(m, u, v) = HP!Store(m, u, v)
      BY Zenon DEF H!Store, HP!Store
    <3>3. \A m, u : H!Delete(m, u) = HP!Delete(m, u)
      BY Zenon DEF H!Delete, HP!Delete, H!Restrict, HP!Restrict
    <3>4. ASSUME NEW m, NEW u, NEW c
          PROVE  H!StripUser(m, u, c) = HP!StripUser(m, u, c)
      <4> DEFINE conns == HP!RemoveFirst(HP!Lookup(m, u, <<>>), c)
      <4>1. H!RemoveFirst(H!Lookup(m, u, <<>>), c) = conns
        BY <1>9, <3>1, Zenon
      <4>2. H!StripUser(m, u, c) = IF conns = <<>> THEN H!Delete(m, u) ELSE H!Store(m, u, conns)
        BY <4>1, Zenon DEF H!StripUser
      <4>3. HP!StripUser(m, u, c)
              = IF conns = <<>> THEN HP!Delete(m, u) ELSE HP!Store(m, u, conns)
        BY Zenon DEF HP!StripUser
      <4> HIDE DEF conns
      <4>4. H!Delete(m, u) = HP!Delete(m, u) /\ H!Store(m, u, conns) = HP!Store(m, u, conns)
        BY <3>2, <3>3, Zenon
      <4> QED BY <4>2, <4>3, <4>4, Zenon
    <3> QED BY <3>4, Zenon
  <2>2. ASSUME NEW R, NEW u, NEW c
        PROVE  H!StripRooms(R, u, c) = HP!StripRooms(R, u, c)
    <3> DEFINE f == [r \in DOMAIN rooms |->
                       IF r \in R THEN H!StripUser(rooms[r], u, c) ELSE rooms[r]]
               g == [r \in DOMAIN rooms |->
                       IF r \in R THEN HP!StripUser(rooms[r], u, c) ELSE rooms[r]]
               S == {r \in DOMAIN rooms : r \in R => DOMAIN g[r] # {}}
    <3>1. f = g
      BY <2>1
    <3>2. H!StripRooms(R, u, c)
            = H!Restrict(f, {r \in DOMAIN rooms : r \in R => DOMAIN f[r] # {}})
      BY Zenon DEF H!StripRooms
    <3>3. HP!StripRooms(R, u, c) = HP!Restrict(g, S)
      BY Zenon DEF HP!StripRooms
    <3> HIDE DEF f, g
    <3>4. H!StripRooms(R, u, c) = H!Restrict(g, S)
      BY <3>1, <3>2, Zenon
    <3>5. H!Restrict(g, S) = HP!Restrict(g, S)
      BY Zenon DEF H!Restrict, HP!Restrict
    <3> QED BY <3>3, <3>4, <3>5, Zenon
  <2> QED BY <2>2, Zenon
<1>11. H!RunUnregister => HP!RunUnregister
  BY <1>10 DEF H!RunUnregister, HP!RunUnregister, H!RemoveConn, HP!RemoveConn, H!Store, HP!Store,
     H!Delete, HP!Delete, H!ConnRooms, HP!ConnRooms, H!Lookup, HP!Lookup, H!index, HP!index,
     H!Restrict, HP!Restrict
<1>12. H!RunDisconnect => HP!RunDisconnect
  BY <1>10 DEF H!RunDisconnect, HP!RunDisconnect, H!DisconnectAll, HP!DisconnectAll,
     H!Delete, HP!Delete, H!ConnRooms, HP!ConnRooms, H!Lookup, HP!Lookup, H!index, HP!index,
     H!Restrict, HP!Restrict
<1>13. \A r, c : H!Entries(r, c) = HP!Entries(r, c)
  BY Zenon DEF H!Entries, HP!Entries, H!Room, HP!Room, H!Lookup, HP!Lookup,
     H!Cardinality, HP!Cardinality, H!ExistsBijection, HP!ExistsBijection,
     H!Bijection, HP!Bijection, H!Injection, HP!Injection, H!Surjection, HP!Surjection
<1> QED BY <1>1, <1>2, <1>3, <1>4, <1>5, <1>6, <1>7, <1>8, <1>11, <1>12, <1>13

(* The steps of a connection that leave the hub and its channels alone. *)
Inside(c) ==
  \/ Accept(c) \/ SocketFails(c) \/ ReadOther(c)
  \/ \E r \in RoomIDs : ReadSubscribe(c, r) \/ ReadUnsubscribe(c, r)
  \/ ReadFails(c) \/ ReaderEnds(c)
  \/ WriterTakes(c) \/ WriterParks(c) \/ WriterFinishes(c) \/ WriteFails(c) \/ WriteSucceeds(c)
  \/ PingerStops(c) \/ PingFails(c) \/ PingerEnds(c)

(* Those that put a request on one. *)
Asks(c) ==
  RegisterInitial(c) \/ HandOver(c)
  \/ ReaderDisconnects(c) \/ WriterDisconnects(c) \/ PingerDisconnects(c)

LEMMA StepKinds ==
  Next <=> \/ \E c \in Conns : Inside(c) \/ Asks(c) \/ CloseSlow(c)
           \/ \E r \in RoomIDs : Publish(r)
           \/ HubRequests \/ HubBroadcasts \/ HubStops
BY DEF Next, Client, ReadPump, WritePump, PingPump, Inside, Asks

LEMMA InsideKeepsHub ==
  ASSUME NEW c \in Conns, Inside(c)
  PROVE  UNCHANGED hubVars
BY DEF Inside, Accept, SocketFails, ReadOther, ReadSubscribe, ReadUnsubscribe, ClientSends,
       ReadFails, ReaderEnds, WriterTakes, WriterParks, WriterFinishes, WriteFails, WriteSucceeds,
       PingerStops, PingFails, PingerEnds

LEMMA AsksHub ==
  ASSUME TypeOK, NEW c \in Conns, Asks(c)
  PROVE  \/ \E r \in RoomIDs : HP!Register(c, r) \/ HP!Unregister(c, r)
         \/ HP!Disconnect(c)
<1>1. CASE RegisterInitial(c) \/ HandOver(c)
  <2>1. request[c] \in RoomIDs
    BY <1>1 DEF RegisterInitial, HandOver, Goto, TypeOK
  <2> QED BY <1>1, <2>1, SameHubActions DEF RegisterInitial, HandOver
<1>2. CASE ReaderDisconnects(c) \/ WriterDisconnects(c) \/ PingerDisconnects(c)
  BY <1>2, SameHubActions DEF ReaderDisconnects, WriterDisconnects, PingerDisconnects
<1> QED BY <1>1, <1>2 DEF Asks

LEMMA StepIsHubStep ==
  ASSUME TypeOK, [Next]_vars
  PROVE  [HP!Next]_(HP!vars)
<1>1. ASSUME UNCHANGED hubVars PROVE UNCHANGED HP!vars
  BY <1>1 DEF hubVars, HP!vars, HP!index
<1>2. CASE UNCHANGED vars
  BY <1>1, <1>2 DEF vars
<1>3. ASSUME NEW c \in Conns, Inside(c) PROVE UNCHANGED HP!vars
  BY <1>1, <1>3, InsideKeepsHub
<1>4. ASSUME NEW c \in Conns, Asks(c) PROVE HP!Next
  BY <1>4, AsksHub DEF HP!Next, HP!Call
<1>5. ASSUME NEW c \in Conns, CloseSlow(c) PROVE HP!Next
  BY <1>5, SameHubActions DEF CloseSlow, HP!Next
<1>6. ASSUME NEW r \in RoomIDs, Publish(r) PROVE HP!Next
  <2>1. published + 1 \in Events
    BY <1>6, ConnectorAssumption DEF Publish, TypeOK, Events
  <2> QED BY <1>6, <2>1, SameHubActions DEF Publish, HP!Next, HP!Call
<1>7. CASE HubRequests
  BY <1>7, SameHubActions DEF HubRequests, HP!Next, HP!Run
<1>8. CASE HubBroadcasts
  <2>1. PICK C \in SUBSET Conns : H!RunBroadcast(C)
    BY <1>8 DEF HubBroadcasts
  <2> QED BY <2>1, SameHubActions DEF HP!Next, HP!Run
<1>9. CASE HubStops
  BY <1>9, SameHubActions DEF HubStops, HP!Next
<1> QED BY <1>2, <1>3, <1>4, <1>5, <1>6, <1>7, <1>8, <1>9, StepKinds

-----------------------------------------------------------------------------
(* The inductive invariant *)

(* The pumps start when the initial room has been handed over; a connection *)
(* that has not come yet has nothing, and the hub knows nothing of it.      *)
NewOK ==
  /\ \A c \in Conns : reader[c] \in {"new", "initial"} => writer[c] = "off"
  /\ \A c \in Conns : reader[c] = "new" =>
       /\ ~up[c]
       /\ offered[c] = <<>> /\ delivered[c] = <<>> /\ outbound[c] = <<>>
  /\ \A s \in HP!Subs : reader[s[1]] # "new"
  /\ \A i \in DOMAIN register : reader[register[i].conn] # "new"

(* The broadcasts that the hub has still to serve: events that were         *)
(* published, in the order of their publication.                            *)
QueueOrder ==
  \A i \in DOMAIN broadcast :
    /\ broadcast[i].envelope <= published
    /\ \A j \in DOMAIN broadcast :
         i < j => broadcast[i].envelope < broadcast[j].envelope

(* e, an envelope that Send has taken, precedes every broadcast to come.    *)
Earlier(e) ==
  /\ e <= published
  /\ \A i \in DOMAIN broadcast : e < broadcast[i].envelope

(* What was written to a connection is in order; so is, until its writePump *)
(* gives up, everything that Send has taken.                                *)
SentOrder ==
  \A c \in Conns :
    /\ InOrder(delivered[c])
    /\ writer[c] \notin {"disconnect", "done"} =>
         InOrder(Sent(c)) /\ \A e \in Range(Sent(c)) : Earlier(e)

-----------------------------------------------------------------------------
(* Type correctness *)

(* TypeOK in parts. *)
PumpTypes ==
  /\ reader \in [Conns -> {"new", "initial", "read", "subscribe", "unsubscribe",
                           "disconnect", "closeOutbound", "done"}]
  /\ request \in [Conns -> RoomIDs \cup {NoRoom}]
  /\ writer \in [Conns -> {"off", "idle", "parked", "write", "disconnect", "done"}]
  /\ pinger \in [Conns -> {"off", "wait", "disconnect", "closeOutbound", "done"}]
EnvelopeTypes == {held, outbound, offered, delivered} \subseteq [Conns -> Seq(Envelopes)]
ConnTypes(c) ==
  /\ Len(held[c]) = (IF writer[c] = "write" THEN 1 ELSE 0)
  /\ Len(outbound[c]) <= WriteBuffer
  /\ writer[c] = "parked" => outbound[c] = <<>>
  /\ request[c] # NoRoom <=> reader[c] \in {"initial", "subscribe", "unsubscribe"}
OtherTypes ==
  /\ closed \subseteq Conns /\ cancelled \subseteq Conns
  /\ up \in [Conns -> BOOLEAN]
  /\ published \in 0 .. MaxEvents
  /\ messages \in [Conns -> 0 .. MaxMessages]

LEMMA TypeParts ==
  TypeOK <=> PumpTypes /\ EnvelopeTypes /\ (\A c \in Conns : ConnTypes(c)) /\ OtherTypes
BY DEF TypeOK, PumpTypes, EnvelopeTypes, ConnTypes, OtherTypes, Envelopes

LEMMA TypePartsNext ==
  TypeOK' <=> PumpTypes' /\ EnvelopeTypes' /\ (\A c \in Conns : ConnTypes(c)') /\ OtherTypes'
BY DEF TypeOK, PumpTypes, EnvelopeTypes, ConnTypes, OtherTypes, Envelopes

LEMMA InitTypes == Init => TypeOK
<1> SUFFICES ASSUME Init PROVE TypeOK
  OBVIOUS
<1>1. <<>> \in Seq(Events \cup {Reply}) /\ Len(<<>>) = 0
  OBVIOUS
<1> QED BY <1>1, ConnectorAssumption DEF Init, TypeOK

(* A Send to c finds room: in the buffer, or with a writePump that waits.   *)
Accepts(c) == Free(c) > 0

(* Send, where each of C gets one copy and nobody else any.                 *)
SendOnce(C, data) ==
  LET taken == {c \in C : Accepts(c)}
      handed == {c \in taken : writer[c] = "parked"}
  IN /\ writer' = [c \in Conns |-> IF c \in handed THEN "write" ELSE writer[c]]
     /\ held' = [c \in Conns |-> IF c \in handed THEN <<data>> ELSE held[c]]
     /\ outbound' = [c \in Conns |-> IF c \in taken \ handed
                                       THEN Append(outbound[c], data) ELSE outbound[c]]

(* Copies are appended, one or none.                                        *)
LEMMA AppendsCopies ==
  ASSUME NEW s \in Seq(Envelopes), NEW data \in Envelopes
  PROVE  /\ s \o Copies(0, data) = s
         /\ s \o Copies(1, data) = Append(s, data)
<1>1. Copies(0, data) = <<>>
  <2>1. 1 .. 0 = {}
    OBVIOUS
  <2>2. Copies(0, data) \in Seq(Envelopes) /\ Len(Copies(0, data)) = 0
    BY <2>1 DEF Copies
  <2> QED BY <2>2, EmptySeq
<1>2. Copies(1, data) = <<data>>
  <2> DEFINE a == Copies(1, data)
             b == <<data>>
  <2>1. /\ a \in Seq(Envelopes) /\ b \in Seq(Envelopes) /\ Len(a) = 1 /\ Len(b) = 1
        /\ a[1] = data /\ b[1] = data
    BY DEF Copies
  <2> HIDE DEF a, b
  <2>2. a = b
    BY <2>1, SeqEqual
  <2> QED BY <2>2 DEF a, b
<1>3. s \o <<>> = s /\ s \o <<data>> = Append(s, data)
  BY AppendIsConcat, ConcatEmptySeq
<1> QED BY <1>1, <1>2, <1>3

LEMMA FreeIsCounted ==
  ASSUME TypeOK, NEW c \in Conns
  PROVE  /\ Free(c) \in Nat
         /\ Taken(c, 0) = 0 /\ Taken(c, 1) = IF Accepts(c) THEN 1 ELSE 0
         /\ 1 <= Free(c) <=> Accepts(c)
<1>1. outbound[c] \in Seq(Envelopes) /\ Len(outbound[c]) <= WriteBuffer /\ WriteBuffer \in Nat
  BY ConnectorAssumption DEF TypeOK, Envelopes
<1>2. Free(c) \in Nat
  BY <1>1 DEF Free
<1> QED BY <1>2 DEF Taken, Accepts

LEMMA SendIsOnce ==
  ASSUME TypeOK, NEW C \in SUBSET Conns, NEW data \in Envelopes,
         NEW copies \in [Conns -> Nat],
         \A c \in Conns : copies[c] = IF c \in C THEN 1 ELSE 0,
         Send(copies, data)
  PROVE  SendOnce(C, data)
<1> DEFINE taken == {c \in C : Accepts(c)}
           handed == {c \in taken : writer[c] = "parked"}
           given == {c \in Conns : writer[c] = "parked" /\ Taken(c, copies[c]) > 0}
           queued(c) == Taken(c, copies[c]) - (IF c \in given THEN 1 ELSE 0)
<1>1. \A c \in Conns : Taken(c, copies[c]) = IF c \in taken THEN 1 ELSE 0
  BY FreeIsCounted
<1>2. given = handed
  BY <1>1
<1>3. ASSUME NEW c \in Conns
      PROVE  outbound[c] \o Copies(queued(c), data)
               = IF c \in taken \ handed THEN Append(outbound[c], data) ELSE outbound[c]
  <2>1. queued(c) = IF c \in taken \ handed THEN 1 ELSE 0
    BY <1>1, <1>2
  <2>2. outbound[c] \in Seq(Envelopes)
    BY DEF TypeOK, Envelopes
  <2> HIDE DEF queued, handed, taken
  <2> QED BY <2>1, <2>2, AppendsCopies
<1>4. /\ writer' = [c \in Conns |-> IF c \in given THEN "write" ELSE writer[c]]
      /\ held' = [c \in Conns |-> IF c \in given THEN <<data>> ELSE held[c]]
      /\ outbound' = [c \in Conns |-> outbound[c] \o Copies(queued(c), data)]
  BY DEF Send
<1>5. outbound' = [c \in Conns |-> IF c \in taken \ handed
                                    THEN Append(outbound[c], data) ELSE outbound[c]]
  <2> HIDE DEF queued, taken, handed, given
  <2> QED BY <1>3, <1>4
<1> HIDE DEF given, queued
<1> QED BY <1>2, <1>4, <1>5 DEF SendOnce

(* readPump answers with one copy.                                          *)
LEMMA ReadOtherOnce ==
  ASSUME TypeOK, NEW c \in Conns, ReadOther(c)
  PROVE  /\ SendOnce({c}, Reply)
         /\ offered' = [offered EXCEPT ![c] = IF Accepts(c) THEN Append(@, Reply) ELSE @]
<1> DEFINE copies == [d \in Conns |-> IF d = c THEN 1 ELSE 0]
<1>1. /\ Send(copies, Reply) /\ Reply \in Envelopes
      /\ offered' = [offered EXCEPT ![c] = @ \o Copies(Taken(c, 1), Reply)]
  BY EnvelopeNumbers DEF ReadOther
<1>2. /\ copies \in [Conns -> Nat] /\ {c} \in SUBSET Conns
      /\ \A d \in Conns : copies[d] = IF d \in {c} THEN 1 ELSE 0
  OBVIOUS
<1> HIDE DEF copies
<1>3. SendOnce({c}, Reply)
  BY <1>1, <1>2, SendIsOnce
<1>4. offered[c] \o Copies(Taken(c, 1), Reply)
        = IF Accepts(c) THEN Append(offered[c], Reply) ELSE offered[c]
  <2>1. offered[c] \in Seq(Envelopes)
    BY DEF TypeOK, Envelopes
  <2> QED BY <1>1, <2>1, FreeIsCounted, AppendsCopies
<1> QED BY <1>1, <1>3, <1>4

(* What Send does to one connection. *)
LEMMA SendOne ==
  ASSUME TypeOK, NEW C \in SUBSET Conns, NEW data \in Envelopes, SendOnce(C, data)
  PROVE  /\ writer' \in [Conns -> {"off", "idle", "parked", "write", "disconnect", "done"}]
         /\ {held, outbound}' \subseteq [Conns -> Seq(Envelopes)]
         /\ \A c \in Conns :
              /\ Len(held'[c]) = (IF writer'[c] = "write" THEN 1 ELSE 0)
              /\ Len(outbound'[c]) <= WriteBuffer
              /\ writer'[c] = "parked" => outbound'[c] = <<>>
              /\ writer'[c] # writer[c] => writer[c] = "parked" /\ writer'[c] = "write"
              /\ held'[c] \o outbound'[c] = IF c \in C /\ Accepts(c)
                                              THEN Append(held[c] \o outbound[c], data)
                                              ELSE held[c] \o outbound[c]
<1> DEFINE taken == {c \in C : Accepts(c)}
           handed == {c \in taken : writer[c] = "parked"}
<1>1. /\ writer' = [c \in Conns |-> IF c \in handed THEN "write" ELSE writer[c]]
      /\ held' = [c \in Conns |-> IF c \in handed THEN <<data>> ELSE held[c]]
      /\ outbound' = [c \in Conns |-> IF c \in taken \ handed
                                        THEN Append(outbound[c], data) ELSE outbound[c]]
  BY DEF SendOnce
<1>2. writer' \in [Conns -> {"off", "idle", "parked", "write", "disconnect", "done"}]
  BY <1>1 DEF TypeOK
<1>3. \A c \in Conns : held[c] \in Seq(Envelopes) /\ outbound[c] \in Seq(Envelopes)
  BY DEF TypeOK, Envelopes
<1>4. {held, outbound}' \subseteq [Conns -> Seq(Envelopes)]
  BY <1>1, <1>3
<1>5. ASSUME NEW c \in Conns
      PROVE  /\ Len(held'[c]) = (IF writer'[c] = "write" THEN 1 ELSE 0)
             /\ Len(outbound'[c]) <= WriteBuffer
             /\ writer'[c] = "parked" => outbound'[c] = <<>>
             /\ writer'[c] # writer[c] => writer[c] = "parked" /\ writer'[c] = "write"
             /\ held'[c] \o outbound'[c] = IF c \in C /\ Accepts(c)
                                             THEN Append(held[c] \o outbound[c], data)
                                             ELSE held[c] \o outbound[c]
  <2>0. /\ Len(held[c]) = (IF writer[c] = "write" THEN 1 ELSE 0)
        /\ Len(outbound[c]) <= WriteBuffer
        /\ writer[c] = "parked" => outbound[c] = <<>>
    BY DEF TypeOK
  <2>1. CASE c \in handed
    <3>1. writer'[c] = "write" /\ held'[c] = <<data>> /\ outbound'[c] = outbound[c]
      BY <1>1, <2>1
    <3>2. writer[c] = "parked" /\ c \in C /\ Accepts(c)
      BY <2>1
    <3>3. held[c] = <<>> /\ outbound[c] = <<>>
      BY <1>3, <2>0, <3>2
    <3>4. <<data>> \o <<>> = Append(<<>> \o <<>>, data)
      OBVIOUS
    <3> QED BY <2>0, <3>1, <3>2, <3>3, <3>4
  <2>2. CASE c \in taken \ handed
    <3>1. /\ writer'[c] = writer[c] /\ held'[c] = held[c]
          /\ outbound'[c] = Append(outbound[c], data)
      BY <1>1, <2>2
    <3>2. writer[c] # "parked" /\ c \in C /\ Accepts(c)
      BY <2>2
    <3>3. Len(outbound[c]) < WriteBuffer
      BY <1>3, <3>2, ConnectorAssumption DEF Accepts, Free
    <3>4. Len(outbound'[c]) <= WriteBuffer
      BY <1>3, <3>1, <3>3, ConnectorAssumption
    <3>5. held[c] \o Append(outbound[c], data) = Append(held[c] \o outbound[c], data)
      <4>1. held[c] \in Seq(Envelopes) /\ outbound[c] \in Seq(Envelopes)
        BY <1>3
      <4>2. \A a, b \in Seq(Envelopes) : a \o Append(b, data) = Append(a \o b, data)
        BY ConcatAppend
      <4> QED BY <4>1, <4>2, Zenon
    <3> QED BY <2>0, <3>1, <3>2, <3>4, <3>5
  <2>3. CASE c \notin taken
    <3>1. UNCHANGED <<writer[c], held[c], outbound[c]>>
      BY <1>1, <2>3
    <3> QED BY <2>0, <2>3, <3>1
  <2> QED BY <2>1, <2>2, <2>3
<1> QED BY <1>2, <1>4, <1>5

(* The envelope that Run takes next. *)
LEMMA HeadOfBroadcast ==
  ASSUME HP!IInv, broadcast # <<>>
  PROVE  /\ Head(broadcast).envelope \in Events
         /\ Head(broadcast).roomID \in RoomIDs
         /\ H!Recipients(Head(broadcast).roomID) \subseteq Conns
<1>1. Head(broadcast) \in HP!BroadcastMessage
  BY DEF HP!IInv, HP!ChannelsOK
<1>2. Head(broadcast).envelope \in Events /\ Head(broadcast).roomID \in RoomIDs
  BY <1>1 DEF HP!BroadcastMessage
<1>3. HP!Recipients(Head(broadcast).roomID) \subseteq Conns
  BY <1>2, HubAssumed, HP!RecipientsAreMembers DEF HP!IInv, HP!IndexInv
<1> QED BY <1>2, <1>3, SameHubActions

(* A broadcast is sent once to each recipient, as a connection has one      *)
(* entry in a room (HP!EntriesOfOne); who has no room for it becomes slow.  *)
LEMMA HubBroadcastsOnce ==
  ASSUME HP!IInv, TypeOK, HubBroadcasts
  PROVE  LET C == H!Recipients(Head(broadcast).roomID)
             event == Head(broadcast).envelope
         IN  /\ broadcast # <<>> /\ C \in SUBSET Conns /\ event \in Envelopes
             /\ SendOnce(C, event)
             /\ offered' = [c \in Conns |->
                              IF c \in C THEN Append(offered[c], event) ELSE offered[c]]
             /\ slow' = slow \cup {c \in C : ~Accepts(c)}
             /\ UNCHANGED <<reader, request, pinger, closed, socketVars, published,
                            messages, delivered>>
<1> DEFINE r == Head(broadcast).roomID
           C == H!Recipients(r)
           event == Head(broadcast).envelope
           copies == [c \in Conns |-> H!Entries(r, c)]
           taking == {c \in Conns : copies[c] <= Free(c)}
<1>1. /\ broadcast # <<>> /\ slow' = slow \cup (C \ taking)
      /\ Send(copies, event)
      /\ offered' = [c \in Conns |-> offered[c] \o Copies(copies[c], event)]
      /\ UNCHANGED <<reader, request, pinger, closed, socketVars, published,
                     messages, delivered>>
  BY DEF HubBroadcasts, H!RunBroadcast, H!SendToRoom
<1>2. r \in RoomIDs /\ C \in SUBSET Conns /\ event \in Envelopes
  BY <1>1, HeadOfBroadcast DEF Envelopes
<1>3. \A c \in Conns : copies[c] = IF c \in C THEN 1 ELSE 0
  <2>1. \A c \in Conns : HP!Entries(r, c) = IF c \in HP!Recipients(r) THEN 1 ELSE 0
    BY <1>2, HubAssumed, HP!EntriesOfOne DEF HP!IInv, HP!IndexInv
  <2>2. C = HP!Recipients(r) /\ \A c \in Conns : H!Entries(r, c) = HP!Entries(r, c)
    BY SameHubActions
  <2> HIDE DEF C, r
  <2> QED BY <2>1, <2>2
<1>4. copies \in [Conns -> Nat]
  BY <1>3
<1> HIDE DEF r, event, copies, C
<1>5. SendOnce(C, event)
  BY <1>1, <1>2, <1>3, <1>4, SendIsOnce
<1>6. offered' = [c \in Conns |-> IF c \in C THEN Append(offered[c], event) ELSE offered[c]]
  <2>1. \A c \in Conns : offered[c] \in Seq(Envelopes)
    BY DEF TypeOK, Envelopes
  <2>2. \A c \in Conns : offered[c] \o Copies(copies[c], event)
                            = IF c \in C THEN Append(offered[c], event) ELSE offered[c]
    BY <1>2, <1>3, <2>1, AppendsCopies
  <2> QED BY <1>1, <2>2
<1>7. slow' = slow \cup {c \in C : ~Accepts(c)}
  <2>1. \A c \in C : c \in Conns /\ (c \in taking <=> Accepts(c))
    BY <1>2, <1>3, FreeIsCounted
  <2> HIDE DEF taking
  <2>2. C \ taking = {c \in C : ~Accepts(c)}
    BY <2>1
  <2> QED BY <1>1, <2>2
<1> QED BY <1>1, <1>2, <1>5, <1>6, <1>7 DEF r, C, event

(* What Send and the history of it keep of the types. *)
LEMMA SendTypes ==
  ASSUME TypeOK, NEW C \in SUBSET Conns, NEW data \in Envelopes, SendOnce(C, data),
         offered' \in [Conns -> Seq(Envelopes)], messages' \in [Conns -> 0 .. MaxMessages],
         UNCHANGED <<reader, request, pinger, closed, cancelled, up, published, delivered>>
  PROVE  TypeOK'
<1>1. /\ writer' \in [Conns -> {"off", "idle", "parked", "write", "disconnect", "done"}]
      /\ {held, outbound}' \subseteq [Conns -> Seq(Envelopes)]
  BY SendOne
<1>2. PumpTypes'
  BY <1>1, TypeParts DEF PumpTypes
<1>3. EnvelopeTypes'
  BY <1>1, TypeParts DEF EnvelopeTypes
<1>4. OtherTypes'
  BY TypeParts DEF OtherTypes
<1>5. ASSUME NEW c \in Conns PROVE ConnTypes(c)'
  <2>1. /\ Len(held'[c]) = (IF writer'[c] = "write" THEN 1 ELSE 0)
        /\ Len(outbound'[c]) <= WriteBuffer
        /\ writer'[c] = "parked" => outbound'[c] = <<>>
    BY SendOne
  <2>2. ConnTypes(c)
    BY TypeParts
  <2> QED BY <2>1, <2>2 DEF ConnTypes
<1> QED BY <1>2, <1>3, <1>4, <1>5, TypePartsNext

LEMMA MessagesCounted ==
  ASSUME TypeOK, NEW c \in Conns, ClientSends(c)
  PROVE  messages' \in [Conns -> 0 .. MaxMessages]
<1>1. messages[c] \in 0 .. MaxMessages /\ messages[c] < MaxMessages
  BY DEF TypeOK, ClientSends
<1>2. messages[c] + 1 \in 0 .. MaxMessages
  BY <1>1, ConnectorAssumption
<1> QED BY <1>2 DEF TypeOK, ClientSends

LEMMA InsideTypes ==
  ASSUME TypeOK, NewOK, NEW c \in Conns, Inside(c)
  PROVE  TypeOK'
<1> USE DEF TypeOK, Goto
<1>0. <<>> \in Seq(Envelopes) /\ Len(<<>>) = 0
  OBVIOUS
<1>1. CASE Accept(c)
  <2>1. reader[c] = "new" /\ writer[c] = "off"
    BY <1>1 DEF Accept, NewOK
  <2>2. CASE Goto(reader, c, "new", "read") /\ StartPumps(c) /\ UNCHANGED request
    BY <1>1, <2>1, <2>2, ConnectorAssumption DEF Accept, StartPumps, channelVars
  <2>3. ASSUME NEW r \in RoomIDs, Goto(reader, c, "new", "initial"),
               request' = [request EXCEPT ![c] = r], UNCHANGED <<writer, pinger>>
        PROVE  TypeOK'
    BY <1>1, <2>1, <2>3, ConnectorAssumption DEF Accept, channelVars
  <2> QED BY <1>1, <2>2, <2>3 DEF Accept
<1>2. CASE SocketFails(c)
  BY <1>2 DEF SocketFails, pumpVars, channelVars, historyVars
<1>3. CASE ReadOther(c)
  <2>1. SendOnce({c}, Reply) /\ Reply \in Envelopes /\ {c} \in SUBSET Conns
    BY <1>3, ReadOtherOnce, EnvelopeNumbers
  <2>2. offered' \in [Conns -> Seq(Envelopes)]
    <3>1. offered \in [Conns -> Seq(Envelopes)]
      BY DEF Envelopes
    <3>2. offered' = [offered EXCEPT ![c] = IF Accepts(c) THEN Append(@, Reply) ELSE @]
      BY <1>3, ReadOtherOnce
    <3> QED BY <2>1, <3>1, <3>2
  <2>3. messages' \in [Conns -> 0 .. MaxMessages]
    BY <1>3, MessagesCounted DEF ReadOther
  <2>4. UNCHANGED <<reader, request, pinger, closed, cancelled, up, published, delivered>>
    BY <1>3 DEF ReadOther, ClientSends, socketVars
  <2> QED BY <2>1, <2>2, <2>3, <2>4, SendTypes
<1>4. ASSUME NEW r \in RoomIDs, ReadSubscribe(c, r) \/ ReadUnsubscribe(c, r) PROVE TypeOK'
  <2>3. messages' \in [Conns -> 0 .. MaxMessages]
    BY <1>4, MessagesCounted DEF ReadSubscribe, ReadUnsubscribe
  <2>1. r # NoRoom /\ request' = [request EXCEPT ![c] = r]
    BY <1>4, ConnectorAssumption DEF ReadSubscribe, ReadUnsubscribe
  <2>2. \/ reader' = [reader EXCEPT ![c] = "subscribe"]
        \/ reader' = [reader EXCEPT ![c] = "unsubscribe"]
    BY <1>4 DEF ReadSubscribe, ReadUnsubscribe
  <2>4. UNCHANGED <<writer, held, outbound, offered, delivered, pinger, closed, cancelled, up,
                    published>>
    BY <1>4 DEF ReadSubscribe, ReadUnsubscribe, ClientSends, socketVars
  <2>11. PumpTypes' /\ EnvelopeTypes' /\ OtherTypes'
    BY <2>1, <2>2, <2>3, <2>4 DEF PumpTypes, EnvelopeTypes, OtherTypes, Envelopes
  <2>12. ASSUME NEW d \in Conns PROVE ConnTypes(d)'
    <3>1. CASE d = c
      BY <3>1, <2>1, <2>2, <2>4 DEF ConnTypes
    <3>2. CASE d # c
      BY <3>2, <2>1, <2>2, <2>4 DEF ConnTypes
    <3> QED BY <3>1, <3>2
  <2> QED BY <2>11, <2>12, TypePartsNext
<1>5. CASE ReadFails(c)
  BY <1>5 DEF ReadFails, Cancel, channelVars, historyVars
<1>6. CASE ReaderEnds(c)
  BY <1>6 DEF ReaderEnds, CloseOutbound, socketVars, historyVars
<1>7. CASE WriterTakes(c)
  <2>0. held \in [Conns -> Seq(Envelopes)] /\ outbound \in [Conns -> Seq(Envelopes)]
    BY DEF Envelopes
  <2>1. /\ outbound[c] \in Seq(Envelopes) /\ outbound[c] # <<>>
        /\ writer' = [writer EXCEPT ![c] = "write"]
        /\ held' = [held EXCEPT ![c] = <<Head(outbound[c])>>]
        /\ outbound' = [outbound EXCEPT ![c] = Tail(@)]
    BY <1>7 DEF WriterTakes, Envelopes
  <2>2. /\ <<Head(outbound[c])>> \in Seq(Envelopes) /\ Tail(outbound[c]) \in Seq(Envelopes)
        /\ Len(<<Head(outbound[c])>>) = 1
    BY <2>1, HeadBack
  <2>3. Len(Tail(outbound[c])) <= WriteBuffer
    BY <2>1, ConnectorAssumption
  <2>4. /\ {held, outbound}' \subseteq [Conns -> Seq(Envelopes)]
        /\ Len(held'[c]) = 1 /\ writer'[c] = "write" /\ Len(outbound'[c]) <= WriteBuffer
        /\ \A d \in Conns \ {c} : UNCHANGED <<held[d], outbound[d], writer[d]>>
    <3>1. held' \in [Conns -> Seq(Envelopes)] /\ outbound' \in [Conns -> Seq(Envelopes)]
      BY <2>0, <2>1, <2>2
    <3> QED BY <2>0, <2>1, <2>2, <2>3, <3>1
  <2>5. writer' \in [Conns -> {"off", "idle", "parked", "write", "disconnect", "done"}]
    BY <2>1
  <2>11. PumpTypes' /\ OtherTypes'
    BY <1>7, <2>1, <2>4, <2>5 DEF WriterTakes, PumpTypes, OtherTypes, socketVars, historyVars
  <2>12. EnvelopeTypes'
    <3>1. {offered, delivered}' \subseteq [Conns -> Seq(Envelopes)]
      BY <1>7 DEF WriterTakes, Envelopes, historyVars
    <3> QED BY <2>4, <3>1 DEF EnvelopeTypes
  <2>13. ASSUME NEW d \in Conns PROVE ConnTypes(d)'
    <3>1. CASE d = c
      BY <3>1, <1>7, <2>1, <2>4, <2>5 DEF WriterTakes, ConnTypes
    <3>2. CASE d # c
      BY <3>2, <1>7, <2>1, <2>4, <2>5 DEF WriterTakes, ConnTypes
    <3> QED BY <3>1, <3>2
  <2> QED BY <2>11, <2>12, <2>13, TypePartsNext
<1>8. CASE WriterParks(c)
  BY <1>8 DEF WriterParks, channelVars, socketVars, historyVars
<1>9. CASE WriterFinishes(c)
  BY <1>9 DEF WriterFinishes, Cancel, channelVars, historyVars
<1>10. CASE WriteFails(c)
  <2>1. held' \in [Conns -> Seq(Envelopes)] /\ Len(held'[c]) = 0
    BY <1>10, <1>0 DEF WriteFails, Envelopes
  <2>11. PumpTypes' /\ OtherTypes'
    BY <1>10, <2>1 DEF WriteFails, PumpTypes, OtherTypes, socketVars, historyVars
  <2>12. EnvelopeTypes'
    BY <1>10, <2>1 DEF WriteFails, EnvelopeTypes, Envelopes, historyVars
  <2>13. ASSUME NEW d \in Conns PROVE ConnTypes(d)'
    <3>1. CASE d = c
      BY <3>1, <1>10, <2>1 DEF WriteFails, ConnTypes
    <3>2. CASE d # c
      BY <3>2, <1>10, <2>1 DEF WriteFails, ConnTypes
    <3> QED BY <3>1, <3>2
  <2> QED BY <2>11, <2>12, <2>13, TypePartsNext
<1>11. CASE WriteSucceeds(c)
  <2>1. delivered[c] \o held[c] \in Seq(Envelopes)
    BY ConcatProperties DEF Envelopes
  <2>2. delivered' \in [Conns -> Seq(Envelopes)]
    BY <1>11, <2>1 DEF WriteSucceeds, Envelopes
  <2>3. held' \in [Conns -> Seq(Envelopes)] /\ Len(held'[c]) = 0
    BY <1>11, <1>0 DEF WriteSucceeds, Envelopes
  <2>11. PumpTypes' /\ OtherTypes'
    BY <1>11, <2>2, <2>3 DEF WriteSucceeds, PumpTypes, OtherTypes, socketVars, historyVars
  <2>12. EnvelopeTypes'
    <3>1. {outbound, offered}' \subseteq [Conns -> Seq(Envelopes)]
      BY <1>11 DEF WriteSucceeds, Envelopes, historyVars
    <3> QED BY <2>2, <2>3, <3>1 DEF EnvelopeTypes
  <2>13. ASSUME NEW d \in Conns PROVE ConnTypes(d)'
    <3>1. CASE d = c
      BY <3>1, <1>11, <2>2, <2>3 DEF WriteSucceeds, ConnTypes
    <3>2. CASE d # c
      BY <3>2, <1>11, <2>2, <2>3 DEF WriteSucceeds, ConnTypes
    <3> QED BY <3>1, <3>2
  <2> QED BY <2>11, <2>12, <2>13, TypePartsNext
<1>12. CASE PingerStops(c)
  BY <1>12 DEF PingerStops, channelVars, socketVars, historyVars
<1>13. CASE PingFails(c)
  BY <1>13 DEF PingFails, channelVars, socketVars, historyVars
<1>14. CASE PingerEnds(c)
  BY <1>14 DEF PingerEnds, CloseOutbound, Cancel, historyVars
<1> QED BY <1>1, <1>2, <1>3, <1>4, <1>5, <1>6, <1>7, <1>8, <1>9, <1>10, <1>11, <1>12, <1>13,
           <1>14 DEF Inside

LEMMA AsksTypes ==
  ASSUME TypeOK, NewOK, NEW c \in Conns, Asks(c)
  PROVE  TypeOK'
<1> USE DEF TypeOK, Goto
<1>1. CASE RegisterInitial(c)
  <2>1. writer[c] = "off"
    BY <1>1 DEF RegisterInitial, NewOK
  <2> QED BY <1>1, <2>1, ConnectorAssumption DEF RegisterInitial, StartPumps, channelVars, socketVars, historyVars
<1>2. CASE HandOver(c)
  BY <1>2, ConnectorAssumption DEF HandOver, channelVars, socketVars, historyVars
<1>3. CASE ReaderDisconnects(c)
  BY <1>3 DEF ReaderDisconnects, channelVars, socketVars, historyVars
<1>4. CASE WriterDisconnects(c)
  BY <1>4 DEF WriterDisconnects, Cancel, channelVars, historyVars
<1>5. CASE PingerDisconnects(c)
  BY <1>5 DEF PingerDisconnects, channelVars, socketVars, historyVars
<1> QED BY <1>1, <1>2, <1>3, <1>4, <1>5 DEF Asks

LEMMA StepTypes ==
  ASSUME HP!IInv, TypeOK, NewOK, [Next]_vars
  PROVE  TypeOK'
<1>1. CASE UNCHANGED vars
  BY <1>1 DEF vars, pumpVars, channelVars, socketVars, historyVars, TypeOK
<1>2. ASSUME NEW c \in Conns, CloseSlow(c) PROVE TypeOK'
  BY <1>2 DEF CloseSlow, pumpVars, channelVars, historyVars, TypeOK
<1>3. ASSUME NEW r \in RoomIDs, Publish(r) PROVE TypeOK'
  <2>1. /\ published < MaxEvents /\ published' = published + 1
        /\ UNCHANGED <<pumpVars, channelVars, socketVars, messages, offered, delivered>>
    BY <1>3 DEF Publish
  <2>2. published' \in 0 .. MaxEvents
    BY <2>1, ConnectorAssumption DEF TypeOK
  <2> QED BY <2>1, <2>2 DEF pumpVars, channelVars, socketVars, TypeOK
<1>4. CASE HubRequests \/ HubStops
  BY <1>4 DEF HubRequests, HubStops, pumpVars, channelVars, socketVars, historyVars, TypeOK
<1>5. CASE HubBroadcasts
  <2> DEFINE C == H!Recipients(Head(broadcast).roomID)
             event == Head(broadcast).envelope
  <2>1. /\ broadcast # <<>> /\ SendOnce(C, event)
        /\ offered' = [c \in Conns |-> IF c \in C THEN Append(offered[c], event) ELSE offered[c]]
        /\ UNCHANGED <<reader, request, pinger, closed, cancelled, up, published, messages,
                       delivered>>
    BY <1>5, HubBroadcastsOnce DEF socketVars
  <2>2. event \in Envelopes /\ C \in SUBSET Conns
    BY <1>5, HubBroadcastsOnce
  <2> HIDE DEF C, event
  <2>3. offered' \in [Conns -> Seq(Envelopes)]
    BY <2>1, <2>2 DEF TypeOK, Envelopes
  <2>4. messages' \in [Conns -> 0 .. MaxMessages]
    BY <2>1 DEF TypeOK
  <2> QED BY <2>1, <2>2, <2>3, <2>4, SendTypes
<1> QED BY <1>1, <1>2, <1>3, <1>4, <1>5, InsideTypes, AsksTypes, StepKinds

-----------------------------------------------------------------------------
(* A connection that has not come yet *)

(* No step of the hub's gives a subscription to a connection that did not   *)
(* ask for one, nor puts a request on register for one that is not there.   *)
LEMMA StepNewHub ==
  ASSUME HP!IInv, TypeOK, NewOK, [Next]_vars
  PROVE  /\ \A s \in HP!Subs' : reader[s[1]] # "new"
         /\ \A i \in DOMAIN register' : reader[register'[i].conn] # "new"
<1> DEFINE Goal == /\ \A s \in HP!Subs' : reader[s[1]] # "new"
                   /\ \A i \in DOMAIN register' : reader[register'[i].conn] # "new"
<1>0. HP!IndexInv
  BY DEF HP!IInv
<1>1. ASSUME UNCHANGED HP!index PROVE \A s \in HP!Subs' : reader[s[1]] # "new"
  BY <1>0, <1>1, HubAssumed, HP!SameIndex DEF NewOK
<1>2. ASSUME UNCHANGED register PROVE \A i \in DOMAIN register' : reader[register'[i].conn] # "new"
  BY <1>2 DEF NewOK
<1>3. CASE UNCHANGED hubVars
  BY <1>1, <1>2, <1>3 DEF hubVars, HP!index
<1>4. ASSUME NEW c \in Conns, Asks(c) PROVE Goal
  <2>1. \/ H!Register(c, request[c]) /\ reader[c] # "new"
        \/ H!Unregister(c, request[c])
        \/ H!Disconnect(c)
    <3>1. CASE HandOver(c)
      BY <3>1 DEF HandOver, Goto
    <3>2. CASE RegisterInitial(c)
      BY <3>2 DEF RegisterInitial, Goto
    <3> QED BY <1>4, <3>1, <3>2 DEF Asks, ReaderDisconnects, WriterDisconnects, PingerDisconnects
  <2>2. CASE H!Register(c, request[c]) /\ reader[c] # "new"
    <3>1. register \in Seq(HP!TrueRegistration)
      BY DEF HP!IInv, HP!ChannelsOK
    <3>2. \A i \in DOMAIN register' : \/ i \in DOMAIN register /\ register'[i] = register[i]
                                      \/ register'[i].conn = c
      <4> DEFINE m == [conn |-> c, userID |-> UserOf[c], roomID |-> request[c]]
      <4>1. register' = Append(register, m) /\ m.conn = c
        BY <2>2 DEF H!Register
      <4> HIDE DEF m
      <4> QED BY <3>1, <4>1
    <3>3. UNCHANGED HP!index
      BY <2>2 DEF H!Register, H!index, HP!index
    <3> QED BY <1>1, <2>2, <3>2, <3>3 DEF NewOK
  <2>3. CASE H!Unregister(c, request[c]) \/ H!Disconnect(c)
    <3>1. UNCHANGED HP!index /\ UNCHANGED register
      BY <2>3 DEF H!Unregister, H!Disconnect, H!index, HP!index
    <3> QED BY <1>1, <1>2, <3>1
  <2> QED BY <2>1, <2>2, <2>3
<1>5. ASSUME (\E c \in Conns : CloseSlow(c)) \/ (\E r \in RoomIDs : Publish(r)) \/ HubStops
             \/ HubBroadcasts
      PROVE  Goal
  <2>1. UNCHANGED HP!index /\ UNCHANGED register
    BY <1>5 DEF CloseSlow, Publish, HubStops, HubBroadcasts, H!CloseSlow, H!BroadcastToRoom,
                H!RunStop, H!RunBroadcast, H!index, HP!index
  <2> QED BY <1>1, <1>2, <2>1
<1>6. CASE HubRequests
  <2>1. CASE H!RunRegister
    <3> DEFINE m == Head(register)
    <3>1. HP!AddConn(m.conn, m.userID, m.roomID) /\ register # <<>> /\ register' = Tail(register)
      BY <2>1, SameHubActions DEF HP!RunRegister
    <3>2. m \in HP!TrueRegistration /\ register \in Seq(HP!TrueRegistration)
      BY <3>1 DEF HP!IInv, HP!ChannelsOK
    <3>3. m.conn \in Conns /\ m.roomID \in RoomIDs /\ m.userID = UserOf[m.conn]
      BY <3>2 DEF HP!TrueRegistration, HP!ConnRegistration
    <3>4. HP!Subs' = HP!Subs \cup {<<m.conn, m.roomID>>}
      BY <1>0, <3>1, <3>3, HubAssumed, HP!AddConnIndex
    <3>5. reader[m.conn] # "new"
      BY <3>1, <3>2 DEF NewOK
    <3>6. \A i \in DOMAIN register' : i + 1 \in DOMAIN register /\ register'[i] = register[i + 1]
      BY <3>1, <3>2, TailIndex
    <3> HIDE DEF m
    <3> QED BY <3>4, <3>5, <3>6 DEF NewOK
  <2>2. CASE H!RunUnregister
    <3> DEFINE m == Head(unregister)
    <3>1. HP!RemoveConn(m.conn, m.roomID) /\ unregister # <<>> /\ UNCHANGED register
      BY <2>2, SameHubActions DEF HP!RunUnregister
    <3>2. m \in HP!ConnUnregistration
      BY <3>1 DEF HP!IInv, HP!ChannelsOK
    <3>3. m.conn \in Conns /\ m.roomID \in RoomIDs
      BY <3>2 DEF HP!ConnUnregistration
    <3>4. HP!Subs' = HP!Subs \ {<<m.conn, m.roomID>>}
      BY <1>0, <3>1, <3>3, HubAssumed, HP!RemoveConnIndex
    <3> HIDE DEF m
    <3> QED BY <1>2, <3>1, <3>4 DEF NewOK
  <2>3. CASE H!RunDisconnect
    <3> DEFINE c == Head(disconnect)
    <3>1. HP!DisconnectAll(c) /\ disconnect # <<>> /\ UNCHANGED register
      BY <2>3, SameHubActions DEF HP!RunDisconnect
    <3>2. c \in Conns
      BY <3>1 DEF HP!IInv, HP!ChannelsOK
    <3>3. HP!Subs' = {s \in HP!Subs : s[1] # c}
      BY <1>0, <3>1, <3>2, HubAssumed, HP!DisconnectAllIndex
    <3> HIDE DEF c
    <3> QED BY <1>2, <3>1, <3>3 DEF NewOK
  <2> QED BY <1>6, <2>1, <2>2, <2>3 DEF HubRequests
<1>7. CASE UNCHANGED vars
  BY <1>3, <1>7 DEF vars
<1>8. ASSUME NEW c \in Conns, Inside(c) PROVE Goal
  BY <1>3, <1>8, InsideKeepsHub
<1> QED BY <1>4, <1>5, <1>6, <1>7, <1>8, StepKinds

(* A connection that is not subscribed is not sent to. *)
LEMMA NewNotSent ==
  ASSUME HP!IInv, NewOK, NEW c \in Conns, reader[c] = "new", broadcast # <<>>
  PROVE  c \notin H!Recipients(Head(broadcast).roomID)
<1> SUFFICES ASSUME c \in HP!Recipients(Head(broadcast).roomID) PROVE FALSE
  BY SameHubActions
<1>1. Head(broadcast).roomID \in RoomIDs
  BY HeadOfBroadcast
<1>2. <<c, Head(broadcast).roomID>> \in HP!Subs
  BY <1>1 DEF HP!Subs
<1> QED BY <1>2 DEF NewOK

(* reader[c] is never "new" again, and while it is nothing happens to c.    *)
LEMMA StepNewConn ==
  ASSUME HP!IInv, TypeOK, NewOK, [Next]_vars, NEW c \in Conns
  PROVE  /\ reader'[c] = "new" =>
              reader[c] = "new" /\ UNCHANGED <<up[c], offered[c], delivered[c], outbound[c]>>
         /\ reader'[c] \in {"new", "initial"} => writer'[c] = "off"
<1> DEFINE Kept(d) == UNCHANGED <<reader[d], up[d], offered[d], delivered[d], outbound[d], writer[d]>>
           Goal == /\ reader'[c] = "new" => reader[c] = "new" /\ Kept(c)
                   /\ reader'[c] \in {"new", "initial"} => writer'[c] = "off"
<1> SUFFICES Goal
  OBVIOUS
<1>0. reader[c] \in {"new", "initial"} => writer[c] = "off"
  BY DEF NewOK
<1>1. ASSUME NEW d \in Conns, Inside(d) PROVE Goal
  <2>1. CASE d # c /\ ~ReadOther(d)
    <3>1. Kept(c)
      BY <1>1, <2>1 DEF Inside, Accept, StartPumps, SocketFails, ReadSubscribe, ReadUnsubscribe,
         ClientSends, ReadFails, ReaderEnds, WriterTakes, WriterParks, WriterFinishes, WriteFails,
         WriteSucceeds, PingerStops, PingFails, PingerEnds, Goto, TypeOK, channelVars, historyVars,
         socketVars, pumpVars
    <3> QED BY <1>0, <3>1
  <2>2. CASE ReadOther(d)
    <3>1. c # d \/ reader[c] \notin {"new", "initial"}
      BY <2>2 DEF ReadOther, ClientSends
    <3>2. UNCHANGED <<reader, up, delivered>>
      BY <2>2 DEF ReadOther, ClientSends, socketVars
    <3>3. ASSUME c # d PROVE UNCHANGED <<writer[c], outbound[c], offered[c]>>
      <4>1. /\ SendOnce({d}, Reply) /\ c \notin {d}
            /\ offered' = [offered EXCEPT ![d] = IF Accepts(d) THEN Append(@, Reply) ELSE @]
        BY <2>2, <3>3, ReadOtherOnce
      <4> QED BY <3>3, <4>1 DEF SendOnce, TypeOK
    <3> QED BY <1>0, <3>1, <3>2, <3>3
  <2>3. CASE d = c /\ ~ReadOther(d)
    <3>1. CASE Accept(d)
      BY <1>0, <2>3, <3>1 DEF Accept, Goto, TypeOK
    <3>2. CASE SocketFails(d)
      BY <1>0, <2>3, <3>2 DEF SocketFails, NewOK, pumpVars
    <3>3. CASE reader[c] \in {"new", "initial"} /\ ~Accept(d) /\ ~SocketFails(d)
      BY <1>0, <1>1, <2>3, <3>3 DEF Inside, ReadSubscribe, ReadUnsubscribe,
         ClientSends, ReadFails, ReaderEnds, WriterTakes, WriterParks, WriterFinishes, WriteFails,
         WriteSucceeds, PingerStops, PingFails, PingerEnds, Goto, TypeOK, channelVars, historyVars,
         socketVars, pumpVars
    <3>4. CASE reader[c] \notin {"new", "initial"}
      BY <1>1, <2>3, <3>4 DEF Inside, Accept, SocketFails, ReadSubscribe, ReadUnsubscribe,
         ClientSends, ReadFails, ReaderEnds, WriterTakes, WriterParks, WriterFinishes, WriteFails,
         WriteSucceeds, PingerStops, PingFails, PingerEnds, Goto, TypeOK, pumpVars
    <3> QED BY <3>1, <3>2, <3>3, <3>4
  <2> QED BY <2>1, <2>2, <2>3
<1>2. ASSUME NEW d \in Conns, Asks(d) PROVE Goal
  <2>1. UNCHANGED <<up, offered, delivered, outbound>>
    BY <1>2 DEF Asks, RegisterInitial, HandOver, ReaderDisconnects, WriterDisconnects,
                PingerDisconnects, channelVars, historyVars, socketVars
  <2>2. CASE d # c
    <3>1. UNCHANGED <<reader[c], writer[c]>>
      BY <1>2, <2>2 DEF Asks, RegisterInitial, StartPumps, HandOver, ReaderDisconnects,
                        WriterDisconnects, PingerDisconnects, Goto, TypeOK
    <3> QED BY <1>0, <2>1, <3>1
  <2>3. CASE d = c
    <3>1. \/ reader'[c] \notin {"new", "initial"}
          \/ UNCHANGED <<reader[c], writer[c]>>
          \/ reader[c] \notin {"new", "initial"} /\ UNCHANGED reader
      BY <1>0, <1>2, <2>3 DEF Asks, RegisterInitial, HandOver, ReaderDisconnects,
                        WriterDisconnects, PingerDisconnects, Goto, TypeOK
    <3> QED BY <1>0, <2>1, <3>1
  <2> QED BY <2>2, <2>3
<1>3. ASSUME NEW d \in Conns, CloseSlow(d) PROVE Goal
  <2>1. UNCHANGED <<reader, offered, delivered, outbound, writer>>
    BY <1>3 DEF CloseSlow, pumpVars, channelVars, historyVars
  <2>2. reader[c] = "new" => UNCHANGED up[c]
    BY <1>3 DEF CloseSlow, NewOK, TypeOK
  <2> QED BY <1>0, <2>1, <2>2
<1>4. CASE (\E r \in RoomIDs : Publish(r)) \/ HubRequests \/ HubStops
  <2>1. Kept(c)
    BY <1>4 DEF Publish, HubRequests, HubStops, pumpVars, channelVars, socketVars, historyVars
  <2> QED BY <1>0, <2>1
<1>5. CASE HubBroadcasts
  <2> DEFINE C == H!Recipients(Head(broadcast).roomID)
             event == Head(broadcast).envelope
  <2>1. /\ broadcast # <<>> /\ SendOnce(C, event)
        /\ offered' = [d \in Conns |-> IF d \in C THEN Append(offered[d], event) ELSE offered[d]]
        /\ UNCHANGED <<reader, up, delivered>>
    BY <1>5, HubBroadcastsOnce DEF socketVars
  <2>2. writer[c] = "off" => writer'[c] = "off"
    BY <2>1 DEF SendOnce
  <2>3. ASSUME reader[c] = "new" PROVE UNCHANGED <<offered[c], outbound[c], writer[c]>>
    <3>1. c \notin C
      BY <2>1, <2>3, NewNotSent
    <3> QED BY <2>1, <3>1 DEF SendOnce
  <2> QED BY <1>0, <2>1, <2>2, <2>3
<1>6. CASE UNCHANGED vars
  <2>1. Kept(c)
    BY <1>6 DEF vars, pumpVars, channelVars, socketVars, historyVars
  <2> QED BY <1>0, <2>1
<1> QED BY <1>1, <1>2, <1>3, <1>4, <1>5, <1>6, StepKinds

LEMMA StepNew ==
  ASSUME HP!IInv, TypeOK, NewOK, [Next]_vars
  PROVE  NewOK'
<1>1. ASSUME NEW c \in Conns
      PROVE  /\ reader'[c] \in {"new", "initial"} => writer'[c] = "off"
             /\ reader'[c] = "new" =>
                  /\ ~up'[c]
                  /\ offered'[c] = <<>> /\ delivered'[c] = <<>> /\ outbound'[c] = <<>>
  BY StepNewConn DEF NewOK
<1>2. ASSUME NEW c \in Conns, reader[c] # "new" PROVE reader'[c] # "new"
  BY <1>2, StepNewConn
<1>3. \A s \in HP!Subs' : s[1] \in Conns
  BY DEF HP!Subs
<1>4. \A i \in DOMAIN register' : register'[i].conn \in Conns
  <2>1. HP!IInv'
    BY HubAssumed, StepIsHubStep, HP!StepInv
  <2>2. register' \in Seq(HP!TrueRegistration)
    BY <2>1 DEF HP!IInv, HP!ChannelsOK
  <2> QED BY <2>2 DEF HP!TrueRegistration, HP!ConnRegistration
<1> QED BY <1>1, <1>2, <1>3, <1>4, StepNewHub DEF NewOK

-----------------------------------------------------------------------------
(* The order of the broadcasts *)

LEMMA BroadcastTypes ==
  ASSUME HP!IInv
  PROVE  /\ broadcast \in Seq(HP!BroadcastMessage)
         /\ \A i \in DOMAIN broadcast : broadcast[i].envelope \in Events
<1>1. broadcast \in Seq(HP!BroadcastMessage)
  BY DEF HP!IInv, HP!ChannelsOK
<1>2. \A i \in DOMAIN broadcast : broadcast[i] \in HP!BroadcastMessage
  BY <1>1
<1>3. \A m \in HP!BroadcastMessage : m.envelope \in Events
  BY DEF HP!BroadcastMessage
<1> QED BY <1>1, <1>2, <1>3

LEMMA StepQueue ==
  ASSUME HP!IInv, TypeOK, QueueOrder, [Next]_vars
  PROVE  /\ QueueOrder'
         /\ \A e \in Envelopes : Earlier(e) => Earlier(e)'
<1>0. /\ broadcast \in Seq(HP!BroadcastMessage) /\ published \in Nat
      /\ \A i \in DOMAIN broadcast : broadcast[i].envelope \in Nat
  BY BroadcastTypes, EnvelopeNumbers, ConnectorAssumption DEF TypeOK
<1>1. CASE UNCHANGED <<broadcast, published>>
  BY <1>1 DEF QueueOrder, Earlier
<1>2. ASSUME NEW r \in RoomIDs, Publish(r)
      PROVE  QueueOrder' /\ \A e \in Envelopes : Earlier(e) => Earlier(e)'
  <2> DEFINE m == [roomID |-> r, envelope |-> published + 1]
  <2>1. broadcast' = Append(broadcast, m) /\ m.envelope = published + 1 /\ published' = published + 1
    BY <1>2 DEF Publish, H!BroadcastToRoom
  <2> HIDE DEF m
  <2>2. /\ DOMAIN broadcast' = 1 .. Len(broadcast) + 1
        /\ broadcast'[Len(broadcast) + 1] = m
        /\ DOMAIN broadcast = 1 .. Len(broadcast) /\ Len(broadcast) \in Nat
        /\ \A i \in 1 .. Len(broadcast) : broadcast'[i] = broadcast[i]
    BY <1>0, <2>1
  <2>3. QueueOrder'
    <3> SUFFICES ASSUME NEW i \in DOMAIN broadcast'
                 PROVE  /\ broadcast'[i].envelope <= published'
                        /\ \A j \in DOMAIN broadcast' :
                             i < j => broadcast'[i].envelope < broadcast'[j].envelope
      BY DEF QueueOrder
    <3>1. CASE i = Len(broadcast) + 1
      BY <1>0, <2>1, <2>2, <3>1
    <3>2. CASE i # Len(broadcast) + 1
      <4>1. i \in DOMAIN broadcast /\ broadcast'[i] = broadcast[i]
        BY <2>2, <3>2
      <4>2. broadcast[i].envelope <= published /\ broadcast[i].envelope \in Nat
        BY <1>0, <4>1 DEF QueueOrder
      <4>3. ASSUME NEW j \in DOMAIN broadcast', i < j
            PROVE  broadcast'[i].envelope < broadcast'[j].envelope
        <5>1. CASE j = Len(broadcast) + 1
          BY <1>0, <2>1, <2>2, <4>1, <4>2, <5>1
        <5>2. CASE j # Len(broadcast) + 1
          BY <2>2, <4>1, <4>3, <5>2 DEF QueueOrder
        <5> QED BY <5>1, <5>2
      <4> QED BY <1>0, <2>1, <4>1, <4>2, <4>3
    <3> QED BY <3>1, <3>2
  <2>4. ASSUME NEW e \in Envelopes, Earlier(e) PROVE Earlier(e)'
    <3>1. e \in Nat /\ e <= published
      BY <2>4, EnvelopeNumbers DEF Earlier
    <3>2. ASSUME NEW i \in DOMAIN broadcast' PROVE e < broadcast'[i].envelope
      <4>1. CASE i = Len(broadcast) + 1
        BY <1>0, <2>1, <2>2, <3>1, <4>1
      <4>2. CASE i # Len(broadcast) + 1
        BY <2>2, <2>4, <4>2 DEF Earlier
      <4> QED BY <4>1, <4>2
    <3> QED BY <1>0, <2>1, <3>1, <3>2 DEF Earlier
  <2> QED BY <2>3, <2>4
<1>3. CASE HubBroadcasts
  <2>1. broadcast # <<>> /\ broadcast' = Tail(broadcast) /\ UNCHANGED published
    BY <1>3 DEF HubBroadcasts, H!RunBroadcast
  <2>2. \A i \in DOMAIN broadcast' :
          i \in Int /\ i + 1 \in DOMAIN broadcast /\ broadcast'[i] = broadcast[i + 1]
    BY <1>0, <2>1, TailIndex
  <2> QED BY <2>1, <2>2 DEF QueueOrder, Earlier
<1>4. ASSUME NEW c \in Conns, Inside(c) \/ Asks(c) \/ CloseSlow(c)
      PROVE  UNCHANGED <<broadcast, published>>
  <2>1. CASE Inside(c)
    <3>1. UNCHANGED published
      BY <2>1 DEF Inside, Accept, SocketFails, ReadOther, ReadSubscribe, ReadUnsubscribe,
         ClientSends, ReadFails, ReaderEnds, WriterTakes, WriterParks, WriterFinishes, WriteFails,
         WriteSucceeds, PingerStops, PingFails, PingerEnds, historyVars
    <3> QED BY <2>1, <3>1, InsideKeepsHub DEF hubVars
  <2>2. CASE Asks(c)
    BY <2>2 DEF Asks, RegisterInitial, HandOver, ReaderDisconnects, WriterDisconnects,
       PingerDisconnects, H!Register, H!Unregister, H!Disconnect, historyVars
  <2>3. CASE CloseSlow(c)
    BY <2>3 DEF CloseSlow, H!CloseSlow, historyVars
  <2> QED BY <1>4, <2>1, <2>2, <2>3
<1>5. CASE HubRequests \/ HubStops
  BY <1>1, <1>5 DEF HubRequests, HubStops, H!RunRegister, H!RunUnregister, H!RunDisconnect,
     H!RunStop, historyVars
<1>6. CASE UNCHANGED vars
  BY <1>1, <1>6 DEF vars, hubVars, historyVars
<1> QED BY <1>1, <1>2, <1>3, <1>4, <1>5, <1>6, StepKinds

-----------------------------------------------------------------------------
(* What Send has taken for a connection *)

LEMMA ThreeParts ==
  \A a, b, s \in Seq(Envelopes) :
    /\ a \o b \o s = a \o (b \o s)
    /\ a \o b \o s \in Seq(Envelopes)
<1> SUFFICES ASSUME NEW a \in Seq(Envelopes), NEW b \in Seq(Envelopes), NEW s \in Seq(Envelopes)
             PROVE  a \o b \o s = a \o (b \o s) /\ a \o b \o s \in Seq(Envelopes)
  OBVIOUS
<1>1. a \o b \in Seq(Envelopes)
  BY ConcatProperties
<1>2. a \o b \o s \in Seq(Envelopes)
  BY <1>1, ConcatProperties
<1> QED BY <1>2, ConcatAssociative

LEMMA PartsOf ==
  ASSUME TypeOK, NEW c \in Conns
  PROVE  /\ {delivered[c], held[c], outbound[c], offered[c], Sent(c)} \subseteq Seq(Envelopes)
         /\ Sent(c) = delivered[c] \o (held[c] \o outbound[c])
         /\ held[c] = <<>> <=> writer[c] # "write"
<1>1. {delivered[c], held[c], outbound[c], offered[c]} \subseteq Seq(Envelopes)
  BY DEF TypeOK, Envelopes
<1>2. held[c] = <<>> <=> writer[c] # "write"
  <2>1. held[c] \in Seq(Envelopes) /\ Len(held[c]) = (IF writer[c] = "write" THEN 1 ELSE 0)
    BY <1>1 DEF TypeOK
  <2> QED BY <2>1, EmptySeq
<1>3. Sent(c) = delivered[c] \o (held[c] \o outbound[c]) /\ Sent(c) \in Seq(Envelopes)
  <2>1. /\ delivered[c] \in Seq(Envelopes) /\ held[c] \in Seq(Envelopes)
        /\ outbound[c] \in Seq(Envelopes)
    BY <1>1
  <2> QED BY <2>1, ThreeParts, Zenon DEF Sent
<1> QED BY <1>1, <1>2, <1>3

(* An envelope goes from outbound over held to the socket, at the same place. *)
LEMMA WriterKeepsSent ==
  ASSUME TypeOK, NEW c \in Conns, WriterTakes(c) \/ WriteSucceeds(c)
  PROVE  Sent(c)' = Sent(c)
<1>0. {delivered[c], held[c], outbound[c]} \subseteq Seq(Envelopes)
  BY DEF TypeOK, Envelopes
<1>1. CASE WriterTakes(c)
  <2>1. /\ delivered'[c] = delivered[c] /\ held[c] = <<>> /\ outbound[c] # <<>>
        /\ held'[c] = <<Head(outbound[c])>> /\ outbound'[c] = Tail(outbound[c])
    BY <1>1, PartsOf DEF WriterTakes, Goto, TypeOK, historyVars
  <2>2. /\ held'[c] \o outbound'[c] = outbound[c]
        /\ held'[c] \in Seq(Envelopes) /\ outbound'[c] \in Seq(Envelopes)
    BY <1>0, <2>1, HeadBack
  <2>3. held[c] \o outbound[c] = outbound[c]
    BY <1>0, <2>1, ConcatEmptySeq
  <2>4. Sent(c)' = delivered[c] \o (held'[c] \o outbound'[c])
    <3>1. delivered[c] \in Seq(Envelopes)
      BY <1>0
    <3>2. Sent(c)' = delivered[c] \o held'[c] \o outbound'[c]
      BY <2>1 DEF Sent
    <3> QED BY <2>2, <3>1, <3>2, ThreeParts, Zenon
  <2> QED BY <2>2, <2>3, <2>4, PartsOf
<1>2. CASE WriteSucceeds(c)
  <2>1. delivered'[c] = delivered[c] \o held[c] /\ held'[c] = <<>> /\ outbound'[c] = outbound[c]
    BY <1>2 DEF WriteSucceeds, TypeOK
  <2>2. delivered[c] \o held[c] \in Seq(Envelopes)
    BY <1>0, ConcatProperties
  <2>3. delivered'[c] \o <<>> = delivered'[c]
    BY <2>1, <2>2, ConcatEmptySeq
  <2> QED BY <2>1, <2>3 DEF Sent
<1> QED BY <1>1, <1>2

(* Send puts what it takes at the end. *)
LEMMA SendSent ==
  ASSUME TypeOK, NEW C \in SUBSET Conns, NEW data \in Envelopes, SendOnce(C, data),
         UNCHANGED delivered, NEW c \in Conns
  PROVE  Sent(c)' = IF c \in C /\ Accepts(c) THEN Append(Sent(c), data) ELSE Sent(c)
<1>1. /\ {delivered[c], held[c], outbound[c], held'[c], outbound'[c]} \subseteq Seq(Envelopes)
      /\ held'[c] \o outbound'[c] = IF c \in C /\ Accepts(c)
                                      THEN Append(held[c] \o outbound[c], data)
                                      ELSE held[c] \o outbound[c]
  <2>1. {delivered[c], held[c], outbound[c]} \subseteq Seq(Envelopes)
    BY PartsOf
  <2>2. /\ {held, outbound}' \subseteq [Conns -> Seq(Envelopes)]
        /\ held'[c] \o outbound'[c] = IF c \in C /\ Accepts(c)
                                        THEN Append(held[c] \o outbound[c], data)
                                        ELSE held[c] \o outbound[c]
    BY SendOne
  <2> QED BY <2>1, <2>2
<1>2. Sent(c)' = delivered[c] \o (held'[c] \o outbound'[c])
  <2>1. Sent(c)' = delivered[c] \o held'[c] \o outbound'[c]
    BY DEF Sent
  <2>2. /\ delivered[c] \in Seq(Envelopes) /\ held'[c] \in Seq(Envelopes)
        /\ outbound'[c] \in Seq(Envelopes)
    BY <1>1
  <2> QED BY <2>1, <2>2, ThreeParts, Zenon
<1>3. held[c] \o outbound[c] \in Seq(Envelopes)
  BY <1>1, ConcatProperties
<1>4. \A a, b \in Seq(Envelopes) : a \o Append(b, data) = Append(a \o b, data)
  BY ConcatAppend
<1>5. CASE c \in C /\ Accepts(c)
  <2>1. Sent(c)' = delivered[c] \o Append(held[c] \o outbound[c], data)
    BY <1>1, <1>2, <1>5, Zenon
  <2>2. @ = Append(delivered[c] \o (held[c] \o outbound[c]), data)
    BY <1>1, <1>3, <1>4, Zenon
  <2>3. @ = Append(Sent(c), data)
    BY PartsOf, Zenon
  <2> QED BY <1>5, <2>1, <2>2, <2>3, Zenon
<1>6. CASE ~(c \in C /\ Accepts(c))
  BY <1>1, <1>2, <1>6, PartsOf, Zenon
<1> QED BY <1>5, <1>6

(* What a step does to c. *)
Keeps(c) == Sent(c)' = Sent(c) /\ offered'[c] = offered[c]
Takes(c, e) == Sent(c)' = Append(Sent(c), e) /\ offered'[c] = Append(offered[c], e)
Misses(c) == Sent(c)' = Sent(c) /\ c \in slow'
Breaks(c) == ~up'[c] /\ writer'[c] = "disconnect" /\ delivered'[c] = delivered[c]

LEMMA StepSent ==
  ASSUME HP!IInv, TypeOK, NewOK, [Next]_vars, NEW c \in Conns
  PROVE  \/ Keeps(c)
         \/ Takes(c, Reply)
         \/ /\ HubBroadcasts
            /\ Takes(c, Head(broadcast).envelope) \/ Misses(c)
         \/ Breaks(c)
<1>1. ASSUME UNCHANGED <<held[c], outbound[c], offered[c], delivered[c]>> PROVE Keeps(c)
  BY <1>1 DEF Keeps, Sent
<1>2. ASSUME NEW d \in Conns, Inside(d)
      PROVE  Keeps(c) \/ Takes(c, Reply) \/ Breaks(c)
  <2>1. CASE ReadOther(d)
    <3>1. /\ SendOnce({d}, Reply) /\ UNCHANGED delivered /\ Reply \in Envelopes
          /\ offered' = [offered EXCEPT ![d] = IF Accepts(d) THEN Append(@, Reply) ELSE @]
      BY <2>1, ReadOtherOnce, EnvelopeNumbers DEF ReadOther, ClientSends
    <3>2. Sent(c)' = IF c \in {d} /\ Accepts(c) THEN Append(Sent(c), Reply) ELSE Sent(c)
      BY <3>1, SendSent
    <3>3. offered'[c] = IF c \in {d} /\ Accepts(c) THEN Append(offered[c], Reply) ELSE offered[c]
      BY <3>1 DEF TypeOK
    <3> QED BY <3>2, <3>3 DEF Keeps, Takes
  <2>2. CASE (WriterTakes(d) \/ WriteSucceeds(d)) /\ d = c
    <3>1. UNCHANGED offered
      BY <2>2 DEF WriterTakes, WriteSucceeds, historyVars
    <3> QED BY <2>2, <3>1, WriterKeepsSent DEF Keeps
  <2>3. CASE (WriterTakes(d) \/ WriteSucceeds(d)) /\ d # c
    BY <1>1, <2>3 DEF WriterTakes, WriteSucceeds, historyVars, TypeOK
  <2>4. CASE WriteFails(d) /\ d = c
    BY <2>4 DEF WriteFails, Goto, historyVars, Breaks, TypeOK
  <2>5. CASE WriteFails(d) /\ d # c
    BY <1>1, <2>5 DEF WriteFails, historyVars, TypeOK
  <2>6. CASE ~(ReadOther(d) \/ WriterTakes(d) \/ WriteSucceeds(d) \/ WriteFails(d))
    BY <1>1, <1>2, <2>6 DEF Inside, Accept, SocketFails, ReadSubscribe, ReadUnsubscribe,
         ClientSends, ReadFails, ReaderEnds, WriterParks, WriterFinishes,
         PingerStops, PingFails, PingerEnds, channelVars, historyVars
  <2> QED BY <2>1, <2>2, <2>3, <2>4, <2>5, <2>6
<1>3. ASSUME NEW d \in Conns, Asks(d) \/ CloseSlow(d) PROVE Keeps(c)
  BY <1>1, <1>3 DEF Asks, RegisterInitial, HandOver, ReaderDisconnects, WriterDisconnects,
                PingerDisconnects, CloseSlow, channelVars, historyVars
<1>4. CASE (\E r \in RoomIDs : Publish(r)) \/ HubRequests \/ HubStops \/ UNCHANGED vars
  BY <1>1, <1>4 DEF Publish, HubRequests, HubStops, vars, channelVars, historyVars
<1>5. CASE HubBroadcasts
  <2> DEFINE C == H!Recipients(Head(broadcast).roomID)
             event == Head(broadcast).envelope
  <2>1. /\ broadcast # <<>> /\ SendOnce(C, event) /\ UNCHANGED delivered
        /\ slow' = slow \cup {d \in C : ~Accepts(d)}
        /\ offered' = [d \in Conns |-> IF d \in C THEN Append(offered[d], event) ELSE offered[d]]
    BY <1>5, HubBroadcastsOnce
  <2>2. event \in Envelopes /\ C \in SUBSET Conns
    BY <1>5, HubBroadcastsOnce
  <2>3. Sent(c)' = IF c \in C /\ Accepts(c) THEN Append(Sent(c), event) ELSE Sent(c)
    BY <2>1, <2>2, SendSent
  <2>4. offered'[c] = IF c \in C THEN Append(offered[c], event) ELSE offered[c]
    BY <2>1
  <2>5. c \in C /\ ~Accepts(c) => c \in slow'
    BY <2>1
  <2> QED BY <1>5, <2>3, <2>4, <2>5 DEF Keeps, Takes, Misses
<1> QED BY <1>2, <1>3, <1>4, <1>5, StepKinds

(* A writePump that gave up stays so; what is written is what it held; only *)
(* Accept opens a socket; and slow is left by the Close of the connection.  *)
LEMMA StepConn ==
  ASSUME TypeOK, NewOK, [Next]_vars, NEW c \in Conns
  PROVE  /\ writer[c] \in {"disconnect", "done"} => writer'[c] \in {"disconnect", "done"}
         /\ \/ delivered'[c] = delivered[c]
            \/ writer[c] = "write" /\ delivered'[c] = delivered[c] \o held[c]
         /\ up'[c] => up[c] \/ reader[c] = "new"
         /\ c \in slow => c \in slow' \/ ~up'[c]
<1> DEFINE WriterStays == writer[c] \in {"disconnect", "done"} => writer'[c] \in {"disconnect", "done"}
           Writes == \/ delivered'[c] = delivered[c]
                     \/ writer[c] = "write" /\ delivered'[c] = delivered[c] \o held[c]
           Opens == up'[c] => up[c] \/ reader[c] = "new"
           Slow == c \in slow => c \in slow' \/ ~up'[c]
           Goal == WriterStays /\ Writes /\ Opens /\ Slow
<1> SUFFICES Goal
  OBVIOUS
<1>1. ASSUME NEW d \in Conns, Inside(d) PROVE Goal
  <2>1. Slow
    BY <1>1, InsideKeepsHub DEF hubVars
  <2>2. CASE ReadOther(d)
    <3>1. SendOnce({d}, Reply) /\ Reply \in Envelopes /\ UNCHANGED <<up, delivered>>
      BY <2>2, ReadOtherOnce, EnvelopeNumbers DEF ReadOther, ClientSends, socketVars
    <3>2. WriterStays
      BY <3>1, SendOne
    <3> QED BY <2>1, <3>1, <3>2
  <2>3. CASE WriteSucceeds(d)
    <3>1. Writes
      <4>1. CASE d = c
        BY <2>3, <4>1 DEF WriteSucceeds, Goto, TypeOK
      <4>2. CASE d # c
        BY <2>3, <4>2 DEF WriteSucceeds, TypeOK
      <4> QED BY <4>1, <4>2
    <3>2. WriterStays /\ Opens
      BY <2>3 DEF WriteSucceeds, Goto, socketVars, TypeOK
    <3> QED BY <2>1, <3>1, <3>2
  <2>4. CASE ~ReadOther(d) /\ ~WriteSucceeds(d)
    <3>1. UNCHANGED delivered
      BY <1>1, <2>4 DEF Inside, Accept, SocketFails, ReadSubscribe, ReadUnsubscribe,
         ClientSends, ReadFails, ReaderEnds, WriterTakes, WriterParks, WriterFinishes, WriteFails,
         PingerStops, PingFails, PingerEnds, historyVars
    <3>2. CASE Accept(d) \/ SocketFails(d)
      <4>1. Opens
        BY <3>2 DEF Accept, Goto, SocketFails, TypeOK
      <4>2. WriterStays
        <5>1. CASE SocketFails(d)
          BY <5>1 DEF SocketFails, pumpVars
        <5>2. CASE Accept(d)
          <6>1. writer[d] = "off"
            BY <5>2 DEF Accept, Goto, NewOK
          <6>2. UNCHANGED writer \/ writer' = [writer EXCEPT ![d] = "idle"]
            BY <5>2 DEF Accept, StartPumps
          <6> QED BY <6>1, <6>2 DEF TypeOK
        <5> QED BY <3>2, <5>1, <5>2
      <4> QED BY <2>1, <3>1, <4>1, <4>2
    <3>3. CASE ~Accept(d) /\ ~SocketFails(d)
      <4>1. Opens
        BY <1>1, <2>4, <3>3 DEF Inside, ReadSubscribe, ReadUnsubscribe,
           ClientSends, ReadFails, ReaderEnds, WriterTakes, WriterParks, WriterFinishes, WriteFails,
           PingerStops, PingFails, PingerEnds, socketVars, TypeOK
      <4>2. WriterStays
        BY <1>1, <2>4, <3>3 DEF Inside, ReadSubscribe, ReadUnsubscribe,
           ClientSends, ReadFails, ReaderEnds, WriterTakes, WriterParks, WriterFinishes, WriteFails,
           PingerStops, PingFails, PingerEnds, Goto, TypeOK
      <4> QED BY <2>1, <3>1, <4>1, <4>2
    <3> QED BY <3>2, <3>3
  <2> QED BY <2>2, <2>3, <2>4
<1>2. ASSUME NEW d \in Conns, Asks(d) PROVE Goal
  <2>1. UNCHANGED <<up, delivered, slow>>
    BY <1>2 DEF Asks, RegisterInitial, HandOver, ReaderDisconnects, WriterDisconnects,
       PingerDisconnects, historyVars, socketVars, H!Register, H!Unregister, H!Disconnect
  <2>2. WriterStays
    BY <1>2 DEF Asks, RegisterInitial, StartPumps, HandOver, ReaderDisconnects,
       WriterDisconnects, PingerDisconnects, Goto, TypeOK, NewOK
  <2> QED BY <2>1, <2>2
<1>3. ASSUME NEW d \in Conns, CloseSlow(d) PROVE Goal
  BY <1>3 DEF CloseSlow, H!CloseSlow, pumpVars, historyVars, TypeOK
<1>4. CASE (\E r \in RoomIDs : Publish(r)) \/ HubRequests \/ HubStops
  BY <1>4 DEF Publish, HubRequests, HubStops, pumpVars, socketVars, historyVars,
     H!BroadcastToRoom, H!RunRegister, H!RunUnregister, H!RunDisconnect, H!RunStop
<1>5. CASE HubBroadcasts
  BY <1>5 DEF HubBroadcasts, H!RunBroadcast, H!SendToRoom, Send, socketVars
<1>6. CASE UNCHANGED vars
  BY <1>6 DEF vars, hubVars, pumpVars, socketVars, historyVars
<1> QED BY <1>1, <1>2, <1>3, <1>4, <1>5, <1>6, StepKinds

LEMMA StepOrder ==
  ASSUME HP!IInv, TypeOK, NewOK, QueueOrder, SentOrder, [Next]_vars
  PROVE  SentOrder'
<1> SUFFICES ASSUME NEW c \in Conns
             PROVE  /\ InOrder(delivered'[c])
                    /\ writer'[c] \notin {"disconnect", "done"} =>
                         /\ InOrder(Sent(c)')
                         /\ \A e \in Range(Sent(c)') : Earlier(e)'
  BY DEF SentOrder, InOrder
<1>1. /\ {delivered[c], held[c], outbound[c], Sent(c)} \subseteq Seq(Envelopes)
      /\ Sent(c) = delivered[c] \o (held[c] \o outbound[c])
  BY PartsOf
<1>2. InOrder(delivered'[c])
  <2>1. CASE delivered'[c] = delivered[c]
    BY <2>1 DEF SentOrder
  <2>2. CASE writer[c] = "write" /\ delivered'[c] = delivered[c] \o held[c]
    <3>1. InOrder(delivered[c] \o held[c] \o outbound[c])
      BY <2>2 DEF SentOrder, Sent
    <3>2. delivered[c] \o held[c] \in Seq(Envelopes)
      BY <1>1, ConcatProperties
    <3> QED BY <1>1, <2>2, <3>1, <3>2, PrefixInOrder
  <2> QED BY <2>1, <2>2, StepConn
<1>3. ASSUME writer'[c] \notin {"disconnect", "done"}
      PROVE  /\ InOrder(Sent(c)')
             /\ \A e \in Range(Sent(c)') : Earlier(e)'
  <2>1. InOrder(Sent(c)) /\ \A e \in Range(Sent(c)) : Earlier(e)
    BY <1>3, StepConn DEF SentOrder
  <2>2. Range(Sent(c)) \subseteq Envelopes
    <3>1. Sent(c) \in Seq(Envelopes)
      BY <1>1
    <3>2. \A s \in Seq(Envelopes) : Range(s) \subseteq Envelopes
      BY DEF Range
    <3> QED BY <3>1, <3>2
  <2>3. \A e \in Range(Sent(c)) : Earlier(e)'
    BY <2>1, <2>2, StepQueue
  <2>4. CASE Sent(c)' = Sent(c)
    BY <2>1, <2>3, <2>4
  <2>5. ASSUME NEW e \in Envelopes, Sent(c)' = Append(Sent(c), e), Earlier(e)',
               e = Reply \/ \A x \in Range(Sent(c)) : x < e
        PROVE  /\ InOrder(Sent(c)')
               /\ \A y \in Range(Sent(c)') : Earlier(y)'
    <3>1. InOrder(Sent(c)')
      BY <1>1, <2>1, <2>5, AppendInOrder
    <3>2. Range(Sent(c)') = Range(Sent(c)) \cup {e}
      <4>1. Sent(c) \in Seq(Envelopes)
        BY <1>1
      <4>2. \A s \in Seq(Envelopes) : Range(Append(s, e)) = Range(s) \cup {e}
        BY AppendRangeIs
      <4> QED BY <2>5, <4>1, <4>2, Zenon
    <3> QED BY <2>3, <2>5, <3>1, <3>2
  <2>6. CASE Takes(c, Reply)
    <3>1. Earlier(Reply)
      BY EnvelopeNumbers, BroadcastTypes, ConnectorAssumption DEF Earlier, Reply, Events, TypeOK
    <3>2. Reply \in Envelopes /\ Earlier(Reply)'
      BY <3>1, EnvelopeNumbers, StepQueue
    <3> QED BY <2>5, <2>6, <3>2 DEF Takes
  <2>7. CASE HubBroadcasts /\ Takes(c, Head(broadcast).envelope)
    <3> PICK e : e = Head(broadcast).envelope
      OBVIOUS
    <3>1. broadcast # <<>> /\ broadcast' = Tail(broadcast) /\ UNCHANGED published
      BY <2>7 DEF HubBroadcasts, H!RunBroadcast
    <3>2. /\ 1 \in DOMAIN broadcast /\ Head(broadcast) = broadcast[1]
          /\ \A i \in DOMAIN broadcast' : /\ i + 1 \in DOMAIN broadcast /\ 1 < i + 1
                                          /\ broadcast'[i] = broadcast[i + 1]
      BY <3>1, BroadcastTypes, TailIndex
    <3>3. Earlier(e)'
      BY <3>1, <3>2 DEF Earlier, QueueOrder
    <3>4. \A x \in Range(Sent(c)) : x < e
      BY <2>1, <3>2 DEF Earlier
    <3>5. e \in Envelopes
      BY <3>1, HeadOfBroadcast DEF Envelopes
    <3> QED BY <2>5, <2>7, <3>3, <3>4, <3>5 DEF Takes
  <2> QED BY <1>3, <2>4, <2>6, <2>7, StepSent DEF Keeps, Misses, Breaks
<1> QED BY <1>2, <1>3

LEMMA StepNoLoss ==
  ASSUME HP!IInv, TypeOK, NewOK, NoSilentLoss, [Next]_vars
  PROVE  NoSilentLoss'
<1> SUFFICES ASSUME NEW c \in Conns, up'[c], c \notin slow'
             PROVE  offered'[c] = Sent(c)'
  BY DEF NoSilentLoss, Sent
<1>1. offered[c] = Sent(c)
  <2>1. CASE up[c]
    BY <2>1, StepConn DEF NoSilentLoss
  <2>2. CASE reader[c] = "new"
    <3>1. offered[c] = <<>> /\ delivered[c] = <<>> /\ outbound[c] = <<>> /\ writer[c] = "off"
      BY <2>2 DEF NewOK
    <3>2. held[c] = <<>>
      BY <3>1, PartsOf
    <3> QED BY <3>1, <3>2 DEF Sent
  <2> QED BY <2>1, <2>2, StepConn
<1> QED BY <1>1, StepSent DEF Keeps, Takes, Misses, Breaks

-----------------------------------------------------------------------------
(* How the pumps of a connection end *)

(* From the first failure on, the socket of c is gone; then each pump calls *)
(* cancel before it ends, and readPump closes outbound.                     *)
Wakes(c) ==
  /\ reader[c] \in {"new", "initial"} =>
       writer[c] = "off" /\ pinger[c] = "off" /\ c \notin cancelled
  /\ writer[c] = "disconnect" \/ pinger[c] \in {"disconnect", "closeOutbound"}
       \/ c \in cancelled => ~up[c]
  /\ reader[c] \in {"disconnect", "closeOutbound", "done"} \/ writer[c] = "done"
       \/ pinger[c] = "done" \/ c \in closed => c \in cancelled
  /\ reader[c] = "done" => c \in closed

WakesOK == \A c \in Conns : Wakes(c)

LEMMA OneConnWakes ==
  ASSUME WakesOK, NEW d \in Conns, Wakes(d)',
         \A c \in Conns \ {d} :
           /\ reader'[c] = reader[c] /\ writer'[c] = writer[c] /\ pinger'[c] = pinger[c]
           /\ up'[c] = up[c]
           /\ (c \in closed' <=> c \in closed) /\ (c \in cancelled' <=> c \in cancelled)
  PROVE  WakesOK'
<1> SUFFICES ASSUME NEW c \in Conns \ {d} PROVE Wakes(c)'
  BY DEF WakesOK
<1>1. Wakes(c)
  BY DEF WakesOK
<1> QED BY <1>1 DEF Wakes

(* Send moves a writePump only from its receive into its write. *)
LEMMA SendWakes ==
  ASSUME WakesOK, UNCHANGED <<reader, pinger, closed, socketVars>>,
         \A c \in Conns : writer'[c] = writer[c] \/ (writer[c] = "parked" /\ writer'[c] = "write")
  PROVE  WakesOK'
<1> SUFFICES ASSUME NEW c \in Conns PROVE Wakes(c)'
  BY DEF WakesOK
<1>1. Wakes(c)
  BY DEF WakesOK
<1> QED BY <1>1 DEF Wakes, socketVars

LEMMA ReaderWakes ==
  ASSUME TypeOK, WakesOK, NEW d \in Conns,
         \/ Accept(d) \/ RegisterInitial(d) \/ HandOver(d) \/ ReadFails(d)
         \/ ReaderDisconnects(d) \/ ReaderEnds(d)
         \/ \E r \in RoomIDs : ReadSubscribe(d, r) \/ ReadUnsubscribe(d, r)
  PROVE  WakesOK'
<1> USE DEF TypeOK
<1>0. Wakes(d)
  BY DEF WakesOK
<1>1. CASE Accept(d) \/ RegisterInitial(d)
  <2>1. Wakes(d)'
    BY <1>0, <1>1
       DEF Accept, RegisterInitial, Goto, StartPumps, channelVars, socketVars, Wakes
  <2> QED BY <1>1, <2>1, OneConnWakes
          DEF Accept, RegisterInitial, Goto, StartPumps, channelVars, socketVars
<1>2. CASE HandOver(d)
  <2>1. Wakes(d)'
    BY <1>0, <1>2 DEF HandOver, Goto, channelVars, socketVars, Wakes
  <2> QED BY <1>2, <2>1, OneConnWakes DEF HandOver, Goto, channelVars, socketVars
<1>3. CASE ReadFails(d)
  <2>1. Wakes(d)'
    BY <1>0, <1>3 DEF ReadFails, Goto, Cancel, channelVars, Wakes
  <2> QED BY <1>3, <2>1, OneConnWakes DEF ReadFails, Goto, Cancel, channelVars
<1>4. CASE ReaderDisconnects(d)
  <2>1. Wakes(d)'
    BY <1>0, <1>4 DEF ReaderDisconnects, Goto, channelVars, socketVars, Wakes
  <2> QED BY <1>4, <2>1, OneConnWakes DEF ReaderDisconnects, Goto, channelVars, socketVars
<1>5. CASE ReaderEnds(d)
  <2>1. Wakes(d)'
    BY <1>0, <1>5 DEF ReaderEnds, Goto, CloseOutbound, socketVars, Wakes
  <2> QED BY <1>5, <2>1, OneConnWakes DEF ReaderEnds, Goto, CloseOutbound, socketVars
<1>6. ASSUME NEW r \in RoomIDs, ReadSubscribe(d, r) \/ ReadUnsubscribe(d, r)
      PROVE  WakesOK'
  <2>1. Wakes(d)'
    BY <1>0, <1>6
       DEF ReadSubscribe, ReadUnsubscribe, ClientSends, Goto, socketVars, Wakes
  <2> QED BY <1>6, <2>1, OneConnWakes
          DEF ReadSubscribe, ReadUnsubscribe, ClientSends, Goto, socketVars
<1> QED BY <1>1, <1>2, <1>3, <1>4, <1>5, <1>6

LEMMA WriterWakes ==
  ASSUME TypeOK, WakesOK, NEW d \in Conns,
         \/ WriterTakes(d) \/ WriterParks(d) \/ WriterFinishes(d) \/ WriteFails(d)
         \/ WriteSucceeds(d) \/ WriterDisconnects(d)
  PROVE  WakesOK'
<1> USE DEF TypeOK
<1>0. Wakes(d)
  BY DEF WakesOK
<1>1. CASE WriterTakes(d) \/ WriterParks(d) \/ WriteSucceeds(d)
  <2>1. Wakes(d)'
    BY <1>0, <1>1
       DEF WriterTakes, WriterParks, WriteSucceeds, Goto, channelVars, socketVars, Wakes
  <2> QED BY <1>1, <2>1, OneConnWakes
          DEF WriterTakes, WriterParks, WriteSucceeds, Goto, channelVars, socketVars
<1>2. CASE WriterFinishes(d)
  <2>1. Wakes(d)'
    BY <1>0, <1>2 DEF WriterFinishes, Cancel, channelVars, Wakes
  <2> QED BY <1>2, <2>1, OneConnWakes DEF WriterFinishes, Cancel, channelVars
<1>3. CASE WriteFails(d)
  <2>1. Wakes(d)'
    BY <1>0, <1>3 DEF WriteFails, Goto, Wakes
  <2> QED BY <1>3, <2>1, OneConnWakes DEF WriteFails, Goto
<1>4. CASE WriterDisconnects(d)
  <2>1. Wakes(d)'
    BY <1>0, <1>4 DEF WriterDisconnects, Goto, Cancel, channelVars, Wakes
  <2> QED BY <1>4, <2>1, OneConnWakes DEF WriterDisconnects, Goto, Cancel, channelVars
<1> QED BY <1>1, <1>2, <1>3, <1>4

LEMMA PingerWakes ==
  ASSUME TypeOK, WakesOK, NEW d \in Conns,
         \/ PingerStops(d) \/ PingFails(d) \/ PingerDisconnects(d) \/ PingerEnds(d)
         \/ SocketFails(d) \/ CloseSlow(d)
  PROVE  WakesOK'
<1> USE DEF TypeOK
<1>0. Wakes(d)
  BY DEF WakesOK
<1>1. CASE PingerStops(d) \/ PingFails(d)
  <2>1. Wakes(d)'
    BY <1>0, <1>1 DEF PingerStops, PingFails, Goto, channelVars, socketVars, Wakes
  <2> QED BY <1>1, <2>1, OneConnWakes DEF PingerStops, PingFails, Goto, channelVars, socketVars
<1>2. CASE PingerDisconnects(d)
  <2>1. Wakes(d)'
    BY <1>0, <1>2 DEF PingerDisconnects, Goto, channelVars, socketVars, Wakes
  <2> QED BY <1>2, <2>1, OneConnWakes DEF PingerDisconnects, Goto, channelVars, socketVars
<1>3. CASE PingerEnds(d)
  <2>1. Wakes(d)'
    BY <1>0, <1>3 DEF PingerEnds, Goto, CloseOutbound, Cancel, Wakes
  <2> QED BY <1>3, <2>1, OneConnWakes DEF PingerEnds, Goto, CloseOutbound, Cancel
<1>4. CASE SocketFails(d) \/ CloseSlow(d)
  <2>1. Wakes(d)'
    BY <1>0, <1>4 DEF SocketFails, CloseSlow, pumpVars, channelVars, Wakes
  <2> QED BY <1>4, <2>1, OneConnWakes DEF SocketFails, CloseSlow, pumpVars, channelVars
<1> QED BY <1>1, <1>2, <1>3, <1>4

LEMMA StepWakes ==
  ASSUME TypeOK, WakesOK, [Next]_vars
  PROVE  WakesOK'
<1>1. ASSUME NEW c \in Conns, ReadOther(c) PROVE WakesOK'
  <2>1. UNCHANGED <<reader, pinger, closed, socketVars>>
    BY <1>1 DEF ReadOther, ClientSends
  <2>2. \A d \in Conns : writer'[d] = writer[d] \/ (writer[d] = "parked" /\ writer'[d] = "write")
    BY <1>1 DEF ReadOther, Send
  <2> QED BY <2>1, <2>2, SendWakes
<1>2. CASE HubBroadcasts
  <2>1. UNCHANGED <<reader, pinger, closed, socketVars>>
    BY <1>2 DEF HubBroadcasts
  <2>2. \A d \in Conns : writer'[d] = writer[d] \/ (writer[d] = "parked" /\ writer'[d] = "write")
    BY <1>2 DEF HubBroadcasts, Send
  <2> QED BY <2>1, <2>2, SendWakes
<1>3. CASE HubRequests \/ HubStops \/ (\E r \in RoomIDs : Publish(r)) \/ UNCHANGED vars
  <2>1. UNCHANGED <<reader, writer, pinger, closed, socketVars>>
    BY <1>3 DEF HubRequests, HubStops, Publish, vars, pumpVars, channelVars, socketVars
  <2> QED BY <2>1, SendWakes
<1>4. ASSUME NEW c \in Conns, Client(c) \/ ReadPump(c) \/ WritePump(c) \/ PingPump(c)
      PROVE  WakesOK'
  BY <1>1, <1>4, ReaderWakes, WriterWakes, PingerWakes DEF Client, ReadPump, WritePump, PingPump
<1>5. ASSUME NEW c \in Conns, WriteSucceeds(c) \/ CloseSlow(c) PROVE WakesOK'
  BY <1>5, WriterWakes, PingerWakes
<1> QED BY <1>2, <1>3, <1>4, <1>5 DEF Next

-----------------------------------------------------------------------------
(* The invariant and the theorems *)

WsInv ==
  /\ HP!IInv
  /\ TypeOK
  /\ NewOK
  /\ QueueOrder
  /\ SentOrder
  /\ NoSilentLoss

LEMMA InitWs == Init => WsInv
<1> SUFFICES ASSUME Init PROVE WsInv
  OBVIOUS
<1>1. HP!Init /\ HP!IInv
  BY HubAssumed, SameHubActions, HP!InitInv DEF Init
<1>2. /\ \A c \in Conns : /\ ~up[c] /\ writer[c] = "off"
                          /\ offered[c] = <<>> /\ delivered[c] = <<>>
                          /\ held[c] = <<>> /\ outbound[c] = <<>>
      /\ broadcast = <<>> /\ register = <<>> /\ HP!Subs = {}
  <2>1. HP!Subs = {}
    BY <1>1 DEF HP!Init, HP!Subs, HP!Recipients, HP!Room, HP!Lookup
  <2> QED BY <1>1, <2>1 DEF Init, HP!Init
<1>3. DOMAIN <<>> = {}
  OBVIOUS
<1>4. \A c \in Conns : Sent(c) = <<>>
  <2>1. <<>> \in Seq(Envelopes) /\ <<>> \o <<>> = <<>>
    OBVIOUS
  <2> QED BY <1>2, <2>1 DEF Sent
<1>5. NewOK /\ QueueOrder /\ NoSilentLoss
  BY <1>2, <1>3, <1>4 DEF NewOK, QueueOrder, NoSilentLoss
<1>6. SentOrder
  <2>1. InOrder(<<>>) /\ Range(<<>>) = {}
    BY <1>3 DEF InOrder, Range
  <2> QED BY <1>2, <1>4, <2>1 DEF SentOrder
<1> QED BY <1>1, <1>5, <1>6, InitTypes DEF WsInv

LEMMA StepWs == WsInv /\ [Next]_vars => WsInv'
<1> SUFFICES ASSUME WsInv, [Next]_vars PROVE WsInv'
  OBVIOUS
<1>1. HP!IInv'
  BY HubAssumed, StepIsHubStep, HP!StepInv DEF WsInv
<1> QED BY <1>1, StepTypes, StepNew, StepQueue, StepOrder, StepNoLoss DEF WsInv

(* The types of the connector's variables, with at most one envelope in a   *)
(* writePump's hands and at most WriteBuffer in an outbound channel         *)
(* (HandleWS, Send).                                                        *)
THEOREM WsTypes == Spec => []TypeOK
<1>1. WsInv => TypeOK
  BY DEF WsInv
<1> QED BY <1>1, InitWs, StepWs, PTL DEF Spec

(* Send loses an envelope only of a connection that is being closed: what   *)
(* the hub offered to any other was written, is being written or is queued, *)
(* in order (sendToRoom, Send, writePump).                                  *)
THEOREM WsNoSilentLoss == Spec => []NoSilentLoss
<1>1. WsInv => NoSilentLoss
  BY DEF WsInv
<1> QED BY <1>1, InitWs, StepWs, PTL DEF Spec

(* From BroadcastToRoom over the hub's channel, outbound and writePump to   *)
(* the socket, no event overtakes another and none is written twice.        *)
THEOREM WsInOrder == Spec => []DeliveredInOrder
<1>1. WsInv => DeliveredInOrder
  BY DEF WsInv, SentOrder, DeliveredInOrder
<1> QED BY <1>1, InitWs, StepWs, PTL DEF Spec

(* The connector's pumps, subscriber and slow-write goroutines use the hub  *)
(* as Hub says its callers may: every step is a step of Hub's or leaves the *)
(* hub alone, so what is proved of Hub holds inside the connector.          *)
THEOREM WsImplementsHub == Spec => HP!Spec
<1>1. Init => HP!Init
  BY SameHubActions DEF Init
<1>2. WsInv /\ [Next]_vars => [HP!Next]_(HP!vars)
  BY StepIsHubStep DEF WsInv
<1> QED BY <1>1, <1>2, InitWs, StepWs, PTL DEF Spec, HP!Spec

(* No pump is left waiting for one that has ended (readPump, writePump,     *)
(* pingPump and their deferred calls): the part of PumpsStop that is not    *)
(* about fairness.                                                          *)
THEOREM WsEndWakesOthers == Spec => []EndWakesOthers
<1>1. Init => WakesOK
  BY DEF Init, WakesOK, Wakes
<1>2. WakesOK => EndWakesOthers
  BY DEF WakesOK, Wakes, EndWakesOthers
<1>3. WsInv => TypeOK
  BY DEF WsInv
<1> QED BY <1>1, <1>2, <1>3, InitWs, StepWs, StepWakes, PTL DEF Spec

=============================================================================
