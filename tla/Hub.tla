-------------------------------- MODULE Hub --------------------------------
(***************************************************************************)
(* The connection hub of the WebSocket connector                           *)
(* (services/websocket/internal/hub/hub.go): a goroutine, Run, that owns   *)
(* three maps and serves five buffered channels, in whatever order select  *)
(* picks them.  Callers only put requests on the channels, and block while *)
(* a channel is full.                                                      *)
(*                                                                         *)
(* A Go map is a function on the keys it holds: Lookup is the read that    *)
(* yields the zero value of a missing key, Store the assignment and Delete *)
(* the built-in delete.  A connection's Send and Close belong to ws.go;    *)
(* here Send accepts or refuses as it likes, and slow holds the            *)
(* connections whose "slow write" Close has been spawned and has not run.  *)
(***************************************************************************)
EXTENDS SequencesExt

CONSTANTS
  Conns,      (* the connections                                           *)
  UserOf,     (* UserOf[c]: the user a connection authenticated as         *)
  RoomIDs,    (* room identifiers                                          *)
  Callers,    (* goroutines inside GetRoomUserCount                        *)
  Events,     (* the envelopes broadcast to rooms                          *)
  BufferSize  (* hub_buffer_size: the capacity of each of the channels     *)

ASSUME HubAssumption ==
  /\ IsFiniteSet(Conns)
  /\ DOMAIN UserOf = Conns
  /\ BufferSize \in Nat \ {0}

Users == {UserOf[c] : c \in Conns}

VARIABLES
  rooms,      (* rooms[r][u]: the slice of u's connections in r            *)
  userIDs,    (* userIDs[c]: the user of a registered connection           *)
  connRooms,  (* connRooms[c]: the rooms of a registered connection        *)
  register,   (* the five channels, as sequences                           *)
  unregister,
  disconnect,
  broadcast,
  roomCount,
  slow,       (* connections with a pending "slow write" Close             *)
  countCh,    (* countCh[k]: the reply channel of a GetRoomUserCount call  *)
  waiting,    (* the callers that wait on their reply channel              *)
  running     (* FALSE once Run has seen the end of its context            *)

index == <<rooms, userIDs, connRooms>>
vars == <<index, register, unregister, disconnect, broadcast, roomCount,
          slow, countCh, waiting, running>>

ConnRegistration == [conn : Conns, userID : Users, roomID : RoomIDs]
ConnUnregistration == [conn : Conns, roomID : RoomIDs]
BroadcastMessage == [roomID : RoomIDs, envelope : Events]
RoomCountRequest == [roomID : RoomIDs, caller : Callers]

-----------------------------------------------------------------------------
(* Maps *)

Lookup(f, x, zero) == IF x \in DOMAIN f THEN f[x] ELSE zero

Store(f, x, v) == [y \in DOMAIN f \cup {x} |-> IF y = x THEN v ELSE f[y]]

Delete(f, x) == Restrict(f, DOMAIN f \ {x})

Room(r) == Lookup(rooms, r, <<>>)

UserConns(r, u) == Lookup(Room(r), u, <<>>)

(* The connections a broadcast to room r reaches. *)
Recipients(r) == UNION {Range(Room(r)[u]) : u \in DOMAIN Room(r)}

(* How many entries c has in the slices of r, and so how often a broadcast  *)
(* calls its Send.                                                          *)
Entries(r, c) ==
  LET places == UNION {{u} \X DOMAIN Room(r)[u] : u \in DOMAIN Room(r)}
  IN Cardinality({p \in places : Room(r)[p[1]][p[2]] = c})

ConnRooms(c) == Lookup(connRooms, c, {})

-----------------------------------------------------------------------------
(* The maps under one request *)

(* m, one room's map, after c is cut out of u's slice; u's entry goes with  *)
(* its last connection.                                                     *)
StripUserWhole(m, u, c) == Delete(m, u)
StripUser(m, u, c) ==
  LET conns == RemoveFirst(Lookup(m, u, <<>>), c)
  IN IF conns = <<>> THEN Delete(m, u) ELSE Store(m, u, conns)

(* rooms after c, a connection of u, is cut out of each room of R; a room   *)
(* goes with its last user.                                                 *)
StripRoomsKeepEmpty(R, u, c) ==
  [r \in DOMAIN rooms |-> IF r \in R THEN StripUser(rooms[r], u, c) ELSE rooms[r]]
StripRoomsWhole(R, u, c) == Restrict(rooms, DOMAIN rooms \ R)
StripRooms(R, u, c) ==
  LET stripped == [r \in DOMAIN rooms |->
                     IF r \in R THEN StripUser(rooms[r], u, c) ELSE rooms[r]]
  IN Restrict(stripped, {r \in DOMAIN rooms : r \in R => DOMAIN stripped[r] # {}})

AddConnTwice(c, u, r) ==
  /\ userIDs' = Store(userIDs, c, u)
  /\ rooms' = Store(rooms, r, Store(Room(r), u, Append(UserConns(r, u), c)))
  /\ connRooms' = Store(connRooms, c, ConnRooms(c) \cup {r})
AddConn(c, u, r) ==
  /\ userIDs' = Store(userIDs, c, u)
  /\ \/ /\ Contains(UserConns(r, u), c)
        /\ UNCHANGED <<rooms, connRooms>>
     \/ /\ ~Contains(UserConns(r, u), c)
        /\ rooms' = Store(rooms, r, Store(Room(r), u, Append(UserConns(r, u), c)))
        /\ connRooms' = Store(connRooms, c, ConnRooms(c) \cup {r})

RemoveConn(c, r) ==
  \/ /\ c \notin DOMAIN userIDs
     /\ UNCHANGED index
  \/ /\ c \in DOMAIN userIDs
     /\ rooms' = StripRooms({r}, userIDs[c], c)
     /\ \/ /\ ConnRooms(c) \subseteq {r}
           /\ connRooms' = Delete(connRooms, c)
           /\ userIDs' = Delete(userIDs, c)
        \/ /\ ~(ConnRooms(c) \subseteq {r})
           /\ connRooms' = Store(connRooms, c, ConnRooms(c) \ {r})
           /\ UNCHANGED userIDs

DisconnectAll(c) ==
  \/ /\ c \notin DOMAIN userIDs
     /\ UNCHANGED index
  \/ /\ c \in DOMAIN userIDs
     /\ rooms' = StripRooms(ConnRooms(c), userIDs[c], c)
     /\ connRooms' = Delete(connRooms, c)
     /\ userIDs' = Delete(userIDs, c)

(* accepted: the recipients whose every Send took the envelope. *)
SendToRoom(r, accepted) ==
  slow' = slow \cup (Recipients(r) \ accepted)

RoomUserCount(r) == Cardinality(DOMAIN Room(r))

-----------------------------------------------------------------------------
(* The callers: each puts one request on a channel that is not full.        *)

Register(c, r) ==
  /\ Len(register) < BufferSize
  /\ register' = Append(register, [conn |-> c, userID |-> UserOf[c], roomID |-> r])
  /\ UNCHANGED <<index, unregister, disconnect, broadcast, roomCount,
                 slow, countCh, waiting, running>>

Unregister(c, r) ==
  /\ Len(unregister) < BufferSize
  /\ unregister' = Append(unregister, [conn |-> c, roomID |-> r])
  /\ UNCHANGED <<index, register, disconnect, broadcast, roomCount,
                 slow, countCh, waiting, running>>

Disconnect(c) ==
  /\ Len(disconnect) < BufferSize
  /\ disconnect' = Append(disconnect, c)
  /\ UNCHANGED <<index, register, unregister, broadcast, roomCount,
                 slow, countCh, waiting, running>>

BroadcastToRoom(r, e) ==
  /\ Len(broadcast) < BufferSize
  /\ broadcast' = Append(broadcast, [roomID |-> r, envelope |-> e])
  /\ UNCHANGED <<index, register, unregister, disconnect, roomCount,
                 slow, countCh, waiting, running>>

(* The first half of GetRoomUserCount, and its receive of the reply.        *)
AskAgain(k, r) ==
  /\ Len(roomCount) < BufferSize
  /\ roomCount' = Append(roomCount, [roomID |-> r, caller |-> k])
  /\ waiting' = waiting \cup {k}
  /\ UNCHANGED <<index, register, unregister, disconnect, broadcast,
                 slow, countCh, running>>
AskRoomUserCount(k, r) ==
  /\ k \notin waiting
  /\ Len(roomCount) < BufferSize
  /\ roomCount' = Append(roomCount, [roomID |-> r, caller |-> k])
  /\ waiting' = waiting \cup {k}
  /\ UNCHANGED <<index, register, unregister, disconnect, broadcast,
                 slow, countCh, running>>

TakeRoomUserCount(k) ==
  /\ countCh[k] # <<>>
  /\ countCh' = [countCh EXCEPT ![k] = <<>>]
  /\ waiting' = waiting \ {k}
  /\ UNCHANGED <<index, register, unregister, disconnect, broadcast, roomCount,
                 slow, running>>

-----------------------------------------------------------------------------
(* Run: one iteration of the select loop per case.                          *)

RunRegister ==
  /\ running
  /\ register # <<>>
  /\ AddConn(Head(register).conn, Head(register).userID, Head(register).roomID)
  /\ register' = Tail(register)
  /\ UNCHANGED <<unregister, disconnect, broadcast, roomCount,
                 slow, countCh, waiting, running>>

RunUnregister ==
  /\ running
  /\ unregister # <<>>
  /\ RemoveConn(Head(unregister).conn, Head(unregister).roomID)
  /\ unregister' = Tail(unregister)
  /\ UNCHANGED <<register, disconnect, broadcast, roomCount,
                 slow, countCh, waiting, running>>

RunDisconnect ==
  /\ running
  /\ disconnect # <<>>
  /\ DisconnectAll(Head(disconnect))
  /\ disconnect' = Tail(disconnect)
  /\ UNCHANGED <<register, unregister, broadcast, roomCount,
                 slow, countCh, waiting, running>>

RunBroadcast(accepted) ==
  /\ running
  /\ broadcast # <<>>
  /\ SendToRoom(Head(broadcast).roomID, accepted)
  /\ broadcast' = Tail(broadcast)
  /\ UNCHANGED <<index, register, unregister, disconnect, roomCount,
                 countCh, waiting, running>>

RunRoomCountSilent ==
  /\ running
  /\ roomCount # <<>>
  /\ countCh' = IF Room(Head(roomCount).roomID) = <<>> THEN countCh
                ELSE [countCh EXCEPT ![Head(roomCount).caller] =
                        <<RoomUserCount(Head(roomCount).roomID)>>]
  /\ roomCount' = Tail(roomCount)
  /\ UNCHANGED <<index, register, unregister, disconnect, broadcast,
                 slow, waiting, running>>
RunRoomCount ==
  /\ running
  /\ roomCount # <<>>
  /\ countCh' = [countCh EXCEPT ![Head(roomCount).caller] =
                   <<RoomUserCount(Head(roomCount).roomID)>>]
  /\ roomCount' = Tail(roomCount)
  /\ UNCHANGED <<index, register, unregister, disconnect, broadcast,
                 slow, waiting, running>>

(* ctx.Done: what is still on the channels is never served. *)
RunStop ==
  /\ running
  /\ running' = FALSE
  /\ UNCHANGED <<index, register, unregister, disconnect, broadcast, roomCount,
                 slow, countCh, waiting>>

(* The goroutine sendToRoom spawned for a slow connection closes it. *)
CloseSlow(c) ==
  /\ c \in slow
  /\ slow' = slow \ {c}
  /\ UNCHANGED <<index, register, unregister, disconnect, broadcast, roomCount,
                 countCh, waiting, running>>

-----------------------------------------------------------------------------

Init ==
  /\ rooms = <<>> /\ userIDs = <<>> /\ connRooms = <<>>
  /\ register = <<>> /\ unregister = <<>> /\ disconnect = <<>>
  /\ broadcast = <<>> /\ roomCount = <<>>
  /\ slow = {}
  /\ countCh = [k \in Callers |-> <<>>]
  /\ waiting = {}
  /\ running = TRUE

Call ==
  \/ \E c \in Conns, r \in RoomIDs : Register(c, r) \/ Unregister(c, r)
  \/ \E c \in Conns : Disconnect(c)
  \/ \E r \in RoomIDs, e \in Events : BroadcastToRoom(r, e)
  \/ \E k \in Callers, r \in RoomIDs : AskRoomUserCount(k, r)

Run ==
  \/ RunRegister
  \/ RunUnregister
  \/ RunDisconnect
  \/ \E accepted \in SUBSET Conns : RunBroadcast(accepted)
  \/ RunRoomCount

Next ==
  \/ Call
  \/ Run
  \/ RunStop
  \/ \E k \in Callers : TakeRoomUserCount(k)
  \/ \E c \in Conns : CloseSlow(c)

Spec == Init /\ [][Next]_vars

(* select picks among the ready cases at random, so a case that stays ready *)
(* is served in the end; a goroutine that can run, runs.  Nothing obliges   *)
(* anyone to call the hub, or the process to stop.                          *)
Fairness ==
  /\ WF_vars(RunRegister) /\ WF_vars(RunUnregister) /\ WF_vars(RunDisconnect)
  /\ WF_vars(\E accepted \in SUBSET Conns : RunBroadcast(accepted))
  /\ WF_vars(RunRoomCount)
  /\ \A k \in Callers : WF_vars(TakeRoomUserCount(k))
  /\ \A c \in Conns : WF_vars(CloseSlow(c))

FairSpec == Spec /\ Fairness

-----------------------------------------------------------------------------
(* Properties *)

IsMap(f, S) == DOMAIN f \subseteq S /\ f = [x \in DOMAIN f |-> f[x]]

(* The types of the maps and of the channels' contents. *)
TypeOK ==
  /\ IsMap(rooms, RoomIDs)
  /\ \A r \in DOMAIN rooms :
       /\ IsMap(rooms[r], Users)
       /\ \A u \in DOMAIN rooms[r] : rooms[r][u] \in Seq(Conns)
  /\ IsMap(userIDs, Conns) /\ Range(userIDs) \subseteq Users
  /\ IsMap(connRooms, Conns) /\ Range(connRooms) \subseteq SUBSET RoomIDs
  /\ register \in Seq(ConnRegistration)
  /\ unregister \in Seq(ConnUnregistration)
  /\ disconnect \in Seq(Conns)
  /\ broadcast \in Seq(BroadcastMessage)
  /\ roomCount \in Seq(RoomCountRequest)
  /\ slow \subseteq Conns
  /\ countCh \in [Callers -> Seq(Nat)]
  /\ waiting \subseteq Callers
  /\ running \in BOOLEAN

(* rooms and its reverse index connRooms, which addConn, removeConn and     *)
(* disconnectAll each update on their own, always name the same pairs:      *)
(* disconnectAll finds a connection everywhere it is, and nowhere else.     *)
ReverseIndexAgrees ==
  \A c \in Conns, r \in RoomIDs : c \in Recipients(r) <=> r \in ConnRooms(c)

(* A connection stands at most once in a room, under its own user, so that  *)
(* a broadcast offers it an envelope once and one removal is enough.        *)
OneEntryPerConn ==
  \A r \in DOMAIN rooms : \A u \in DOMAIN rooms[r] :
    /\ IsInjective(rooms[r][u])
    /\ \A c \in Range(rooms[r][u]) : UserOf[c] = u

(* Nothing is left of a room without users, of a user without connections   *)
(* or of a connection without rooms: the maps cannot grow with past traffic.*)
NoLeftovers ==
  /\ \A r \in DOMAIN rooms :
       /\ DOMAIN rooms[r] # {}
       /\ \A u \in DOMAIN rooms[r] : rooms[r][u] # <<>>
  /\ DOMAIN userIDs = DOMAIN connRooms
  /\ \A c \in DOMAIN connRooms : connRooms[c] # {} /\ userIDs[c] = UserOf[c]

Subs == {s \in Conns \X RoomIDs : s[1] \in Recipients(s[2])}

S == INSTANCE RoomSubscriptions WITH subs <- Subs

(* The hub implements RoomSubscriptions: with rooms, the map that is read   *)
(* for broadcasts, as the set of subscriptions, every request takes effect  *)
(* at once and disturbs no other connection, and a count counts the users   *)
(* that have a subscription.                                                *)
ImplementsSubscriptions == S!Spec

(* Run never waits for a caller: when it takes a count request, the reply   *)
(* channel it sends on, of capacity one, is empty.  And a caller waits      *)
(* exactly while one request of its own is queued or its answer is there:   *)
(* no answer is for another call or comes twice.                            *)
OneAnswerPerCall ==
  LET asking == [i \in DOMAIN roomCount |-> roomCount[i].caller]
  IN /\ IsInjective(asking)
     /\ \A i \in DOMAIN asking : countCh[asking[i]] = <<>>
     /\ waiting = Range(asking) \cup {k \in Callers : countCh[k] # <<>>}

(* While Run lives, GetRoomUserCount returns, also for an unknown room.     *)
CountsAnswered ==
  \A k \in Callers : k \in waiting ~> (k \notin waiting \/ ~running)

=============================================================================
