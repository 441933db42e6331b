--------------------------- MODULE ServiceProcess ---------------------------
(***************************************************************************)
(* The processes of efir from launch to exit: run in cmd/main.go of the    *)
(* four gRPC services (auth, user, room, message), of the WebSocket        *)
(* connector and of the gateway.  Each opens its resources one after the   *)
(* other, deferring their Close, starts its servers in goroutines that     *)
(* report on errCh, and then waits for an error or a signal.  The          *)
(* processes meet in the streams: three of them provision one, two wait    *)
(* for some.                                                               *)
(*                                                                         *)
(* Handlers are at work for requests, in the servers, and for events, in   *)
(* the goroutines of the JetStream consumers.  A gRPC server's             *)
(* GracefulStop waits for the handlers of its requests, its Stop does not; *)
(* an HTTP server's Shutdown waits until its context ends, but not for     *)
(* requests that have become WebSocket connections.  Nothing waits for the *)
(* handlers of events: a consumer is drained by a goroutine of its own     *)
(* after a signal, and otherwise ends with the connection to NATS.         *)
(* Servers, consumers and the infrastructure that may refuse a connection  *)
(* are external.                                                           *)
(***************************************************************************)
EXTENDS SequencesExt

CONSTANTS
  Deployments,   (* the sets of services to consider, any one at a time    *)
  MaxRequests,   (* bound: handlers of requests, or of events, at work in  *)
                 (* one service                                            *)
  MaxFaults,     (* bound: steps of start-up and servers that fail         *)
  MaxSignals     (* bound: processes that are told to stop                 *)

Services == {"auth", "user", "room", "message", "websocket", "gateway"}

ASSUME ProcessAssumption ==
  /\ Deployments \subseteq SUBSET Services
  /\ {MaxRequests, MaxFaults, MaxSignals} \subseteq Nat

-----------------------------------------------------------------------------
(* What run does up to its servers, in order: "provision" the streams it    *)
(* publishes to, "consume" from streams of others, or connect.              *)

StartAuth == <<"postgres", "valkey", "nats", "provision">>
StartUser == <<"postgres", "nats", "consume">>
StartRoomLate == <<"postgres", "nats">>
StartRoom == <<"postgres", "nats", "provision">>
StartMessage == <<"postgres", "nats", "provision", "roomClient">>
StartWebsocket == <<"valkey", "nats", "consume">>
StartGateway == <<"valkey", "authClient", "userClient", "roomClient",
                  "messageClient">>

StartOf(s) ==
  CASE s = "auth" -> StartAuth
    [] s = "user" -> StartUser
    [] s = "room" -> StartRoom
    [] s = "message" -> StartMessage
    [] s = "websocket" -> StartWebsocket
    [] s = "gateway" -> StartGateway

(* The stream a service provisions, and those it consumes from. *)
Owned(s) ==
  CASE s = "auth" -> {"AUTH"}
    [] s = "room" -> {"ROOM"}
    [] s = "message" -> {"MESSAGE"}
    [] OTHER -> {}

Consumed(s) ==
  CASE s = "user" -> {"AUTH"}
    [] s = "websocket" -> {"MESSAGE", "ROOM"}
    [] OTHER -> {}

(* How many consumers handle the events, one at a time each. *)
ConsumersOf(s) ==
  CASE s = "user" -> 1
    [] s = "websocket" -> 3
    [] OTHER -> 0

(* The four have a gRPC server and one for health checks, the other two a   *)
(* single HTTP server; errCh has room for one error of each.                *)
IsGRPC(s) == s \in {"auth", "user", "room", "message"}
Servers(s) == IF IsGRPC(s) THEN {"grpc", "health"} ELSE {"http"}
Main(s) == IF IsGRPC(s) THEN "grpc" ELSE "http"
ErrChCapacity(s) == IF IsGRPC(s) THEN 2 ELSE 1

(* The Close calls that run defers, in the order of their connections. *)
Connections(s) ==
  CASE s = "auth" -> <<"postgres", "valkey", "nats">>
    [] s \in {"user", "room"} -> <<"postgres", "nats">>
    [] s = "message" -> <<"postgres", "nats", "roomClient">>
    [] s = "websocket" -> <<"valkey", "nats">>
    [] s = "gateway" -> StartGateway

VARIABLES
  deployed,   (* the services there are                                    *)
  proc,       (* proc[s]: the process of a service                         *)
  provisioned, (* the streams that exist; JetStream keeps them             *)
  faults,     (* how many steps and servers have failed                    *)
  signals     (* how many processes have been told to stop                 *)

procVars == <<deployed, proc, provisioned, faults, signals>>

(* at: where run stands; todo: what is left of StartOf; opened: whose Close *)
(* is deferred; signalled: its context is done; server: each server and the *)
(* goroutine that serves; errCh: how many errors wait there; consumer:      *)
(* those of events, "some" of them if their start failed half-way;          *)
(* requests, events: handlers at work; forced: run went on without waiting  *)
(* for those of requests.                                                   *)
Down ==
  [at |-> "down", todo |-> <<>>, opened |-> <<>>, signalled |-> FALSE,
   server |-> [g \in {"grpc", "health", "http"} |-> "off"],
   errCh |-> 0, consumer |-> "off", requests |-> 0, events |-> 0,
   forced |-> FALSE]

At(s, place) == proc[s].at = place

(* A server that serves ends without an error when it is told to stop. *)
Quiet(s, g) ==
  [proc[s].server EXCEPT ![g] = IF @ = "serving" THEN "ended" ELSE @]

-----------------------------------------------------------------------------
(* From launch to the select *)

LaunchProcess(s) ==
  /\ At(s, "down")
  /\ proc' = [proc EXCEPT ![s].at = "start", ![s].todo = StartOf(s)]
  /\ UNCHANGED <<deployed, provisioned, faults, signals>>

(* Events come as long as there is a connection they can come by. *)
Delivering(s) ==
  proc[s].consumer \in {"some", "on"} /\ Contains(proc[s].opened, "nats")

(* ProvisionConsumerWithRetry waits for the stream; then events come. *)
Step(s) ==
  /\ At(s, "start") /\ proc[s].todo # <<>>
  /\ LET x == Head(proc[s].todo)
     IN /\ x = "consume" => Consumed(s) \subseteq provisioned
        /\ provisioned' = IF x = "provision" THEN provisioned \cup Owned(s) ELSE provisioned
        /\ proc' = [proc EXCEPT
             ![s].todo = Tail(@),
             ![s].consumer = IF x = "consume" THEN "on" ELSE @,
             ![s].opened = IF Contains(Connections(s), x) THEN Append(@, x) ELSE @]
  /\ UNCHANGED <<deployed, faults, signals>>

(* A step of the start, or Listen after it, fails: run returns the error,   *)
(* and leaves the consumers it has started to themselves.                   *)
StepFails(s) ==
  /\ At(s, "start") /\ (proc[s].todo # <<>> \/ IsGRPC(s))
  /\ faults < MaxFaults
  /\ faults' = faults + 1
  /\ \/ proc' = [proc EXCEPT ![s].at = "close"]
     \/ /\ ConsumersOf(s) > 1 /\ proc[s].todo = <<"consume">>
        /\ Consumed(s) \subseteq provisioned
        /\ proc' = [proc EXCEPT ![s].at = "close", ![s].consumer = "some"]
  /\ UNCHANGED <<deployed, provisioned, signals>>

(* The end of the context ends the wait for a stream. *)
WaitEnds(s) ==
  /\ At(s, "start") /\ proc[s].signalled
  /\ proc[s].todo # <<>> /\ Head(proc[s].todo) = "consume"
  /\ proc' = [proc EXCEPT ![s].at = "close"]
  /\ UNCHANGED <<deployed, provisioned, faults, signals>>

Serve(s) ==
  /\ At(s, "start") /\ proc[s].todo = <<>>
  /\ proc' = [proc EXCEPT
       ![s].at = "serve",
       ![s].server = [g \in DOMAIN @ |-> IF g \in Servers(s) THEN "serving" ELSE @[g]]]
  /\ UNCHANGED <<deployed, provisioned, faults, signals>>

-----------------------------------------------------------------------------
(* Around the process: requests, events, failing servers, signals *)

Request(s) ==
  /\ proc[s].server[Main(s)] = "serving"
  /\ proc[s].requests < MaxRequests
  /\ proc' = [proc EXCEPT ![s].requests = @ + 1]
  /\ UNCHANGED <<deployed, provisioned, faults, signals>>

RequestEnds(s) ==
  /\ proc[s].requests > 0
  /\ proc' = [proc EXCEPT ![s].requests = @ - 1]
  /\ UNCHANGED <<deployed, provisioned, faults, signals>>

EventComes(s) ==
  /\ Delivering(s)
  /\ proc[s].events < ConsumersOf(s) /\ proc[s].events < MaxRequests
  /\ proc' = [proc EXCEPT ![s].events = @ + 1]
  /\ UNCHANGED <<deployed, provisioned, faults, signals>>

EventHandled(s) ==
  /\ proc[s].events > 0
  /\ proc' = [proc EXCEPT ![s].events = @ - 1]
  /\ UNCHANGED <<deployed, provisioned, faults, signals>>

(* The goroutine that waits for the end of the context has drained the      *)
(* consumers: what they held is handled, and no more comes.                 *)
Drained(s) ==
  /\ proc[s].signalled /\ proc[s].consumer = "on" /\ proc[s].events = 0
  /\ proc' = [proc EXCEPT ![s].consumer = "drained"]
  /\ UNCHANGED <<deployed, provisioned, faults, signals>>

(* A server stops serving with an error, which its goroutine then reports.  *)
ServerFails(s, g) ==
  /\ proc[s].server[g] = "serving"
  /\ faults < MaxFaults
  /\ faults' = faults + 1
  /\ proc' = [proc EXCEPT ![s].server[g] = "failed"]
  /\ UNCHANGED <<deployed, provisioned, signals>>

Report(s, g) ==
  /\ proc[s].server[g] = "failed"
  /\ proc[s].errCh < ErrChCapacity(s)
  /\ proc' = [proc EXCEPT ![s].server[g] = "ended", ![s].errCh = @ + 1]
  /\ UNCHANGED <<deployed, provisioned, faults, signals>>

SignalProcess(s) ==
  /\ ~At(s, "down") /\ ~proc[s].signalled
  /\ signals < MaxSignals
  /\ signals' = signals + 1
  /\ proc' = [proc EXCEPT ![s].signalled = TRUE]
  /\ UNCHANGED <<deployed, provisioned, faults>>

-----------------------------------------------------------------------------
(* From the select to the exit *)

TakeErrorAndClose(s) ==
  /\ At(s, "serve") /\ proc[s].errCh > 0
  /\ proc' = [proc EXCEPT ![s].at = "close", ![s].errCh = @ - 1,
                           ![s].forced = ~IsGRPC(s)]
  /\ UNCHANGED <<deployed, provisioned, faults, signals>>
(* The gRPC services call GracefulStop, without a limit; the HTTP ones      *)
(* return at once.                                                          *)
TakeError(s) ==
  /\ At(s, "serve") /\ proc[s].errCh > 0
  /\ proc' = [proc EXCEPT
       ![s].at = IF IsGRPC(s) THEN "gracefulOnError" ELSE "close",
       ![s].errCh = @ - 1,
       ![s].server = IF IsGRPC(s) THEN Quiet(s, "grpc") ELSE @,
       ![s].forced = ~IsGRPC(s)]
  /\ UNCHANGED <<deployed, provisioned, faults, signals>>

TakeSignal(s) ==
  /\ At(s, "serve") /\ proc[s].signalled
  /\ proc' = [proc EXCEPT
       ![s].at = IF IsGRPC(s) THEN "graceful" ELSE "shutdown",
       ![s].server = Quiet(s, Main(s))]
  /\ UNCHANGED <<deployed, provisioned, faults, signals>>

(* GracefulStop returns when the handlers have, and is the last thing an    *)
(* error path waits for; otherwise Stop cuts it short after GRPCGraceful.   *)
GracefulStop(s) ==
  /\ proc[s].requests = 0
  /\ \/ At(s, "graceful") /\ proc' = [proc EXCEPT ![s].at = "shutdown"]
     \/ At(s, "gracefulOnError") /\ proc' = [proc EXCEPT ![s].at = "close"]
  /\ UNCHANGED <<deployed, provisioned, faults, signals>>

StopIdle(s) ==
  /\ At(s, "graceful") /\ proc[s].requests = 0
  /\ proc' = [proc EXCEPT ![s].at = "shutdown", ![s].forced = TRUE]
  /\ UNCHANGED <<deployed, provisioned, faults, signals>>
Stop(s) ==
  /\ At(s, "graceful")
  /\ proc' = [proc EXCEPT ![s].at = "shutdown", ![s].forced = TRUE]
  /\ UNCHANGED <<deployed, provisioned, faults, signals>>

(* Shutdown of the HTTP server: the last of an HTTP service, where it waits *)
(* for the handlers or its timeout, and not at all for those that serve a   *)
(* WebSocket connection; the one for health checks otherwise,               *)
(* after which all but the message service look at errCh once more.         *)
Shutdown(s) ==
  /\ At(s, "shutdown")
  /\ proc' = [proc EXCEPT
       ![s].at = "close",
       ![s].server = IF IsGRPC(s) THEN Quiet(s, "health") ELSE @,
       ![s].errCh = IF s \in {"auth", "user", "room"} /\ @ > 0 THEN @ - 1 ELSE @,
       ![s].forced = @ \/ (~IsGRPC(s) /\ proc[s].requests > 0)]
  /\ UNCHANGED <<deployed, provisioned, faults, signals>>

(* run has returned: its deferred calls, the last one first, then exit,     *)
(* which ends the handlers that are still at work.  A pool's Close waits    *)
(* for the queries under way, not for the handlers that make them.          *)
CloseOldest(s) ==
  /\ At(s, "close") /\ proc[s].opened # <<>>
  /\ proc' = [proc EXCEPT ![s].opened = Tail(@)]
  /\ UNCHANGED <<deployed, provisioned, faults, signals>>
Close(s) ==
  /\ At(s, "close") /\ proc[s].opened # <<>>
  /\ proc' = [proc EXCEPT ![s].opened = Front(@)]
  /\ UNCHANGED <<deployed, provisioned, faults, signals>>

ExitProcess(s) ==
  /\ At(s, "close") /\ proc[s].opened = <<>>
  /\ proc' = [proc EXCEPT ![s] = Down]
  /\ UNCHANGED <<deployed, provisioned, faults, signals>>

-----------------------------------------------------------------------------

ProcInit ==
  /\ deployed \in Deployments
  /\ proc = [s \in Services |-> Down]
  /\ provisioned = {}
  /\ faults = 0 /\ signals = 0

Run(s) ==
  \/ Step(s) \/ WaitEnds(s) \/ Serve(s)
  \/ TakeError(s) \/ TakeSignal(s)
  \/ GracefulStop(s) \/ Stop(s) \/ Shutdown(s)
  \/ Close(s) \/ ExitProcess(s)

ProcNext ==
  \E s \in deployed :
    \/ LaunchProcess(s)
    \/ Run(s)
    \/ StepFails(s)
    \/ Request(s) \/ RequestEnds(s)
    \/ EventComes(s) \/ EventHandled(s) \/ Drained(s)
    \/ \E g \in Servers(s) : ServerFails(s, g) \/ Report(s, g)
    \/ SignalProcess(s)

ProcSpec == ProcInit /\ [][ProcNext]_procVars

(* A goroutine that can run, runs; timers fire; a stream that exists is     *)
(* found.  Nobody is obliged to launch a process, to stop one, to send a    *)
(* request or an event, or to get done with it.                             *)
ProcFairness ==
  \A s \in Services :
    /\ WF_procVars(s \in deployed /\ Run(s))
    /\ \A g \in Servers(s) : WF_procVars(s \in deployed /\ Report(s, g))

FairProcSpec == ProcSpec /\ ProcFairness

-----------------------------------------------------------------------------
(* Properties *)

(* The types of the variables; a process that is down has left nothing.     *)
ProcTypeOK ==
  /\ deployed \in Deployments
  /\ \A s \in Services :
       /\ proc[s].at \in {"down", "start", "serve", "graceful", "gracefulOnError",
                         "shutdown", "close"}
       /\ IsSuffix(proc[s].todo, StartOf(s))
       /\ IsPrefix(proc[s].opened, Connections(s))
       /\ \A g \in DOMAIN proc[s].server :
            proc[s].server[g] \in {"off", "serving", "failed", "ended"}
       /\ proc[s].errCh \in 0 .. ErrChCapacity(s)
       /\ proc[s].consumer \in {"off", "some", "on", "drained"}
       /\ {proc[s].requests, proc[s].events} \subseteq 0 .. MaxRequests
       /\ proc[s].signalled \in BOOLEAN /\ proc[s].forced \in BOOLEAN
       /\ At(s, "down") => proc[s] = Down
  /\ provisioned \subseteq {"AUTH", "ROOM", "MESSAGE"}

(* No handler of a request, in the servers, meets a closed pool, cache or   *)
(* connection unless run has given up waiting for it: the stop of the       *)
(* servers comes before the deferred Close calls on every path.  Of the     *)
(* handlers of events the code does not keep this (EventsFindConnections).  *)
ConnectionsOutliveRequests ==
  \A s \in Services :
    proc[s].requests > 0 /\ ~proc[s].forced => proc[s].opened = Connections(s)

(* A goroutine that reports the error of its server never blocks on errCh,  *)
(* although run takes one error and then stops listening.                   *)
ErrorsNeverBlock ==
  \A s \in Services :
    (\E g \in Servers(s) : proc[s].server[g] = "failed")
      => proc[s].errCh < ErrChCapacity(s)

(* Whoever may be serving a request or handling an event has its streams:   *)
(* an event can be stored from the first request on, in whatever order the  *)
(* services came up.                                                        *)
ServingHasStreams ==
  \A s \in Services :
    proc[s].server[Main(s)] = "serving" \/ proc[s].requests > 0 \/ proc[s].events > 0
      => Owned(s) \cup Consumed(s) \subseteq provisioned

(* The three together: a server that serves has all that its handlers and   *)
(* its goroutine need, on the way up and on the way down.                   *)
ServersSound == ConnectionsOutliveRequests /\ ErrorsNeverBlock /\ ServingHasStreams

(* What the order of the connections and of their Close gives the handlers  *)
(* of events, for which run waits on no path: each begins with every        *)
(* connection open and keeps them until run has returned.  So only those    *)
(* that are at work when nc closes, one per consumer, can meet the closed   *)
(* connection or pool; none begins after the pool has closed.               *)
EventsFindConnections ==
  \A s \in Services :
    Delivering(s) \/ (proc[s].events > 0 /\ ~At(s, "close"))
      => proc[s].opened = Connections(s)

(* s has been told to stop and has not, nor does it hang in the             *)
(* GracefulStop of the error path, which has no limit.                      *)
Stopping(s) == proc[s].signalled /\ ~At(s, "gracefulOnError")

(* Processes that are told to stop do, whatever their handlers, clients and *)
(* other services do: the last of them, as signals are not without end, is  *)
(* down some time.                                                          *)
StopsOnSignal ==
  (\E s \in Services : Stopping(s)) ~> ~(\E s \in Services : Stopping(s))

(* If from some time on every service runs and nobody is told to stop, then *)
(* all serve: their waits for each other's streams are no circle.           *)
AllServe ==
  <>[](\A s \in deployed :
         (At(s, "start") \/ At(s, "serve")) /\ ~proc[s].signalled)
    => <>(\A s \in deployed : At(s, "serve"))

=============================================================================
