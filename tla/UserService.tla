----------------------------- MODULE UserService -----------------------------
(***************************************************************************)
(* The user service (services/user): a profile is made from the event of a  *)
(* registration, which JetStream delivers at least once, and edited later.  *)
(*                                                                         *)
(* A worker is a replica's consumer: it handles one delivery at a time, one *)
(* query at a time.  A delivery that is not acknowledged within AckWait is  *)
(* given out again, perhaps while a slow worker still has it.               *)
(*                                                                         *)
(* External: the auth service, which publishes a registration (AuthService  *)
(* has that side of the stream); PostgreSQL, which may fail, also after a   *)
(* write took effect; JetStream and its durable consumer; the callers of    *)
(* UpdateUser.                                                              *)
(* Left out: events that do not parse, which auth never publishes; avatar   *)
(* and bio; GetUser and GetUsersByIds, which only read, in one query.       *)
(***************************************************************************)
EXTENDS Naturals

CONSTANTS
  Users,
  Names,       (* the usernames GenerateUsername draws from                *)
  Workers,
  MaxDeliver,  (* deliveries of one event, at most                         *)
  MaxAttempts, (* maxAttempts of CreateUser                                *)
  NoUser, NoName

ASSUME UserAssumption ==
  /\ MaxDeliver \in Nat \ {0} /\ MaxAttempts \in Nat \ {0}
  /\ NoUser \notin Users /\ NoName \notin Names

VARIABLES
  stream,      (* the users whose registration is in the stream AUTH       *)
  profiles,    (* profiles[u]: the row of u, if it has a name              *)
  delivery,    (* delivery[u]: the consumer's record of u's event          *)
  worker       (* worker[w]: the delivery w handles and how far it is      *)

vars == <<stream, profiles, delivery, worker>>

Profile == [name : Names \cup {NoName}, edited : {"no", "yes"}]

Delivery == [state : {"pending", "out", "acked"}, count : 0..MaxDeliver]

(* tries: the names found taken so far. *)
WorkerState ==
  [at : {"idle", "checkID", "checkName", "insert", "existing", "ack", "nak"},
   user : Users \cup {NoUser}, name : Names \cup {NoName}, tries : 0..MaxAttempts]

Idle == [at |-> "idle", user |-> NoUser, name |-> NoName, tries |-> 0]

Exists(u) == profiles[u].name # NoName

Taken(n) == \E u \in Users : profiles[u].name = n

Becomes(w, new) == worker' = [worker EXCEPT ![w] = new]

Goto(w, point) == Becomes(w, [worker[w] EXCEPT !.at = point])

-----------------------------------------------------------------------------
(* The stream and its consumer *)

Registered(u) ==
  /\ stream' = stream \cup {u}
  /\ UNCHANGED <<profiles, delivery, worker>>

Deliver(w, u) ==
  /\ u \in stream
  /\ delivery[u].state = "pending"
  /\ delivery[u].count < MaxDeliver
  /\ worker[w].at = "idle"
  /\ delivery' = [delivery EXCEPT ![u] = [state |-> "out", count |-> @.count + 1]]
  /\ Becomes(w, [Idle EXCEPT !.at = "checkID", !.user = u])
  /\ UNCHANGED <<stream, profiles>>

AckWaitExpires(u) ==
  /\ delivery[u].state = "out"
  /\ delivery' = [delivery EXCEPT ![u].state = "pending"]
  /\ UNCHANGED <<stream, profiles, worker>>

-----------------------------------------------------------------------------
(* CreateUser *)

CheckUserExistsByID(w) ==
  /\ worker[w].at = "checkID"
  /\ Goto(w, IF Exists(worker[w].user) THEN "existing" ELSE "checkName")
  /\ UNCHANGED <<stream, profiles, delivery>>

(* A taken name is drawn again, from the check of the id on. *)
CheckUsernameExists(w) ==
  /\ worker[w].at = "checkName"
  /\ \E n \in Names :
       \/ /\ ~Taken(n)
          /\ Becomes(w, [worker[w] EXCEPT !.at = "insert", !.name = n])
       \/ /\ Taken(n)
          /\ LET tries == worker[w].tries + 1
             IN Becomes(w, [worker[w] EXCEPT !.tries = tries,
                              !.at = IF tries < MaxAttempts THEN "checkID" ELSE "nak"])
  /\ UNCHANGED <<stream, profiles, delivery>>

InsertUpserts(w) ==
  /\ worker[w].at = "insert"
  /\ \/ Taken(worker[w].name) /\ Goto(w, "nak") /\ UNCHANGED profiles
     \/ /\ ~Taken(worker[w].name)
        /\ profiles' = [profiles EXCEPT ![worker[w].user] =
                          [name |-> worker[w].name, edited |-> "no"]]
        /\ Goto(w, "ack") \/ Goto(w, "nak")
  /\ UNCHANGED <<stream, delivery>>
(* Another worker may have made the profile, or taken the name, since the   *)
(* checks: PostgreSQL reports the violated constraint as an error, never as *)
(* pgx.ErrNoRows, so the branch that looks into a collision is not reached. *)
Insert(w) ==
  /\ worker[w].at = "insert"
  /\ \/ /\ Exists(worker[w].user) \/ Taken(worker[w].name)
        /\ Goto(w, "nak")
        /\ UNCHANGED profiles
     \/ /\ ~Exists(worker[w].user) /\ ~Taken(worker[w].name)
        /\ profiles' = [profiles EXCEPT ![worker[w].user] =
                          [name |-> worker[w].name, edited |-> "no"]]
        /\ Goto(w, "ack") \/ Goto(w, "nak")
  /\ UNCHANGED <<stream, delivery>>

GetExisting(w) ==
  /\ worker[w].at = "existing"
  /\ Goto(w, "ack")
  /\ UNCHANGED <<stream, profiles, delivery>>

QueryFails(w) ==
  /\ worker[w].at \in {"checkID", "checkName", "insert", "existing"}
  /\ Goto(w, "nak")
  /\ UNCHANGED <<stream, profiles, delivery>>

-----------------------------------------------------------------------------
(* The end of handleMessage *)

Settle(w, to) ==
  /\ Becomes(w, Idle)
  /\ \/ delivery' = [delivery EXCEPT ![worker[w].user].state = to]
     \/ UNCHANGED delivery     (* the answer got lost *)
  /\ UNCHANGED <<stream, profiles>>

Ack(w) == worker[w].at = "ack" /\ Settle(w, "acked")

NakTerminates(w) == worker[w].at = "nak" /\ Settle(w, "acked")
(* An event that has been acknowledged meanwhile stays so. *)
Nak(w) ==
  /\ worker[w].at = "nak"
  /\ Settle(w, IF delivery[worker[w].user].state = "acked" THEN "acked" ELSE "pending")

Crash(w) ==
  /\ worker[w].at # "idle"
  /\ Becomes(w, Idle)
  /\ UNCHANGED <<stream, profiles, delivery>>

-----------------------------------------------------------------------------
(* Callers *)

UpdateUser(u) ==
  /\ Exists(u)
  /\ profiles' = [profiles EXCEPT ![u].edited = "yes"]
  /\ UNCHANGED <<stream, delivery, worker>>

-----------------------------------------------------------------------------

Init ==
  /\ stream = {}
  /\ profiles = [u \in Users |-> [name |-> NoName, edited |-> "no"]]
  /\ delivery = [u \in Users |-> [state |-> "pending", count |-> 0]]
  /\ worker = [w \in Workers |-> Idle]

Handle(w) ==
  \/ CheckUserExistsByID(w) \/ CheckUsernameExists(w)
  \/ Insert(w) \/ GetExisting(w) \/ QueryFails(w)
  \/ Ack(w) \/ Nak(w)

Next ==
  \/ \E w \in Workers, u \in Users : Deliver(w, u)
  \/ \E w \in Workers : Handle(w) \/ Crash(w)
  \/ \E u \in Users : Registered(u) \/ AckWaitExpires(u) \/ UpdateUser(u)

(* JetStream gives out what it may, takes back what is not acknowledged in  *)
(* time, and a handler runs to its end unless it crashes.                   *)
Fairness ==
  /\ \A u \in Users : /\ WF_vars(\E w \in Workers : Deliver(w, u))
                      /\ WF_vars(AckWaitExpires(u))
  /\ \A w \in Workers : WF_vars(Handle(w))

Spec == Init /\ [][Next]_vars /\ Fairness

-----------------------------------------------------------------------------
(* Properties *)

TypeOK ==
  /\ stream \subseteq Users
  /\ profiles \in [Users -> Profile]
  /\ delivery \in [Users -> Delivery]
  /\ worker \in [Workers -> WorkerState]

(* However often an event is delivered, and by however many workers at      *)
(* once, CreateUser makes one profile of it, under a name nobody else has,  *)
(* and never writes over one that exists (and may have been edited).        *)
ProfilesKept ==
  [][/\ \A u \in Users : Exists(u) =>
          /\ profiles'[u].name = profiles[u].name
          /\ profiles[u].edited = "yes" => profiles'[u].edited = "yes"
     /\ \A u, v \in Users :
          profiles'[u].name = profiles'[v].name => u = v \/ profiles'[u].name = NoName]_vars

(* A registration becomes a profile unless its deliveries are used up: no   *)
(* error, crash, slow worker or lost answer makes the consumer forget it.   *)
EventBecomesProfile ==
  \A u \in Users : u \in stream ~> Exists(u) \/ delivery[u].count = MaxDeliver

=============================================================================
