----------------------------- MODULE UserProofs -----------------------------
(***************************************************************************)
(* Proofs about UserService, for any users, names and workers and any      *)
(* number of deliveries and attempts: the types, and that redelivery and   *)
(* races neither overwrite a profile nor give a name twice.                *)
(*                                                                         *)
(* ProfilesKept speaks of steps.  What makes an insert safe is that it is  *)
(* checked again when it happens (the constraints of the table users), not *)
(* that the worker has checked before: all the invariant needs of a worker *)
(* is that it inserts a name that was drawn (DrawnName), and of the table  *)
(* that names differ so far (NamesDiffer).                                 *)
(***************************************************************************)
EXTENDS UserService, TLAPS

NamesDiffer ==
  \A u, v \in Users : profiles[u].name = profiles[v].name => u = v \/ ~Exists(u)

WorkersHaveUsers == \A w \in Workers : worker[w].at # "idle" => worker[w].user \in Users

DrawnName == \A w \in Workers : worker[w].at = "insert" => worker[w].name \in Names

TriesLeft ==
  \A w \in Workers :
    worker[w].at \in {"checkID", "checkName"} => worker[w].tries < MaxAttempts

WorkersOK == WorkersHaveUsers /\ DrawnName /\ TriesLeft

IInv == TypeOK /\ NamesDiffer /\ WorkersOK

WorkerOK(c) ==
  /\ c \in WorkerState
  /\ c.at # "idle" => c.user \in Users
  /\ c.at = "insert" => c.name \in Names
  /\ c.at \in {"checkID", "checkName"} => c.tries < MaxAttempts

LEMMA WorkerMoves ==
  ASSUME IInv, NEW w \in Workers, NEW c, WorkerOK(c), Becomes(w, c)
  PROVE  worker' \in [Workers -> WorkerState] /\ WorkersOK'
BY DEF IInv, TypeOK, WorkersOK, WorkersHaveUsers, DrawnName, TriesLeft, WorkerOK, Becomes

LEMMA WorkerGoes ==
  ASSUME IInv, NEW w \in Workers, worker[w].at # "idle", NEW point,
         \/ point \in {"existing", "ack", "nak"}
         \/ point = "checkName" /\ worker[w].at = "checkID",
         Goto(w, point)
  PROVE  worker' \in [Workers -> WorkerState] /\ WorkersOK'
<1> DEFINE c == [worker[w] EXCEPT !.at = point]
<1>1. worker[w] \in WorkerState /\ worker[w].user \in Users
  BY DEF IInv, TypeOK, WorkersOK, WorkersHaveUsers
<1>2. WorkerOK(c)
  BY <1>1 DEF IInv, WorkersOK, TriesLeft, WorkerOK, WorkerState
<1> HIDE DEF c
<1> QED BY <1>2, WorkerMoves DEF Goto, c

LEMMA IdleOK == WorkerOK(Idle)
BY UserAssumption DEF WorkerOK, WorkerState, Idle

LEMMA SameProfiles == IInv /\ UNCHANGED profiles => NamesDiffer'
BY DEF IInv, NamesDiffer, Exists

-----------------------------------------------------------------------------
(* The steps *)

(* What ProfilesKept asks of a step. *)
Kept ==
  \A u \in Users : Exists(u) =>
    /\ profiles'[u].name = profiles[u].name
    /\ profiles[u].edited = "yes" => profiles'[u].edited = "yes"

LEMMA DeliverStep ==
  ASSUME IInv, NEW w \in Workers, NEW u \in Users, Deliver(w, u)
  PROVE  IInv' /\ Kept
<1>1. WorkerOK([Idle EXCEPT !.at = "checkID", !.user = u])
  <2>1. 0 \in 0 .. MaxAttempts /\ 0 < MaxAttempts
    BY UserAssumption
  <2> QED BY <2>1 DEF WorkerOK, WorkerState, Idle
<1>2. worker' \in [Workers -> WorkerState] /\ WorkersOK'
  BY <1>1, WorkerMoves DEF Deliver
<1>3. delivery' \in [Users -> Delivery]
  <2>1. delivery[u].count \in 0 .. MaxDeliver
    BY DEF IInv, TypeOK, Delivery
  <2>2. delivery[u].count + 1 \in 0 .. MaxDeliver
    BY <2>1, UserAssumption DEF Deliver
  <2> QED BY <2>2 DEF Deliver, IInv, TypeOK, Delivery
<1> QED BY <1>2, <1>3, SameProfiles DEF Deliver, IInv, TypeOK, Kept

LEMMA InsertStep ==
  ASSUME IInv, NEW w \in Workers, Insert(w)
  PROVE  IInv' /\ Kept
<1> DEFINE u == worker[w].user
           n == worker[w].name
<1>0. u \in Users /\ n \in Names /\ n # NoName /\ worker[w].at # "idle"
  BY UserAssumption DEF Insert, IInv, WorkersOK, WorkersHaveUsers, DrawnName
<1>1. worker' \in [Workers -> WorkerState] /\ WorkersOK'
  BY <1>0, WorkerGoes DEF Insert
<1>2. CASE UNCHANGED profiles
  BY <1>1, <1>2, SameProfiles DEF Insert, IInv, TypeOK, Kept
<1>3. CASE /\ ~Exists(u) /\ ~Taken(n)
           /\ profiles' = [profiles EXCEPT ![u] = [name |-> n, edited |-> "no"]]
  <2> HIDE DEF u, n
  <2>1. profiles \in [Users -> Profile]
    BY DEF IInv, TypeOK
  <2>2. profiles' \in [Users -> Profile]
    BY <1>0, <1>3, <2>1 DEF Profile
  <2>3. /\ profiles'[u].name = n
        /\ \A v \in Users \ {u} : profiles'[v] = profiles[v]
    BY <1>0, <1>3, <2>1
  <2>4. \A v \in Users : profiles[v].name # n
    BY <1>3 DEF Taken
  <2>5. NamesDiffer'
    BY <2>3, <2>4, <1>0 DEF IInv, NamesDiffer, Exists
  <2>6. Kept
    BY <1>3, <2>3 DEF Kept, Exists
  <2> QED BY <1>1, <2>2, <2>5, <2>6 DEF Insert, IInv, TypeOK
<1> QED BY <1>2, <1>3 DEF Insert

LEMMA HandlerStep ==
  ASSUME IInv, NEW w \in Workers,
         CheckUserExistsByID(w) \/ CheckUsernameExists(w) \/ GetExisting(w) \/ QueryFails(w)
  PROVE  IInv' /\ Kept
<1>0. UNCHANGED <<stream, profiles, delivery>> /\ worker[w].at # "idle"
  BY DEF CheckUserExistsByID, CheckUsernameExists, GetExisting, QueryFails
<1>1. CASE CheckUserExistsByID(w) \/ GetExisting(w) \/ QueryFails(w)
  <2>1. worker' \in [Workers -> WorkerState] /\ WorkersOK'
    BY <1>0, <1>1, WorkerGoes DEF CheckUserExistsByID, GetExisting, QueryFails
  <2> QED BY <1>0, <2>1, SameProfiles DEF IInv, TypeOK, Kept
<1>2. CASE CheckUsernameExists(w)
  <2>0. worker[w] \in WorkerState /\ worker[w].user \in Users
    BY <1>0 DEF IInv, TypeOK, WorkersOK, WorkersHaveUsers
  <2>1. PICK n \in Names :
          \/ Becomes(w, [worker[w] EXCEPT !.at = "insert", !.name = n])
          \/ LET tries == worker[w].tries + 1
             IN Becomes(w, [worker[w] EXCEPT !.tries = tries,
                              !.at = IF tries < MaxAttempts THEN "checkID" ELSE "nak"])
    BY <1>2 DEF CheckUsernameExists
  <2> DEFINE tries == worker[w].tries + 1
             c == [worker[w] EXCEPT !.at = "insert", !.name = n]
             d == [worker[w] EXCEPT !.tries = tries,
                     !.at = IF tries < MaxAttempts THEN "checkID" ELSE "nak"]
  <2>2. tries \in 0 .. MaxAttempts
    <3>1. worker[w].tries \in 0 .. MaxAttempts /\ worker[w].tries < MaxAttempts
      BY <1>2, <2>0 DEF CheckUsernameExists, IInv, WorkersOK, TriesLeft, WorkerState
    <3> QED BY <3>1, UserAssumption
  <2>3. WorkerOK(c)
    BY <2>0 DEF WorkerOK, WorkerState
  <2>4. WorkerOK(d)
    <3> HIDE DEF tries
    <3> QED BY <2>0, <2>2 DEF WorkerOK, WorkerState
  <2>5. Becomes(w, c) \/ Becomes(w, d)
    BY <2>1
  <2> HIDE DEF c, d
  <2>6. worker' \in [Workers -> WorkerState] /\ WorkersOK'
    BY <2>3, <2>4, <2>5, WorkerMoves
  <2> QED BY <1>0, <2>6, SameProfiles DEF IInv, TypeOK, Kept
<1> QED BY <1>1, <1>2

LEMMA SettleStep ==
  ASSUME IInv, NEW w \in Workers, Ack(w) \/ Nak(w) \/ Crash(w)
  PROVE  IInv' /\ Kept
<1>1. Becomes(w, Idle) /\ UNCHANGED <<stream, profiles>>
  BY DEF Ack, Nak, Crash, Settle
<1>2. worker' \in [Workers -> WorkerState] /\ WorkersOK'
  BY <1>1, IdleOK, WorkerMoves
<1>3. delivery' \in [Users -> Delivery]
  <2>0. delivery \in [Users -> Delivery]
    BY DEF IInv, TypeOK
  <2>1. CASE UNCHANGED delivery
    BY <2>0, <2>1
  <2>2. ASSUME NEW to \in {"acked", "pending"},
               delivery' = [delivery EXCEPT ![worker[w].user].state = to]
        PROVE  delivery' \in [Users -> Delivery]
    BY <2>0, <2>2 DEF Delivery
  <2> QED BY <2>1, <2>2 DEF Ack, Nak, Crash, Settle
<1> QED BY <1>1, <1>2, <1>3, SameProfiles DEF IInv, TypeOK, Kept

LEMMA OtherStep ==
  ASSUME IInv, NEW u \in Users, Registered(u) \/ AckWaitExpires(u) \/ UpdateUser(u)
  PROVE  IInv' /\ Kept
<1>0. worker' = worker /\ profiles \in [Users -> Profile] /\ delivery \in [Users -> Delivery]
  BY DEF Registered, AckWaitExpires, UpdateUser, IInv, TypeOK
<1>1. WorkersOK'
  BY <1>0 DEF IInv, WorkersOK, WorkersHaveUsers, DrawnName, TriesLeft
<1>2. CASE Registered(u)
  BY <1>0, <1>1, <1>2, SameProfiles DEF Registered, IInv, TypeOK, Kept
<1>3. CASE AckWaitExpires(u)
  <2>1. delivery' \in [Users -> Delivery]
    BY <1>0, <1>3 DEF AckWaitExpires, Delivery
  <2> QED BY <1>1, <1>3, <2>1, SameProfiles DEF AckWaitExpires, IInv, TypeOK, Kept
<1>4. CASE UpdateUser(u)
  <2>1. profiles' \in [Users -> Profile]
    BY <1>0, <1>4 DEF UpdateUser, Profile
  <2>2. \A v \in Users :
          /\ profiles'[v].name = profiles[v].name
          /\ profiles[v].edited = "yes" => profiles'[v].edited = "yes"
    BY <1>0, <1>4 DEF UpdateUser, Profile
  <2>3. NamesDiffer'
    BY <2>2 DEF IInv, NamesDiffer, Exists
  <2> QED BY <1>1, <1>4, <2>1, <2>2, <2>3 DEF UpdateUser, IInv, TypeOK, Kept
<1> QED BY <1>2, <1>3, <1>4

-----------------------------------------------------------------------------

LEMMA Initially == Init => IInv
<1>1. Init => \A w \in Workers : WorkerOK(worker[w])
  BY IdleOK DEF Init
<1> QED BY <1>1, UserAssumption
        DEF Init, IInv, TypeOK, NamesDiffer, WorkersOK, WorkersHaveUsers, DrawnName,
            TriesLeft, WorkerOK, Profile, Delivery, Exists

LEMMA Steps ==
  ASSUME IInv, [Next]_vars
  PROVE  IInv' /\ (Kept \/ UNCHANGED vars)
<1>1. CASE UNCHANGED vars
  BY <1>1 DEF vars, IInv, TypeOK, NamesDiffer, WorkersOK, WorkersHaveUsers, DrawnName,
              TriesLeft, Exists
<1>2. ASSUME NEW w \in Workers, NEW u \in Users, Deliver(w, u) PROVE IInv' /\ Kept
  BY <1>2, DeliverStep
<1>3. ASSUME NEW w \in Workers, Handle(w) \/ Crash(w) PROVE IInv' /\ Kept
  BY <1>3, HandlerStep, InsertStep, SettleStep DEF Handle
<1>4. ASSUME NEW u \in Users, Registered(u) \/ AckWaitExpires(u) \/ UpdateUser(u)
      PROVE  IInv' /\ Kept
  BY <1>4, OtherStep
<1> QED BY <1>1, <1>2, <1>3, <1>4 DEF Next

LEMMA Invariance == Spec => []IInv
BY Initially, Steps, PTL DEF Spec

(* Profiles, deliveries and workers keep their types (CreateUser and        *)
(* handleMessage).                                                          *)
THEOREM UserTypes == Spec => []TypeOK
<1>1. IInv => TypeOK
  BY DEF IInv
<1> QED BY <1>1, Invariance, PTL

(* However many workers and deliveries: CreateUser keeps a profile that is  *)
(* there, edits included, and gives no name twice.                          *)
THEOREM UserProfilesKept == Spec => ProfilesKept
<1> DEFINE A == /\ Kept
                /\ \A u, v \in Users :
                     profiles'[u].name = profiles'[v].name => u = v \/ profiles'[u].name = NoName
<1>1. IInv /\ [Next]_vars => [A]_vars
  BY Steps DEF IInv, NamesDiffer, Exists
<1>2. Spec => [][A]_vars
  BY <1>1, Invariance, PTL DEF Spec
<1> QED BY <1>2 DEF ProfilesKept, Kept

=============================================================================
