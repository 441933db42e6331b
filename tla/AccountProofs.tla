--------------------------- MODULE AccountProofs ---------------------------
(***************************************************************************)
(* Theorems about accounts: about the sessions of the auth service, about   *)
(* the gateway and the browsers that use it, and about the rate limits that *)
(* guard the two; for any users, refresh tokens, calls, browsers and limits.*)
(*                                                                         *)
(* Of sessions, three invariants build on one another; LimiterInv, of the   *)
(* rate limits, stands alone.                                              *)
(*                                                                         *)
(* IInv, of AuthService: what a call does with a token depends on what it   *)
(* read in an earlier query.  IInv adds to the properties what stays true   *)
(* of that: a token, once stored, keeps its user and session (only its      *)
(* state moves on), accounts are never deleted, and a call that rotates a   *)
(* token holds its session's user.                                          *)
(*                                                                         *)
(* GatewayInv: the gateway only makes calls that clients may make, so that  *)
(* GatewaySpec implements AuthService (GatewayImplementsAuth) and inherits  *)
(* its theorems.  That, and that the cookies of a browser belong together   *)
(* (GatewayCookiesAgree), rests on JarsOK: a refresh token in a browser     *)
(* came with an answer "OK", which stays so because a call that has         *)
(* answered does not change any more.                                      *)
(*                                                                         *)
(* BrowserInv: the life of a refresh token, from the call that stored it    *)
(* (OnItsWay: nobody has presented it before its answer arrives) to the one *)
(* browser that holds it (OneHolder), the calls of that browser that        *)
(* present it (HolderAsked, HeldIsGood) and the session's end, which is for *)
(* good (DeadStays, AloneOK, EndedOK).  It gives GatewayCookieIsGood and    *)
(* GatewayLogoutEnds.                                                       *)
(***************************************************************************)
EXTENDS Gateway, RateLimit, TLAPS

-----------------------------------------------------------------------------
(* The auth service *)

Issued(t) == tokens[t].state # "unused"

(* A session is named by a token that was stored, of itself and its user. *)
SessionsOK ==
  \A t \in Tokens : Issued(t) =>
    /\ tokens[t].session \in Tokens
    /\ Issued(tokens[t].session)
    /\ tokens[tokens[t].session].session = tokens[t].session
    /\ tokens[tokens[t].session].user = tokens[t].user

(* What a call has of its request and of its earlier queries. *)
CallOK(k) ==
  /\ call[k].at = "lookup" => call[k].op \in {"register", "login"}
  /\ call[k].at \in {"create", "publish"} => call[k].op = "register"
  /\ call[k].at = "token" => call[k].op \in {"register", "login", "refresh"}
  /\ call[k].at \in {"lookup", "create", "token", "publish"} => call[k].user \in Users
  /\ call[k].at = "revive" => call[k].op = "refresh"
  /\ call[k].at = "delete" => call[k].op = "logout"
  /\ call[k].at \in {"revive", "delete"} => call[k].token \in Tokens /\ Issued(call[k].token)
  /\ call[k].issued # NoToken => Issued(call[k].issued)
  /\ call[k].session = NoToken \/ call[k].op = "refresh"
  /\ At(k, {"refresh"}, "token") =>
       /\ call[k].session \in Tokens
       /\ Issued(call[k].session)
       /\ tokens[call[k].session].session = call[k].session
       /\ tokens[call[k].session].user = call[k].user
  /\ Won(k) => call[k].user \in accounts

IInv ==
  /\ TypeOK
  /\ SessionsOK
  /\ \A k \in Calls : CallOK(k)
  /\ \A s \in loggedOut : Issued(s)
  /\ OneRegistrationWins
  /\ SessionsDoNotFork
  /\ LoggedOutStaysOut

(* What every step does to the accounts and tokens that are there. *)
Kept ==
  /\ accounts \subseteq accounts'
  /\ \A t \in Tokens : Issued(t) =>
       Issued(t)' /\ tokens'[t].user = tokens[t].user /\ tokens'[t].session = tokens[t].session

-----------------------------------------------------------------------------

LEMMA InitInv == Init => IInv
<1> SUFFICES ASSUME Init PROVE IInv
  OBVIOUS
<1>1. TypeOK
  BY DEF Init, TypeOK, Key, CallState, Fresh, Op, Point, Code
<1>2. \A t \in Tokens : ~Issued(t)
  BY DEF Init, Issued, Unused
<1>3. \A k \in Calls : call[k].at = "idle" /\ call[k].op = "none" /\ call[k].reply = ""
                       /\ call[k].issued = NoToken /\ call[k].session = NoToken
  BY DEF Init, Fresh
<1>4. \A k \in Calls : CallOK(k) /\ ~Won(k)
  BY <1>3 DEF CallOK, Won, At
<1>5. \A s \in Tokens : Live(s) = {} /\ Rotating(s) = {}
  BY <1>2, <1>3 DEF Live, Rotating, At, Issued
<1> QED BY <1>1, <1>2, <1>4, <1>5
        DEF IInv, SessionsOK, OneRegistrationWins, SessionsDoNotFork, LoggedOutStaysOut, Init

(* A step of k to a good new state leaves the other calls as good as they   *)
(* were.                                                                    *)
LEMMA OneCallMoves ==
  ASSUME IInv, Kept, NEW k \in Calls, NEW new \in CallState,
         call' = [call EXCEPT ![k] = new], CallOK(k)'
  PROVE  call' \in [Calls -> CallState] /\ \A j \in Calls : CallOK(j)'
<1>1. call' \in [Calls -> CallState]
  BY DEF IInv, TypeOK
<1>2. ASSUME NEW j \in Calls, j # k PROVE CallOK(j)'
  <2>1. call'[j] = call[j] /\ CallOK(j) /\ call[j] \in CallState
    BY <1>2 DEF IInv, TypeOK
  <2>2. call[j].issued \in Tokens \cup {NoToken}
    BY <2>1 DEF CallState
  <2> QED BY <2>1, <2>2 DEF CallOK, Kept, At, Won
<1> QED BY <1>1, <1>2

(* The registrations that got past the account. *)
LEMMA WonMoves ==
  ASSUME IInv, NEW k \in Calls, NEW new \in CallState,
         call' = [call EXCEPT ![k] = new], stream' \subseteq accounts',
         Won(k)' => \A j \in Calls \ {k} : Won(j) => call[j].user # new.user
  PROVE  OneRegistrationWins'
<1>1. call'[k] = new /\ \A j \in Calls \ {k} : call'[j] = call[j] /\ (Won(j)' <=> Won(j))
  BY DEF IInv, TypeOK, Won
<1>2. \A i, j \in Calls : Won(i) /\ Won(j) /\ call[i].user = call[j].user => i = j
  BY DEF IInv, OneRegistrationWins
<1> QED BY <1>1, <1>2 DEF OneRegistrationWins

(* The calls that hold a session. *)
LEMMA RotatingMoves ==
  ASSUME IInv, NEW k \in Calls, NEW new \in CallState,
         call' = [call EXCEPT ![k] = new], NEW s \in Tokens
  PROVE  /\ new.op = "refresh" /\ new.at = "token" /\ new.session = s
              => Rotating(s)' = Rotating(s) \cup {k}
         /\ ~(new.op = "refresh" /\ new.at = "token" /\ new.session = s)
              => Rotating(s)' = Rotating(s) \ {k}
<1>1. call'[k] = new /\ \A j \in Calls \ {k} : call'[j] = call[j]
  BY DEF IInv, TypeOK
<1> QED BY <1>1 DEF Rotating, At

-----------------------------------------------------------------------------
(* Steps that touch no token *)

LEMMA CallMoves ==
  ASSUME IInv, NEW k \in Calls, NEW new \in CallState,
         call' = [call EXCEPT ![k] = new], UNCHANGED <<tokens, loggedOut>>,
         accounts \subseteq accounts', accounts' \subseteq Users, stream' \subseteq accounts',
         ~(new.op = "refresh" /\ new.at = "token"),
         Won(k)' => \A j \in Calls \ {k} : Won(j) => call[j].user # new.user,
         CallOK(k)'
  PROVE  IInv'
<1>1. Kept
  BY DEF Kept, Issued
<1>2. call' \in [Calls -> CallState] /\ \A j \in Calls : CallOK(j)'
  BY <1>1, OneCallMoves
<1>3. TypeOK'
  BY <1>2 DEF TypeOK, IInv
<1>4. SessionsOK' /\ \A s \in loggedOut' : Issued(s)'
  BY DEF IInv, SessionsOK, Issued
<1>5. \A s \in Tokens : Live(s)' = Live(s)
  BY DEF Live
<1>6. ASSUME NEW s \in Tokens PROVE Rotating(s)' \subseteq Rotating(s)
  <2>1. Rotating(s)' = Rotating(s) \ {k}
    BY RotatingMoves
  <2> QED BY <2>1
<1>7. SessionsDoNotFork'
  BY <1>5, <1>6 DEF IInv, SessionsDoNotFork
<1>8. LoggedOutStaysOut'
  BY <1>5, <1>6 DEF IInv, TypeOK, LoggedOutStaysOut
<1>9. OneRegistrationWins'
  BY WonMoves
<1> QED BY <1>2, <1>3, <1>4, <1>7, <1>8, <1>9 DEF IInv

(* An answer that promises nothing. *)
LEMMA Refuses ==
  ASSUME IInv, NEW k \in Calls, NEW code \in Code \ {"OK"}, Answer(k, code),
         UNCHANGED <<tokens, loggedOut>>,
         accounts \subseteq accounts', accounts' \subseteq Users, stream' = stream
  PROVE  IInv'
<1> DEFINE new == [call[k] EXCEPT !.at = "reply", !.reply = code]
<1>1. CallOK(k) /\ call[k] \in CallState /\ stream \subseteq accounts
  BY DEF IInv, TypeOK, OneRegistrationWins
<1>2. /\ new \in CallState /\ new.op = call[k].op /\ new.at = "reply" /\ new.reply = code
      /\ new.issued = call[k].issued /\ new.session = call[k].session
  BY <1>1 DEF CallState, Point
<1>3. call' = [call EXCEPT ![k] = new]
  BY DEF Answer, Becomes
<1> HIDE DEF new
<1>4. call'[k] = new
  BY <1>3 DEF IInv, TypeOK
<1>5. ~Won(k)' /\ CallOK(k)'
  BY <1>1, <1>2, <1>4 DEF Won, CallOK, At, Issued
<1> QED BY <1>1, <1>2, <1>3, <1>5, CallMoves

LEMMA QueryFailsKeeps ==
  ASSUME IInv, NEW k \in Calls, QueryFails(k)
  PROVE  IInv'
BY Refuses DEF QueryFails, Fail, Code, IInv, TypeOK

-----------------------------------------------------------------------------
(* Requests *)

(* A call that begins, or is turned down at once.                           *)
LEMMA Begins ==
  ASSUME IInv, NEW k \in Calls, NEW new \in CallState,
         call' = [call EXCEPT ![k] = new],
         UNCHANGED <<accounts, tokens, stream, loggedOut>>,
         new.issued = NoToken, new.session = NoToken, new.reply # "OK",
         \/ new.at = "reply"
         \/ new.at = "lookup" /\ new.op \in {"register", "login"} /\ new.user \in Users
         \/ new.at = "revive" /\ new.op = "refresh" /\ new.token \in Tokens /\ Issued(new.token)
         \/ new.at = "delete" /\ new.op = "logout" /\ new.token \in Tokens /\ Issued(new.token)
  PROVE  IInv'
<1>1. call'[k] = new
  BY DEF IInv, TypeOK
<1>2. ~Won(k)' /\ CallOK(k)'
  BY <1>1 DEF Won, CallOK, At, Issued
<1> QED BY <1>2, CallMoves DEF IInv, TypeOK, OneRegistrationWins

LEMMA CredentialsKeeps ==
  ASSUME IInv, NEW k \in Calls, NEW op \in Op, NEW u \in Users, Credentials(k, op, u)
  PROVE  IInv'
<1>1. op \in {"register", "login"} /\ UNCHANGED <<accounts, tokens, stream, loggedOut>>
  BY DEF Credentials
<1>2. PICK point \in {"lookup", "reply"}, code \in {"", "Unavailable", "Internal"} :
        Becomes(k, Fresh(op, u, NoToken, point, code))
  BY DEF Credentials
<1> DEFINE new == Fresh(op, u, NoToken, point, code)
<1>3. /\ new \in CallState /\ new.op = op /\ new.user = u
      /\ new.at = point /\ new.reply = code
      /\ new.issued = NoToken /\ new.session = NoToken
  BY <1>1 DEF Fresh, CallState, Point, Code
<1>4. call' = [call EXCEPT ![k] = new]
  BY <1>2 DEF Becomes
<1> HIDE DEF new
<1> QED BY <1>1, <1>2, <1>3, <1>4, Begins

LEMMA PresentKeeps ==
  ASSUME IInv, NEW k \in Calls, NEW op \in Op, NEW t \in Known, Present(k, op, t)
  PROVE  IInv'
<1>1. t \in Tokens /\ Issued(t)
  <2>1. PICK j \in Calls : t = call[j].issued /\ t # NoToken
    BY DEF Known
  <2>2. CallOK(j) /\ call[j] \in CallState
    BY DEF IInv, TypeOK
  <2> QED BY <2>1, <2>2 DEF CallOK, CallState
<1>2. PICK point \in {"revive", "delete"} :
        /\ <<op, point>> \in {<<"refresh", "revive">>, <<"logout", "delete">>}
        /\ Becomes(k, Fresh(op, NoUser, t, point, ""))
  BY DEF Present
<1> DEFINE new == Fresh(op, NoUser, t, point, "")
<1>3. /\ new \in CallState /\ new.op = op /\ new.token = t
      /\ new.at = point /\ new.reply = ""
      /\ new.issued = NoToken /\ new.session = NoToken
  BY <1>1 DEF Fresh, CallState, Point, Code
<1>4. call' = [call EXCEPT ![k] = new]
  BY <1>2 DEF Becomes
<1> HIDE DEF new
<1> QED BY <1>1, <1>2, <1>3, <1>4, Begins DEF Present

-----------------------------------------------------------------------------
(* Accounts and the event *)

(* A call that goes on to another query. *)
LEMMA GoesOn ==
  ASSUME IInv, NEW k \in Calls, NEW point \in Point, Goto(k, point)
  PROVE  \E new \in CallState :
           /\ call' = [call EXCEPT ![k] = new] /\ call'[k] = new
           /\ new.at = point /\ new.op = call[k].op /\ new.user = call[k].user
           /\ new.reply = call[k].reply /\ new.token = call[k].token
           /\ new.issued = call[k].issued /\ new.session = call[k].session
<1> DEFINE new == [call[k] EXCEPT !.at = point]
<1>1. call[k] \in CallState /\ call' = [call EXCEPT ![k] = new] /\ call'[k] = new
  BY DEF IInv, TypeOK, Goto, Becomes
<1>2. new \in CallState
  BY <1>1 DEF CallState
<1>3. /\ new.at = point /\ new.op = call[k].op /\ new.user = call[k].user
      /\ new.reply = call[k].reply /\ new.token = call[k].token
      /\ new.issued = call[k].issued /\ new.session = call[k].session
  BY <1>1 DEF CallState
<1> HIDE DEF new
<1> QED BY <1>1, <1>2, <1>3

LEMMA GetAccountByEmailKeeps ==
  ASSUME IInv, NEW k \in Calls, GetAccountByEmail(k)
  PROVE  IInv'
<1>1. CallOK(k) /\ call[k].at = "lookup" /\ UNCHANGED <<accounts, tokens, stream, loggedOut>>
      /\ accounts \subseteq Users /\ stream \subseteq accounts
  BY DEF GetAccountByEmail, IInv, TypeOK, OneRegistrationWins
<1>2. CASE \E code \in Code \ {"OK"} : Answer(k, code)
  BY <1>1, <1>2, Refuses
<1>3. CASE call[k].op = "register" /\ Goto(k, "create")
  <2>1. PICK new \in CallState :
           /\ call' = [call EXCEPT ![k] = new] /\ call'[k] = new
           /\ new.at = "create" /\ new.op = call[k].op /\ new.user = call[k].user
           /\ new.reply = call[k].reply /\ new.token = call[k].token
           /\ new.issued = call[k].issued /\ new.session = call[k].session
    BY <1>3, GoesOn DEF Point
  <2>2. Won(k)' => Won(k)
    BY <2>1 DEF Won
  <2>3. CallOK(k)'
    BY <1>1, <1>3, <2>1, <2>2 DEF CallOK, At, Issued, Won
  <2> QED BY <1>1, <1>3, <2>1, <2>2, <2>3, CallMoves DEF IInv, OneRegistrationWins
<1>4. CASE call[k].op = "login" /\ Goto(k, "token")
  <2>1. PICK new \in CallState :
           /\ call' = [call EXCEPT ![k] = new] /\ call'[k] = new
           /\ new.at = "token" /\ new.op = call[k].op /\ new.user = call[k].user
           /\ new.reply = call[k].reply /\ new.token = call[k].token
           /\ new.issued = call[k].issued /\ new.session = call[k].session
    BY <1>4, GoesOn DEF Point
  <2>2. ~Won(k)'
    BY <1>4, <2>1 DEF Won
  <2>3. CallOK(k)'
    BY <1>1, <1>4, <2>1, <2>2 DEF CallOK, At, Issued
  <2> QED BY <1>1, <1>4, <2>1, <2>2, <2>3, CallMoves
<1> QED BY <1>2, <1>3, <1>4 DEF GetAccountByEmail, Code

LEMMA CreateAccountKeeps ==
  ASSUME IInv, NEW k \in Calls, CreateAccount(k)
  PROVE  IInv'
<1>1. /\ CallOK(k) /\ call[k].at = "create" /\ UNCHANGED <<tokens, stream, loggedOut>>
      /\ call[k].user \in Users /\ call[k].op = "register"
      /\ accounts \subseteq Users /\ stream \subseteq accounts
  BY DEF CreateAccount, CallOK, IInv, TypeOK, OneRegistrationWins
<1>2. accounts \subseteq accounts' /\ accounts' \subseteq Users
  BY <1>1 DEF CreateAccount
<1>3. CASE \E code \in Code \ {"OK"} : Answer(k, code)
  BY <1>1, <1>2, <1>3, Refuses
<1>4. CASE call[k].user \notin accounts /\ accounts' = accounts \cup {call[k].user}
           /\ Goto(k, "token")
  <2>1. PICK new \in CallState :
           /\ call' = [call EXCEPT ![k] = new] /\ call'[k] = new
           /\ new.at = "token" /\ new.op = call[k].op /\ new.user = call[k].user
           /\ new.reply = call[k].reply /\ new.token = call[k].token
           /\ new.issued = call[k].issued /\ new.session = call[k].session
    BY <1>4, GoesOn DEF Point
  <2>2. CallOK(k)'
    BY <1>1, <1>4, <2>1 DEF CallOK, At, Issued, Won
  <2>3. \A j \in Calls \ {k} : Won(j) => call[j].user # new.user
    BY <1>4, <2>1 DEF IInv, CallOK
  <2> QED BY <1>1, <1>2, <2>1, <2>2, <2>3, CallMoves
<1> QED BY <1>3, <1>4 DEF CreateAccount, Fail, Code

LEMMA PublishKeeps ==
  ASSUME IInv, NEW k \in Calls, PublishUserRegistered(k) \/ PublishFails(k)
  PROVE  IInv'
<1> DEFINE new == [call[k] EXCEPT !.at = "reply", !.reply = "OK"]
<1>1. /\ CallOK(k) /\ call[k].at = "publish" /\ UNCHANGED <<accounts, tokens, loggedOut>>
      /\ call[k] \in CallState /\ accounts \subseteq Users
      /\ call' = [call EXCEPT ![k] = new]
  BY DEF PublishUserRegistered, PublishFails, Answer, Becomes, IInv, TypeOK
<1>2. /\ new \in CallState /\ new.op = call[k].op /\ new.at = "reply" /\ new.reply = "OK"
      /\ new.user = call[k].user /\ new.issued = call[k].issued
      /\ new.session = call[k].session
  BY <1>1 DEF CallState, Point, Code
<1> HIDE DEF new
<1>3. call'[k] = new
  BY <1>1 DEF IInv, TypeOK
<1>4. Won(k) /\ call[k].user \in accounts
  BY <1>1 DEF CallOK, Won
<1>5. stream' \subseteq accounts'
  BY <1>1, <1>4 DEF PublishUserRegistered, PublishFails, IInv, OneRegistrationWins
<1>6. CallOK(k)'
  BY <1>1, <1>2, <1>3, <1>4 DEF CallOK, At, Issued
<1> QED BY <1>1, <1>2, <1>4, <1>5, <1>6, CallMoves DEF IInv, OneRegistrationWins

-----------------------------------------------------------------------------
(* Refresh tokens *)

(* A token that is used up, and no call that gains a session.               *)
LEMMA TokenEnds ==
  ASSUME IInv, NEW k \in Calls, NEW new \in CallState, NEW t \in Tokens, Issued(t),
         call' = [call EXCEPT ![k] = new],
         tokens' = [tokens EXCEPT ![t].state = "gone"],
         UNCHANGED <<accounts, stream>>,
         loggedOut' \in {loggedOut, loggedOut \cup {tokens[t].session}},
         loggedOut' = loggedOut \/ (tokens[t].state = "live" /\ ~(new.op = "refresh" /\ new.at = "token")),
         new.op = "refresh" /\ new.at = "token" =>
           tokens[t].state = "live" /\ new.session = tokens[t].session,
         Won(k)' => \A j \in Calls \ {k} : Won(j) => call[j].user # new.user,
         CallOK(k)'
  PROVE  IInv'
<1>1. tokens \in [Tokens -> Key] /\ tokens[t].user \in Users /\ tokens[t].session \in Tokens
  BY DEF IInv, TypeOK, Key, Issued, Unused
<1>2. /\ tokens' \in [Tokens -> Key] /\ tokens'[t].state = "gone"
      /\ tokens'[t].user = tokens[t].user /\ tokens'[t].session = tokens[t].session
      /\ \A v \in Tokens \ {t} : tokens'[v] = tokens[v]
  BY <1>1 DEF Key, Issued, Unused
<1>3. Kept
  BY <1>2 DEF Kept, Issued
<1>4. call' \in [Calls -> CallState] /\ \A j \in Calls : CallOK(j)'
  BY <1>3, OneCallMoves
<1>5. TypeOK'
  BY <1>1, <1>2, <1>4 DEF TypeOK, IInv
<1>6. SessionsOK'
  BY <1>1, <1>2 DEF IInv, SessionsOK, Issued
<1>7. \A s \in loggedOut' : Issued(s)'
  BY <1>1, <1>3 DEF IInv, SessionsOK, Kept, TypeOK
<1>8. \A s \in Tokens : Live(s)' = Live(s) \ {t}
  BY <1>2 DEF Live
<1>9. ASSUME NEW s \in Tokens
      PROVE  \/ Rotating(s)' \subseteq Rotating(s)
             \/ /\ Rotating(s) = {} /\ Live(s) = {t} /\ Rotating(s)' = {k}
                /\ loggedOut' = loggedOut /\ s \notin loggedOut
  <2>0. /\ new.op = "refresh" /\ new.at = "token" /\ new.session = s
             => Rotating(s)' = Rotating(s) \cup {k}
        /\ ~(new.op = "refresh" /\ new.at = "token" /\ new.session = s)
             => Rotating(s)' = Rotating(s) \ {k}
    BY ONLY RotatingMoves, IInv, k \in Calls, new \in CallState,
            call' = [call EXCEPT ![k] = new], s \in Tokens
  <2>1. CASE new.op = "refresh" /\ new.at = "token" /\ new.session = s
    <3>1. t \in Live(s)
      BY <2>1 DEF Live
    <3>2. Live(s) = {t} /\ Rotating(s) = {} /\ s \notin loggedOut
      BY <3>1 DEF IInv, SessionsDoNotFork, LoggedOutStaysOut, Live
    <3>3. Rotating(s)' = Rotating(s) \cup {k}
      BY <2>1, <2>0
    <3> QED BY <2>1, <3>2, <3>3
  <2>2. CASE ~(new.op = "refresh" /\ new.at = "token" /\ new.session = s)
    <3>1. Rotating(s)' = Rotating(s) \ {k}
      BY <2>2, <2>0
    <3> QED BY <3>1
  <2> QED BY <2>1, <2>2
<1>10. SessionsDoNotFork'
  <2>1. ASSUME NEW v \in Tokens PROVE tokens'[v].user = tokens[v].user
    BY <1>2
  <2> QED BY <1>8, <1>9, <2>1 DEF IInv, SessionsDoNotFork, Live
<1>11. LoggedOutStaysOut'
  <2> SUFFICES ASSUME NEW s \in loggedOut' PROVE Live(s)' = {} /\ Rotating(s)' = {}
    BY DEF LoggedOutStaysOut
  <2>1. s \in Tokens
    BY <1>5 DEF TypeOK
  <2>2. CASE s \in loggedOut
    <3>1. Live(s) = {} /\ Rotating(s) = {}
      BY <2>2 DEF IInv, LoggedOutStaysOut
    <3> QED BY <2>1, <3>1, <1>8, <1>9
  <2>3. CASE s \notin loggedOut
    <3>1. s = tokens[t].session /\ tokens[t].state = "live" /\ loggedOut' # loggedOut
      BY <2>3
    <3>2. Live(s) = {t} /\ Rotating(s) = {}
      BY <2>1, <3>1 DEF IInv, SessionsDoNotFork, Live
    <3> QED BY <2>1, <3>1, <3>2, <1>8, <1>9
  <2> QED BY <2>2, <2>3
<1>12. OneRegistrationWins'
  BY WonMoves DEF IInv, OneRegistrationWins
<1> QED BY <1>4, <1>5, <1>6, <1>7, <1>10, <1>11, <1>12 DEF IInv

LEMMA ExpireKeeps ==
  ASSUME IInv, NEW t \in Tokens, Expire(t)
  PROVE  IInv'
<1>1. tokens \in [Tokens -> Key] /\ Issued(t) /\ tokens[t].state = "live"
  BY DEF IInv, TypeOK, Expire, Issued
<1>2. /\ tokens' \in [Tokens -> Key] /\ tokens'[t].state = "gone"
      /\ tokens'[t].user = tokens[t].user /\ tokens'[t].session = tokens[t].session
      /\ \A v \in Tokens \ {t} : tokens'[v] = tokens[v]
  BY <1>1 DEF Key, Unused, Expire
<1>3. /\ UNCHANGED <<accounts, call, stream, loggedOut>>
      /\ \A v \in Tokens : Issued(v)' <=> Issued(v)
      /\ \A v \in Tokens : tokens'[v].user = tokens[v].user
                          /\ tokens'[v].session = tokens[v].session
  BY <1>1, <1>2 DEF Expire, Issued
<1>4. TypeOK'
  BY <1>2, <1>3 DEF TypeOK, IInv
<1>5. SessionsOK'
  BY <1>3 DEF IInv, SessionsOK
<1>6. ASSUME NEW k \in Calls PROVE CallOK(k)'
  <2>1. CallOK(k) /\ call[k] \in CallState
    BY DEF IInv, TypeOK
  <2>2. call[k].issued \in Tokens \cup {NoToken}
    BY <2>1 DEF CallState
  <2> QED BY <1>3, <2>1, <2>2 DEF CallOK, At, Won
<1>7. \A s \in loggedOut' : Issued(s)'
  BY <1>3 DEF IInv, TypeOK
<1>8. \A s \in Tokens : Live(s)' \subseteq Live(s) /\ Rotating(s)' = Rotating(s)
  BY <1>2, <1>3 DEF Live, Rotating, At
<1>9. SessionsDoNotFork'
  <2> SUFFICES ASSUME NEW s \in Tokens
               PROVE  /\ \A v, w \in Live(s)' : v = w
                      /\ \A j, k \in Rotating(s)' : j = k
                      /\ Live(s)' = {} \/ Rotating(s)' = {}
                      /\ \A v \in Live(s)' : tokens'[v].user = tokens'[s].user
    BY DEF SessionsDoNotFork
  <2>1. Live(s)' \subseteq Live(s) /\ Rotating(s)' = Rotating(s) /\ Live(s) \subseteq Tokens
    BY <1>8 DEF Live
  <2> QED BY <1>3, <2>1 DEF IInv, SessionsDoNotFork
<1>10. LoggedOutStaysOut'
  BY <1>3, <1>8 DEF IInv, TypeOK, LoggedOutStaysOut
<1>11. OneRegistrationWins'
  BY <1>3 DEF IInv, OneRegistrationWins, Won
<1> QED BY <1>4, <1>5, <1>6, <1>7, <1>9, <1>10, <1>11 DEF IInv

(* A logout. *)
LEMMA DeleteKeeps ==
  ASSUME IInv, NEW k \in Calls, DeleteRefreshToken(k)
  PROVE  IInv'
<1> DEFINE t == call[k].token
<1>1. /\ CallOK(k) /\ call[k] \in CallState /\ call[k].at = "delete"
      /\ t \in Tokens /\ Issued(t) /\ UNCHANGED <<accounts, stream>>
      /\ tokens' = [tokens EXCEPT ![t].state = "gone"]
      /\ loggedOut' = IF tokens[t].state = "live" THEN loggedOut \cup {tokens[t].session}
                                                  ELSE loggedOut
  BY DEF DeleteRefreshToken, Deleted, CallOK, IInv, TypeOK
<1>2. PICK code \in {"OK", "Internal"} : Answer(k, code)
  BY DEF DeleteRefreshToken, Deleted, Fail
<1> DEFINE new == [call[k] EXCEPT !.at = "reply", !.reply = code]
<1>3. /\ new \in CallState /\ new.op = call[k].op /\ new.at = "reply" /\ new.reply = code
      /\ new.issued = call[k].issued /\ new.session = call[k].session
  BY <1>1 DEF CallState, Point, Code
<1>4. call' = [call EXCEPT ![k] = new]
  BY <1>2 DEF Answer, Becomes
<1> HIDE DEF new, t
<1>5. call'[k] = new
  BY <1>4 DEF IInv, TypeOK
<1>6. call[k].op = "logout"
  BY <1>1 DEF CallOK
<1>7. tokens \in [Tokens -> Key]
  BY DEF IInv, TypeOK
<1>8. CallOK(k)' /\ ~Won(k)'
  BY <1>1, <1>3, <1>5, <1>6, <1>7 DEF CallOK, At, Won, CallState, Issued
<1> QED BY <1>1, <1>3, <1>4, <1>8, TokenEnds

(* A refresh takes its token. *)
LEMMA ReviveKeeps ==
  ASSUME IInv, NEW k \in Calls, ReviveRefreshToken(k)
  PROVE  IInv'
<1> DEFINE t == call[k].token
<1>1. /\ CallOK(k) /\ call[k] \in CallState /\ call[k].at = "revive"
      /\ call[k].op = "refresh" /\ t \in Tokens /\ Issued(t)
      /\ UNCHANGED <<accounts, stream, loggedOut>>
      /\ accounts \subseteq Users /\ tokens \in [Tokens -> Key]
  BY DEF ReviveRefreshToken, CallOK, IInv, TypeOK
<1>2. CASE tokens[t].state # "live"
  BY <1>1, <1>2, Refuses DEF ReviveRefreshToken, Code
<1>3. CASE tokens[t].state = "live"
  <2>1. tokens' = [tokens EXCEPT ![t].state = "gone"] /\ Revived(k, t)
    BY <1>3 DEF ReviveRefreshToken
  <2>2. CASE Fail(k)
    <3> DEFINE new == [call[k] EXCEPT !.at = "reply", !.reply = "Internal"]
    <3>1. /\ new \in CallState /\ new.op = "refresh" /\ new.at = "reply"
          /\ new.issued = call[k].issued
      BY <1>1 DEF CallState, Point, Code
    <3>2. call' = [call EXCEPT ![k] = new]
      BY <2>2 DEF Fail, Answer, Becomes
    <3> HIDE DEF new, t
    <3>3. call'[k] = new
      BY <3>2 DEF IInv, TypeOK
    <3>4. CallOK(k)' /\ ~Won(k)'
      BY <1>1, <2>1, <3>1, <3>3 DEF CallOK, At, Won, CallState, Issued
    <3> QED BY <1>1, <2>1, <3>1, <3>2, <3>4, TokenEnds
  <2>3. CASE Becomes(k, [call[k] EXCEPT !.at = "token", !.user = tokens[t].user,
                                        !.session = tokens[t].session])
    <3> DEFINE new == [call[k] EXCEPT !.at = "token", !.user = tokens[t].user,
                                      !.session = tokens[t].session]
    <3>0. tokens[t].user \in Users /\ tokens[t].session \in Tokens
      BY <1>1 DEF Key, Issued, Unused
    <3>1. /\ new \in CallState /\ new.op = "refresh" /\ new.at = "token"
          /\ new.user = tokens[t].user /\ new.session = tokens[t].session
          /\ new.issued = call[k].issued /\ new.reply = call[k].reply
      BY <1>1, <3>0 DEF CallState, Point
    <3>2. call' = [call EXCEPT ![k] = new]
      BY <2>3 DEF Becomes
    <3> HIDE DEF new, t
    <3>3. call'[k] = new
      BY <3>2 DEF IInv, TypeOK
    <3>4. LET s == tokens[t].session
          IN Issued(s) /\ tokens[s].session = s /\ tokens[s].user = tokens[t].user
      BY <1>1 DEF IInv, SessionsOK
    <3>5. \A v \in Tokens : /\ Issued(v) => Issued(v)'
                            /\ tokens'[v].user = tokens[v].user
                            /\ tokens'[v].session = tokens[v].session
      BY <1>1, <2>1 DEF Issued, Key, Unused
    <3>6. CallOK(k)' /\ ~Won(k)'
      BY <1>1, <3>0, <3>1, <3>3, <3>4, <3>5 DEF CallOK, At, Won, CallState
    <3> QED BY <1>1, <1>3, <2>1, <3>1, <3>2, <3>6, TokenEnds
  <2> QED BY <2>1, <2>2, <2>3 DEF Revived
<1> QED BY <1>2, <1>3

(* A new token, for a new session or for the one the call holds.            *)
LEMMA TokenBegins ==
  ASSUME IInv, NEW k \in Calls, NEW new \in CallState, NEW t \in Tokens, NEW s \in Tokens,
         call[k].at = "token", tokens[t].state = "unused",
         s = IF call[k].session = NoToken THEN t ELSE call[k].session,
         call' = [call EXCEPT ![k] = new], new.at # "token",
         tokens' = [tokens EXCEPT ![t] =
                      [state |-> "live", user |-> call[k].user, session |-> s]],
         UNCHANGED <<accounts, stream, loggedOut>>,
         Won(k)' => Won(k) /\ new.user = call[k].user,
         CallOK(k)'
  PROVE  IInv'
<1>1. tokens \in [Tokens -> Key] /\ CallOK(k) /\ call[k] \in CallState /\ call[k].user \in Users
  BY DEF IInv, TypeOK, CallOK
<1>2. /\ tokens' \in [Tokens -> Key] /\ tokens'[t].state = "live"
      /\ tokens'[t].user = call[k].user /\ tokens'[t].session = s
      /\ \A v \in Tokens \ {t} : tokens'[v] = tokens[v]
  BY <1>1 DEF Key
<1>3. Kept
  BY <1>2 DEF Kept, Issued
<1>4. call' \in [Calls -> CallState] /\ \A j \in Calls : CallOK(j)'
  BY <1>3, OneCallMoves
<1>5. TypeOK'
  BY <1>2, <1>4 DEF TypeOK, IInv
<1>6. \/ s = t /\ call[k].op # "refresh"
      \/ /\ s # t /\ k \in Rotating(s) /\ Issued(s)
         /\ tokens[s].session = s /\ tokens[s].user = call[k].user
  <2>1. CASE call[k].session = NoToken
    BY <1>1, <2>1, AuthAssumption DEF CallOK, At
  <2>2. CASE call[k].session # NoToken
    BY <1>1, <2>2 DEF CallOK, At, Rotating, Issued
  <2> QED BY <2>1, <2>2
<1>7. SessionsOK'
  BY <1>2, <1>6 DEF IInv, SessionsOK, Issued
<1>8. \A v \in loggedOut' : Issued(v)'
  BY <1>3 DEF IInv, Kept, TypeOK
<1>9. Live(s) = {} /\ s \notin loggedOut /\ Rotating(s) \subseteq {k}
  <2>1. CASE s = t
    <3>1. \A v \in Tokens : Issued(v) => tokens[v].session # t
      BY DEF IInv, SessionsOK, Issued
    <3>2. \A j \in Calls : At(j, {"refresh"}, "token") => call[j].session # t
      BY DEF IInv, CallOK, Issued
    <3> QED BY <2>1, <3>1, <3>2 DEF Live, Rotating, Issued, IInv
  <2>2. CASE s # t
    BY <1>6, <2>2 DEF IInv, SessionsDoNotFork, LoggedOutStaysOut
  <2> QED BY <2>1, <2>2
<1>10. ASSUME NEW v \in Tokens
       PROVE  /\ Rotating(v)' = Rotating(v) \ {k}
              /\ Live(v)' = IF v = s THEN {t} ELSE Live(v)
  <2>1. Rotating(v)' = Rotating(v) \ {k}
    BY ONLY RotatingMoves, IInv, k \in Calls, new \in CallState, new.at # "token",
            call' = [call EXCEPT ![k] = new], v \in Tokens
  <2>2. t \notin Live(v)
    BY DEF Live
  <2>3. \A w \in Tokens \ {t} : w \in Live(v)' <=> w \in Live(v)
    BY <1>2 DEF Live
  <2>4. t \in Live(v)' <=> v = s
    BY <1>2 DEF Live
  <2>5. Live(v) \subseteq Tokens /\ Live(v)' \subseteq Tokens
    BY DEF Live
  <2> QED BY <2>1, <2>2, <2>3, <2>4, <2>5, <1>9
<1>11. SessionsDoNotFork'
  <2> SUFFICES ASSUME NEW v \in Tokens
               PROVE  /\ \A w, x \in Live(v)' : w = x
                      /\ \A i, j \in Rotating(v)' : i = j
                      /\ Live(v)' = {} \/ Rotating(v)' = {}
                      /\ \A w \in Live(v)' : tokens'[w].user = tokens'[v].user
    BY DEF SessionsDoNotFork
  <2>1. CASE v = s
    <3>1. Live(v)' = {t} /\ Rotating(v)' = {}
      BY <1>9, <1>10, <2>1
    <3>2. tokens'[t].user = tokens'[s].user
      BY <1>2, <1>6
    <3> QED BY <2>1, <3>1, <3>2
  <2>2. CASE v # s
    <3>1. Live(v)' = Live(v) /\ Rotating(v)' \subseteq Rotating(v)
      BY <1>10, <2>2
    <3>2. ASSUME NEW w \in Live(v) PROVE tokens'[w].user = tokens'[v].user
      <4>1. w # t /\ w \in Tokens /\ Issued(w) /\ tokens[w].session = v
        BY DEF Live, Issued
      <4>2. v # t
        BY <4>1 DEF IInv, SessionsOK, Issued
      <4> QED BY <1>2, <4>1, <4>2 DEF IInv, SessionsDoNotFork
    <3> QED BY <3>1, <3>2 DEF IInv, SessionsDoNotFork
  <2> QED BY <2>1, <2>2
<1>12. LoggedOutStaysOut'
  BY <1>9, <1>10 DEF IInv, TypeOK, LoggedOutStaysOut
<1>13. OneRegistrationWins'
  <2>1. Won(k) => \A j \in Calls \ {k} : Won(j) => call[j].user # call[k].user
    BY DEF IInv, OneRegistrationWins
  <2> QED BY <2>1, WonMoves DEF IInv, OneRegistrationWins
<1> QED BY <1>4, <1>5, <1>7, <1>8, <1>11, <1>12, <1>13 DEF IInv

LEMMA SaveKeeps ==
  ASSUME IInv, NEW k \in Calls, SaveRefreshToken(k)
  PROVE  IInv'
<1>1. /\ CallOK(k) /\ call[k] \in CallState /\ call[k].at = "token"
      /\ UNCHANGED <<accounts, stream, loggedOut>>
  BY DEF SaveRefreshToken, IInv, TypeOK
<1>2. PICK t \in Tokens :
        /\ tokens[t].state = "unused"
        /\ tokens' = [tokens EXCEPT ![t] =
             [state |-> "live", user |-> call[k].user,
              session |-> IF call[k].session = NoToken THEN t ELSE call[k].session]]
        /\ \/ /\ call[k].op = "register"
              /\ Becomes(k, [call[k] EXCEPT !.at = "publish", !.issued = t])
           \/ /\ call[k].op # "register"
              /\ Becomes(k, [call[k] EXCEPT !.at = "reply", !.issued = t, !.reply = "OK"])
           \/ Fail(k)
  BY DEF SaveRefreshToken
<1> DEFINE s == IF call[k].session = NoToken THEN t ELSE call[k].session
<1>3. s \in Tokens
  BY <1>1 DEF CallState
<1>4. /\ tokens'[t].state = "live"
      /\ \A v \in Tokens \ {t} : tokens'[v] = tokens[v]
  BY <1>2 DEF IInv, TypeOK
<1>5. PICK new \in CallState :
        /\ call' = [call EXCEPT ![k] = new]
        /\ new.op = call[k].op /\ new.user = call[k].user /\ new.session = call[k].session
        /\ \/ new.at = "publish" /\ new.op = "register" /\ new.issued = t
              /\ new.reply = call[k].reply
           \/ new.at = "reply" /\ new.op # "register" /\ new.issued = t
           \/ new.at = "reply" /\ new.reply = "Internal" /\ new.issued = call[k].issued
  <2>1. CASE call[k].op = "register"
             /\ Becomes(k, [call[k] EXCEPT !.at = "publish", !.issued = t])
    <3> DEFINE n == [call[k] EXCEPT !.at = "publish", !.issued = t]
    <3>1. /\ n \in CallState /\ n.op = call[k].op /\ n.user = call[k].user
          /\ n.session = call[k].session /\ n.at = "publish" /\ n.issued = t
          /\ n.reply = call[k].reply
      BY <1>1 DEF CallState, Point
    <3>2. call' = [call EXCEPT ![k] = n]
      BY <2>1 DEF Becomes
    <3> HIDE DEF n
    <3> QED BY <2>1, <3>1, <3>2
  <2>2. CASE call[k].op # "register"
             /\ Becomes(k, [call[k] EXCEPT !.at = "reply", !.issued = t, !.reply = "OK"])
    <3> DEFINE n == [call[k] EXCEPT !.at = "reply", !.issued = t, !.reply = "OK"]
    <3>1. /\ n \in CallState /\ n.op = call[k].op /\ n.user = call[k].user
          /\ n.session = call[k].session /\ n.at = "reply" /\ n.issued = t
      BY <1>1 DEF CallState, Point, Code
    <3>2. call' = [call EXCEPT ![k] = n]
      BY <2>2 DEF Becomes
    <3> HIDE DEF n
    <3> QED BY <2>2, <3>1, <3>2
  <2>3. CASE Fail(k)
    <3> DEFINE n == [call[k] EXCEPT !.at = "reply", !.reply = "Internal"]
    <3>1. /\ n \in CallState /\ n.op = call[k].op /\ n.user = call[k].user
          /\ n.session = call[k].session /\ n.at = "reply" /\ n.reply = "Internal"
          /\ n.issued = call[k].issued
      BY <1>1 DEF CallState, Point, Code
    <3>2. call' = [call EXCEPT ![k] = n]
      BY <2>3 DEF Fail, Answer, Becomes
    <3> HIDE DEF n
    <3> QED BY <3>1, <3>2
  <2> QED BY <1>2, <2>1, <2>2, <2>3
<1>6. call'[k] = new
  BY <1>5 DEF IInv, TypeOK
<1>7. Won(k)' => Won(k) /\ new.user = call[k].user
  BY <1>1, <1>5, <1>6 DEF Won
<1>8. new.issued # NoToken => Issued(new.issued)'
  BY <1>1, <1>4, <1>5 DEF CallOK, CallState, Issued
<1>9. CallOK(k)'
  BY <1>1, <1>5, <1>6, <1>7, <1>8 DEF CallOK, At, Issued
<1> HIDE DEF s
<1> QED BY <1>1, <1>2, <1>3, <1>5, <1>7, <1>9, TokenBegins DEF s

-----------------------------------------------------------------------------
(* The inductive step *)

LEMMA StepInv == IInv /\ [Next]_vars => IInv'
<1> SUFFICES ASSUME IInv, [Next]_vars PROVE IInv'
  OBVIOUS
<1>1. CASE UNCHANGED vars
  BY <1>1 DEF vars, IInv, TypeOK, SessionsOK, CallOK, Issued, At, Won,
              OneRegistrationWins, SessionsDoNotFork, LoggedOutStaysOut, Live, Rotating
<1>2. ASSUME NEW k \in Calls, NEW op \in Op, NEW u \in Users, Credentials(k, op, u)
      PROVE  IInv'
  BY <1>2, CredentialsKeeps
<1>3. ASSUME NEW k \in Calls, NEW op \in Op, NEW t \in Known, Present(k, op, t)
      PROVE  IInv'
  BY <1>3, PresentKeeps
<1>4. ASSUME NEW k \in Calls, Handle(k) PROVE IInv'
  BY <1>4, GetAccountByEmailKeeps, CreateAccountKeeps, SaveKeeps, ReviveKeeps,
     DeleteKeeps, PublishKeeps, QueryFailsKeeps DEF Handle
<1>5. ASSUME NEW t \in Tokens, Expire(t) PROVE IInv'
  BY <1>5, ExpireKeeps
<1> QED BY <1>1, <1>2, <1>3, <1>4, <1>5 DEF Next

-----------------------------------------------------------------------------
(* Theorems *)

(* Accounts, keys and calls always hold values of their types; a stored key *)
(* has a user and a session.                                                *)
THEOREM AuthTypes == Spec => []TypeOK
<1>1. IInv => TypeOK
  BY DEF IInv
<1> QED BY <1>1, InitInv, StepInv, PTL DEF Spec

(* Of any number of concurrent Register calls for an address one at most    *)
(* gets past CreateAccount, and only accounts are announced.                *)
THEOREM AuthOneRegistration == Spec => []OneRegistrationWins
<1>1. IInv => OneRegistrationWins
  BY DEF IInv
<1> QED BY <1>1, InitInv, StepInv, PTL DEF Spec

(* However many RefreshToken calls present one token, a session has at most *)
(* one token, stored or being rotated.                                      *)
THEOREM AuthSessions == Spec => []SessionsDoNotFork
<1>1. IInv => SessionsDoNotFork
  BY DEF IInv
<1> QED BY <1>1, InitInv, StepInv, PTL DEF Spec

(* No RefreshToken ever brings back a session whose token Logout deleted.   *)
THEOREM AuthLoggedOut == Spec => []LoggedOutStaysOut
<1>1. IInv => LoggedOutStaysOut
  BY DEF IInv
<1> QED BY <1>1, InitInv, StepInv, PTL DEF Spec

-----------------------------------------------------------------------------
(* The gateway                                                              *)


(* What a call c has issued, or was given. *)
Fits(c, keys) ==
  /\ c.reply # "" => c.at = "reply"
  /\ c.at \in {"idle", "lookup", "create", "revive", "delete", "token"} => c.issued = NoToken
  /\ c.at = "publish" => c.op = "register" /\ c.issued # NoToken
  /\ c.reply = "OK" /\ c.op # "logout" => c.issued # NoToken
  /\ c.issued # NoToken =>
       keys[c.issued].state # "unused" /\ keys[c.issued].user = c.user
  /\ c.op \in {"refresh", "logout"} => c.token \in Tokens /\ keys[c.token].state # "unused"

CallsFit == \A k \in Calls : Fits(call[k], tokens)

JarsOK ==
  /\ jar \in [Browsers -> Jar]
  /\ \A b \in Browsers :
       /\ jar[b].refresh # NoToken => jar[b].refresh \in Known
       /\ jar[b].access # NoUser =>
            jar[b].refresh # NoToken /\ tokens[jar[b].refresh].user = jar[b].access

GatewayInv == IInv /\ CallsFit /\ JarsOK /\ CookiesTypeOK

(* What a step of the auth service leaves as it was. *)
TokensKept ==
  \A t \in Tokens : tokens[t].state # "unused" =>
    tokens'[t].state # "unused" /\ tokens'[t].user = tokens[t].user

Safe == CallsFit' /\ Known \subseteq Known' /\ TokensKept

-----------------------------------------------------------------------------
(* The steps of the auth service *)

LEMMA CallFits ==
  ASSUME IInv, CallsFit, NEW k \in Calls
  PROVE  call[k] \in CallState /\ Fits(call[k], tokens) /\ CallOK(k)
BY DEF IInv, TypeOK, CallsFit

LEMMA FitMoves ==
  ASSUME IInv, CallsFit, TokensKept, NEW k \in Calls, NEW c \in CallState,
         call[k].at # "reply", Becomes(k, c), Fits(c, tokens')
  PROVE  Safe
<1>1. call'[k] = c /\ \A j \in Calls \ {k} : call'[j] = call[j]
  BY DEF IInv, TypeOK, Becomes
<1>2. ASSUME NEW j \in Calls \ {k} PROVE Fits(call[j], tokens')
  <2>1. call[j] \in CallState /\ Fits(call[j], tokens)
    BY CallFits
  <2>2. call[j].issued \in Tokens \cup {NoToken}
    BY <2>1 DEF CallState
  <2> QED BY <2>1, <2>2 DEF Fits, TokensKept
<1>3. call[k].reply # "OK"
  BY CallFits DEF Fits
<1>4. Known \subseteq Known'
  BY <1>1, <1>3 DEF Known
<1> QED BY <1>1, <1>2, <1>4 DEF Safe, CallsFit

LEMMA Answers ==
  ASSUME IInv, CallsFit, TokensKept, NEW k \in Calls, NEW code \in Code \ {""},
         call[k].at # "reply", Answer(k, code),
         code = "OK" => call[k].op = "logout" \/ call[k].at = "publish"
  PROVE  Safe
<1> DEFINE c == [call[k] EXCEPT !.at = "reply", !.reply = code]
<1>0. call[k] \in CallState /\ Fits(call[k], tokens)
  BY CallFits
<1>1. c \in CallState /\ c.issued \in Tokens \cup {NoToken}
  BY <1>0 DEF CallState, Point
<1>2. Fits(c, tokens')
  BY <1>0 DEF Fits, CallState, TokensKept
<1> HIDE DEF c
<1> QED BY <1>1, <1>2, FitMoves DEF Answer, c

LEMMA Goes ==
  ASSUME IInv, CallsFit, TokensKept, NEW k \in Calls, NEW point \in {"create", "token"},
         call[k].at \in {"lookup", "create"}, Goto(k, point)
  PROVE  Safe
<1> DEFINE c == [call[k] EXCEPT !.at = point]
<1>0. call[k] \in CallState /\ Fits(call[k], tokens)
  BY CallFits
<1>1. c \in CallState
  BY <1>0 DEF CallState, Point
<1>2. Fits(c, tokens')
  BY <1>0 DEF Fits, CallState, TokensKept
<1> HIDE DEF c
<1> QED BY <1>1, <1>2, FitMoves DEF Goto, c

LEMMA RequestSafe ==
  ASSUME IInv, CallsFit, NEW k \in Calls, NEW op \in Op,
         \/ \E u \in Users : Credentials(k, op, u)
         \/ \E t \in Known : Present(k, op, t)
  PROVE  Safe
<1>0. TokensKept
  BY DEF Credentials, Present, TokensKept
<1>1. ASSUME NEW u \in Users, Credentials(k, op, u) PROVE Safe
  <2>1. PICK point \in {"lookup", "reply"}, code \in {"", "Unavailable", "Internal"} :
          /\ Becomes(k, Fresh(op, u, NoToken, point, code))
          /\ code = "" <=> point = "lookup"
    BY <1>1 DEF Credentials
  <2>2. Fresh(op, u, NoToken, point, code) \in CallState
    BY DEF Fresh, CallState, Point, Code
  <2>3. Fits(Fresh(op, u, NoToken, point, code), tokens')
    BY <1>1, <2>1 DEF Fits, Fresh, Credentials
  <2> QED BY <1>0, <1>1, <2>1, <2>2, <2>3, FitMoves DEF Credentials
<1>2. ASSUME NEW t \in Known, Present(k, op, t) PROVE Safe
  <2>1. t \in Tokens /\ tokens[t].state # "unused"
    BY CallFits DEF Known, Fits, CallState
  <2>2. PICK point \in {"revive", "delete"} : Becomes(k, Fresh(op, NoUser, t, point, ""))
    BY <1>2 DEF Present
  <2>3. Fresh(op, NoUser, t, point, "") \in CallState
    BY <2>1 DEF Fresh, CallState, Point, Code
  <2>4. Fits(Fresh(op, NoUser, t, point, ""), tokens')
    BY <1>2, <2>1 DEF Fits, Fresh, Present
  <2> QED BY <1>0, <1>2, <2>2, <2>3, <2>4, FitMoves DEF Present
<1> QED BY <1>1, <1>2

LEMMA AccountSafe ==
  ASSUME IInv, CallsFit, NEW k \in Calls,
         \/ GetAccountByEmail(k) \/ CreateAccount(k)
         \/ PublishUserRegistered(k) \/ PublishFails(k) \/ QueryFails(k)
  PROVE  Safe
<1>0. TokensKept
  BY DEF GetAccountByEmail, CreateAccount, PublishUserRegistered, PublishFails, QueryFails,
         TokensKept
<1>1. CASE GetAccountByEmail(k)
  BY <1>0, <1>1, Answers, Goes DEF GetAccountByEmail, Code
<1>2. CASE CreateAccount(k)
  BY <1>0, <1>2, Answers, Goes DEF CreateAccount, Fail, Code
<1>3. CASE PublishUserRegistered(k) \/ PublishFails(k)
  BY <1>0, <1>3, Answers DEF PublishUserRegistered, PublishFails, Code
<1>4. CASE QueryFails(k)
  BY <1>0, <1>4, Answers DEF QueryFails, Fail, Code
<1> QED BY <1>1, <1>2, <1>3, <1>4

LEMMA SaveSafe ==
  ASSUME IInv, CallsFit, NEW k \in Calls, SaveRefreshToken(k)
  PROVE  Safe
<1>0. /\ call[k] \in CallState /\ Fits(call[k], tokens) /\ call[k].at = "token"
      /\ call[k].op \in {"register", "login", "refresh"}
  BY CallFits DEF SaveRefreshToken, CallOK
<1>1. PICK t \in Tokens :
        /\ tokens[t].state = "unused"
        /\ tokens' = [tokens EXCEPT ![t] =
             [state |-> "live", user |-> call[k].user,
              session |-> IF call[k].session = NoToken THEN t ELSE call[k].session]]
        /\ \/ /\ call[k].op = "register"
              /\ Becomes(k, [call[k] EXCEPT !.at = "publish", !.issued = t])
           \/ /\ call[k].op # "register"
              /\ Becomes(k, [call[k] EXCEPT !.at = "reply", !.issued = t, !.reply = "OK"])
           \/ Fail(k)
  BY DEF SaveRefreshToken
<1>2. /\ TokensKept
      /\ tokens'[t].state = "live" /\ tokens'[t].user = call[k].user /\ t # NoToken
  BY <1>1, AuthAssumption DEF TokensKept, IInv, TypeOK
<1> DEFINE c == [call[k] EXCEPT !.at = "publish", !.issued = t]
           d == [call[k] EXCEPT !.at = "reply", !.issued = t, !.reply = "OK"]
<1>3. c \in CallState /\ d \in CallState
  BY <1>0 DEF CallState, Point, Code
<1>4. ASSUME call[k].op = "register" PROVE Fits(c, tokens')
  BY <1>0, <1>2, <1>4 DEF Fits, CallState, TokensKept
<1>5. Fits(d, tokens')
  BY <1>0, <1>2 DEF Fits, CallState, TokensKept
<1> HIDE DEF c, d
<1>6. CASE Fail(k)
  BY <1>0, <1>2, <1>6, Answers DEF Fail, Code
<1> QED BY <1>0, <1>1, <1>2, <1>3, <1>4, <1>5, <1>6, FitMoves DEF c, d

LEMMA TakeSafe ==
  ASSUME IInv, CallsFit, NEW k \in Calls, ReviveRefreshToken(k) \/ DeleteRefreshToken(k)
  PROVE  Safe
<1> DEFINE t == call[k].token
           c == [call[k] EXCEPT !.at = "token", !.user = tokens[t].user,
                                !.session = tokens[t].session]
<1>0. /\ call[k] \in CallState /\ Fits(call[k], tokens) /\ CallOK(k)
      /\ call[k].at \in {"revive", "delete"} /\ t \in Tokens /\ tokens[t].state # "unused"
  BY CallFits DEF ReviveRefreshToken, DeleteRefreshToken, CallOK, Issued
<1>1. tokens \in [Tokens -> Key] /\ tokens[t].user \in Users /\ tokens[t].session \in Tokens
  BY <1>0 DEF IInv, TypeOK, Key, Unused
<1>2. TokensKept
  BY <1>0, <1>1 DEF ReviveRefreshToken, DeleteRefreshToken, TokensKept, Key, Unused
<1>3. CASE ReviveRefreshToken(k)
  <2>1. c \in CallState
    BY <1>0, <1>1 DEF CallState, Point
  <2>2. call[k].op = "refresh"
    BY <1>3, <1>0 DEF CallOK, ReviveRefreshToken
  <2>3. Fits(c, tokens')
    BY <1>0, <1>2, <2>2 DEF Fits, CallState, TokensKept
  <2>4. Becomes(k, c) \/ Answer(k, "Internal") \/ Answer(k, "Unauthenticated")
    BY <1>3 DEF ReviveRefreshToken, Revived, Fail
  <2> HIDE DEF c, t
  <2> QED BY <1>0, <1>2, <2>1, <2>3, <2>4, FitMoves, Answers DEF Code
<1>4. CASE DeleteRefreshToken(k)
  <2>1. call[k].op = "logout"
    BY <1>0, <1>4 DEF CallOK, DeleteRefreshToken
  <2> QED BY <1>0, <1>2, <1>4, <2>1, Answers DEF DeleteRefreshToken, Deleted, Fail, Code
<1> QED BY <1>3, <1>4

LEMMA ExpireSafe ==
  ASSUME IInv, CallsFit, NEW t \in Tokens, Expire(t)
  PROVE  Safe
<1>1. TokensKept
  BY DEF Expire, TokensKept, IInv, TypeOK, Key, Unused
<1>2. call' = call
  BY DEF Expire
<1>3. ASSUME NEW j \in Calls PROVE Fits(call[j], tokens')
  <2>1. call[j] \in CallState /\ Fits(call[j], tokens)
    BY CallFits
  <2>2. call[j].issued \in Tokens \cup {NoToken}
    BY <2>1 DEF CallState
  <2> QED BY <1>1, <2>1, <2>2 DEF Fits, TokensKept
<1> QED BY <1>1, <1>2, <1>3 DEF Safe, CallsFit, Known

LEMMA NextSafe ==
  ASSUME IInv, CallsFit, Next
  PROVE  Safe
<1>1. ASSUME NEW k \in Calls, Handle(k) PROVE Safe
  BY <1>1, AccountSafe, SaveSafe, TakeSafe DEF Handle
<1> QED BY <1>1, RequestSafe, ExpireSafe DEF Next

LEMMA StaySafe ==
  ASSUME IInv, CallsFit, UNCHANGED vars
  PROVE  Safe
<1>1. call' = call /\ tokens' = tokens
  BY DEF vars
<1> QED BY <1>1 DEF Safe, CallsFit, Known, TokensKept

-----------------------------------------------------------------------------
(* The steps of the gateway *)

LEMMA JarsKeep ==
  ASSUME GatewayInv, Safe, jar' = jar
  PROVE  JarsOK'
<1>1. \A t \in Known : t \in Tokens /\ tokens[t].state # "unused"
  BY CallFits DEF GatewayInv, Known, Fits, CallState
<1> QED BY <1>1 DEF GatewayInv, JarsOK, Safe, TokensKept

(* A step is one of the auth service or none, and keeps the jars and types. *)
Good == [Next]_vars /\ JarsOK' /\ CookiesTypeOK'

LEMMA RequestGood ==
  ASSUME GatewayInv, NEW b \in Browsers, NEW k \in Calls,
         SignIn(b, k) \/ Refresh(b, k) \/ Logout(b, k)
  PROVE  Good
<1>1. CASE Forward(b, k)
  <2>1. /\ from' \in [Calls -> Browsers \cup {NoBrowser}] /\ alone' \subseteq Calls
        /\ UNCHANGED <<jar, troubled, expired, ended>>
    BY <1>1 DEF Forward, GatewayInv, CookiesTypeOK
  <2>2. CookiesTypeOK'
    BY <2>1 DEF GatewayInv, CookiesTypeOK
  <2>3. Next \/ (Logout(b, k) /\ jar[b].refresh = NoToken)
    <3>1. CASE SignIn(b, k)
      <4>1. PICK op \in Op, u \in Users : Credentials(k, op, u)
        BY <3>1 DEF SignIn
      <4> QED BY <4>1 DEF Next
    <3>2. ASSUME NEW op \in Op, jar[b].refresh # NoToken, Present(k, op, jar[b].refresh)
          PROVE  Next
      <4>1. jar[b].refresh \in Known
        BY <3>2 DEF GatewayInv, JarsOK
      <4> QED BY <3>2, <4>1 DEF Next
    <3> QED BY <3>1, <3>2 DEF Refresh, Logout, Op
  <2>4. [Next]_vars
    BY <2>3 DEF Logout
  <2>5. Safe
    BY <2>4, NextSafe, StaySafe DEF GatewayInv
  <2> QED BY <2>1, <2>2, <2>4, <2>5, JarsKeep DEF Good
<1>2. CASE /\ jar' = [jar EXCEPT ![b] = NoCookies]
           /\ UNCHANGED <<vars, from, alone, troubled, expired, ended>>
  <2>1. jar' \in [Browsers -> Jar]
    BY <1>2 DEF GatewayInv, JarsOK, Jar, NoCookies
  <2>2. JarsOK'
    <3>1. call' = call /\ tokens' = tokens
      BY <1>2 DEF vars
    <3> QED BY <1>2, <2>1, <3>1 DEF GatewayInv, JarsOK, NoCookies, Known
  <2> QED BY <1>2, <2>1, <2>2 DEF Good, GatewayInv, CookiesTypeOK
<1> QED BY <1>1, <1>2 DEF SignIn, Refresh, Logout

LEMMA AnswerGood ==
  ASSUME GatewayInv, NEW k \in Calls,
         SignedIn(k) \/ SignedOut(k) \/ Refused(k) \/ NotAnswered(k)
  PROVE  Good
<1> DEFINE b == from[k]
<1>0. /\ b \in Browsers /\ UNCHANGED vars /\ call' = call /\ tokens' = tokens
      /\ call[k] \in CallState /\ Fits(call[k], tokens)
      /\ from' \in [Calls -> Browsers \cup {NoBrowser}] /\ alone' \subseteq Calls
      /\ expired' = expired
  BY CallFits DEF SignedIn, SignedOut, Refused, NotAnswered, Returns, GatewayInv,
                  CookiesTypeOK, vars
<1>1. troubled' \subseteq Browsers
  BY <1>0 DEF SignedIn, SignedOut, Refused, NotAnswered, GatewayInv, CookiesTypeOK
<1>2. jar \in [Browsers -> Jar] /\ Known' = Known
  BY <1>0 DEF GatewayInv, JarsOK, Known
<1>3. CASE SignedIn(k)
  <2>1. call[k].issued \in Known /\ tokens[call[k].issued].user = call[k].user
    BY <1>0, <1>3 DEF SignedIn, Fits, Known
  <2>2. [access |-> call[k].user, refresh |-> call[k].issued] \in Jar
    BY <1>0 DEF Jar, CallState
  <2>3. jar' = [jar EXCEPT ![b] = [access |-> call[k].user, refresh |-> call[k].issued]]
        /\ ended' = ended
    BY <1>3 DEF SignedIn, setAuthCookies
  <2>4. call[k].issued # NoToken
    BY <2>1 DEF Known
  <2> HIDE DEF b
  <2>5. jar' \in [Browsers -> Jar]
    BY <1>2, <2>2, <2>3
  <2>6. JarsOK'
    BY <1>0, <1>2, <2>1, <2>3, <2>4, <2>5 DEF JarsOK, GatewayInv
  <2> QED BY <1>0, <1>1, <2>3, <2>5, <2>6 DEF Good, GatewayInv, CookiesTypeOK
<1>4. CASE SignedOut(k)
  <2>1. jar' = [jar EXCEPT ![b] = NoCookies]
    BY <1>4 DEF SignedOut, clearAuthCookies
  <2>2. ended' \subseteq Tokens
    <3>1. call[k].token \in Tokens /\ tokens[call[k].token].state # "unused"
      BY <1>0, <1>4 DEF SignedOut, Fits
    <3>2. tokens[call[k].token].session \in Tokens
      BY <3>1 DEF GatewayInv, IInv, SessionsOK, Issued
    <3> QED BY <1>4, <3>2 DEF SignedOut, GatewayInv, CookiesTypeOK
  <2> HIDE DEF b
  <2>3. jar' \in [Browsers -> Jar]
    BY <1>2, <2>1 DEF NoCookies, Jar
  <2>4. JarsOK'
    BY <1>0, <1>2, <2>1, <2>3 DEF JarsOK, GatewayInv, NoCookies
  <2> QED BY <1>0, <1>1, <2>2, <2>3, <2>4 DEF Good, GatewayInv, CookiesTypeOK
<1>5. CASE Refused(k) \/ NotAnswered(k)
  <2>1. jar' = jar /\ ended' = ended
    BY <1>5 DEF Refused, NotAnswered
  <2>2. JarsOK'
    BY <2>1, StaySafe, JarsKeep, <1>0 DEF GatewayInv
  <2> QED BY <1>0, <1>1, <2>1, <2>2 DEF Good, GatewayInv, CookiesTypeOK
<1> QED BY <1>3, <1>4, <1>5

LEMMA TimeGood ==
  ASSUME GatewayInv,
         (\E b \in Browsers : AccessExpires(b)) \/ (\E t \in Tokens : RefreshExpires(t))
  PROVE  Good
<1>1. ASSUME NEW b \in Browsers, AccessExpires(b) PROVE Good
  <2>1. /\ jar \in [Browsers -> Jar] /\ jar' = [jar EXCEPT ![b].access = NoUser]
        /\ call' = call /\ tokens' = tokens
    BY <1>1 DEF AccessExpires, GatewayInv, JarsOK, vars
  <2>2. jar' \in [Browsers -> Jar]
    BY <2>1 DEF Jar
  <2>3. \A d \in Browsers : /\ jar'[d].refresh = jar[d].refresh
                            /\ jar'[d].access \in {jar[d].access, NoUser}
    BY <2>1 DEF Jar
  <2>4. JarsOK'
    BY <2>1, <2>2, <2>3 DEF GatewayInv, JarsOK, Known
  <2> QED BY <1>1, <2>2, <2>4 DEF AccessExpires, Good, GatewayInv, CookiesTypeOK
<1>2. ASSUME NEW t \in Tokens, RefreshExpires(t) PROVE Good
  <2>1. Next /\ Expire(t)
    BY <1>2 DEF RefreshExpires, Next
  <2>2. JarsOK'
    BY <1>2, <2>1, ExpireSafe, JarsKeep DEF RefreshExpires, GatewayInv
  <2> QED BY <1>2, <2>1, <2>2 DEF RefreshExpires, Good, GatewayInv, CookiesTypeOK
<1> QED BY <1>1, <1>2

LEMMA HandleGood ==
  ASSUME GatewayInv, NEW k \in Calls, Handle(k), UNCHANGED cookies
  PROVE  Good
<1>1. Next /\ UNCHANGED <<jar, alone, troubled, expired, ended, from>>
  BY DEF Next, cookies
<1>2. JarsOK'
  BY <1>1, NextSafe, JarsKeep DEF GatewayInv
<1> QED BY <1>1, <1>2 DEF Good, GatewayInv, CookiesTypeOK

LEMMA GatewaySteps ==
  ASSUME GatewayInv, [GatewayNext]_gatewayVars
  PROVE  GatewayInv' /\ [Next]_vars
<1>1. Good
  <2>1. CASE UNCHANGED gatewayVars
    <3>1. UNCHANGED vars /\ UNCHANGED <<jar, alone, troubled, expired, ended, from>>
      BY <2>1 DEF gatewayVars, cookies
    <3>2. JarsOK'
      BY <3>1, StaySafe, JarsKeep DEF GatewayInv
    <3> QED BY <3>1, <3>2 DEF Good, GatewayInv, CookiesTypeOK
  <2>2. CASE GatewayNext
    BY <2>2, RequestGood, AnswerGood, TimeGood, HandleGood DEF GatewayNext
  <2> QED BY <2>1, <2>2
<1>2. IInv'
  BY <1>1, StepInv DEF Good, GatewayInv
<1>3. CallsFit'
  BY <1>1, NextSafe, StaySafe DEF Good, GatewayInv, Safe
<1> QED BY <1>1, <1>2, <1>3 DEF Good, GatewayInv

LEMMA GatewayInitially == GatewayInit => GatewayInv
<1> SUFFICES ASSUME GatewayInit PROVE GatewayInv
  OBVIOUS
<1>1. IInv
  BY InitInv DEF GatewayInit
<1>2. CallsFit
  BY DEF GatewayInit, Init, Fresh, CallsFit, Fits
<1> QED BY <1>1, <1>2 DEF GatewayInit, GatewayInv, JarsOK, Jar, NoCookies, CookiesTypeOK

LEMMA GatewayInvariance == GatewaySpec => []GatewayInv
BY GatewayInitially, GatewaySteps, PTL DEF GatewaySpec

-----------------------------------------------------------------------------

(* Cookies and the observer's history keep their types (cookies.go).        *)
THEOREM GatewayTypes == GatewaySpec => []CookiesTypeOK
<1>1. GatewayInv => CookiesTypeOK
  BY DEF GatewayInv
<1> QED BY <1>1, GatewayInvariance, PTL

(* The gateway uses the auth service as its specification allows: what holds*)
(* of every behaviour of AuthService holds behind the gateway (the routes   *)
(* register, login, refresh and logout).                                    *)
THEOREM GatewayImplementsAuth == GatewaySpec => Spec
<1>1. GatewayInit => Init
  BY DEF GatewayInit
<1>2. GatewayInv /\ [GatewayNext]_gatewayVars => [Next]_vars
  BY GatewaySteps
<1> QED BY <1>1, <1>2, GatewayInvariance, PTL DEF GatewaySpec, Spec

(* Of many registrations of an address one wins, through any browsers       *)
(* (CreateAccount).                                                         *)
THEOREM GatewayOneRegistration == GatewaySpec => []OneRegistrationWins
BY GatewayImplementsAuth, AuthOneRegistration, PTL

(* A session is never continued twice, whatever browsers and tabs present   *)
(* (ReviveRefreshToken).                                                    *)
THEOREM GatewaySessions == GatewaySpec => []SessionsDoNotFork
BY GatewayImplementsAuth, AuthSessions, PTL

(* The cookies of a browser never name two users, in whatever order answers *)
(* come (setAuthCookies).                                                   *)
THEOREM GatewayCookiesAgree == GatewaySpec => []CookiesAgree
<1>1. GatewayInv => CookiesAgree
  BY DEF GatewayInv, JarsOK, CookiesAgree, JWTAuth
<1> QED BY <1>1, GatewayInvariance, PTL

-----------------------------------------------------------------------------
(* The life of a refresh token                                              *)

(* A session that has nothing left. *)
Dead(s) == Live(s) = {} /\ Rotating(s) = {}

(* Call k has taken its token, which was t, or does not know. *)
Took(k, t) ==
  /\ call[k].token = t
  /\ call[k].at = "token" \/ call[k].reply \in {"OK", "Internal"}

Holds(b, t) == t # NoToken /\ jar[b].refresh = t

CallsMatch ==
  \A k \in Calls :
    /\ call[k].op \notin {"refresh", "logout"} => call[k].token = NoToken
    /\ call[k].reply \in {"AlreadyExists", "Unavailable"} => call[k].op \in {"register", "login"}
    /\ call[k].at = "idle" => from[k] = NoBrowser
    /\ call[k].at = "reply" => call[k].reply # ""

OneIssuer ==
  \A j, k \in Calls :
    call[k].issued # NoToken /\ call[j].issued = call[k].issued => j = k

(* A token whose answer has not arrived: nobody can have presented it.      *)
OnItsWay ==
  \A k \in Calls : call[k].issued # NoToken /\ from[k] # NoBrowser =>
    /\ tokens[call[k].issued].state = "live" \/ call[k].issued \in expired
    /\ \A j \in Calls : call[j].token # call[k].issued
    /\ \A b \in Browsers : jar[b].refresh # call[k].issued

OneHolder ==
  \A b, c \in Browsers : jar[b].refresh # NoToken /\ jar[c].refresh = jar[b].refresh => b = c

(* A call with the token that a browser holds is that browser's, and if its *)
(* answer came, it was no success.                                          *)
HolderAsked ==
  \A b \in Browsers, k \in Calls : Holds(b, call[k].token) =>
    \/ from[k] = b
    \/ from[k] = NoBrowser /\ (b \in troubled \/ call[k].reply = "Unauthenticated")

(* A token in a browser is good, or a call whose answer is awaited took it. *)
HeldIsGood ==
  \A b \in Browsers \ troubled, t \in Tokens : Holds(b, t) =>
    tokens[t].state = "live" \/ t \in expired \/ \E k \in Waiting(b) : Took(k, t)

(* A logout that is alone is about the token that its browser holds.        *)
AloneOK ==
  \A k \in alone :
    /\ from[k] # NoBrowser /\ Waiting(from[k]) = {k}
    /\ call[k].op = "logout" =>
         /\ call[k].token = jar[from[k]].refresh
         /\ from[k] \notin troubled /\ call[k].reply = "OK"
              => Dead(tokens[call[k].token].session)

EndedOK ==
  /\ \A t \in expired : Issued(t) /\ Dead(tokens[t].session)
  /\ \A s \in ended : Issued(s) /\ Dead(s)

BrowsersOK ==
  /\ CallsMatch /\ OneIssuer /\ OnItsWay /\ OneHolder
  /\ HolderAsked /\ HeldIsGood /\ AloneOK /\ EndedOK

(* What a step of call k of the auth service does to the call and the keys. *)
Moves(k) ==
  /\ call[k].at \notin {"idle", "reply"}
  /\ \A j \in Calls \ {k} : call'[j] = call[j]
  /\ call'[k] \in CallState
  /\ call'[k].op = call[k].op /\ call'[k].token = call[k].token
  /\ call'[k].at # "idle" /\ (call'[k].at = "reply" => call'[k].reply # "")
  /\ call'[k].reply \in {"AlreadyExists", "Unavailable"} => call[k].op \in {"register", "login"}
  /\ \/ call'[k].issued = call[k].issued
     \/ /\ call[k].issued = NoToken /\ call'[k].issued \in Tokens
        /\ ~Issued(call'[k].issued) /\ tokens'[call'[k].issued].state = "live"
  /\ call[k].at = "token" /\ call[k].op \in {"refresh", "logout"}
       => call'[k].reply \in {"OK", "Internal"}
  /\ \A t \in Tokens :
       /\ tokens'[t].session = tokens[t].session \/ ~Issued(t)
       /\ tokens[t].state = "live" /\ tokens'[t].state # "live" =>
            /\ t = call[k].token
            /\ call'[k].at = "token" \/ call'[k].reply \in {"OK", "Internal"}

(* What needs no look at the queries: those who answer at once. *)
LEMMA AnswersMove ==
  ASSUME IInv, CallsFit, NEW k \in Calls, NEW code \in Code \ {""},
         call[k].at \notin {"idle", "reply"}, Answer(k, code), UNCHANGED tokens,
         code \in {"AlreadyExists", "Unavailable"} => call[k].op \in {"register", "login"},
         call[k].at = "token" => code \in {"OK", "Internal"}
  PROVE  Moves(k)
<1>1. call[k] \in CallState /\ call \in [Calls -> CallState]
  BY DEF IInv, TypeOK
<1> DEFINE new == [call[k] EXCEPT !.at = "reply", !.reply = code]
<1>2. /\ new \in CallState /\ new.op = call[k].op /\ new.token = call[k].token
      /\ new.issued = call[k].issued /\ new.at = "reply" /\ new.reply = code
  BY <1>1 DEF CallState, Point
<1>3. call' = [call EXCEPT ![k] = new]
  BY DEF Answer, Becomes
<1> HIDE DEF new
<1>4. call'[k] = new /\ \A j \in Calls \ {k} : call'[j] = call[j]
  BY <1>1, <1>3
<1> QED BY <1>2, <1>4 DEF Moves

LEMMA GoesMove ==
  ASSUME IInv, CallsFit, NEW k \in Calls, NEW point \in {"create", "token"},
         call[k].at \in {"lookup", "create"}, Goto(k, point), UNCHANGED tokens
  PROVE  Moves(k)
<1>1. call[k] \in CallState /\ call \in [Calls -> CallState] /\ Fits(call[k], tokens)
  BY CallFits DEF IInv, TypeOK
<1> DEFINE new == [call[k] EXCEPT !.at = point]
<1>2. /\ new \in CallState /\ new.op = call[k].op /\ new.token = call[k].token
      /\ new.issued = call[k].issued /\ new.at = point /\ new.reply = call[k].reply
  BY <1>1 DEF CallState, Point
<1>3. call' = [call EXCEPT ![k] = new]
  BY DEF Goto, Becomes
<1> HIDE DEF new
<1>4. call'[k] = new /\ \A j \in Calls \ {k} : call'[j] = call[j]
  BY <1>1, <1>3
<1>5. call[k].reply = ""
  BY <1>1 DEF Fits
<1> QED BY <1>2, <1>4, <1>5 DEF Moves

LEMMA SaveMoves ==
  ASSUME IInv, CallsFit, NEW k \in Calls, SaveRefreshToken(k)
  PROVE  Moves(k)
<1>0. /\ call[k] \in CallState /\ call \in [Calls -> CallState]
      /\ Fits(call[k], tokens) /\ call[k].at = "token"
      /\ tokens \in [Tokens -> Key]
  BY CallFits DEF SaveRefreshToken, IInv, TypeOK
<1>1. PICK t \in Tokens :
        /\ tokens[t].state = "unused"
        /\ tokens' = [tokens EXCEPT ![t] =
             [state |-> "live", user |-> call[k].user,
              session |-> IF call[k].session = NoToken THEN t ELSE call[k].session]]
        /\ \/ /\ call[k].op = "register"
              /\ Becomes(k, [call[k] EXCEPT !.at = "publish", !.issued = t])
           \/ /\ call[k].op # "register"
              /\ Becomes(k, [call[k] EXCEPT !.at = "reply", !.issued = t, !.reply = "OK"])
           \/ Fail(k)
  BY DEF SaveRefreshToken
<1>2. PICK new \in CallState :
        /\ call' = [call EXCEPT ![k] = new]
        /\ new.op = call[k].op /\ new.token = call[k].token
        /\ \/ call[k].op = "register" /\ new.issued = t /\ new.at = "publish"
              /\ new.reply = call[k].reply
           \/ new.issued = t /\ new.at = "reply" /\ new.reply = "OK"
           \/ new.issued = call[k].issued /\ new.at = "reply" /\ new.reply = "Internal"
  <2> DEFINE c == [call[k] EXCEPT !.at = "publish", !.issued = t]
             d == [call[k] EXCEPT !.at = "reply", !.issued = t, !.reply = "OK"]
             e == [call[k] EXCEPT !.at = "reply", !.reply = "Internal"]
  <2>1. /\ c \in CallState /\ c.op = call[k].op /\ c.token = call[k].token
        /\ c.issued = t /\ c.at = "publish" /\ c.reply = call[k].reply
    BY <1>0 DEF CallState, Point
  <2>2. /\ d \in CallState /\ d.op = call[k].op /\ d.token = call[k].token
        /\ d.issued = t /\ d.at = "reply" /\ d.reply = "OK"
    BY <1>0 DEF CallState, Point, Code
  <2>3. /\ e \in CallState /\ e.op = call[k].op /\ e.token = call[k].token
        /\ e.issued = call[k].issued /\ e.at = "reply" /\ e.reply = "Internal"
    BY <1>0 DEF CallState, Point, Code
  <2>4. \/ call[k].op = "register" /\ call' = [call EXCEPT ![k] = c]
        \/ call' = [call EXCEPT ![k] = d]
        \/ call' = [call EXCEPT ![k] = e]
    BY <1>1 DEF Becomes, Fail, Answer
  <2> HIDE DEF c, d, e
  <2> QED BY <2>1, <2>2, <2>3, <2>4
<1>3. call'[k] = new /\ \A j \in Calls \ {k} : call'[j] = call[j]
  BY <1>0, <1>2
<1>4. \A v \in Tokens : v # t => tokens'[v] = tokens[v]
  BY <1>0, <1>1
<1>5. tokens'[t].state = "live" /\ ~Issued(t)
  BY <1>0, <1>1 DEF Issued
<1>6. call[k].issued = NoToken /\ call[k].reply = ""
  BY <1>0 DEF Fits
<1>7. \A v \in Tokens :
        /\ tokens'[v].session = tokens[v].session \/ ~Issued(v)
        /\ ~(tokens[v].state = "live" /\ tokens'[v].state # "live")
  BY <1>4, <1>5
<1> QED BY <1>0, <1>2, <1>3, <1>5, <1>6, <1>7 DEF Moves

LEMMA TakeMoves ==
  ASSUME IInv, CallsFit, NEW k \in Calls, ReviveRefreshToken(k) \/ DeleteRefreshToken(k)
  PROVE  Moves(k)
<1>0. PICK t \in Tokens : t = call[k].token /\ Issued(t)
  BY CallFits DEF ReviveRefreshToken, DeleteRefreshToken, CallOK
<1>1. /\ call[k] \in CallState /\ call \in [Calls -> CallState]
      /\ call[k].at \in {"revive", "delete"} /\ call[k].issued = NoToken /\ call[k].reply = ""
  <2>1. call[k] \in CallState /\ Fits(call[k], tokens)
    BY CallFits
  <2>2. call[k].at \in {"revive", "delete"}
    BY DEF ReviveRefreshToken, DeleteRefreshToken
  <2> QED BY <2>1, <2>2 DEF Fits, IInv, TypeOK
<1>2. tokens[t] \in [state : {"live", "gone"}, user : Users, session : Tokens]
  BY <1>0 DEF IInv, TypeOK, Key, Unused, Issued
<1>3. tokens \in [Tokens -> Key]
  BY DEF IInv, TypeOK
<1>4. tokens' = tokens \/ tokens' = [tokens EXCEPT ![t].state = "gone"]
  BY <1>0 DEF ReviveRefreshToken, DeleteRefreshToken
<1>5. \A v \in Tokens : tokens'[v].session = tokens[v].session
                        /\ (v # t => tokens'[v] = tokens[v])
  <2>1. CASE tokens' = [tokens EXCEPT ![t].state = "gone"]
    BY <1>2, <1>3, <2>1
  <2> QED BY <1>4, <2>1
<1> DEFINE c == [call[k] EXCEPT !.at = "token", !.user = tokens[t].user,
                                !.session = tokens[t].session]
<1>6. PICK new \in CallState :
        /\ call' = [call EXCEPT ![k] = new]
        /\ new.op = call[k].op /\ new.token = t /\ new.issued = call[k].issued
        /\ \/ new.at = "token" /\ new.reply = ""
           \/ new.at = "reply" /\ new.reply \in {"OK", "Internal"}
           \/ /\ new.at = "reply" /\ new.reply = "Unauthenticated"
              /\ UNCHANGED tokens
  <2>1. /\ c \in CallState /\ c.op = call[k].op /\ c.token = t /\ c.at = "token"
        /\ c.issued = call[k].issued /\ c.reply = ""
    BY <1>0, <1>1, <1>2 DEF CallState, Point
  <2>2. \/ Becomes(k, c)
        \/ Answer(k, "OK") \/ Answer(k, "Internal")
        \/ Answer(k, "Unauthenticated") /\ UNCHANGED tokens
    BY <1>0 DEF ReviveRefreshToken, Revived, DeleteRefreshToken, Deleted, Fail
  <2> HIDE DEF c
  <2>3. ASSUME NEW code \in {"OK", "Internal", "Unauthenticated"}, Answer(k, code),
               code = "Unauthenticated" => UNCHANGED tokens
        PROVE  \E new \in CallState :
                 /\ call' = [call EXCEPT ![k] = new]
                 /\ new.op = call[k].op /\ new.token = t /\ new.issued = call[k].issued
                 /\ new.at = "reply" /\ new.reply = code
    <3> DEFINE d == [call[k] EXCEPT !.at = "reply", !.reply = code]
    <3>1. /\ d \in CallState /\ d.op = call[k].op /\ d.token = t
          /\ d.at = "reply" /\ d.reply = code /\ d.issued = call[k].issued
      BY <1>0, <1>1 DEF CallState, Point, Code
    <3>2. call' = [call EXCEPT ![k] = d]
      BY <2>3 DEF Answer, Becomes
    <3> HIDE DEF d
    <3> QED BY <3>1, <3>2
  <2>4. CASE Becomes(k, c)
    BY <2>1, <2>4 DEF Becomes
  <2>5. CASE Answer(k, "OK") \/ Answer(k, "Internal")
    BY <2>3, <2>5
  <2>6. CASE Answer(k, "Unauthenticated") /\ UNCHANGED tokens
    BY <2>3, <2>6
  <2> QED BY <2>2, <2>4, <2>5, <2>6
<1>7. call'[k] = new /\ \A j \in Calls \ {k} : call'[j] = call[j]
  BY <1>1, <1>6
<1>8. \A v \in Tokens : v # t => tokens'[v] = tokens[v]
  BY <1>5
<1> QED BY <1>0, <1>1, <1>5, <1>6, <1>7, <1>8 DEF Moves

LEMMA HandleMoves ==
  ASSUME IInv, CallsFit, NEW k \in Calls, Handle(k)
  PROVE  Moves(k)
<1>1. CASE GetAccountByEmail(k)
  BY <1>1, AnswersMove, GoesMove DEF GetAccountByEmail, Code
<1>2. CASE CreateAccount(k)
  <2>1. call[k].op = "register"
    BY <1>2, CallFits DEF CallOK, CreateAccount
  <2> QED BY <1>2, <2>1, AnswersMove, GoesMove DEF CreateAccount, Fail, Code
<1>3. CASE PublishUserRegistered(k) \/ PublishFails(k)
  BY <1>3, AnswersMove DEF PublishUserRegistered, PublishFails, Code
<1>4. CASE QueryFails(k)
  BY <1>4, AnswersMove DEF QueryFails, Fail, Code
<1> QED BY <1>1, <1>2, <1>3, <1>4, SaveMoves, TakeMoves DEF Handle

(* Who takes up a session found a live token of it. *)
LEMMA RotatingNeedsLive ==
  ASSUME IInv, Next, NEW s \in Tokens, NEW k \in Rotating(s)', k \notin Rotating(s)
  PROVE  Live(s) # {}
<1>1. /\ call \in [Calls -> CallState] /\ k \in Calls /\ CallOK(k)
      /\ call'[k].op = "refresh" /\ call'[k].at = "token" /\ call'[k].session = s
  BY DEF Rotating, At, IInv, TypeOK
<1>2. call'[k] # call[k]
  BY <1>1 DEF Rotating, At
<1>3. ASSUME NEW j \in Calls, NEW new, Becomes(j, new)
      PROVE  j = k /\ new.op = "refresh" /\ new.at = "token" /\ new.session = s
  BY <1>1, <1>2, <1>3 DEF Becomes
<1>4. ASSUME NEW j \in Calls, NEW code, Answer(j, code) PROVE FALSE
  <2> DEFINE new == [call[j] EXCEPT !.at = "reply", !.reply = code]
  <2>1. new.at = "reply" /\ Becomes(j, new)
    BY <1>1, <1>4 DEF Answer, CallState
  <2> HIDE DEF new
  <2> QED BY <1>3, <2>1
<1>5. ASSUME NEW j \in Calls, NEW point, Goto(j, point)
      PROVE  j = k /\ call[k].op = "refresh" /\ point = "token"
  <2> DEFINE new == [call[j] EXCEPT !.at = point]
  <2>1. new.at = point /\ new.op = call[j].op /\ Becomes(j, new)
    BY <1>1, <1>5 DEF Goto, CallState
  <2> HIDE DEF new
  <2> QED BY <1>3, <2>1
<1>6. ASSUME NEW j \in Calls, NEW op \in Op, NEW u \in Users, Credentials(j, op, u) PROVE FALSE
  <2>1. PICK point \in {"lookup", "reply"}, code \in Code :
          Becomes(j, Fresh(op, u, NoToken, point, code))
    BY <1>6 DEF Credentials, Code
  <2> QED BY <1>3, <2>1 DEF Fresh
<1>7. ASSUME NEW j \in Calls, NEW op \in Op, NEW t \in Known, Present(j, op, t) PROVE FALSE
  <2>1. PICK point \in {"revive", "delete"} : Becomes(j, Fresh(op, NoUser, t, point, ""))
    BY <1>7 DEF Present
  <2>2. Fresh(op, NoUser, t, point, "").at = point
    BY DEF Fresh
  <2> QED BY <1>3, <2>1, <2>2
<1>8. ASSUME NEW t \in Tokens, Expire(t) PROVE FALSE
  BY <1>2, <1>8 DEF Expire
<1>9. ASSUME NEW j \in Calls, GetAccountByEmail(j) PROVE FALSE
  BY <1>4, <1>5, <1>9 DEF GetAccountByEmail
<1>10. ASSUME NEW j \in Calls, CreateAccount(j) PROVE FALSE
  BY <1>1, <1>4, <1>5, <1>10 DEF CreateAccount, Fail, CallOK
<1>11. ASSUME NEW j \in Calls, SaveRefreshToken(j) PROVE FALSE
  <2>1. PICK t \in Tokens :
          \/ Becomes(j, [call[j] EXCEPT !.at = "publish", !.issued = t])
          \/ Becomes(j, [call[j] EXCEPT !.at = "reply", !.issued = t, !.reply = "OK"])
          \/ Fail(j)
    BY <1>11 DEF SaveRefreshToken
  <2> DEFINE c == [call[j] EXCEPT !.at = "publish", !.issued = t]
             d == [call[j] EXCEPT !.at = "reply", !.issued = t, !.reply = "OK"]
  <2>2. c.at = "publish" /\ d.at = "reply"
    BY <1>1 DEF CallState
  <2>3. Becomes(j, c) \/ Becomes(j, d) \/ Fail(j)
    BY <2>1
  <2> HIDE DEF c, d
  <2> QED BY <1>3, <1>4, <2>2, <2>3 DEF Fail
<1>12. ASSUME NEW j \in Calls, DeleteRefreshToken(j) \/ PublishUserRegistered(j)
                               \/ PublishFails(j) \/ QueryFails(j)
       PROVE  FALSE
  BY <1>4, <1>12 DEF DeleteRefreshToken, Deleted, PublishUserRegistered, PublishFails,
                     QueryFails, Fail
<1>13. ASSUME NEW j \in Calls, ReviveRefreshToken(j) PROVE Live(s) # {}
  <2>1. PICK t \in Tokens : t = call[j].token
    BY <1>13 DEF IInv, CallOK, ReviveRefreshToken
  <2> DEFINE c == [call[j] EXCEPT !.at = "token", !.user = tokens[t].user,
                                  !.session = tokens[t].session]
  <2>2. Becomes(j, c) /\ tokens[t].state = "live"
    BY <1>4, <1>13, <2>1 DEF ReviveRefreshToken, Revived, Fail
  <2>3. c.session = tokens[t].session
    BY <1>1 DEF CallState
  <2> HIDE DEF c
  <2>4. tokens[t].session = s
    BY <1>3, <2>2, <2>3
  <2> QED BY <2>2, <2>4 DEF Live
<1> QED BY <1>6, <1>7, <1>8, <1>9, <1>10, <1>11, <1>12, <1>13 DEF Next, Handle

(* A token is stored for a call that holds its session, or begins one. *)
LEMMA LiveNeedsRotating ==
  ASSUME IInv, Next, NEW s \in Tokens, NEW t \in Live(s)', t \notin Live(s)
  PROVE  Rotating(s) # {} \/ ~Issued(s)
<1>1. /\ tokens \in [Tokens -> Key] /\ t \in Tokens
      /\ tokens'[t].state = "live" /\ tokens'[t].session = s
      /\ ~(tokens[t].state = "live" /\ tokens[t].session = s)
  BY DEF Live, IInv, TypeOK
<1>2. ASSUME NEW v \in Tokens, tokens' = [tokens EXCEPT ![v].state = "gone"] PROVE FALSE
  <2>1. CASE t = v
    <3>1. tokens[v] \in [state : {"live", "gone"}, user : Users, session : Tokens]
          \/ tokens[v] = Unused
      BY <1>1 DEF Key
    <3>2. tokens'[v].state = "gone"
      BY <1>1, <1>2, <3>1 DEF Unused
    <3> QED BY <1>1, <2>1, <3>2
  <2>2. CASE t # v
    BY <1>1, <1>2, <2>2
  <2> QED BY <2>1, <2>2
<1>3. ASSUME UNCHANGED tokens PROVE FALSE
  BY <1>1, <1>3
<1>4. ASSUME NEW j \in Calls, SaveRefreshToken(j) PROVE Rotating(s) # {} \/ ~Issued(s)
  <2>1. PICK v \in Tokens :
        /\ tokens[v].state = "unused"
        /\ tokens' = [tokens EXCEPT ![v] =
             [state |-> "live", user |-> call[j].user,
              session |-> IF call[j].session = NoToken THEN v ELSE call[j].session]]
    BY <1>4 DEF SaveRefreshToken
  <2>2. t = v /\ s = IF call[j].session = NoToken THEN v ELSE call[j].session
    BY <1>1, <2>1
  <2>3. CASE call[j].session = NoToken
    BY <2>1, <2>2, <2>3 DEF Issued
  <2>4. CASE call[j].session # NoToken
    <3>1. call[j].op = "refresh" /\ call[j].at = "token"
      BY <1>4, <2>4 DEF IInv, CallOK, SaveRefreshToken
    <3> QED BY <2>2, <2>4, <3>1 DEF Rotating, At
  <2> QED BY <2>3, <2>4
<1>5. ASSUME NEW j \in Calls, ReviveRefreshToken(j) PROVE FALSE
  BY <1>2, <1>3, <1>5 DEF ReviveRefreshToken, IInv, CallOK
<1>6. ASSUME NEW j \in Calls, DeleteRefreshToken(j) PROVE FALSE
  BY <1>2, <1>6 DEF DeleteRefreshToken, IInv, CallOK
<1>7. ASSUME NEW v \in Tokens, Expire(v) PROVE FALSE
  BY <1>2, <1>7 DEF Expire
<1> QED BY <1>3, <1>4, <1>5, <1>6, <1>7
        DEF Next, Handle, Credentials, Present, GetAccountByEmail, CreateAccount,
            PublishUserRegistered, PublishFails, QueryFails

(* A session that has ended stays so, and a token keeps its session. *)
LEMMA DeadStays ==
  ASSUME IInv, CallsFit, [Next]_vars, NEW s \in Tokens, Issued(s)
  PROVE  /\ Issued(s)' /\ tokens'[s].session = tokens[s].session
         /\ Dead(s) => Dead(s)'
<1>1. Dead(s) => Dead(s)'
  <2>1. CASE Next
    BY <2>1, RotatingNeedsLive, LiveNeedsRotating DEF Dead
  <2>2. CASE UNCHANGED vars
    BY <2>2 DEF vars, Dead, Live, Rotating, At
  <2> QED BY <2>1, <2>2
<1>2. Issued(s)'
  BY NextSafe, StaySafe DEF Safe, TokensKept, Issued
<1>3. tokens'[s].session = tokens[s].session
  <2>1. CASE \E k \in Calls : Handle(k)
    BY <2>1, HandleMoves DEF Moves
  <2>2. CASE \E t \in Tokens : Expire(t)
    BY <2>2 DEF Expire, IInv, TypeOK, Key, Issued, Unused
  <2>3. CASE UNCHANGED tokens
    BY <2>3
  <2> QED BY <2>1, <2>2, <2>3 DEF Next, Credentials, Present, vars
<1> QED BY <1>1, <1>2, <1>3

-----------------------------------------------------------------------------
(* The steps, and the browsers                                              *)

BrowserInv == GatewayInv /\ BrowsersOK

(* The token that a call presents, and the one it has issued, are stored.   *)
LEMMA CallTokens ==
  ASSUME GatewayInv, CallsMatch, NEW k \in Calls
  PROVE  /\ call[k].token # NoToken =>
              /\ call[k].token \in Tokens /\ Issued(call[k].token)
              /\ call[k].op \in {"refresh", "logout"}
         /\ call[k].issued # NoToken => call[k].issued \in Tokens /\ Issued(call[k].issued)
<1>1. call[k] \in CallState /\ Fits(call[k], tokens)
  BY CallFits DEF GatewayInv
<1>2. call[k].issued \in Tokens \cup {NoToken}
  BY <1>1 DEF CallState
<1> QED BY <1>1, <1>2 DEF CallsMatch, Fits, Issued

LEMMA HeldTokens ==
  ASSUME GatewayInv, CallsMatch, NEW b \in Browsers, jar[b].refresh # NoToken
  PROVE  jar[b].refresh \in Tokens /\ Issued(jar[b].refresh)
BY CallTokens DEF GatewayInv, JarsOK, Known

LEMMA SessionDeadStays ==
  ASSUME GatewayInv, [Next]_vars, NEW t \in Tokens, Issued(t), Dead(tokens[t].session)
  PROVE  Issued(t)' /\ tokens'[t].session = tokens[t].session /\ Dead(tokens[t].session)'
<1> DEFINE s == tokens[t].session
<1>1. s \in Tokens /\ Issued(s)
  BY DEF GatewayInv, IInv, SessionsOK
<1>2. Issued(t)' /\ tokens'[t].session = s
  BY DeadStays DEF GatewayInv
<1>3. Dead(s) => \A v \in {s} : Dead(v)'
  BY <1>1, DeadStays DEF GatewayInv
<1> QED BY <1>2, <1>3

LEMMA EndedStays ==
  ASSUME GatewayInv, EndedOK, CookiesTypeOK, [Next]_vars, UNCHANGED <<expired, ended>>
  PROVE  EndedOK'
<1>1. ASSUME NEW t \in expired PROVE Issued(t)' /\ Dead(tokens[t].session)'
  BY SessionDeadStays DEF EndedOK, CookiesTypeOK
<1>2. ASSUME NEW s \in ended PROVE Issued(s)' /\ Dead(s)'
  BY DeadStays DEF EndedOK, CookiesTypeOK, GatewayInv
<1> QED BY <1>1, <1>2 DEF EndedOK

LEMMA HandleBrowsers ==
  ASSUME BrowserInv, NEW k \in Calls, Handle(k), UNCHANGED cookies
  PROVE  BrowsersOK'
<1>0. /\ GatewayInv /\ IInv /\ CallsFit /\ CookiesTypeOK
      /\ UNCHANGED <<jar, alone, troubled, expired, ended, from>>
      /\ Moves(k) /\ [Next]_vars
      /\ \A b \in Browsers : Waiting(b)' = Waiting(b)
  BY HandleMoves DEF BrowserInv, GatewayInv, cookies, Next, Waiting
<1>i. /\ CallsMatch /\ OneIssuer /\ OnItsWay /\ OneHolder
      /\ HolderAsked /\ HeldIsGood /\ AloneOK /\ EndedOK
  BY DEF BrowserInv, BrowsersOK
<1>1. /\ \A j \in Calls : call'[j].op = call[j].op /\ call'[j].token = call[j].token
      /\ \A j \in Calls \ {k} : call'[j] = call[j]
      /\ call[k].at \notin {"idle", "reply"} /\ call[k].reply = ""
  <2>1. Fits(call[k], tokens)
    BY <1>0, CallFits
  <2> QED BY <1>0, <2>1 DEF Moves, Fits
<1>2. CallsMatch'
  <2> SUFFICES ASSUME NEW j \in Calls
               PROVE  /\ call'[j].op \notin {"refresh", "logout"} => call'[j].token = NoToken
                      /\ call'[j].reply \in {"AlreadyExists", "Unavailable"}
                           => call'[j].op \in {"register", "login"}
                      /\ call'[j].at = "idle" => from[j] = NoBrowser
                      /\ call'[j].at = "reply" => call'[j].reply # ""
    BY <1>0 DEF CallsMatch
  <2>1. /\ call[j].op \notin {"refresh", "logout"} => call[j].token = NoToken
        /\ call[j].reply \in {"AlreadyExists", "Unavailable"} => call[j].op \in {"register", "login"}
        /\ call[j].at = "idle" => from[j] = NoBrowser
        /\ call[j].at = "reply" => call[j].reply # ""
    BY <1>i DEF CallsMatch
  <2>2. CASE j = k
    <3>1. /\ call'[k].op = call[k].op /\ call'[k].token = call[k].token
          /\ call'[k].at # "idle" /\ (call'[k].at = "reply" => call'[k].reply # "")
          /\ call'[k].reply \in {"AlreadyExists", "Unavailable"}
               => call[k].op \in {"register", "login"}
      BY <1>0 DEF Moves
    <3> QED BY <2>1, <2>2, <3>1
  <2>3. CASE j # k
    BY <1>1, <2>1, <2>3
  <2> QED BY <2>2, <2>3
<1>3. \A j \in Calls \ {k} : call[j].issued # NoToken => call'[k].issued # call[j].issued
  <2>1. \A j \in Calls : call[j].issued # NoToken => Issued(call[j].issued)
    BY <1>i, <1>0, CallTokens
  <2>2. call'[k].issued = call[k].issued \/ ~Issued(call'[k].issued)
    BY <1>0 DEF Moves
  <2>3. \A j \in Calls \ {k} : call[j].issued # NoToken => call[k].issued # call[j].issued
    BY <1>i DEF OneIssuer
  <2> QED BY <2>1, <2>2, <2>3
<1>4. OneIssuer'
  <2> SUFFICES ASSUME NEW i \in Calls, NEW j \in Calls, i # j,
                      call'[j].issued # NoToken, call'[i].issued = call'[j].issued
               PROVE  FALSE
    BY DEF OneIssuer
  <2>1. call[j].issued # NoToken => call[i].issued # call[j].issued
    BY <1>i DEF OneIssuer
  <2>2. CASE i = k
    BY <1>1, <1>3, <2>2
  <2>3. CASE j = k
    BY <1>1, <1>3, <2>3
  <2>4. CASE i # k /\ j # k
    BY <1>1, <2>1, <2>4
  <2> QED BY <2>2, <2>3, <2>4
<1>5. OnItsWay'
  <2> SUFFICES ASSUME NEW j \in Calls, call'[j].issued # NoToken, from[j] # NoBrowser
               PROVE  /\ tokens'[call'[j].issued].state = "live" \/ call'[j].issued \in expired
                      /\ \A i \in Calls : call[i].token # call'[j].issued
                      /\ \A b \in Browsers : jar[b].refresh # call'[j].issued
    BY <1>0, <1>1 DEF OnItsWay
  <2>1. CASE call'[j].issued = call[j].issued
    <3>1. /\ tokens[call[j].issued].state = "live" \/ call[j].issued \in expired
          /\ \A i \in Calls : call[i].token # call[j].issued
          /\ \A b \in Browsers : jar[b].refresh # call[j].issued
      BY <1>i, <2>1 DEF OnItsWay
    <3>2. call[j].issued \in Tokens
      BY <1>i, <1>0, <2>1, CallTokens
    <3> QED BY <1>0, <2>1, <3>1, <3>2 DEF Moves
  <2>2. CASE call'[j].issued # call[j].issued
    <3>1. j = k /\ ~Issued(call'[k].issued) /\ tokens'[call'[k].issued].state = "live"
      BY <1>0, <1>1, <2>2 DEF Moves
    <3>2. \A i \in Calls : call[i].token # NoToken => Issued(call[i].token)
      BY <1>i, <1>0, CallTokens
    <3>3. \A b \in Browsers : jar[b].refresh # NoToken => Issued(jar[b].refresh)
      BY <1>i, <1>0, HeldTokens
    <3> QED BY <3>1, <3>2, <3>3
  <2> QED BY <2>1, <2>2
<1>6. OneHolder' /\ HolderAsked'
  <2>1. OneHolder'
    BY <1>i, <1>0 DEF OneHolder
  <2>2. ASSUME NEW b \in Browsers, NEW j \in Calls, Holds(b, call'[j].token)
        PROVE  \/ from[j] = b
               \/ from[j] = NoBrowser /\ (b \in troubled \/ call'[j].reply = "Unauthenticated")
    <3>1. call'[j].token = call[j].token /\ (j # k => call'[j] = call[j])
      BY <1>1
    <3>2. \/ from[j] = b
          \/ from[j] = NoBrowser /\ (b \in troubled \/ call[j].reply = "Unauthenticated")
      BY <1>i, <2>2, <3>1 DEF HolderAsked
    <3>3. j = k => call[j].reply = ""
      BY <1>1
    <3>4. j = k => from[j] = b \/ (from[j] = NoBrowser /\ b \in troubled)
      BY <3>2, <3>3
    <3>5. CASE j = k
      BY <3>4, <3>5
    <3>6. CASE j # k
      BY <3>1, <3>2, <3>6
    <3> QED BY <3>5, <3>6
  <2>3. HolderAsked'
    BY <1>0, <2>2 DEF HolderAsked, Holds
  <2> QED BY <2>1, <2>3
<1>7. HeldIsGood'
  <2> SUFFICES ASSUME NEW b \in Browsers \ troubled, NEW t \in Tokens, Holds(b, t),
                      tokens'[t].state # "live", t \notin expired
               PROVE  \E j \in Waiting(b) : Took(j, t)'
    BY <1>0 DEF HeldIsGood, Holds
  <2>1. CASE tokens[t].state = "live"
    <3>1. t = call[k].token /\ (call'[k].at = "token" \/ call'[k].reply \in {"OK", "Internal"})
      BY <1>0, <2>1 DEF Moves
    <3>2. from[k] = b
      BY <1>i, <1>1, <3>1 DEF HolderAsked
    <3> QED BY <1>1, <3>1, <3>2 DEF Took, Waiting
  <2>2. ASSUME NEW j \in Waiting(b), Took(j, t) PROVE Took(j, t)'
    <3>1. j \in Calls
      BY DEF Waiting
    <3>2. call[j].token # NoToken
      BY <2>2 DEF Took, Holds
    <3>3. call[j].op \in {"refresh", "logout"}
      BY <1>i, <1>0, <3>1, <3>2, CallTokens
    <3> QED BY <1>0, <1>1, <2>2, <3>1, <3>3 DEF Took, Moves
  <2> QED BY <1>i, <2>1, <2>2 DEF HeldIsGood
<1>8. AloneOK'
  <2> SUFFICES ASSUME NEW j \in alone, call[j].op = "logout",
                      from[j] \notin troubled, call'[j].reply = "OK"
               PROVE  Dead(tokens[call[j].token].session)'
    BY <1>0, <1>1 DEF AloneOK, BrowserInv, BrowsersOK, Waiting, CookiesTypeOK
  <2>1. PICK t \in Tokens : t = call[j].token /\ t = call'[j].token /\ Issued(t)
    BY <1>0, <1>1, CallFits DEF CookiesTypeOK, Fits, Issued
  <2>2. CASE Dead(tokens[t].session)
    BY <1>0, <2>1, <2>2, SessionDeadStays
  <2>3. CASE ~Dead(tokens[t].session)
    <3>1. j = k
      <4>1. j \in Calls
        BY <1>0 DEF CookiesTypeOK
      <4>2. call[j].reply # "OK"
        BY <1>i, <2>1, <2>3 DEF AloneOK
      <4> QED BY <1>1, <4>1, <4>2
    <3>2. call[k].at = "delete" \/ call[k].op # "logout"
      BY <1>0, <1>1, CallFits DEF CallOK, CallState, Point
    <3>3. DeleteRefreshToken(k)
      BY <1>0, <1>1, <2>1, <3>1, <3>2 DEF Handle, GetAccountByEmail, CreateAccount, SaveRefreshToken,
         ReviveRefreshToken, PublishUserRegistered, PublishFails, QueryFails, Fail, Answer,
         Becomes, IInv, TypeOK, CallState
    <3>4. t = jar[from[k]].refresh /\ from[k] \in Browsers /\ Waiting(from[k]) = {k}
      BY <1>i, <1>0, <2>1, <3>1 DEF AloneOK, CookiesTypeOK
    <3>5. t \notin expired
      BY <1>i, <2>3 DEF EndedOK
    <3>6. ~Took(k, t)
      BY <1>1, <3>2, <3>1 DEF Took
    <3>7. tokens[t].state = "live"
      BY <1>0, <2>1, <3>1, <3>4, <3>5, <3>6, AuthAssumption
         DEF BrowserInv, BrowsersOK, HeldIsGood, Holds
    <3>8. tokens[t].session \in loggedOut'
      BY <2>1, <3>1, <3>3, <3>7 DEF DeleteRefreshToken, Deleted
    <3>9. tokens'[t].session = tokens[t].session
      BY <1>0, <2>1 DEF Moves
    <3>10. LoggedOutStaysOut'
      BY <1>0, StepInv DEF IInv
    <3> QED BY <2>1, <3>8, <3>9, <3>10 DEF LoggedOutStaysOut, Dead
  <2> QED BY <2>2, <2>3
<1>9. EndedOK'
  BY <1>i, <1>0, EndedStays
<1> QED BY <1>2, <1>4, <1>5, <1>6, <1>7, <1>8, <1>9 DEF BrowsersOK

(* A new request finds its call idle, which nobody waits for.               *)
LEMMA ForwardBrowsers ==
  ASSUME BrowserInv, NEW b \in Browsers, NEW k \in Calls, NEW new \in CallState,
         [Next]_vars, call[k].at = "idle", Becomes(k, new), UNCHANGED tokens, Forward(b, k),
         new.issued = NoToken, new.at # "idle", new.reply # "OK",
         new.at = "reply" => new.reply # "",
         \/ new.op \in {"register", "login"} /\ new.token = NoToken
         \/ /\ new.op \in {"refresh", "logout"} /\ new.token = jar[b].refresh
            /\ new.token # NoToken /\ new.reply = ""
  PROVE  BrowsersOK'
<1>0. /\ GatewayInv /\ IInv /\ CallsFit /\ CookiesTypeOK
      /\ UNCHANGED <<tokens, jar, troubled, expired, ended>>
  BY DEF BrowserInv, GatewayInv, Forward
<1>i. /\ CallsMatch /\ OneIssuer /\ OnItsWay /\ OneHolder
      /\ HolderAsked /\ HeldIsGood /\ AloneOK /\ EndedOK
  BY DEF BrowserInv, BrowsersOK
<1>1. call'[k] = new /\ \A j \in Calls \ {k} : call'[j] = call[j]
  BY <1>0 DEF Becomes, IInv, TypeOK
<1>2. from[k] = NoBrowser /\ b # NoBrowser /\ \A c \in Browsers : k \notin Waiting(c)
  BY <1>i, GatewayAssumption DEF CallsMatch, Waiting
<1>3. from'[k] = b /\ \A j \in Calls \ {k} : from'[j] = from[j]
  BY <1>0 DEF Forward, CookiesTypeOK
<1>4. /\ Waiting(b)' = Waiting(b) \cup {k}
      /\ \A c \in Browsers \ {b} : Waiting(c)' = Waiting(c)
  BY <1>2, <1>3 DEF Waiting
<1>5. CallsMatch'
  <2> SUFFICES ASSUME NEW j \in Calls
               PROVE  /\ call'[j].op \notin {"refresh", "logout"} => call'[j].token = NoToken
                      /\ call'[j].reply \in {"AlreadyExists", "Unavailable"}
                           => call'[j].op \in {"register", "login"}
                      /\ call'[j].at = "idle" => from'[j] = NoBrowser
                      /\ call'[j].at = "reply" => call'[j].reply # ""
    BY DEF CallsMatch
  <2>1. CASE j = k
    BY <1>1, <2>1
  <2>2. CASE j # k
    <3>1. /\ call[j].op \notin {"refresh", "logout"} => call[j].token = NoToken
          /\ call[j].reply \in {"AlreadyExists", "Unavailable"}
               => call[j].op \in {"register", "login"}
          /\ call[j].at = "idle" => from[j] = NoBrowser
          /\ call[j].at = "reply" => call[j].reply # ""
      BY <1>i DEF CallsMatch
    <3> QED BY <1>1, <1>3, <2>2, <3>1
  <2> QED BY <2>1, <2>2
<1>6. OneIssuer'
  <2> SUFFICES ASSUME NEW i \in Calls, NEW j \in Calls,
                      call'[i].issued # NoToken, call'[j].issued = call'[i].issued
               PROVE  j = i
    BY DEF OneIssuer
  <2>1. i # k /\ j # k
    BY <1>1
  <2>2. call[i].issued # NoToken /\ call[j].issued = call[i].issued
    BY <1>1, <2>1
  <2> QED BY <1>i, <2>2 DEF OneIssuer
<1>7. OnItsWay'
  <2> SUFFICES ASSUME NEW j \in Calls, call'[j].issued # NoToken, from'[j] # NoBrowser
               PROVE  /\ tokens[call'[j].issued].state = "live" \/ call'[j].issued \in expired
                      /\ \A i \in Calls : call'[i].token # call'[j].issued
                      /\ \A c \in Browsers : jar[c].refresh # call'[j].issued
    BY <1>0 DEF OnItsWay
  <2>1. j # k /\ call'[j] = call[j] /\ from[j] # NoBrowser
    BY <1>1, <1>3
  <2>2. /\ tokens[call[j].issued].state = "live" \/ call[j].issued \in expired
        /\ \A i \in Calls : call[i].token # call[j].issued
        /\ \A c \in Browsers : jar[c].refresh # call[j].issued
    BY <1>i, <2>1 DEF OnItsWay
  <2> QED BY <1>1, <2>1, <2>2
<1>8. OneHolder'
  BY <1>i, <1>0 DEF OneHolder
<1>9. HolderAsked'
  <2> SUFFICES ASSUME NEW c \in Browsers, NEW j \in Calls, Holds(c, call'[j].token)
               PROVE  \/ from'[j] = c
                      \/ from'[j] = NoBrowser
                         /\ (c \in troubled \/ call'[j].reply = "Unauthenticated")
    BY <1>0 DEF HolderAsked, Holds
  <2>1. CASE j = k
    BY <1>i, <1>1, <1>3, <2>1 DEF OneHolder, Holds
  <2>2. CASE j # k
    BY <1>i, <1>1, <1>3, <2>2 DEF HolderAsked
  <2> QED BY <2>1, <2>2
<1>10. HeldIsGood'
  <2> SUFFICES ASSUME NEW c \in Browsers \ troubled, NEW t \in Tokens, Holds(c, t),
                      tokens[t].state # "live", t \notin expired
               PROVE  \E j \in Waiting(c)' : Took(j, t)'
    BY <1>0 DEF HeldIsGood, Holds
  <2>1. PICK j \in Waiting(c) : Took(j, t)
    BY <1>i DEF HeldIsGood
  <2>2. j \in Waiting(c)' /\ call'[j] = call[j]
    <3>1. j \in Calls \ {k}
      BY <1>2, <2>1 DEF Waiting
    <3>2. Waiting(c) \subseteq Waiting(c)'
      <4>1. CASE c = b
        BY <1>4, <4>1
      <4>2. CASE c # b
        BY <1>4, <4>2
      <4> QED BY <4>1, <4>2
    <3> QED BY <1>1, <2>1, <3>1, <3>2
  <2> QED BY <2>1, <2>2 DEF Took
<1>11. AloneOK'
  <2> SUFFICES ASSUME NEW j \in alone'
               PROVE  /\ from'[j] # NoBrowser /\ Waiting(from[j])' = {j}
                      /\ call'[j].op = "logout" =>
                           /\ call'[j].token = jar[from'[j]].refresh
                           /\ from'[j] \notin troubled /\ call'[j].reply = "OK"
                                => Dead(tokens[call[j].token].session)'
    BY <1>0 DEF AloneOK
  <2>1. CASE j = k
    <3>1. Waiting(b) = {}
      <4>1. k \in alone \/ Waiting(b) = {}
        BY <2>1 DEF Forward
      <4>2. k \notin alone
        BY <1>2, <1>i DEF AloneOK
      <4> QED BY <4>1, <4>2
    <3>2. Waiting(from[j])' = {k}
      BY <1>3, <1>4, <2>1, <3>1
    <3> QED BY <1>1, <1>2, <1>3, <2>1, <3>2
  <2>2. CASE j # k
    <3>1. /\ j \in alone /\ j \in Calls /\ from[j] \in Browsers \ {b}
          /\ from'[j] = from[j] /\ call'[j] = call[j]
      BY <1>0, <1>1, <1>3, <2>2 DEF Forward, CookiesTypeOK, BrowserInv, BrowsersOK, AloneOK
    <3>2. /\ Waiting(from[j]) = {j}
          /\ call[j].op = "logout" =>
               /\ call[j].token = jar[from[j]].refresh
               /\ from[j] \notin troubled /\ call[j].reply = "OK"
                    => Dead(tokens[call[j].token].session)
      BY <1>i, <3>1 DEF AloneOK
    <3>3. Waiting(from[j])' = {j}
      BY <1>4, <3>1, <3>2
    <3>4. ASSUME call[j].op = "logout", from[j] \notin troubled, call[j].reply = "OK"
          PROVE  Dead(tokens[call[j].token].session)'
      <4>1. PICK t \in Tokens : t = call[j].token /\ t = call'[j].token /\ Issued(t)
        BY <1>0, <3>1, <3>4, CallFits DEF Fits, Issued
      <4>2. Dead(tokens[t].session)'
        BY <1>0, <3>2, <3>4, <4>1, SessionDeadStays
      <4> QED BY <4>1, <4>2
    <3> QED BY <1>2, <3>1, <3>2, <3>3, <3>4, GatewayAssumption
  <2> QED BY <2>1, <2>2
<1>12. EndedOK'
  BY <1>i, <1>0, EndedStays
<1> QED BY <1>5, <1>6, <1>7, <1>8, <1>9, <1>10, <1>11, <1>12 DEF BrowsersOK

LEMMA SameTokenBrowsers ==
  ASSUME BrowserInv, UNCHANGED <<vars, from, alone, troubled, expired, ended>>,
         \A b \in Browsers : jar'[b].refresh = jar[b].refresh
  PROVE  BrowsersOK'
<1>1. UNCHANGED <<call, tokens, from, alone, troubled, expired, ended>>
  BY DEF vars
<1>2. CallsMatch' /\ OneIssuer'
  BY <1>1 DEF BrowserInv, BrowsersOK, CallsMatch, OneIssuer
<1>3. OnItsWay' /\ OneHolder' /\ HolderAsked'
  BY <1>1 DEF BrowserInv, BrowsersOK, OnItsWay, OneHolder, HolderAsked, Holds
<1>4. HeldIsGood'
  BY <1>1 DEF BrowserInv, BrowsersOK, HeldIsGood, Holds, Took, Waiting
<1>5. ASSUME NEW k \in alone PROVE jar'[from'[k]].refresh = jar[from[k]].refresh
  BY <1>1 DEF BrowserInv, BrowsersOK, AloneOK, GatewayInv, CookiesTypeOK
<1>6. AloneOK'
  BY <1>1, <1>5 DEF BrowserInv, BrowsersOK, AloneOK, Waiting, Dead, Live, Rotating, At
<1>7. EndedOK'
  BY EndedStays DEF BrowserInv, BrowsersOK, GatewayInv
<1> QED BY <1>2, <1>3, <1>4, <1>6, <1>7 DEF BrowsersOK

LEMMA RequestBrowsers ==
  ASSUME BrowserInv, NEW b \in Browsers, NEW k \in Calls,
         SignIn(b, k) \/ Refresh(b, k) \/ Logout(b, k)
  PROVE  BrowsersOK'
<1>0. [Next]_vars /\ GatewayInv
  BY RequestGood DEF Good, BrowserInv
<1>1. CASE SignIn(b, k)
  <2>1. PICK op \in Op, u \in Users : Credentials(k, op, u)
    BY <1>1 DEF SignIn
  <2>2. PICK point \in {"lookup", "reply"}, code \in {"", "Unavailable", "Internal"} :
          /\ Becomes(k, Fresh(op, u, NoToken, point, code))
          /\ code = "" <=> point = "lookup"
    BY <2>1 DEF Credentials
  <2> DEFINE new == Fresh(op, u, NoToken, point, code)
  <2>3. /\ new \in CallState /\ new.op = op /\ new.token = NoToken /\ new.issued = NoToken
        /\ new.at = point /\ new.reply = code
    BY DEF Fresh, CallState, Point, Code
  <2> HIDE DEF new
  <2> QED BY <1>0, <1>1, <2>1, <2>2, <2>3, ForwardBrowsers DEF SignIn, Credentials, new
<1>2. CASE /\ Forward(b, k) /\ jar[b].refresh # NoToken
           /\ \E op \in {"refresh", "logout"} : Present(k, op, jar[b].refresh)
  <2>1. PICK op \in {"refresh", "logout"} : Present(k, op, jar[b].refresh)
    BY <1>2
  <2>2. PICK point \in {"revive", "delete"} :
          Becomes(k, Fresh(op, NoUser, jar[b].refresh, point, ""))
    BY <2>1 DEF Present
  <2> DEFINE new == Fresh(op, NoUser, jar[b].refresh, point, "")
  <2>3. jar[b].refresh \in Tokens
    BY <1>0, <1>2, HeldTokens DEF BrowserInv, BrowsersOK
  <2>4. /\ new \in CallState /\ new.op = op /\ new.token = jar[b].refresh
        /\ new.issued = NoToken /\ new.at = point /\ new.reply = ""
    BY <2>3 DEF Fresh, CallState, Point, Code, Op
  <2> HIDE DEF new
  <2> QED BY <1>0, <1>2, <2>1, <2>2, <2>4, ForwardBrowsers DEF Present, new
<1>3. CASE /\ jar[b].refresh = NoToken /\ jar' = [jar EXCEPT ![b] = NoCookies]
           /\ UNCHANGED <<vars, from, alone, troubled, expired, ended>>
  <2>1. \A c \in Browsers : jar'[c].refresh = jar[c].refresh
    BY <1>0, <1>3 DEF GatewayInv, JarsOK, NoCookies
  <2> QED BY <1>3, <2>1, SameTokenBrowsers
<1> QED BY <1>1, <1>2, <1>3 DEF SignIn, Refresh, Logout

(* An answer that arrives, or is not waited for any more: what it does to   *)
(* the cookies and the history is left to the caller.                       *)
LEMMA ReturnBrowsers ==
  ASSUME BrowserInv, NEW k \in Calls, NEW b \in Browsers, from[k] = b,
         UNCHANGED <<vars, expired>>,
         from' = [from EXCEPT ![k] = NoBrowser], alone' = alone \ {k},
         troubled \subseteq troubled',
         \A c \in Browsers \ {b} : jar'[c] = jar[c]
  PROVE  /\ CallsMatch' /\ OneIssuer' /\ AloneOK'
         /\ (\A j \in Calls \ {k} :
               call[j].issued # NoToken /\ from[j] # NoBrowser => call[j].issued # jar'[b].refresh)
              => OnItsWay'
         /\ \A c \in Browsers : Waiting(c)' = Waiting(c) \ {k}
<1>0. /\ UNCHANGED <<call, tokens>> /\ GatewayInv /\ CookiesTypeOK
      /\ from'[k] = NoBrowser /\ \A j \in Calls \ {k} : from'[j] = from[j]
  BY DEF vars, BrowserInv, GatewayInv, CookiesTypeOK
<1>1. CallsMatch' /\ OneIssuer'
  BY <1>0 DEF BrowserInv, BrowsersOK, CallsMatch, OneIssuer
<1>2. \A c \in Browsers : Waiting(c)' = Waiting(c) \ {k}
  BY <1>0, GatewayAssumption DEF Waiting
<1>3. ASSUME \A j \in Calls \ {k} :
               call[j].issued # NoToken /\ from[j] # NoBrowser => call[j].issued # jar'[b].refresh
      PROVE  OnItsWay'
  BY <1>0, <1>3 DEF BrowserInv, BrowsersOK, OnItsWay
<1>4. AloneOK'
  <2> SUFFICES ASSUME NEW j \in alone, j # k
               PROVE  /\ from'[j] # NoBrowser /\ Waiting(from[j])' = {j}
                      /\ call[j].op = "logout" =>
                           /\ call[j].token = jar'[from[j]].refresh
                           /\ from[j] \notin troubled' /\ call[j].reply = "OK"
                                => Dead(tokens[call[j].token].session)
    BY <1>0 DEF AloneOK, CookiesTypeOK, Dead, Live, Rotating, At
  <2>1. j \in Calls /\ from'[j] = from[j] /\ from[j] # NoBrowser /\ Waiting(from[j]) = {j}
    BY <1>0 DEF CookiesTypeOK, BrowserInv, BrowsersOK, AloneOK
  <2>2. from[j] \in Browsers \ {b}
    BY <1>0, <2>1 DEF CookiesTypeOK, Waiting
  <2> QED BY <1>2, <2>1, <2>2 DEF BrowserInv, BrowsersOK, AloneOK
<1> QED BY <1>1, <1>2, <1>3, <1>4

LEMMA SignedInBrowsers ==
  ASSUME BrowserInv, NEW k \in Calls, SignedIn(k)
  PROVE  BrowsersOK'
<1>0. PICK b \in Browsers : b = from[k]
  BY DEF SignedIn, Returns, BrowserInv, GatewayInv, CookiesTypeOK
<1>1. /\ UNCHANGED <<vars, call, tokens, expired, troubled, ended>>
      /\ from' = [from EXCEPT ![k] = NoBrowser] /\ alone' = alone \ {k}
      /\ from'[k] = NoBrowser /\ \A j \in Calls \ {k} : from'[j] = from[j]
  BY DEF SignedIn, Returns, vars, BrowserInv, GatewayInv, CookiesTypeOK
<1> DEFINE t0 == call[k].issued
<1>2. jar'[b].refresh = t0 /\ \A c \in Browsers \ {b} : jar'[c] = jar[c]
  BY <1>0 DEF SignedIn, setAuthCookies, BrowserInv, GatewayInv, JarsOK
<1>3. t0 \in Tokens /\ t0 # NoToken
  BY CallFits, CallTokens DEF SignedIn, Fits, BrowserInv, BrowsersOK, GatewayInv
<1>4. /\ tokens[t0].state = "live" \/ t0 \in expired
      /\ \A j \in Calls : call[j].token # t0
      /\ \A c \in Browsers : jar[c].refresh # t0
      /\ \A j \in Calls \ {k} : call[j].issued # t0
  BY <1>3 DEF SignedIn, Returns, BrowserInv, BrowsersOK, OnItsWay, OneIssuer
<1> HIDE DEF t0
<1>5. /\ CallsMatch' /\ OneIssuer' /\ AloneOK' /\ OnItsWay'
      /\ \A c \in Browsers : Waiting(c)' = Waiting(c) \ {k}
  <2>1. \A j \in Calls \ {k} :
          call[j].issued # NoToken /\ from[j] # NoBrowser => call[j].issued # jar'[b].refresh
    BY <1>2, <1>4
  <2>2. UNCHANGED <<vars, expired>> /\ troubled \subseteq troubled'
    BY <1>1
  <2>3. /\ from[k] = b /\ from' = [from EXCEPT ![k] = NoBrowser] /\ alone' = alone \ {k}
        /\ \A c \in Browsers \ {b} : jar'[c] = jar[c]
    BY <1>0, <1>1, <1>2
  <2> QED BY <2>1, <2>2, <2>3, ReturnBrowsers
<1>6. OneHolder'
  BY <1>2, <1>4 DEF BrowserInv, BrowsersOK, OneHolder
<1>7. HolderAsked'
  BY <1>0, <1>1, <1>2, <1>4, GatewayAssumption DEF BrowserInv, BrowsersOK, HolderAsked, Holds
<1>8. HeldIsGood'
  <2> SUFFICES ASSUME NEW c \in Browsers \ troubled, NEW t \in Tokens, Holds(c, t)',
                      tokens[t].state # "live", t \notin expired
               PROVE  \E j \in Waiting(c)' : Took(j, t)'
    BY <1>1 DEF HeldIsGood
  <2>1. c # b /\ Holds(c, t)
    BY <1>2, <1>4 DEF Holds
  <2>2. PICK j \in Waiting(c) : Took(j, t)
    BY <2>1 DEF BrowserInv, BrowsersOK, HeldIsGood
  <2>3. j \in Waiting(c)' /\ Took(j, t)'
    BY <1>0, <1>1, <1>5, <2>1, <2>2 DEF Waiting, Took
  <2> QED BY <2>3
<1>9. EndedOK'
  BY <1>1, EndedStays DEF BrowserInv, BrowsersOK, GatewayInv
<1> QED BY <1>5, <1>6, <1>7, <1>8, <1>9 DEF BrowsersOK

LEMMA SignedOutBrowsers ==
  ASSUME BrowserInv, NEW k \in Calls, SignedOut(k)
  PROVE  BrowsersOK'
<1>0. PICK b \in Browsers : b = from[k]
  BY DEF SignedOut, Returns, BrowserInv, GatewayInv, CookiesTypeOK
<1>1. /\ UNCHANGED <<vars, call, tokens, expired, troubled>>
      /\ from' = [from EXCEPT ![k] = NoBrowser] /\ alone' = alone \ {k}
      /\ from'[k] = NoBrowser /\ \A j \in Calls \ {k} : from'[j] = from[j]
  BY DEF SignedOut, Returns, vars, BrowserInv, GatewayInv, CookiesTypeOK
<1>2. jar'[b].refresh = NoToken /\ \A c \in Browsers \ {b} : jar'[c] = jar[c]
  BY <1>0 DEF SignedOut, clearAuthCookies, NoCookies, BrowserInv, GatewayInv, JarsOK
<1>3. /\ CallsMatch' /\ OneIssuer' /\ AloneOK' /\ OnItsWay'
      /\ \A c \in Browsers : Waiting(c)' = Waiting(c) \ {k}
  BY <1>0, <1>1, <1>2, ReturnBrowsers
<1>4. OneHolder'
  BY <1>2 DEF BrowserInv, BrowsersOK, OneHolder
<1>5. HolderAsked'
  BY <1>0, <1>1, <1>2 DEF BrowserInv, BrowsersOK, HolderAsked, Holds
<1>6. HeldIsGood'
  <2> SUFFICES ASSUME NEW c \in Browsers \ troubled, NEW t \in Tokens, Holds(c, t)',
                      tokens[t].state # "live", t \notin expired
               PROVE  \E j \in Waiting(c)' : Took(j, t)'
    BY <1>1 DEF HeldIsGood
  <2>1. c # b /\ Holds(c, t)
    BY <1>2 DEF Holds
  <2>2. PICK j \in Waiting(c) : Took(j, t)
    BY <2>1 DEF BrowserInv, BrowsersOK, HeldIsGood
  <2>3. j \in Waiting(c)' /\ Took(j, t)'
    BY <1>0, <1>1, <1>3, <2>1, <2>2 DEF Waiting, Took
  <2> QED BY <2>3
<1>7. EndedOK'
  <2>1. ASSUME k \in alone, b \notin troubled
        PROVE  Issued(tokens[call[k].token].session) /\ Dead(tokens[call[k].token].session)
    <3>1. call[k].token \in Tokens /\ Issued(call[k].token)
      BY CallFits DEF SignedOut, Fits, Issued, BrowserInv, GatewayInv
    <3>2. Issued(tokens[call[k].token].session)
      BY <3>1 DEF BrowserInv, GatewayInv, IInv, SessionsOK
    <3>3. Dead(tokens[call[k].token].session)
      BY <1>0, <2>1 DEF SignedOut, BrowserInv, BrowsersOK, AloneOK
    <3> QED BY <3>2, <3>3
  <2>2. \A s \in ended' : Issued(s) /\ Dead(s)
    BY <1>0, <2>1 DEF SignedOut, BrowserInv, BrowsersOK, EndedOK
  <2> QED BY <1>1, <2>2 DEF BrowserInv, BrowsersOK, EndedOK, Issued, Dead, Live, Rotating, At
<1> QED BY <1>3, <1>4, <1>5, <1>6, <1>7 DEF BrowsersOK

LEMMA NoAnswerBrowsers ==
  ASSUME BrowserInv, NEW k \in Calls, Refused(k) \/ NotAnswered(k)
  PROVE  BrowsersOK'
<1>0. PICK b \in Browsers : b = from[k]
  BY DEF Refused, NotAnswered, Returns, BrowserInv, GatewayInv, CookiesTypeOK
<1>i. /\ CallsMatch /\ OneIssuer /\ OnItsWay /\ OneHolder
      /\ HolderAsked /\ HeldIsGood /\ AloneOK /\ EndedOK
  BY DEF BrowserInv, BrowsersOK
<1>1. /\ UNCHANGED <<vars, call, tokens, jar, expired, ended>>
      /\ from' = [from EXCEPT ![k] = NoBrowser] /\ alone' = alone \ {k}
      /\ from'[k] = NoBrowser /\ \A j \in Calls \ {k} : from'[j] = from[j]
      /\ troubled \subseteq troubled'
  BY DEF Refused, NotAnswered, Returns, vars, BrowserInv, GatewayInv, CookiesTypeOK
<1>2. \A j \in Calls \ {k} :
        call[j].issued # NoToken /\ from[j] # NoBrowser => call[j].issued # jar[b].refresh
  BY <1>i DEF OnItsWay
<1>3. /\ CallsMatch' /\ OneIssuer' /\ AloneOK' /\ OnItsWay'
      /\ \A c \in Browsers : Waiting(c)' = Waiting(c) \ {k}
  <2>1. /\ UNCHANGED <<vars, expired>> /\ from[k] = b /\ troubled \subseteq troubled'
        /\ from' = [from EXCEPT ![k] = NoBrowser] /\ alone' = alone \ {k}
        /\ \A c \in Browsers \ {b} : jar'[c] = jar[c]
    BY <1>0, <1>1
  <2>2. \A j \in Calls \ {k} :
          call[j].issued # NoToken /\ from[j] # NoBrowser => call[j].issued # jar'[b].refresh
    BY <1>1, <1>2
  <2> QED BY <2>1, <2>2, ReturnBrowsers
<1>4. OneHolder'
  BY <1>i, <1>1 DEF OneHolder
<1>5. call[k].token # NoToken =>
        \/ b \in troubled'
        \/ call[k].reply = "Unauthenticated" /\ call[k].at = "reply"
  <2>1. CASE Refused(k)
    <3>1. call[k] \in CallState /\ call[k].at = "reply" /\ call[k].reply \notin {"", "OK"}
      BY <2>1, CallFits
         DEF Refused, Returns, BrowserInv, BrowsersOK, CallsMatch, GatewayInv
    <3>2. call[k].token # NoToken => call[k].reply \notin {"AlreadyExists", "Unavailable"}
      BY <1>i, CallTokens DEF CallsMatch
    <3> QED BY <1>0, <2>1, <3>1, <3>2 DEF Refused, CallState, Code
  <2>2. CASE NotAnswered(k)
    BY <1>0, <2>2 DEF NotAnswered
  <2> QED BY <2>1, <2>2
<1>6. HolderAsked'
  <2> SUFFICES ASSUME NEW c \in Browsers, NEW j \in Calls, Holds(c, call[j].token)
               PROVE  \/ from'[j] = c
                      \/ from'[j] = NoBrowser
                         /\ (c \in troubled' \/ call[j].reply = "Unauthenticated")
    BY <1>1 DEF HolderAsked, Holds
  <2>1. \/ from[j] = c
        \/ from[j] = NoBrowser /\ (c \in troubled \/ call[j].reply = "Unauthenticated")
    BY <1>i DEF HolderAsked
  <2>2. call[j].token # NoToken
    BY DEF Holds
  <2> QED BY <1>0, <1>1, <1>5, <2>1, <2>2
<1>7. HeldIsGood'
  <2> SUFFICES ASSUME NEW c \in Browsers \ troubled', NEW t \in Tokens, Holds(c, t),
                      tokens[t].state # "live", t \notin expired
               PROVE  \E j \in Waiting(c)' : Took(j, t)'
    BY <1>1 DEF HeldIsGood, Holds
  <2>1. PICK j \in Waiting(c) : Took(j, t)
    BY <1>i, <1>1 DEF HeldIsGood
  <2>2. j # k
    BY <1>0, <1>5, <2>1 DEF Took, Waiting, Holds
  <2>3. j \in Waiting(c)' /\ Took(j, t)'
    BY <1>1, <1>3, <2>1, <2>2 DEF Took
  <2> QED BY <2>3
<1>8. EndedOK'
  <2>1. GatewayInv /\ EndedOK /\ CookiesTypeOK
    BY <1>i DEF BrowserInv, GatewayInv
  <2>2. [Next]_vars /\ UNCHANGED <<expired, ended>>
    BY <1>1
  <2> QED BY <2>1, <2>2, EndedStays
<1> QED BY <1>3, <1>4, <1>6, <1>7, <1>8 DEF BrowsersOK

LEMMA ExpiresBrowsers ==
  ASSUME BrowserInv, NEW t \in Tokens, RefreshExpires(t)
  PROVE  BrowsersOK'
<1>0. /\ UNCHANGED <<call, jar, from, alone, troubled, ended>> /\ expired' = expired \cup {t}
      /\ tokens[t].state = "live" /\ tokens' = [tokens EXCEPT ![t].state = "gone"]
      /\ tokens \in [Tokens -> Key] /\ [Next]_vars
  BY DEF RefreshExpires, Expire, Next, BrowserInv, GatewayInv, IInv, TypeOK
<1>1. \A v \in Tokens \ {t} : tokens'[v] = tokens[v]
  BY <1>0
<1>2. tokens'[t].state = "gone" /\ tokens'[t].session = tokens[t].session /\ Issued(t)
  BY <1>0 DEF Key, Unused, Issued
<1>3. CallsMatch' /\ OneIssuer' /\ OneHolder' /\ HolderAsked'
  BY <1>0 DEF BrowserInv, BrowsersOK, CallsMatch, OneIssuer, OneHolder, HolderAsked, Holds
<1>4. OnItsWay'
  <2>1. \A k \in Calls : call[k].issued # NoToken => call[k].issued \in Tokens
    BY CallTokens DEF BrowserInv, BrowsersOK
  <2> QED BY <1>0, <1>1, <2>1 DEF BrowserInv, BrowsersOK, OnItsWay
<1>5. HeldIsGood'
  <2> SUFFICES ASSUME NEW b \in Browsers \ troubled, NEW v \in Tokens, Holds(b, v),
                      tokens'[v].state # "live", v \notin expired'
               PROVE  \E k \in Waiting(b) : Took(k, v)
    BY <1>0 DEF HeldIsGood, Holds, Waiting, Took
  <2> QED BY <1>0, <1>1 DEF BrowserInv, BrowsersOK, HeldIsGood
<1>6. AloneOK'
  <2> SUFFICES ASSUME NEW k \in alone, call[k].op = "logout",
                      from[k] \notin troubled, call[k].reply = "OK"
               PROVE  Dead(tokens[call[k].token].session)'
    BY <1>0 DEF AloneOK, BrowserInv, BrowsersOK, Waiting
  <2>1. call[k].token \in Tokens /\ Issued(call[k].token)
    BY CallFits DEF BrowserInv, GatewayInv, CookiesTypeOK, Fits, Issued
  <2>2. PICK v \in Tokens : v = call[k].token /\ v = call'[k].token
    BY <1>0, <2>1
  <2>3. Dead(tokens[v].session)
    BY <2>2 DEF BrowserInv, BrowsersOK, AloneOK
  <2>4. Dead(tokens[v].session)'
    BY <1>0, <2>1, <2>2, <2>3, SessionDeadStays DEF BrowserInv
  <2> QED BY <2>2, <2>4
<1>7. EndedOK'
  <2> DEFINE s == tokens[t].session
  <2>1. s \in Tokens /\ Live(s) = {t} /\ Rotating(s) = {}
    <3>1. s \in Tokens
      BY <1>2 DEF BrowserInv, GatewayInv, IInv, SessionsOK
    <3> QED BY <1>0, <3>1 DEF BrowserInv, GatewayInv, IInv, SessionsDoNotFork, Live
  <2>2. \A v \in {s} : Live(v)' = {} /\ Rotating(v)' = {}
    BY <1>0, <1>1, <1>2, <2>1 DEF Live, Rotating, At
  <2>3. Issued(t)' /\ Dead(tokens[t].session)'
    BY <1>2, <2>2 DEF Dead, Issued
  <2>4. ASSUME NEW v \in expired PROVE Issued(v)' /\ Dead(tokens[v].session)'
    BY <1>0, SessionDeadStays DEF BrowserInv, BrowsersOK, EndedOK, GatewayInv, CookiesTypeOK
  <2>5. ASSUME NEW v \in ended PROVE Issued(v)' /\ Dead(v)'
    BY <1>0, DeadStays DEF BrowserInv, BrowsersOK, EndedOK, GatewayInv, CookiesTypeOK
  <2> QED BY <1>0, <2>3, <2>4, <2>5 DEF EndedOK
<1> QED BY <1>3, <1>4, <1>5, <1>6, <1>7 DEF BrowsersOK

LEMMA BrowserSteps ==
  ASSUME BrowserInv, [GatewayNext]_gatewayVars
  PROVE  BrowserInv'
<1>1. GatewayInv'
  BY GatewaySteps DEF BrowserInv
<1>2. ASSUME UNCHANGED gatewayVars PROVE BrowsersOK'
  BY <1>2, SameTokenBrowsers DEF gatewayVars, cookies
<1>3. ASSUME NEW b \in Browsers, AccessExpires(b) PROVE BrowsersOK'
  <2>1. \A c \in Browsers : jar'[c].refresh = jar[c].refresh
    BY <1>3 DEF AccessExpires, BrowserInv, GatewayInv, JarsOK, Jar
  <2> QED BY <1>3, <2>1, SameTokenBrowsers DEF AccessExpires
<1>4. ASSUME GatewayNext PROVE BrowsersOK'
  BY <1>3, <1>4, RequestBrowsers, HandleBrowsers, SignedInBrowsers, SignedOutBrowsers,
     NoAnswerBrowsers, ExpiresBrowsers DEF GatewayNext
<1> QED BY <1>1, <1>2, <1>4 DEF BrowserInv

LEMMA BrowsersInitially == GatewayInit => BrowserInv
<1> SUFFICES ASSUME GatewayInit PROVE BrowserInv
  OBVIOUS
<1>1. GatewayInv
  BY GatewayInitially
<1>2. /\ \A k \in Calls : from[k] = NoBrowser
      /\ \A b \in Browsers : jar[b].refresh = NoToken
      /\ alone = {} /\ expired = {} /\ ended = {}
  BY DEF GatewayInit, NoCookies
<1>3. \A k \in Calls : call[k].at = "idle" /\ call[k].token = NoToken
                       /\ call[k].issued = NoToken /\ call[k].reply = ""
  BY DEF GatewayInit, Init, Fresh
<1>4. CallsMatch /\ OneIssuer /\ OnItsWay /\ OneHolder
  BY <1>2, <1>3 DEF CallsMatch, OneIssuer, OnItsWay, OneHolder
<1>5. HolderAsked /\ HeldIsGood /\ AloneOK /\ EndedOK
  BY <1>2, <1>3 DEF HolderAsked, HeldIsGood, Holds, AloneOK, EndedOK
<1> QED BY <1>1, <1>4, <1>5 DEF BrowserInv, BrowsersOK

LEMMA BrowserInvariance == GatewaySpec => []BrowserInv
BY BrowsersInitially, BrowserSteps, PTL DEF GatewaySpec

(* Once the answers have come, a refresh token left in a browser is one the *)
(* auth service knows or one that expired (Refresh, setAuthCookies).        *)
THEOREM GatewayCookieIsGood == GatewaySpec => []CookieIsGood
<1>1. BrowserInv => CookieIsGood
  <2> SUFFICES ASSUME BrowserInv, NEW b \in Browsers, Waiting(b) = {}, b \notin troubled,
                      jar[b].refresh # NoToken
               PROVE  jar[b].refresh \in expired \/ tokens[jar[b].refresh].state = "live"
    BY DEF CookieIsGood
  <2>1. jar[b].refresh \in Tokens
    BY HeldTokens DEF BrowserInv, BrowsersOK
  <2> QED BY <2>1 DEF BrowserInv, BrowsersOK, HeldIsGood, Holds
<1> QED BY <1>1, BrowserInvariance, PTL

(* A logout that found its token, or that nothing disturbed and the browser *)
(* was told of, ended the session for good (Logout).                        *)
THEOREM GatewayLogoutEnds == GatewaySpec => []LogoutEnds
<1>1. BrowserInv => LogoutEnds
  BY DEF BrowserInv, BrowsersOK, GatewayInv, IInv, LoggedOutStaysOut, EndedOK, Dead, LogoutEnds
<1> QED BY <1>1, BrowserInvariance, PTL

-----------------------------------------------------------------------------
(* The rate limits: of logins and registrations at the auth service, and of *)
(* the requests of a user at the gateway.                                   *)
(*                                                                          *)
(* What the observer has seen is bounded by what the key knows.  Of a key   *)
(* older than the observer (before), one admission at least went unseen; a  *)
(* younger one was made after the observer began and lives for Window       *)
(* ticks, so that a second key of the observer's time means that the time   *)
(* is over.                                                                 *)

(* How many requests the key may have admitted. *)
Allowed == IF count < Requests THEN count ELSE Requests

(* A key older than the observer dies before Window ticks of the observer   *)
(* are over, a younger one after.                                           *)
KeyAge ==
  /\ born = "none" => count = 0 /\ ttl = 0
  /\ born = "before" => count > 0 /\ ttl > 0 /\ age + ttl <= Window
  /\ born = "since" => count > 0 /\ ttl > 0 /\ age + ttl >= Window

(* The observer has seen every request of a younger key. *)
AllSeen == born # "before" => asked >= count

(* What was admitted under the keys of the observer's time. *)
Admissions ==
  age < Window /\ (limiter = "gateway" => blind = 0) =>
    /\ born = "none" => admitted <= Requests - 1
    /\ born = "before" => admitted <= Allowed - 1
    /\ born = "since" => admitted <= Requests - 1 + Allowed

LimiterInv == LimitTypeOK /\ KeyAge /\ AllSeen /\ Admissions

LEMMA LimiterInit == LimitInit => LimiterInv
  BY RateLimitAssumption, SMT DEF LimitInit, LimiterInv, LimitTypeOK, KeyAge, AllSeen,
         Admissions, Allowed

(* The script, whoever runs it and whatever is made of its answer. *)
LEMMA ScriptStep ==
  ASSUME LimiterInv, IncrWithExpiry, UNCHANGED <<limiter, age>>
  PROVE  /\ count' \in 0 .. MaxCount /\ ttl' \in 0 .. Window
         /\ asked' \in 0 .. MaxCount /\ born' \in {"none", "before", "since"}
         /\ KeyAge' /\ AllSeen'
  BY RateLimitAssumption, SMT DEF LimiterInv, LimitTypeOK, KeyAge, AllSeen,
         IncrWithExpiry, Up, limitVars, key

LEMMA LimiterStep ==
  ASSUME LimiterInv, [LimitNext]_limitVars PROVE LimiterInv'
<1> USE RateLimitAssumption
<1>1. CASE Ask
  <2>1. KeyAge' /\ AllSeen'
        BY <1>1, ScriptStep DEF Ask
  <2>2. LimitTypeOK'
        BY <1>1, ScriptStep, SMT DEF Ask, LimiterInv, LimitTypeOK, Up
  <2>3. Admissions'
    <3>1. CASE Exceeds(count')
          BY <1>1, <3>1, SMT
             DEF Ask, IncrWithExpiry, Exceeds, Up, LimiterInv, LimitTypeOK,
                 KeyAge, Admissions, Allowed
    <3>2. CASE ~Exceeds(count')
          BY <1>1, <3>2, SMT
             DEF Ask, IncrWithExpiry, Exceeds, Up, LimiterInv, LimitTypeOK,
                 KeyAge, Admissions, Allowed
    <3> QED BY <3>1, <3>2
  <2> QED BY <2>1, <2>2, <2>3 DEF LimiterInv
<1>2. CASE ValkeyFails
  <2>1. KeyAge' /\ AllSeen' /\ LimitTypeOK'
    <3>1. CASE IncrWithExpiry
          BY <1>2, <3>1, ScriptStep, SMT DEF ValkeyFails, LimiterInv, LimitTypeOK, Up
    <3>2. CASE UNCHANGED <<key, born, asked>>
          BY <1>2, <3>2, SMT
             DEF ValkeyFails, LimiterInv, LimitTypeOK, KeyAge, AllSeen, Up, key
    <3> QED BY <1>2, <3>1, <3>2 DEF ValkeyFails
  <2>2. Admissions'
    <3>1. CASE limiter = "gateway"
          BY <1>2, <3>1 DEF ValkeyFails, Admissions
    <3>2. CASE limiter # "gateway"
          BY <1>2, <3>2, SMT
             DEF ValkeyFails, IncrWithExpiry, key, Up, LimiterInv, LimitTypeOK,
                 KeyAge, Admissions, Allowed
    <3> QED BY <3>1, <3>2
  <2> QED BY <2>1, <2>2 DEF LimiterInv
<1>3. CASE Tick
      BY <1>3, SMT DEF Tick, LimiterInv, LimitTypeOK, KeyAge, AllSeen, Admissions, Allowed
<1>4. CASE Watch
      BY <1>4, SMT
         DEF Watch, key, LimiterInv, LimitTypeOK, KeyAge, AllSeen,
             Admissions, Allowed
<1>5. CASE UNCHANGED limitVars
      BY <1>5, SMT
         DEF limitVars, key, LimiterInv, LimitTypeOK, KeyAge, AllSeen,
             Admissions, Allowed
<1> QED BY <1>1, <1>2, <1>3, <1>4, <1>5 DEF LimitNext

LEMMA LimiterInvariance == LimitSpec => []LimiterInv
  BY LimiterInit, LimiterStep, PTL DEF LimitSpec

(* Types, for every limit and window. *)
THEOREM RateLimitTypeOK == LimitSpec => []LimitTypeOK
  BY LimiterInvariance, PTL DEF LimiterInv

(* Any stretch of time no longer than a window admits less than twice the   *)
(* limit (UserRateLimiter while Valkey answers, Allow whatever it does).    *)
THEOREM RateLimitBurstBounded == LimitSpec => []BurstBounded
<1>1. LimiterInv => BurstBounded
      BY RateLimitAssumption, SMT DEF LimiterInv, LimitTypeOK, KeyAge, Admissions,
             Allowed, BurstBounded
<1> QED BY <1>1, LimiterInvariance, PTL

(* A refusal is earned within the last Window ticks (IncrWithExpiryScript   *)
(* starts the expiry with the first request and never renews it).           *)
THEOREM RateLimitRefusedOnlyBusy == LimitSpec => []RefusedOnlyBusy
<1>1. LimiterInv => RefusedOnlyBusy
      BY RateLimitAssumption, SMT DEF LimiterInv, LimitTypeOK, KeyAge, AllSeen,
             Exceeds, RefusedOnlyBusy
<1> QED BY <1>1, LimiterInvariance, PTL

=============================================================================
