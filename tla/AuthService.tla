----------------------------- MODULE AuthService -----------------------------
(***************************************************************************)
(* The auth service (services/auth): registration, login, and sessions kept *)
(* as refresh tokens.  A call runs one query at a time against PostgreSQL   *)
(* or Valkey; other calls, of any replica, run between its queries.         *)
(*                                                                         *)
(* A user stands for an email address and the account that has it: the      *)
(* UNIQUE constraint on accounts.email makes them one to one.  A session is *)
(* named by its first refresh token.                                        *)
(*                                                                         *)
(* External: PostgreSQL, Valkey and JetStream, each of which may fail, also *)
(* after a write took effect; Valkey's expiry; the rate limiter, a counter, *)
(* of which only the refusal is modelled; whether a password is right.      *)
(* Left out: access tokens, which are not stored.                           *)
(***************************************************************************)
CONSTANTS
  Users,
  Tokens,     (* the refresh tokens uuid.New draws, each at most once      *)
  Calls,      (* the calls made                                            *)
  NoUser, NoToken

ASSUME AuthAssumption == NoUser \notin Users /\ NoToken \notin Tokens

VARIABLES
  accounts,   (* the users that have an account                            *)
  tokens,     (* tokens[t]: the key of t in Valkey, and the session of t   *)
  call,       (* call[k]: the request of k and how far it is               *)
  stream,     (* the users whose registration is in the stream AUTH        *)
  loggedOut   (* history: the sessions whose live token a Logout deleted   *)

vars == <<accounts, tokens, call, stream, loggedOut>>

Unused == [state |-> "unused", user |-> NoUser, session |-> NoToken]

Key == {Unused} \cup [state : {"live", "gone"}, user : Users, session : Tokens]

Op == {"register", "login", "refresh", "logout"}
Code == {"", "OK", "AlreadyExists", "Unauthenticated", "Unavailable", "Internal"}
Point == {"idle", "lookup", "create", "revive", "delete", "token", "publish", "reply"}

(* token: the one given; session: that of the token to be issued, if it     *)
(* continues one; issued: the new token, once it is stored.                 *)
CallState ==
  [op : Op \cup {"none"}, user : Users \cup {NoUser}, token : Tokens \cup {NoToken},
   at : Point, session : Tokens \cup {NoToken}, issued : Tokens \cup {NoToken},
   reply : Code]

-----------------------------------------------------------------------------
(* The progress of a call *)

At(k, ops, point) == call[k].op \in ops /\ call[k].at = point

Becomes(k, new) == call' = [call EXCEPT ![k] = new]

Goto(k, point) == Becomes(k, [call[k] EXCEPT !.at = point])

Answer(k, code) == Becomes(k, [call[k] EXCEPT !.at = "reply", !.reply = code])

(* An error of a query is "internal" to the caller, whether or not the      *)
(* query took effect.                                                       *)
Fail(k) == Answer(k, "Internal")

Fresh(op, u, t, point, code) ==
  [op |-> op, user |-> u, token |-> t, at |-> point, session |-> NoToken,
   issued |-> NoToken, reply |-> code]

(* The tokens that clients have. *)
Known == {call[k].issued : k \in {j \in Calls : call[j].reply = "OK"}} \ {NoToken}

-----------------------------------------------------------------------------
(* Requests *)

(* The limiter lets the request through, refuses it or fails.               *)
Credentials(k, op, u) ==
  /\ call[k].at = "idle"
  /\ op \in {"register", "login"}
  /\ \/ Becomes(k, Fresh(op, u, NoToken, "lookup", ""))
     \/ \E code \in {"Unavailable", "Internal"} :
          Becomes(k, Fresh(op, u, NoToken, "reply", code))
  /\ UNCHANGED <<accounts, tokens, stream, loggedOut>>

Present(k, op, t) ==
  /\ call[k].at = "idle"
  /\ \/ op = "refresh" /\ Becomes(k, Fresh(op, NoUser, t, "revive", ""))
     \/ op = "logout" /\ Becomes(k, Fresh(op, NoUser, t, "delete", ""))
  /\ UNCHANGED <<accounts, tokens, stream, loggedOut>>

-----------------------------------------------------------------------------
(* Accounts *)

GetAccountByEmail(k) ==
  /\ call[k].at = "lookup"
  /\ LET exists == call[k].user \in accounts
     IN \/ call[k].op = "register" /\ exists /\ Answer(k, "AlreadyExists")
        \/ call[k].op = "register" /\ ~exists /\ Goto(k, "create")
        \/ call[k].op = "login" /\ Answer(k, "Unauthenticated")
        \/ call[k].op = "login" /\ exists /\ Goto(k, "token")
  /\ UNCHANGED <<accounts, tokens, stream, loggedOut>>

CreateAccountUnsure(k) ==
  /\ call[k].at = "create"
  /\ \/ accounts' = accounts \cup {call[k].user} /\ Goto(k, "token")
     \/ UNCHANGED accounts /\ Goto(k, "token")
  /\ UNCHANGED <<tokens, stream, loggedOut>>
(* Somebody may have registered the address since the lookup: the violation *)
(* of the unique constraint is recognised.                                  *)
CreateAccount(k) ==
  /\ call[k].at = "create"
  /\ \/ /\ call[k].user \in accounts
        /\ Answer(k, "AlreadyExists")
        /\ UNCHANGED accounts
     \/ /\ call[k].user \notin accounts
        /\ accounts' = accounts \cup {call[k].user}
        /\ Goto(k, "token") \/ Fail(k)
  /\ UNCHANGED <<tokens, stream, loggedOut>>

-----------------------------------------------------------------------------
(* Refresh tokens *)

(* The last step of generateTokenPair.  A session begins with a token that  *)
(* continues none.                                                          *)
SaveRefreshToken(k) ==
  /\ call[k].at = "token"
  /\ \E t \in Tokens :
       /\ tokens[t].state = "unused"
       /\ tokens' = [tokens EXCEPT ![t] =
            [state |-> "live", user |-> call[k].user,
             session |-> IF call[k].session = NoToken THEN t ELSE call[k].session]]
       /\ \/ /\ call[k].op = "register"
             /\ Becomes(k, [call[k] EXCEPT !.at = "publish", !.issued = t])
          \/ /\ call[k].op # "register"
             /\ Becomes(k, [call[k] EXCEPT !.at = "reply", !.issued = t, !.reply = "OK"])
          \/ Fail(k)
  /\ UNCHANGED <<accounts, stream, loggedOut>>

Revived(k, t) ==
  \/ Becomes(k, [call[k] EXCEPT !.at = "token", !.user = tokens[t].user,
                                !.session = tokens[t].session])
  \/ Fail(k)

ReviveWithoutDelete(k) ==
  /\ call[k].at = "revive"
  /\ LET t == call[k].token
     IN \/ tokens[t].state = "live" /\ Revived(k, t)
        \/ tokens[t].state # "live" /\ Answer(k, "Unauthenticated")
  /\ UNCHANGED <<accounts, tokens, stream, loggedOut>>
(* GetAndDeleteScript reads and deletes in one step. *)
ReviveRefreshToken(k) ==
  /\ call[k].at = "revive"
  /\ LET t == call[k].token
     IN \/ /\ tokens[t].state = "live"
           /\ tokens' = [tokens EXCEPT ![t].state = "gone"]
           /\ Revived(k, t)
        \/ /\ tokens[t].state # "live"
           /\ Answer(k, "Unauthenticated")
           /\ UNCHANGED tokens
  /\ UNCHANGED <<accounts, stream, loggedOut>>

Deleted(k, t) ==
  /\ loggedOut' = IF tokens[t].state = "live" THEN loggedOut \cup {tokens[t].session}
                                              ELSE loggedOut
  /\ Answer(k, "OK") \/ Fail(k)

(* Logout does not mind that the key is gone. *)
DeleteRefreshToken(k) ==
  /\ call[k].at = "delete"
  /\ LET t == call[k].token
     IN /\ tokens' = [tokens EXCEPT ![t].state = "gone"]
        /\ Deleted(k, t)
  /\ UNCHANGED <<accounts, stream>>

-----------------------------------------------------------------------------
(* The event *)

PublishUserRegistered(k) ==
  /\ call[k].at = "publish"
  /\ stream' = stream \cup {call[k].user}
  /\ Answer(k, "OK")
  /\ UNCHANGED <<accounts, tokens, loggedOut>>

(* The caller is told of success all the same. *)
PublishFails(k) ==
  /\ call[k].at = "publish"
  /\ Answer(k, "OK")
  /\ UNCHANGED <<accounts, tokens, stream, loggedOut>>

QueryFails(k) ==
  /\ call[k].at \in {"lookup", "create", "token", "revive", "delete"}
  /\ Fail(k)
  /\ UNCHANGED <<accounts, tokens, stream, loggedOut>>

(* The time to live of a key. *)
Expire(t) ==
  /\ tokens[t].state = "live"
  /\ tokens' = [tokens EXCEPT ![t].state = "gone"]
  /\ UNCHANGED <<accounts, call, stream, loggedOut>>

-----------------------------------------------------------------------------

Init ==
  /\ accounts = {}
  /\ tokens = [t \in Tokens |-> Unused]
  /\ call = [k \in Calls |-> Fresh("none", NoUser, NoToken, "idle", "")]
  /\ stream = {}
  /\ loggedOut = {}

Handle(k) ==
  \/ GetAccountByEmail(k) \/ CreateAccount(k)
  \/ SaveRefreshToken(k) \/ ReviveRefreshToken(k) \/ DeleteRefreshToken(k)
  \/ PublishUserRegistered(k) \/ PublishFails(k)
  \/ QueryFails(k)

Next ==
  \/ \E k \in Calls :
       \/ \E op \in Op, u \in Users : Credentials(k, op, u)
       \/ \E op \in Op, t \in Known : Present(k, op, t)
       \/ Handle(k)
  \/ \E t \in Tokens : Expire(t)

Spec == Init /\ [][Next]_vars

-----------------------------------------------------------------------------
(* Properties *)

TypeOK ==
  /\ accounts \subseteq Users
  /\ tokens \in [Tokens -> Key]
  /\ call \in [Calls -> CallState]
  /\ stream \subseteq Users
  /\ loggedOut \subseteq Tokens

(* k is a registration that got past the account.                           *)
Won(k) == call[k].op = "register" /\ (call[k].at \in {"token", "publish"} \/ call[k].reply = "OK")

(* However many registrations of an address run at once, one of them at     *)
(* most gets past the account: it alone gets a session, and the user        *)
(* service hears of accounts that exist.                                    *)
OneRegistrationWins ==
  /\ stream \subseteq accounts
  /\ \A j, k \in Calls : Won(j) /\ Won(k) /\ call[j].user = call[k].user => j = k

Live(s) == {t \in Tokens : tokens[t].state = "live" /\ tokens[t].session = s}

(* The calls that have taken the token of session s and not yet stored the  *)
(* next one.                                                                *)
Rotating(s) == {k \in Calls : At(k, {"refresh"}, "token") /\ call[k].session = s}

(* "Making each refresh token single-use": however many refreshes present   *)
(* the same token at once, and whatever answers get lost, a session has one *)
(* token at most, in Valkey or in the hands of the one call that rotates it,*)
(* and stays its user's.                                                    *)
SessionsDoNotFork ==
  \A s \in Tokens :
    /\ \A t, v \in Live(s) : t = v
    /\ \A j, k \in Rotating(s) : j = k
    /\ Live(s) = {} \/ Rotating(s) = {}
    /\ \A t \in Live(s) : tokens[t].user = tokens[s].user

(* A Logout that finds its token ends the session for good: no refresh that *)
(* was under way brings it back.  (One that comes while a refresh holds the *)
(* token finds nothing and ends nothing.)                                   *)
LoggedOutStaysOut ==
  \A s \in loggedOut : Live(s) = {} /\ Rotating(s) = {}

=============================================================================
