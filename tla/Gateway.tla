------------------------------- MODULE Gateway -------------------------------
(***************************************************************************)
(* The session routes of the gateway (services/gateway) between browsers   *)
(* and the auth service.  The gateway keeps no state of its own: a session *)
(* is in the browser as two cookies, and in Valkey as AuthService has it.  *)
(* The tabs of a browser share its cookies and send requests at will; each *)
(* request becomes one call of the auth service, and its answer, which may *)
(* come in any order or not at all, sets or clears the cookies.            *)
(*                                                                         *)
(* An access token is abstracted to its user.                              *)
(*                                                                         *)
(* External: browsers and the network.  Left out: requests refused before  *)
(* they reach the auth service, which leave everything as it was.          *)
(***************************************************************************)
EXTENDS AuthService

CONSTANTS Browsers, NoBrowser

ASSUME GatewayAssumption == NoBrowser \notin Browsers

VARIABLES
  jar,        (* jar[b]: the cookies of b                                  *)
  from,       (* from[k]: the browser that waits for the answer of call k  *)
  alone,      (* history: the calls whose browser sent no other meanwhile  *)
  troubled,   (* history: the browsers a failure or a lost answer met      *)
  expired,    (* history: the tokens that expired                          *)
  ended       (* history: the sessions an undisturbed logout has ended     *)

cookies == <<jar, alone, troubled, expired, ended, from>>

gatewayVars == <<vars, cookies>>

NoCookies == [access |-> NoUser, refresh |-> NoToken]

Jar == [access : Users \cup {NoUser}, refresh : Tokens \cup {NoToken}]

Waiting(b) == {k \in Calls : from[k] = b}

(* The user for whom a request of b to a protected route is served; without *)
(* one it is refused.                                                       *)
JWTAuth(b) == jar[b].access

-----------------------------------------------------------------------------
(* Requests *)

(* The gateway passes call k on for browser b. *)
Forward(b, k) ==
  /\ from' = [from EXCEPT ![k] = b]
  /\ alone' = {j \in alone : from[j] # b} \cup {j \in {k} : Waiting(b) = {}}
  /\ UNCHANGED <<jar, troubled, expired, ended>>

(* register and login *)
SignIn(b, k) ==
  /\ \E op \in Op, u \in Users : Credentials(k, op, u)
  /\ Forward(b, k)

Refresh(b, k) ==
  /\ jar[b].refresh # NoToken
  /\ Present(k, "refresh", jar[b].refresh)
  /\ Forward(b, k)

LogoutWithoutCall(b, k) ==
  /\ jar' = [jar EXCEPT ![b] = NoCookies]
  /\ ended' = ended \cup {tokens[t].session : t \in {jar[b].refresh} \ {NoToken}}
  /\ UNCHANGED <<vars, from, alone, troubled, expired>>
(* Without a refresh token there is nothing to end. *)
Logout(b, k) ==
  \/ /\ jar[b].refresh # NoToken
     /\ Present(k, "logout", jar[b].refresh)
     /\ Forward(b, k)
  \/ /\ jar[b].refresh = NoToken
     /\ jar' = [jar EXCEPT ![b] = NoCookies]
     /\ UNCHANGED <<vars, from, alone, troubled, expired, ended>>

-----------------------------------------------------------------------------
(* Answers *)

SetRefreshOnce(b, k) ==
  jar' = [jar EXCEPT ![b] = [access |-> call[k].user,
                             refresh |-> IF @.refresh = NoToken THEN call[k].issued ELSE @.refresh]]
SetAccessFirst(b, k) ==
  jar' = [jar EXCEPT ![b] = [access |-> IF @.access = NoUser THEN call[k].user ELSE @.access,
                             refresh |-> call[k].issued]]
setAuthCookies(b, k) ==
  jar' = [jar EXCEPT ![b] = [access |-> call[k].user, refresh |-> call[k].issued]]

clearAuthCookies(b) == jar' = [jar EXCEPT ![b] = NoCookies]

Returns(k) ==
  /\ call[k].at = "reply" /\ from[k] # NoBrowser
  /\ from' = [from EXCEPT ![k] = NoBrowser]
  /\ alone' = alone \ {k}
  /\ UNCHANGED <<vars, expired>>

SignedIn(k) ==
  /\ Returns(k)
  /\ call[k].reply = "OK" /\ call[k].op # "logout"
  /\ setAuthCookies(from[k], k)
  /\ UNCHANGED <<troubled, ended>>

SignedOut(k) ==
  /\ Returns(k)
  /\ call[k].reply = "OK" /\ call[k].op = "logout"
  /\ clearAuthCookies(from[k])
  /\ ended' = IF k \in alone /\ from[k] \notin troubled
              THEN ended \cup {tokens[call[k].token].session} ELSE ended
  /\ UNCHANGED troubled

(* WriteError leaves the cookies alone. *)
Refused(k) ==
  /\ Returns(k)
  /\ call[k].reply # "OK"
  /\ troubled' = troubled \cup {b \in {from[k]} : call[k].reply = "Internal"}
  /\ UNCHANGED <<jar, ended>>

(* The gateway gives up after its timeout, or the browser never hears: the  *)
(* call goes on.                                                            *)
NotAnswered(k) ==
  /\ from[k] # NoBrowser
  /\ from' = [from EXCEPT ![k] = NoBrowser]
  /\ alone' = alone \ {k}
  /\ troubled' = troubled \cup {from[k]}
  /\ UNCHANGED <<vars, jar, expired, ended>>

-----------------------------------------------------------------------------
(* Time *)

(* The cookie and the token in it run out together. *)
AccessExpires(b) ==
  /\ jar[b].access # NoUser
  /\ jar' = [jar EXCEPT ![b].access = NoUser]
  /\ UNCHANGED <<vars, from, alone, troubled, expired, ended>>

RefreshExpires(t) ==
  /\ Expire(t)
  /\ expired' = expired \cup {t}
  /\ UNCHANGED <<jar, from, alone, troubled, ended>>

-----------------------------------------------------------------------------

GatewayInit ==
  /\ Init
  /\ jar = [b \in Browsers |-> NoCookies]
  /\ from = [k \in Calls |-> NoBrowser]
  /\ alone = {} /\ troubled = {} /\ expired = {} /\ ended = {}

GatewayNext ==
  \/ \E b \in Browsers :
       \/ \E k \in Calls : SignIn(b, k) \/ Refresh(b, k) \/ Logout(b, k)
       \/ AccessExpires(b)
  \/ \E k \in Calls :
       \/ Handle(k) /\ UNCHANGED cookies
       \/ SignedIn(k) \/ SignedOut(k) \/ Refused(k) \/ NotAnswered(k)
  \/ \E t \in Tokens : RefreshExpires(t)

GatewaySpec == GatewayInit /\ [][GatewayNext]_gatewayVars

-----------------------------------------------------------------------------
(* Properties *)

CookiesTypeOK ==
  /\ jar \in [Browsers -> Jar]
  /\ from \in [Calls -> Browsers \cup {NoBrowser}]
  /\ alone \subseteq Calls
  /\ troubled \subseteq Browsers
  /\ expired \subseteq Tokens
  /\ ended \subseteq Tokens

(* However many tabs sign in, refresh and log out at once, and in whatever  *)
(* order their answers come: once they have all come, a refresh token left  *)
(* in the browser is one that the auth service still knows, unless it has   *)
(* expired.                                                                 *)
CookieIsGood ==
  \A b \in Browsers :
    Waiting(b) = {} /\ b \notin troubled /\ jar[b].refresh # NoToken
      => jar[b].refresh \in expired \/ tokens[jar[b].refresh].state = "live"

(* Protected routes serve a browser as the user whose session it holds, and *)
(* could refresh or end, also when one user's refresh is answered after     *)
(* another user has signed in.                                              *)
CookiesAgree ==
  \A b \in Browsers :
    JWTAuth(b) # NoUser =>
      /\ jar[b].refresh # NoToken
      /\ tokens[jar[b].refresh].user = JWTAuth(b)

(* A logout that found its token, or that the browser sent with no other    *)
(* request under way and was told of, ended the session for good: no token  *)
(* of it is left or comes back.                                             *)
LogoutEnds == \A s \in loggedOut \cup ended : Live(s) = {} /\ Rotating(s) = {}

=============================================================================
