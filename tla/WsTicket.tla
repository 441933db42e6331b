------------------------------- MODULE WsTicket -------------------------------
(***************************************************************************)
(* The handshake of a WebSocket connection: the gateway issues a ticket    *)
(* (POST /auth/ws-ticket), the client connects to nginx with it, nginx     *)
(* asks the gateway (auth_request, /auth/validate) and, if it says yes,    *)
(* passes the request on to the websocket service, which checks the ticket *)
(* itself.                                                                 *)
(*                                                                         *)
(* External: Valkey, whose SET EX and GETDEL are atomic and may fail; the  *)
(* client, which uses its ticket once; the upgrade, which may fail.        *)
(***************************************************************************)
CONSTANTS
  Clients,
  Users,
  NoUser      (* no value under a key                                      *)

VARIABLES
  stored,     (* stored[c]: the value of the key of c's ticket             *)
  at,         (* where the handshake of c is                               *)
  expired,    (* the clients whose ticket ran out before it was used       *)
  failed      (* the clients a failure, or a bad room_id, met              *)

vars == <<stored, at, expired, failed>>

Handshake == {"new", "issued", "validate", "upstream", "room", "upgrade", "open",
              "unauthenticated", "refused"}

Move(c, from, to) == at[c] = from /\ at' = [at EXCEPT ![c] = to]

(* GETDEL, in whose answer the ticket is gone. *)
Getdel(c, from, to) ==
  /\ Move(c, from, IF stored[c] = NoUser THEN "unauthenticated" ELSE to)
  /\ stored' = [stored EXCEPT ![c] = NoUser]
  /\ UNCHANGED <<expired, failed>>

-----------------------------------------------------------------------------
(* Gateway *)

CreateTicket(c, u) ==
  /\ Move(c, "new", "issued")
  /\ stored' = [stored EXCEPT ![c] = u]
  /\ UNCHANGED <<expired, failed>>

(* GET /auth/validate, nginx's subrequest. *)
ValidateTicket(c) == Getdel(c, "validate", "upstream")

-----------------------------------------------------------------------------
(* nginx *)

AuthRequest(c) == Move(c, "issued", "validate") /\ UNCHANGED <<stored, expired, failed>>

-----------------------------------------------------------------------------
(* Websocket service: HandleWS up to the upgrade *)

HandleWS(c) == Getdel(c, "upstream", "room")

CheckRoom(c) ==
  \/ Move(c, "room", "upgrade") /\ UNCHANGED <<stored, expired, failed>>
  \/ /\ Move(c, "room", "refused")
     /\ failed' = failed \cup {c}
     /\ UNCHANGED <<stored, expired>>

Accept(c) == Move(c, "upgrade", "open") /\ UNCHANGED <<stored, expired, failed>>

-----------------------------------------------------------------------------

(* The TTL of a ticket nobody has used yet. *)
Expire(c) ==
  /\ stored[c] # NoUser
  /\ stored' = [stored EXCEPT ![c] = NoUser]
  /\ expired' = expired \cup {c}
  /\ UNCHANGED <<at, failed>>

(* Valkey, or the upgrade, fails. *)
Fails(c) ==
  /\ at[c] \in {"validate", "upstream", "upgrade"}
  /\ at' = [at EXCEPT ![c] = IF at[c] = "upstream" THEN "unauthenticated" ELSE "refused"]
  /\ failed' = failed \cup {c}
  /\ UNCHANGED <<stored, expired>>

Init ==
  /\ stored = [c \in Clients |-> NoUser]
  /\ at = [c \in Clients |-> "new"]
  /\ expired = {} /\ failed = {}

Next ==
  \E c \in Clients :
    \/ \E u \in Users : CreateTicket(c, u)
    \/ AuthRequest(c) \/ ValidateTicket(c)
    \/ HandleWS(c) \/ CheckRoom(c) \/ Accept(c)
    \/ Expire(c) \/ Fails(c)

Spec == Init /\ [][Next]_vars

-----------------------------------------------------------------------------
(* Properties *)

(* "If the ticket is valid, [...] the WebSocket connection is established": *)
(* who used its ticket once, in time, and met no failure, is not turned away*)
(* as unauthenticated.                                                      *)
ValidTicketConnects ==
  \A c \in Clients : at[c] = "unauthenticated" => c \in expired \cup failed

=============================================================================
