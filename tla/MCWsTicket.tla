----------------------------- MODULE MCWsTicket -----------------------------
(* The instance of WsTicket for TLC: one client is enough, since no two     *)
(* tickets are the same.                                                    *)
EXTENDS WsTicket

=============================================================================
