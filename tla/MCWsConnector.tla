--------------------------- MODULE MCWsConnector ---------------------------
(* Instances of WsConnector for TLC. *)
EXTENDS WsConnector

CONSTANTS c1, c2, alice

(* Two connections of one user. *)
MCUserOf == [c \in Conns |-> alice]

=============================================================================
