------------------------------- MODULE MCHub -------------------------------
(* An instance of Hub for TLC: two connections of one user.                 *)
EXTENDS Hub

CONSTANTS alice

MCUserOf == [c \in Conns |-> alice]

=============================================================================
