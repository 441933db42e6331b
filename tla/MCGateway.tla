------------------------------ MODULE MCGateway ------------------------------
(* Instances of Gateway for TLC: two browsers and two users, so that a      *)
(* browser may change its user and a user be in two browsers.              *)
EXTENDS Gateway, TLC

Symmetry ==
  Permutations(Users) \cup Permutations(Calls) \cup Permutations(Tokens)
    \cup Permutations(Browsers)

=============================================================================
