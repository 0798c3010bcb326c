-------------------------- MODULE MCSessionCookies --------------------------
(* Instances of SessionCookies for TLC. *)
EXTENDS SessionCookies, TLC

CONSTANTS a, b, t1, t2, t3, x1, x2, x3

Symmetry == Permutations(Tabs) \cup Permutations(Tokens) \cup Permutations(CsrfTokens)
=============================================================================
