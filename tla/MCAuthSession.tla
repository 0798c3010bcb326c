--------------------------- MODULE MCAuthSession ---------------------------
(***************************************************************************)
(* Instances of AuthSession for TLC.                                       *)
(***************************************************************************)
EXTENDS AuthSession, TLC

CONSTANTS r1, r2, r3, t1, t2, t3, u1, u2

\* Either the clock stands, no token is issued yet, and one of the counters may
\* move; or the clock runs, with one token to issue, and the roles may change.
MCInit ==
    /\ Init
    /\ \/ /\ now = MaxTime /\ issued = {}
          /\ \A u \in Users : roles[u] = MaxVersion
          /\ csrfSeq = MaxCsrf \/ roleProvider = MaxProvider
       \/ /\ now = 0 /\ Cardinality(Tokens \ issued) = 1
          /\ \A u \in Users : roles[u] = 0
          /\ csrfSeq = MaxCsrf /\ roleProvider = MaxProvider

MCSpec == MCInit /\ [][Next]_vars

Symmetry ==
    Permutations(Requests) \cup Permutations(Tokens) \cup Permutations(Users)
=============================================================================
