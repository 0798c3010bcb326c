---------------------------- MODULE MCSseBroker ----------------------------
(***************************************************************************)
(* Instances of SseBroker for TLC.                                         *)
(***************************************************************************)
EXTENDS SseBroker, TLC

CONSTANTS c1, c2, c3, s1, s2, s3, u1, u2, p1, p2, home, f1

\* Every client subscribes through this broker alone.
OwnIds == <<>>

\* The broker is also the second stream of one endpoint.
BorrowedOne == (c3 :> 2)

\* The broker is the second stream of one endpoint: ids come from the first.
BorrowedPair == (c1 :> 2) @@ (c2 :> 1)

\* A user with two sessions, another one who shares a session, and an anonymous
\* one with two sessions.
SharedGrants == {<<s1, u1>>, <<s2, u1>>, <<s2, u2>>, <<s1, NoUser>>, <<s2, NoUser>>}

\* A session belongs to one user; u1 has two, so rotation can happen.
OwnGrants == {<<s1, u1>>, <<s2, u2>>, <<s3, u1>>}
TwoSessions == {<<s1, u1>>, <<s2, u1>>}

\* An anonymous tab gets its user, a user another id, and one the same.
AnyRename == {<<NoUser, u1>>, <<u1, u2>>, <<u1, u1>>}
NoRenames == {}
NoPages == <<>>
HomeShowsNothing == (home :> {})

ToUsers(us, active, f) ==
    [to |-> "users", users |-> us, active |-> active, filter |-> f]
NoCalls == {}
TableCalls ==
    {[to |-> "all"], [to |-> "ids", ids |-> {1, 2}],
     ToUsers({u1, u2}, Sessions, NoFilter), ToUsers({u1}, {s1, s2}, f1)}

ClientSymmetry == Permutations(Primary)
=============================================================================
