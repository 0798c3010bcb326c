-------------------------- MODULE MCNotifications --------------------------
(* Instances of Notifications for TLC: the inputs the requests are called with. *)
EXTENDS Notifications, TLC

CONSTANTS r1, r2, r3, u1, u2, w1

Admitted(op, ids) == [op |-> op, user |-> u1, session |-> TRUE, csrf |-> "good", ids |-> ids]
Creation == [op : {"create"}, user : Users]
Marking == {Admitted("one", {1}), Admitted("many", {1, 2}), Admitted("all", {})}
Summaries == [op : {"summary"}, user : {u1, Nil}]

\* One input for each check a handler makes.
Refused == {[Admitted("one", {1}) EXCEPT !.user = Nil],
            [Admitted("all", {}) EXCEPT !.session = FALSE],
            [Admitted("all", {}) EXCEPT !.csrf = "missing"],
            [Admitted("one", {1}) EXCEPT !.csrf = "refused"],
            Admitted("many", {}), Admitted("one", {})}

AllInputs == Creation \cup Marking \cup Summaries \cup Refused

Symmetry == Permutations(Requests)
=============================================================================
