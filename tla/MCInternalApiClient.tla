------------------------ MODULE MCInternalApiClient ------------------------
(* Instances of InternalApiClient for TLC: one operation of each kind. *)
EXTENDS InternalApiClient, TLC

CONSTANTS c1, c2, k1

Plain(method) == [method |-> method, keyed |-> FALSE, key |-> Nil]
Keyed(method, key) == [method |-> method, keyed |-> TRUE, key |-> key]

\* A call that may be repeated or share its key, beside one that may not.
EveryKind == (c1 :> {Plain("PUT"), Plain("POST"), Keyed("POST", k1)})
             @@ (c2 :> {Keyed("PATCH", k1), Keyed("POST", Nil)})

OnePut == c1 :> {Plain("PUT")}
=============================================================================
