---------------------------- MODULE MCSseHandler ----------------------------
(* Instances of SseHandler for TLC: which broker serves which stream. *)
EXTENDS SseHandler, TLC

CONSTANTS b1, b2

OneOfThree == <<b1, b2, b1>>

TwoAndOne == (b1 :> 2) @@ (b2 :> 1)
=============================================================================
