------------------------------- MODULE MCLink -------------------------------
(* Instance of Link. *)
EXTENDS Link, TLC

CONSTANTS c1, c2, c3

\* The calls are alike.
Calls == Permutations({c1, c2, c3})
=============================================================================
