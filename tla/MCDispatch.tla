----------------------------- MODULE MCDispatch -----------------------------
(* Instance of Dispatch: three copies of one message, and a message of another id. *)
EXTENDS Dispatch, TLC

CONSTANTS c1, c2, c3, c4, p, i, j

MCSender == [c \in Call |-> p]
MCId == [c \in Call |-> IF c = c4 THEN j ELSE i]

\* The copies are alike.
Copies == Permutations({c1, c2, c3})
=============================================================================
