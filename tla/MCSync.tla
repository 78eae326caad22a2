------------------------------- MODULE MCSync -------------------------------
(* Instance of Sync: both blocks are a's, b has just joined and knows nobody else, c is light. *)
EXTENDS Sync

CONSTANTS a, b, c, b1, b2

MCKnown == [n \in Node |-> IF n = b THEN {a, b} ELSE Node]
MCFanout == [n \in Node |-> 1]
MCCreator == [blk \in Block |-> a]
MCRounds == [n \in Node |-> IF n \in {a, c} THEN 1 ELSE 0]
=============================================================================
