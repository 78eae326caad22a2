------------------------------ MODULE MCOutbox ------------------------------
(* A small instance of Outbox: three messages of two priorities for one peer, more than
   its queue holds, and a RELAY for another. *)
EXTENDS Outbox

CONSTANTS a, b, m1, m2, m3, m4

MCTo == [m \in Msg |-> IF m \in {m1, m2, m3} THEN a ELSE b]
MCTypeOf ==
    [m \in Msg |-> IF m = m1 THEN "PING" ELSE IF m = m4 THEN "RELAY" ELSE "INV"]
=============================================================================
