------------------------------ MODULE MCTxPool ------------------------------
(* A small instance of TxPool. *)
EXTENDS TxPool
=============================================================================
