------------------------------ MODULE MCRelay ------------------------------
(* Instance of Discovery and Relay: d behind the NAT of a network, g its open node, p and q *)
(* outside.                                                                                 *)
EXTENDS Relay, TLC

CONSTANTS d, g, p, q, NoLan

MCLan == [n \in Node |-> IF n \in {d, g} THEN 1 ELSE NoLan]

\* Every node has a configuration of its own, in which it does not find all others.
MCListed == (d :> {d, g}) @@ (g :> {g, p, q}) @@ (p :> {g, p}) @@ (q :> {p, q})
MCListedWider == [n \in Node |-> IF n = q THEN {q} ELSE Node]

\* Who greets.
MCRounds == [n \in Node |-> IF n = d THEN 1 ELSE 0]

\* The gateway g is the nearest.
MCLatency == [n \in Node |-> [r \in Node |-> IF r = g THEN 1 ELSE 2]]
=============================================================================
