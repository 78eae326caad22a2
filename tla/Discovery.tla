----------------------------- MODULE Discovery -----------------------------
(***************************************************************************)
(* How the nodes find each other (peer_discovery.py and the configuration  *)
(* read by node.py): every node says HELLO to the peers it can reach, and  *)
(* nodes that are not behind a NAT pass a HELLO on until its TTL is used   *)
(* up.  Who hears of a new peer answers with a HELLO of its own, and notes *)
(* from whom the HELLO came: through that node the peer can be reached.    *)
(*                                                                         *)
(* A handler passes the HELLO on before it notes the sender, with a pause  *)
(* for every peer, so the two are steps of their own.  The outbox, the     *)
(* network and the limits of dispatch_message may lose a message: that is  *)
(* a HELLO no step ever takes, which only the fairness of Spec excludes.   *)
(***************************************************************************)
EXTENDS Naturals, FiniteSets

CONSTANTS
    Node,       \* the nodes
    NATed,      \* the nodes behind a NAT
    Lan,        \* the localnetworkid of every node; none is a value too
    Listed,     \* the nodes in the configuration file of every node
    MaxTTL,     \* the TTL of a new HELLO
    Rounds      \* bound: the rounds of the discovery loop of every node

ASSUME NodesAssumption ==
    /\ NATed \subseteq Node
    /\ Listed \in [Node -> SUBSET Node] /\ \A n \in Node : n \in Listed[n]
ASSUME TTLAssumption == MaxTTL \in Nat \ {0} /\ Rounds \in [Node -> Nat]

VARIABLES
    known_peers,  \* the peers every node knows, with their address and configuration
    reachable_by, \* for every node and peer, the ways to the peer: relay and cost
    hellos,       \* the HELLOs in outboxes and on their way
    handling,     \* the HELLOs that have been passed on and not yet noted
    rounds,       \* rounds the discovery loop of every node has made
    failed        \* history: <<node, sender>> of the handlers that ended in a KeyError

tables == <<known_peers, reachable_by>>
vars == <<tables, hellos, handling, rounds, failed>>

-----------------------------------------------------------------------------
\* is_reachable.  It is asked only of peers whose configuration is known.
Reach(n, p) == ({n, p} \cap NATed = {}) \/ Lan[n] = Lan[p]

\* The code's cost 1 / (TTL + 1) grows as the TTL falls.  Only its order matters, which
\* is that of the hops the HELLO has made; a direct way has cost 0.
Cost(ttl) == MaxTTL - ttl

Way == [relay : Node, cost : 0..MaxTTL]
Hello == {h \in [sender : Node, relay : Node, ttl : 0..MaxTTL, to : Node] : h.to # h.sender}

TypeOK ==
    /\ known_peers \in [Node -> SUBSET Node]
    /\ reachable_by \in [Node -> [Node -> SUBSET Way]]
    /\ hellos \subseteq Hello
    /\ handling \subseteq Hello
    /\ rounds \in [Node -> Nat]
    /\ failed \subseteq Node \X Node

\* A node starts with the peers of its configuration that it can reach, itself among them.
Init ==
    /\ known_peers = [n \in Node |-> {p \in Listed[n] : Reach(n, p)}]
    /\ reachable_by = [n \in Node |-> [p \in Node |-> {}]]
    /\ hellos = {}
    /\ handling = {}
    /\ rounds = [n \in Node |-> 0]
    /\ failed = {}

\* create_hello_message, addressed to a peer.
NewHello(n, p) == [sender |-> n, relay |-> n, ttl |-> MaxTTL, to |-> p]

\* One round of the discovery loop.
SayHello(n) ==
    /\ rounds[n] < Rounds[n]
    /\ rounds' = [rounds EXCEPT ![n] = @ + 1]
    /\ hellos' = hellos \cup {NewHello(n, p) : p \in {q \in known_peers[n] \ {n} : Reach(n, q)}}
    /\ UNCHANGED <<tables, handling, failed>>

-----------------------------------------------------------------------------
(* handle_hello_message. *)

\* Mutants: the TTL stays as it is; it is lowered twice; the relay is the one before.
Undecremented(m) == m.ttl
LoweredTwice(m) == m.ttl - 2
RelayKept(m) == m.relay

NextTTL(m) == m.ttl - 1
NewRelay(m) == m.to

Skipped(m) == {m.relay, m.to, m.sender}

\* A node that is not behind a NAT passes the HELLO on to every other peer it can reach.  So
\* it never comes back to its sender (TypeOK), where the handler would return at once.
PassedOn(m) ==
    LET n == m.to
    IN  IF NextTTL(m) > 0 /\ n \notin NATed
        THEN {[sender |-> m.sender, relay |-> NewRelay(m), ttl |-> NextTTL(m), to |-> p] :
                 p \in {q \in known_peers[n] \ Skipped(m) : Reach(n, q)}}
        ELSE {}

ReceiveHello(m) ==
    /\ m \in hellos
    /\ hellos' = (hellos \ {m}) \cup PassedOn(m)
    /\ handling' = handling \cup {[m EXCEPT !.ttl = NextTTL(m)]}
    /\ UNCHANGED <<tables, rounds, failed>>

Knowing(m) == [known_peers EXCEPT ![m.to] = @ \cup {m.sender}]

\* The ways a HELLO shows: through the node it came from, and directly.
Ways(m) ==
    {[relay |-> m.relay, cost |-> Cost(m.ttl)]}
        \cup IF Reach(m.to, m.sender) THEN {[relay |-> m.sender, cost |-> 0]} ELSE {}

\* A new peer is answered with a HELLO to the node its own HELLO came from.
Reply(m) == IF m.sender \in known_peers[m.to] THEN {} ELSE {NewHello(m.to, m.relay)}

\* The relay's address is looked up only for a reply, when the sender is known already.
ReplyFails(m) ==
    /\ m.sender \notin known_peers[m.to]
    /\ m.relay \notin known_peers[m.to] \cup {m.sender}

NoteHello(m) ==
    /\ m \in handling
    /\ handling' = handling \ {m}
    /\ ~ReplyFails(m)
    /\ known_peers' = Knowing(m)
    /\ hellos' = hellos \cup Reply(m)
    /\ reachable_by' = [reachable_by EXCEPT ![m.to][m.sender] = @ \cup Ways(m)]
    /\ UNCHANGED <<rounds, failed>>

\* If it is not known, the KeyError ends the handler half way: the sender is known, but
\* neither answered nor reachable.
NoteHelloFails(m) ==
    /\ m \in handling
    /\ handling' = handling \ {m}
    /\ ReplyFails(m)
    /\ known_peers' = Knowing(m)
    /\ failed' = failed \cup {<<m.to, m.sender>>}
    /\ UNCHANGED <<hellos, reachable_by, rounds>>

-----------------------------------------------------------------------------
Next ==
    \/ \E n \in Node : SayHello(n)
    \/ \E m \in hellos : ReceiveHello(m)
    \/ \E m \in handling : NoteHello(m)
    \/ \E m \in handling : NoteHelloFails(m)

\* The discovery loop and the handlers are threads of a running node; the outbox sends
\* what is in its queues.
Fairness ==
    /\ \A n \in Node : WF_vars(SayHello(n))
    /\ WF_vars(\E m \in hellos : ReceiveHello(m))
    /\ WF_vars(\E m \in handling : NoteHello(m) \/ NoteHelloFails(m))

SafeSpec == Init /\ [][Next]_vars
Spec == SafeSpec /\ Fairness

-----------------------------------------------------------------------------
(* Safety. *)

\* Node r has a way to s that costs less than c, or is about to note one, or its handler failed.
HasCheaperWay(r, s, c) ==
    \/ \E w \in reachable_by[r][s] : w.cost < c
    \/ \E m \in handling : m.to = r /\ m.sender = s /\ Cost(m.ttl) < c
    \/ <<r, s>> \in failed

\* Whom a node takes for a relay to s is a node it can reach, and is s itself or has a
\* cheaper way to s: following the ways by falling cost one gets to s and runs in no circle,
\* although the tables are filled by different nodes, in any order, and whatever is lost.
RelaysLead ==
    \A n, s \in Node : \A w \in reachable_by[n][s] :
        /\ Reach(n, w.relay)
        /\ w.relay = s \/ HasCheaperWay(w.relay, s, w.cost)

-----------------------------------------------------------------------------
(* Liveness. *)

Quiet == hellos = {} /\ handling = {}

\* The flood that a round of HELLOs sets off dies down, the answers to it and the floods
\* these set off included: every copy has a new message id, only the TTL stops it.
FloodEnds == <>[]Quiet
=============================================================================
