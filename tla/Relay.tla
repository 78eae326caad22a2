-------------------------------- MODULE Relay --------------------------------
(***************************************************************************)
(* Messages for a peer that cannot be reached directly go through relays   *)
(* (relay_or_direct_send and get_relay_peer of outbox.py, the RELAY branch *)
(* of dispatch_message), chosen from what Discovery has noted and while    *)
(* it goes on noting.                                                      *)
(*                                                                         *)
(* A relay that cannot reach the target either puts the RELAY it received  *)
(* into a RELAY of its own, so a RELAY carries the senders of all of them. *)
(***************************************************************************)
EXTENDS Discovery, Sequences

CONSTANTS
    Latency,  \* the mean round trip time between a node and a peer, as rtt_tracker gives it
    MaxSent   \* bound: messages that need a relay

ASSUME LatencyAssumption == Latency \in [Node -> [Node -> Nat]]
ASSUME SentAssumption == MaxSent \in Nat

VARIABLES
    waiting,  \* what is queued at a node for a target it cannot reach, or could not
    relayed,  \* RELAYs on their way
    sent      \* number of messages that have been queued for such a target

relayVars == <<waiting, relayed, sent>>
allVars == <<vars, relayVars>>

\* The senders from the outermost RELAY to the author of what is in the innermost.
Queued == [at : Node, target : Node, senders : Seq(Node)]
InTransit == [to : Node, target : Node, senders : Seq(Node)]

RelayTypeOK ==
    /\ TypeOK
    /\ waiting \subseteq Queued
    /\ relayed \subseteq InTransit
    /\ sent \in Nat

RelayInit == Init /\ waiting = {} /\ relayed = {} /\ sent = 0

-----------------------------------------------------------------------------
(* relay_or_direct_send, in the thread of the outbox. *)

\* A thread of n queues a message of author a, its own or one it gossips on, for t.
Queue(n, t, a) ==
    /\ sent < MaxSent
    /\ t \in known_peers[n] \ {n, a} /\ ~Reach(n, t)
    /\ a \in known_peers[n]
    /\ waiting' = waiting \cup {[at |-> n, target |-> t, senders |-> <<a>>]}
    /\ sent' = sent + 1
    /\ UNCHANGED <<vars, relayed>>

\* Mutant: any peer is asked to relay.
AnyPeer(n, t, a) == known_peers[n] \ {n, a}

\* The candidates of get_relay_peer: not the sender of the message, author or last relay.
Candidates(n, t, a) == {w.relay : w \in reachable_by[n][t]} \ {a}

\* get_relay_peer compares every cost with a minimum that stays infinite: it takes the last
\* candidate in the order of a set, that is any, and no latency is ever looked at.  An
\* unknown one gives no relay.  The blacklist can only make the choice smaller.
Relays(n, t, a) == Candidates(n, t, a) \cap known_peers[n]

SendThroughRelay(w) ==
    /\ w \in waiting /\ ~Reach(w.at, w.target)
    /\ \E r \in Relays(w.at, w.target, Head(w.senders)) :
           relayed' = relayed \cup
               {[to |-> r, target |-> w.target, senders |-> <<w.at>> \o w.senders]}
    /\ waiting' = waiting \ {w}
    /\ UNCHANGED <<vars, sent>>

SendDirectly(w) ==
    /\ w \in waiting /\ Reach(w.at, w.target)
    /\ relayed' = relayed \cup {[to |-> w.target, target |-> w.target, senders |-> w.senders]}
    /\ waiting' = waiting \ {w}
    /\ UNCHANGED <<vars, sent>>

-----------------------------------------------------------------------------
(* The RELAY branch of dispatch_message. *)

\* The message of a sender the node does not know is dropped.
KnownSender(m) == Head(m.senders) \in known_peers[m.to]

\* At the target the payload is dispatched like a message of its own, layer by layer: it is
\* dropped at the first sender that is not known.
Arrive(m) ==
    /\ m \in relayed /\ m.to = m.target
    /\ relayed' = relayed \ {m}
    /\ UNCHANGED <<vars, waiting, sent>>

\* Elsewhere it is queued for the target, whose address the node must know.
Forward(m) ==
    /\ m \in relayed /\ m.to # m.target
    /\ KnownSender(m) /\ m.target \in known_peers[m.to]
    /\ waiting' = waiting \cup {[at |-> m.to, target |-> m.target, senders |-> m.senders]}
    /\ relayed' = relayed \ {m}
    /\ UNCHANGED <<vars, sent>>

\* It is dropped for its sender, or the lookup of the target raises a KeyError.
ForwardFails(m) ==
    /\ m \in relayed /\ m.to # m.target
    /\ ~(KnownSender(m) /\ m.target \in known_peers[m.to])
    /\ relayed' = relayed \ {m}
    /\ UNCHANGED <<vars, waiting, sent>>

-----------------------------------------------------------------------------
RelayNext ==
    \/ Next /\ UNCHANGED relayVars
    \/ \E n, t, a \in Node : Queue(n, t, a)
    \/ \E w \in waiting : SendThroughRelay(w)
    \/ \E w \in waiting : SendDirectly(w)
    \/ \E m \in relayed : Arrive(m)
    \/ \E m \in relayed : Forward(m)
    \/ \E m \in relayed : ForwardFails(m)

SafeRelaySpec == RelayInit /\ [][RelayNext]_allVars
RelaySpec == SafeRelaySpec /\ Fairness

-----------------------------------------------------------------------------
\* Who is asked to relay to a peer knows it, or is still passing on the HELLO from which it
\* will: a relay that is slower with its pauses than the peers it has passed the HELLO to
\* loses a message by a KeyError, and there is no other reason why it should.
RelayKnowsTarget ==
    \A m \in relayed :
        \/ m.target \in known_peers[m.to]
        \/ \E h \in handling : h.to = m.to /\ h.sender = m.target

\* README:372: the candidate with the smallest latency to the node is chosen.
SmallestLatency ==
    [][\A m \in relayed' \ relayed : m.to # m.target =>
          \A r \in Relays(m.senders[1], m.target, m.senders[2]) :
              Latency[m.senders[1]][m.to] <= Latency[m.senders[1]][r]
      ]_relayed
=============================================================================
