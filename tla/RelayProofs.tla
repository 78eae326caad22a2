---------------------------- MODULE RelayProofs ----------------------------
(***************************************************************************)
(* The ways that Discovery notes lead to the peers they are noted for, and *)
(* a node that Relay asks to relay knows the target, for any network.      *)
(***************************************************************************)
EXTENDS Relay, TLAPS

-----------------------------------------------------------------------------
(* The inductive invariant. *)

\* A HELLO comes over one hop from its relay, which is its sender or has a cheaper way to it
\* than the HELLO is about to show (cost c).
Hop(m, c) ==
    /\ m.relay # m.to /\ Reach(m.to, m.relay)
    /\ m.relay = m.sender \/ HasCheaperWay(m.relay, m.sender, c)

HellosHop == \A m \in hellos : m.ttl # 0 /\ Hop(m, Cost(m.ttl - 1))
HandledHop == \A m \in handling : Hop(m, Cost(m.ttl))

\* What a node has noted, or failed to note, of a peer it knows.
NotedIsKnown ==
    /\ \A n \in Node : n \in known_peers[n]
    /\ \A n, s \in Node : reachable_by[n][s] # {} => s \in known_peers[n]
    /\ \A n, s \in Node : <<n, s>> \in failed => s \in known_peers[n]

DiscoveryInv == TypeOK /\ HellosHop /\ HandledHop /\ NotedIsKnown /\ RelaysLead

-----------------------------------------------------------------------------
LEMMA ReachIsSymmetric == \A n, p : Reach(n, p) <=> Reach(p, n)
BY DEF Reach

LEMMA CostFacts ==
    /\ \A t \in 0..MaxTTL : Cost(t) \in 0..MaxTTL
    /\ \A t \in 1..MaxTTL : Cost(t) < Cost(t - 1) /\ t - 1 \in 0..MaxTTL
BY TTLAssumption DEF Cost

\* A cheaper way stays: it is in the table, about to get there, or its handler failed.
LEMMA WaysStay ==
    ASSUME TypeOK, [Next]_vars, NEW r \in Node, NEW s \in Node, NEW c, HasCheaperWay(r, s, c)
    PROVE  HasCheaperWay(r, s, c)'
<1>1. ASSUME reachable_by' = reachable_by, handling \subseteq handling', failed' = failed
      PROVE  HasCheaperWay(r, s, c)'
  BY <1>1 DEF HasCheaperWay
<1>2. ASSUME NEW n \in Node, SayHello(n) PROVE HasCheaperWay(r, s, c)'
  BY <1>1, <1>2 DEF SayHello, tables
<1>3. ASSUME NEW m \in hellos, ReceiveHello(m) PROVE HasCheaperWay(r, s, c)'
  BY <1>1, <1>3 DEF ReceiveHello, tables
<1>4. ASSUME NEW m \in handling, NoteHello(m) PROVE HasCheaperWay(r, s, c)'
  <2>1. /\ m \in Hello /\ m.to \in Node /\ m.sender \in Node
        /\ reachable_by \in [Node -> [Node -> SUBSET Way]]
    BY DEF TypeOK, Hello
  <2>2. /\ reachable_by' = [reachable_by EXCEPT ![m.to][m.sender] = @ \cup Ways(m)]
        /\ handling' = handling \ {m} /\ failed' = failed
    BY <1>4 DEF NoteHello
  <2>3. reachable_by[r][s] \subseteq reachable_by'[r][s]
    BY <2>1, <2>2
  <2>4. CASE \E w \in reachable_by[r][s] : w.cost < c
    BY <2>3, <2>4 DEF HasCheaperWay
  <2>5. CASE <<r, s>> \in failed
    BY <2>2, <2>5 DEF HasCheaperWay
  <2>6. CASE \E h \in handling : h.to = r /\ h.sender = s /\ Cost(h.ttl) < c
    <3>1. PICK h \in handling : h.to = r /\ h.sender = s /\ Cost(h.ttl) < c
      BY <2>6
    <3>2. CASE h # m
      BY <2>2, <3>1, <3>2 DEF HasCheaperWay
    <3>3. CASE h = m
      <4>1. [relay |-> m.relay, cost |-> Cost(m.ttl)] \in reachable_by'[r][s]
        BY <2>1, <2>2, <3>1, <3>3 DEF Ways
      <4> QED BY <3>1, <3>3, <4>1 DEF HasCheaperWay
    <3> QED BY <3>2, <3>3
  <2> QED BY <2>4, <2>5, <2>6 DEF HasCheaperWay
<1>5. ASSUME NEW m \in handling, NoteHelloFails(m) PROVE HasCheaperWay(r, s, c)'
  <2>1. /\ reachable_by' = reachable_by /\ handling' = handling \ {m}
        /\ failed' = failed \cup {<<m.to, m.sender>>}
    BY <1>5 DEF NoteHelloFails
  <2> QED BY <2>1 DEF HasCheaperWay
<1>6. CASE UNCHANGED vars
  BY <1>1, <1>6 DEF vars, tables
<1> QED BY <1>2, <1>3, <1>4, <1>5, <1>6 DEF Next

LEMMA HopsStay ==
    ASSUME TypeOK, [Next]_vars, NEW m \in Hello, NEW c, Hop(m, c)
    PROVE  Hop(m, c)'
<1>1. m.relay \in Node /\ m.sender \in Node
  BY DEF Hello
<1> QED BY <1>1, WaysStay DEF Hop

-----------------------------------------------------------------------------
LEMMA DiscoveryInvInit == Init => DiscoveryInv
<1> SUFFICES ASSUME Init PROVE DiscoveryInv OBVIOUS
<1>1. TypeOK
  BY NodesAssumption DEF Init, TypeOK
<1>2. HellosHop /\ HandledHop /\ RelaysLead
  BY DEF Init, HellosHop, HandledHop, RelaysLead
<1>3. NotedIsKnown
  BY NodesAssumption DEF Init, NotedIsKnown, Reach
<1> QED BY <1>1, <1>2, <1>3 DEF DiscoveryInv

\* A HELLO of one's own to a peer that can be reached.
LEMMA NewHelloFacts ==
    ASSUME NEW n \in Node, NEW p \in Node, n # p, Reach(n, p), NEW c
    PROVE  /\ NewHello(n, p) \in Hello /\ NewHello(n, p).ttl # 0
           /\ Hop(NewHello(n, p), c)'
<1>1. MaxTTL \in 0..MaxTTL /\ MaxTTL # 0
  BY TTLAssumption
<1>2. NewHello(n, p) \in Hello /\ NewHello(n, p).ttl # 0
  BY <1>1 DEF NewHello, Hello
<1>3. Reach(p, n)
  BY ReachIsSymmetric, Zenon
<1>4. Hop(NewHello(n, p), c)'
  BY <1>3 DEF Hop, NewHello, Reach
<1> QED BY <1>2, <1>4

\* What is left of the invariant when the tables stay as they are: new HELLOs must hop.
LEMMA NewHellosStep ==
    ASSUME DiscoveryInv, [Next]_vars, UNCHANGED <<tables, failed>>, TypeOK',
           handling \subseteq handling',
           \A m \in hellos' \ hellos : m.ttl # 0 /\ Hop(m, Cost(m.ttl - 1))',
           \A m \in handling' \ handling : Hop(m, Cost(m.ttl))'
    PROVE  DiscoveryInv'
<1>1. TypeOK /\ HellosHop /\ HandledHop /\ NotedIsKnown /\ RelaysLead
  BY DEF DiscoveryInv
<1>2. HellosHop'
  <2>1. ASSUME NEW m \in hellos' PROVE m.ttl # 0 /\ Hop(m, Cost(m.ttl - 1))'
    <3>1. CASE m \in hellos
      BY <1>1, <3>1, HopsStay DEF HellosHop, TypeOK
    <3> QED BY <2>1, <3>1
  <2> QED BY <2>1 DEF HellosHop, Hop, HasCheaperWay, Cost, Reach
<1>3. HandledHop'
  <2>1. ASSUME NEW m \in handling' PROVE Hop(m, Cost(m.ttl))'
    <3>1. CASE m \in handling
      BY <1>1, <3>1, HopsStay DEF HandledHop, TypeOK
    <3> QED BY <2>1, <3>1
  <2> QED BY <2>1 DEF HandledHop, Hop, HasCheaperWay, Cost, Reach
<1>4. NotedIsKnown'
  BY <1>1 DEF NotedIsKnown, tables
<1>5. RelaysLead'
  <2>1. reachable_by' = reachable_by
    BY DEF tables
  <2>2. ASSUME NEW n \in Node, NEW q \in Node, NEW w \in reachable_by[n][q]
        PROVE  Reach(n, w.relay) /\ (w.relay = q \/ HasCheaperWay(w.relay, q, w.cost)')
    <3>1. Reach(n, w.relay) /\ (w.relay = q \/ HasCheaperWay(w.relay, q, w.cost))
      BY <1>1 DEF RelaysLead
    <3>2. w.relay \in Node
      BY <1>1 DEF TypeOK, Way
    <3> QED BY <1>1, <3>1, <3>2, WaysStay
  <2> QED BY <2>1, <2>2 DEF RelaysLead, HasCheaperWay, Reach, Cost
<1> QED BY <1>2, <1>3, <1>4, <1>5 DEF DiscoveryInv

LEMMA SayHelloStep ==
    ASSUME DiscoveryInv, NEW n \in Node, SayHello(n)
    PROVE  DiscoveryInv'
<1>1. TypeOK
  BY DEF DiscoveryInv
<1>2. known_peers[n] \subseteq Node
  BY <1>1 DEF TypeOK
<1>3. ASSUME NEW p \in known_peers[n] \ {n}, Reach(n, p), NEW c
      PROVE  /\ NewHello(n, p) \in Hello /\ NewHello(n, p).ttl # 0
             /\ Hop(NewHello(n, p), c)'
  BY <1>2, <1>3, NewHelloFacts
<1>4. hellos' \subseteq Hello
  BY <1>1, <1>3 DEF SayHello, TypeOK
<1>5. TypeOK'
  BY <1>1, <1>4 DEF SayHello, TypeOK, tables
<1>6. ASSUME NEW m \in hellos' \ hellos
      PROVE  m.ttl # 0 /\ Hop(m, Cost(m.ttl - 1))'
  <2>1. PICK p \in known_peers[n] \ {n} : Reach(n, p) /\ m = NewHello(n, p)
    BY <1>6 DEF SayHello
  <2>2. m.ttl # 0
    BY <1>3, <2>1
  <2>3. Hop(NewHello(n, p), Cost(m.ttl - 1))'
    BY <1>3, <2>1
  <2> QED BY <2>1, <2>2, <2>3
<1> QED BY <1>5, <1>6, NewHellosStep DEF SayHello, Next

LEMMA ReceiveHelloStep ==
    ASSUME DiscoveryInv, NEW m \in hellos, ReceiveHello(m)
    PROVE  DiscoveryInv'
<1>1. TypeOK /\ m.ttl # 0 /\ Hop(m, Cost(m.ttl - 1))
  BY DEF DiscoveryInv, HellosHop
<1>2. /\ m \in Hello /\ m.to \in Node /\ m.sender \in Node /\ m.relay \in Node
      /\ m.to # m.sender /\ m.ttl \in 1..MaxTTL
  BY <1>1 DEF TypeOK, Hello
<1>3. PICK h : h = [m EXCEPT !.ttl = NextTTL(m)]
  OBVIOUS
<1>4. /\ h.to = m.to /\ h.sender = m.sender /\ h.relay = m.relay /\ h.ttl = m.ttl - 1
      /\ h \in Hello
  <2>1. h = [sender |-> m.sender, relay |-> m.relay, ttl |-> m.ttl - 1, to |-> m.to]
    <3>1. m \in [sender : Node, relay : Node, ttl : 0..MaxTTL, to : Node]
      BY <1>2 DEF Hello
    <3>2. PICK t : t = m.ttl - 1
      OBVIOUS
    <3>3. [m EXCEPT !.ttl = t]
             = [sender |-> m.sender, relay |-> m.relay, ttl |-> t, to |-> m.to]
      BY <3>1
    <3> QED BY <1>3, <3>2, <3>3 DEF NextTTL
  <2>2. m.ttl - 1 \in 0..MaxTTL
    BY <1>2, TTLAssumption
  <2> QED BY <1>2, <2>1, <2>2 DEF Hello
<1>5. handling' = handling \cup {h} /\ hellos' = (hellos \ {m}) \cup PassedOn(m)
  BY <1>3 DEF ReceiveHello
<1>6. ASSUME NEW o \in PassedOn(m)
      PROVE  o \in Hello /\ o.ttl # 0 /\ Hop(o, Cost(o.ttl - 1))'
  <2>1. PICK p \in known_peers[m.to] \ Skipped(m) :
            /\ Reach(m.to, p) /\ m.ttl - 1 > 0
            /\ o = [sender |-> m.sender, relay |-> m.to, ttl |-> m.ttl - 1, to |-> p]
    BY <1>6 DEF PassedOn, NextTTL, NewRelay
  <2>2. p \in Node /\ p # m.to /\ p # m.sender
    BY <1>1, <1>2 DEF TypeOK, Skipped
  <2>3. o \in Hello /\ o.ttl # 0 /\ o.ttl \in 1..MaxTTL /\ o.ttl = m.ttl - 1
    <3>1. o.ttl = m.ttl - 1 /\ m.ttl - 1 \in 1..MaxTTL
      BY <1>2, <2>1, TTLAssumption
    <3> QED BY <1>2, <2>1, <2>2, <3>1 DEF Hello
  <2>4. Cost(h.ttl) < Cost(o.ttl - 1)
    BY <1>4, <2>3, CostFacts
  <2>5. HasCheaperWay(m.to, m.sender, Cost(o.ttl - 1))'
    BY <1>4, <1>5, <2>4 DEF HasCheaperWay, Cost
  <2>6. Reach(p, m.to)
    BY <2>1, ReachIsSymmetric, Zenon
  <2>7. o.relay = m.to /\ o.to = p /\ o.sender = m.sender
    BY <2>1
  <2> QED BY <2>2, <2>3, <2>5, <2>6, <2>7 DEF Hop, Reach, HasCheaperWay, Cost
<1>7. TypeOK'
  BY <1>1, <1>4, <1>5, <1>6 DEF ReceiveHello, TypeOK, tables
<1>8. Hop(h, Cost(h.ttl))'
  <2>1. Hop(m, Cost(m.ttl - 1))'
    BY <1>1, <1>2, HopsStay DEF Next
  <2> QED BY <1>4, <2>1 DEF Hop, Reach, HasCheaperWay, Cost
<1>9. \A o \in hellos' \ hellos : o.ttl # 0 /\ Hop(o, Cost(o.ttl - 1))'
  BY <1>5, <1>6
<1>10. \A o \in handling' \ handling : Hop(o, Cost(o.ttl))'
  BY <1>5, <1>8
<1> QED BY <1>5, <1>7, <1>9, <1>10, NewHellosStep DEF ReceiveHello, Next

\* Noting a HELLO, or failing to: the tables grow by what it shows.
LEMMA NotingStep ==
    ASSUME DiscoveryInv, [Next]_vars, TypeOK', NEW m \in handling,
           handling' = handling \ {m}, known_peers' = Knowing(m),
           failed' \subseteq failed \cup {<<m.to, m.sender>>},
           \A h \in hellos' \ hellos : h.ttl # 0 /\ Hop(h, Cost(h.ttl - 1))',
           \A n, q \in Node : \A w \in reachable_by'[n][q] :
               w \in reachable_by[n][q] \/ (n = m.to /\ q = m.sender /\ w \in Ways(m))
    PROVE  DiscoveryInv'
<1>1. TypeOK /\ HellosHop /\ HandledHop /\ NotedIsKnown /\ RelaysLead
  BY DEF DiscoveryInv
<1>2. m \in Hello /\ m.to \in Node /\ m.sender \in Node /\ m.relay \in Node
  BY <1>1 DEF TypeOK, Hello
<1>3. HellosHop'
  <2>1. ASSUME NEW h \in hellos' PROVE h.ttl # 0 /\ Hop(h, Cost(h.ttl - 1))'
    <3>1. CASE h \in hellos
      BY <1>1, <3>1, HopsStay DEF HellosHop, TypeOK
    <3> QED BY <2>1, <3>1
  <2> QED BY <2>1 DEF HellosHop, Hop, HasCheaperWay, Cost, Reach
<1>4. HandledHop'
  <2>1. ASSUME NEW h \in handling' PROVE Hop(h, Cost(h.ttl))'
    <3>1. h \in handling
      OBVIOUS
    <3> QED BY <1>1, <3>1, HopsStay DEF HandledHop, TypeOK
  <2> QED BY <2>1 DEF HandledHop, Hop, HasCheaperWay, Cost, Reach
<1>5. NotedIsKnown'
  <2>1. \A n \in Node : known_peers[n] \subseteq known_peers'[n]
    BY <1>1 DEF Knowing, TypeOK
  <2>2. m.sender \in known_peers'[m.to]
    BY <1>1, <1>2 DEF Knowing, TypeOK
  <2>3. \A n \in Node : n \in known_peers'[n]
    BY <1>1, <2>1 DEF NotedIsKnown
  <2>4. ASSUME NEW n \in Node, NEW q \in Node, reachable_by'[n][q] # {}
        PROVE  q \in known_peers'[n]
    <3>1. PICK w \in reachable_by'[n][q] : TRUE
      BY <2>4
    <3>2. CASE w \in reachable_by[n][q]
      BY <1>1, <2>1, <3>2 DEF NotedIsKnown
    <3> QED BY <2>2, <3>1, <3>2
  <2>5. ASSUME NEW n \in Node, NEW q \in Node, <<n, q>> \in failed'
        PROVE  q \in known_peers'[n]
    BY <1>1, <2>1, <2>2, <2>5 DEF NotedIsKnown
  <2> QED BY <2>3, <2>4, <2>5 DEF NotedIsKnown
<1>6. RelaysLead'
  <2>1. ASSUME NEW n \in Node, NEW q \in Node, NEW w \in reachable_by'[n][q]
        PROVE  Reach(n, w.relay) /\ (w.relay = q \/ HasCheaperWay(w.relay, q, w.cost)')
    <3>1. CASE w \in reachable_by[n][q]
      <4>1. Reach(n, w.relay) /\ (w.relay = q \/ HasCheaperWay(w.relay, q, w.cost))
        BY <1>1, <3>1 DEF RelaysLead
      <4>2. w.relay \in Node
        BY <1>1, <3>1 DEF TypeOK, Way
      <4> QED BY <1>1, <4>1, <4>2, WaysStay
    <3>2. CASE n = m.to /\ q = m.sender /\ w \in Ways(m)
      <4>1. CASE w = [relay |-> m.relay, cost |-> Cost(m.ttl)]
        <5>1. Reach(n, w.relay) /\ (w.relay = q \/ HasCheaperWay(w.relay, q, w.cost))
          BY <1>1, <3>2, <4>1 DEF HandledHop, Hop
        <5> QED BY <1>1, <1>2, <4>1, <5>1, WaysStay
      <4>2. CASE Reach(m.to, m.sender) /\ w = [relay |-> m.sender, cost |-> 0]
        BY <3>2, <4>2
      <4> QED BY <3>2, <4>1, <4>2 DEF Ways
    <3> QED BY <3>1, <3>2
  <2> QED BY <2>1 DEF RelaysLead, HasCheaperWay, Reach, Cost
<1> QED BY <1>3, <1>4, <1>5, <1>6 DEF DiscoveryInv

LEMMA NoteHelloStep ==
    ASSUME DiscoveryInv, NEW m \in handling, NoteHello(m)
    PROVE  DiscoveryInv'
<1>1. TypeOK /\ Hop(m, Cost(m.ttl))
  BY DEF DiscoveryInv, HandledHop
<1>2. /\ m \in Hello /\ m.to \in Node /\ m.sender \in Node /\ m.relay \in Node
      /\ m.ttl \in 0..MaxTTL
  BY <1>1 DEF TypeOK, Hello
<1>3. ASSUME NEW h \in Reply(m)
      PROVE  h \in Hello /\ h.ttl # 0 /\ Hop(h, Cost(h.ttl - 1))'
  <2>1. h = NewHello(m.to, m.relay)
    BY <1>3 DEF Reply
  <2>2. m.to # m.relay /\ Reach(m.to, m.relay)
    BY <1>1 DEF Hop
  <2>3. \A c : /\ NewHello(m.to, m.relay) \in Hello /\ NewHello(m.to, m.relay).ttl # 0
               /\ Hop(NewHello(m.to, m.relay), c)'
    BY <1>2, <2>2, NewHelloFacts
  <2> QED BY <2>1, <2>3
<1>4. Ways(m) \subseteq Way
  BY <1>2, CostFacts, TTLAssumption DEF Ways, Way
<1>5. TypeOK'
  <2>1. known_peers' \in [Node -> SUBSET Node]
    BY <1>1, <1>2 DEF NoteHello, Knowing, TypeOK
  <2>2. reachable_by' \in [Node -> [Node -> SUBSET Way]]
    BY <1>1, <1>2, <1>4 DEF NoteHello, TypeOK
  <2> QED BY <1>1, <1>3, <2>1, <2>2 DEF NoteHello, TypeOK
<1>6. \A h \in hellos' \ hellos : h.ttl # 0 /\ Hop(h, Cost(h.ttl - 1))'
  BY <1>3 DEF NoteHello
<1>7. \A n, q \in Node : \A w \in reachable_by'[n][q] :
          w \in reachable_by[n][q] \/ (n = m.to /\ q = m.sender /\ w \in Ways(m))
  BY <1>1, <1>2 DEF NoteHello, TypeOK
<1> QED BY <1>5, <1>6, <1>7, NotingStep DEF NoteHello, Next

LEMMA NoteHelloFailsStep ==
    ASSUME DiscoveryInv, NEW m \in handling, NoteHelloFails(m)
    PROVE  DiscoveryInv'
<1>1. TypeOK /\ m.to \in Node /\ m.sender \in Node
  BY DEF DiscoveryInv, TypeOK, Hello
<1>2. TypeOK'
  BY <1>1 DEF NoteHelloFails, Knowing, TypeOK
<1> QED BY <1>2, NotingStep DEF NoteHelloFails, Next

LEMMA DiscoveryInvStep == DiscoveryInv /\ [Next]_vars => DiscoveryInv'
<1> SUFFICES ASSUME DiscoveryInv, [Next]_vars PROVE DiscoveryInv' OBVIOUS
<1>1. CASE UNCHANGED vars
  <2>1. TypeOK'
    BY <1>1 DEF vars, tables, DiscoveryInv, TypeOK
  <2> QED BY <1>1, <2>1, NewHellosStep DEF vars
<1> QED BY <1>1, SayHelloStep, ReceiveHelloStep, NoteHelloStep, NoteHelloFailsStep DEF Next

-----------------------------------------------------------------------------
(* Relays. *)

\* What RelayKnowsTarget says of a relay.
KnowsOrWill(n, t) ==
    \/ t \in known_peers[n]
    \/ \E h \in handling : h.to = n /\ h.sender = t

RelayInv == RelayTypeOK /\ DiscoveryInv /\ RelayKnowsTarget

LEMMA KnowingStays ==
    ASSUME TypeOK, [Next]_vars, NEW n \in Node, NEW t \in Node, KnowsOrWill(n, t)
    PROVE  KnowsOrWill(n, t)'
<1>1. ASSUME known_peers' = known_peers, handling \subseteq handling'
      PROVE  KnowsOrWill(n, t)'
  BY <1>1 DEF KnowsOrWill
<1>2. ASSUME NEW m \in handling, known_peers' = Knowing(m), handling' = handling \ {m}
      PROVE  KnowsOrWill(n, t)'
  <2>1. m.to \in Node
    BY DEF TypeOK, Hello
  <2>2. /\ known_peers[n] \subseteq known_peers'[n]
        /\ m.to = n => m.sender \in known_peers'[n]
    BY <1>2, <2>1 DEF Knowing, TypeOK
  <2> QED BY <1>2, <2>2 DEF KnowsOrWill
<1> QED BY <1>1, <1>2
        DEF Next, vars, tables, SayHello, ReceiveHello, NoteHello, NoteHelloFails

LEMMA RelayChosenKnows ==
    ASSUME DiscoveryInv, NEW n \in Node, NEW t \in Node, NEW a, ~Reach(n, t),
           NEW r \in Relays(n, t, a)
    PROVE  r \in Node /\ KnowsOrWill(r, t)
<1>1. TypeOK /\ NotedIsKnown /\ RelaysLead
  BY DEF DiscoveryInv
<1>2. PICK w \in reachable_by[n][t] : w.relay = r
  BY DEF Relays, Candidates
<1>3. r \in Node
  BY <1>1, <1>2 DEF TypeOK, Way
<1>4. r # t /\ HasCheaperWay(r, t, w.cost)
  BY <1>1, <1>2 DEF RelaysLead
<1>5. KnowsOrWill(r, t)
  BY <1>1, <1>3, <1>4 DEF HasCheaperWay, NotedIsKnown, KnowsOrWill
<1> QED BY <1>3, <1>5

LEMMA RelayInvInit == RelayInit => RelayInv
BY DiscoveryInvInit, SentAssumption
   DEF RelayInit, RelayInv, RelayTypeOK, DiscoveryInv, RelayKnowsTarget

\* What the steps of Relay leave alone.
LEMMA DiscoveryStutters ==
    ASSUME DiscoveryInv, UNCHANGED vars
    PROVE  DiscoveryInv' /\ (\A n, t \in Node : KnowsOrWill(n, t) => KnowsOrWill(n, t)')
BY DiscoveryInvStep, KnowingStays DEF DiscoveryInv

\* A step of Relay that sends to nodes that know the target.
LEMMA RelayingStep ==
    ASSUME RelayInv, UNCHANGED vars, waiting' \subseteq Queued, relayed' \subseteq InTransit,
           sent' \in Nat,
           \A m \in relayed' \ relayed : KnowsOrWill(m.to, m.target)
    PROVE  RelayInv'
<1>1. DiscoveryInv' /\ (\A n, t \in Node : KnowsOrWill(n, t) => KnowsOrWill(n, t)')
  BY DiscoveryStutters DEF RelayInv
<1>2. RelayTypeOK'
  BY <1>1 DEF RelayTypeOK, DiscoveryInv
<1>3. ASSUME NEW m \in relayed' PROVE KnowsOrWill(m.to, m.target)'
  <2>1. m.to \in Node /\ m.target \in Node
    BY DEF InTransit
  <2>2. KnowsOrWill(m.to, m.target)
    BY DEF RelayInv, RelayKnowsTarget, KnowsOrWill
  <2> QED BY <1>1, <2>1, <2>2
<1>4. RelayKnowsTarget'
  BY <1>3 DEF RelayKnowsTarget, KnowsOrWill
<1> QED BY <1>1, <1>2, <1>4 DEF RelayInv

LEMMA RelayInvStep == RelayInv /\ [RelayNext]_allVars => RelayInv'
<1> SUFFICES ASSUME RelayInv, [RelayNext]_allVars PROVE RelayInv' OBVIOUS
<1>1. /\ DiscoveryInv /\ TypeOK /\ RelayKnowsTarget
      /\ waiting \subseteq Queued /\ relayed \subseteq InTransit /\ sent \in Nat
  BY DEF RelayInv, RelayTypeOK
<1>2. CASE Next /\ UNCHANGED relayVars
  <2>1. DiscoveryInv'
    BY <1>1, <1>2, DiscoveryInvStep
  <2>2. RelayTypeOK'
    BY <1>1, <1>2, <2>1 DEF RelayTypeOK, DiscoveryInv, relayVars
  <2>3. ASSUME NEW m \in relayed PROVE KnowsOrWill(m.to, m.target)'
    <3>1. m.to \in Node /\ m.target \in Node
      BY <1>1 DEF InTransit
    <3>2. KnowsOrWill(m.to, m.target)
      BY <1>1 DEF RelayKnowsTarget, KnowsOrWill
    <3> QED BY <1>1, <1>2, <3>1, <3>2, KnowingStays
  <2>4. RelayKnowsTarget'
    BY <1>2, <2>3 DEF RelayKnowsTarget, KnowsOrWill, relayVars
  <2> QED BY <2>1, <2>2, <2>4 DEF RelayInv
<1>3. ASSUME NEW n \in Node, NEW t \in Node, NEW a \in Node, Queue(n, t, a) PROVE RelayInv'
  <2>1. PICK q : q = [at |-> n, target |-> t, senders |-> <<a>>]
    OBVIOUS
  <2>2. q \in Queued
    BY <2>1 DEF Queued
  <2>3. waiting' = waiting \cup {q} /\ sent' = sent + 1 /\ UNCHANGED vars /\ relayed' = relayed
    BY <1>3, <2>1 DEF Queue
  <2>4. waiting' \subseteq Queued /\ sent' \in Nat
    BY <1>1, <2>2, <2>3
  <2> QED BY <1>1, <2>3, <2>4, RelayingStep
<1>4. ASSUME NEW w \in waiting, SendThroughRelay(w) PROVE RelayInv'
  <2>1. w.at \in Node /\ w.target \in Node /\ w.senders \in Seq(Node)
    BY <1>1 DEF Queued
  <2>2. PICK r \in Relays(w.at, w.target, Head(w.senders)) :
            relayed' = relayed \cup
                {[to |-> r, target |-> w.target, senders |-> <<w.at>> \o w.senders]}
    BY <1>4 DEF SendThroughRelay
  <2>3. r \in Node /\ KnowsOrWill(r, w.target)
    BY <1>1, <1>4, <2>1, RelayChosenKnows DEF SendThroughRelay
  <2>4. <<w.at>> \o w.senders \in Seq(Node)
    BY <2>1
  <2>5. relayed' \subseteq InTransit
    <3>1. PICK list \in Seq(Node) : list = <<w.at>> \o w.senders
      BY <2>4
    <3>2. [to |-> r, target |-> w.target, senders |-> list] \in InTransit
      BY <2>1, <2>3, <3>1 DEF InTransit
    <3> QED BY <1>1, <2>2, <3>1, <3>2
  <2> QED BY <1>1, <1>4, <2>2, <2>3, <2>5, RelayingStep DEF SendThroughRelay
<1>5. ASSUME NEW w \in waiting, SendDirectly(w) PROVE RelayInv'
  <2>1. w.at \in Node /\ w.target \in Node /\ w.senders \in Seq(Node)
    BY <1>1 DEF Queued
  <2>2. relayed' \subseteq InTransit
    BY <1>1, <1>5, <2>1 DEF SendDirectly, InTransit
  <2>3. KnowsOrWill(w.target, w.target)
    BY <1>1, <2>1 DEF DiscoveryInv, NotedIsKnown, KnowsOrWill
  <2> QED BY <1>1, <1>5, <2>2, <2>3, RelayingStep DEF SendDirectly
<1>6. ASSUME NEW m \in relayed, Arrive(m) PROVE RelayInv'
  BY <1>1, <1>6, RelayingStep DEF Arrive
<1>7. ASSUME NEW m \in relayed, Forward(m) PROVE RelayInv'
  <2>1. waiting' \subseteq Queued
    BY <1>1, <1>7 DEF Forward, InTransit, Queued
  <2> QED BY <1>1, <1>7, <2>1, RelayingStep DEF Forward
<1>8. ASSUME NEW m \in relayed, ForwardFails(m) PROVE RelayInv'
  BY <1>1, <1>8, RelayingStep DEF ForwardFails
<1>9. CASE UNCHANGED allVars
  BY <1>1, <1>9, RelayingStep DEF allVars, relayVars
<1> QED BY <1>2, <1>3, <1>4, <1>5, <1>6, <1>7, <1>8, <1>9 DEF RelayNext

LEMMA RelayInvAlways == SafeRelaySpec => []RelayInv
BY RelayInvInit, RelayInvStep, PTL DEF SafeRelaySpec

\* The tables, the HELLOs and the RELAYs have their types: above all, no HELLO is passed on to
\* the node it came from first, and none with a TTL below zero (handle_hello_message).
THEOREM RelayTyped == SafeRelaySpec => []RelayTypeOK
<1>1. RelayInv => RelayTypeOK
  BY DEF RelayInv
<1> QED BY <1>1, RelayInvAlways, PTL

\* The ways the handlers of HELLOs note lead to the peer by falling cost, in any network, with
\* any number of rounds and any losses (reachable_by of peer_discovery.py).
THEOREM WaysLead == SafeRelaySpec => []RelaysLead
<1>1. RelayInv => RelaysLead
  BY DEF RelayInv, DiscoveryInv
<1> QED BY <1>1, RelayInvAlways, PTL

\* Whom get_relay_peer chooses knows the target, or is still handling the HELLO from which
\* it will: no other relay loses a message by the KeyError of dispatch_message.
THEOREM RelaysKnowTargets == SafeRelaySpec => []RelayKnowsTarget
<1>1. RelayInv => RelayKnowsTarget
  BY DEF RelayInv
<1> QED BY <1>1, RelayInvAlways, PTL
=============================================================================
