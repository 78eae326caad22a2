---------------------------- MODULE GossipProofs ----------------------------
(***************************************************************************)
(* Proofs about what the nodes pass on to each other: the transactions of  *)
(* a node's pool (TxPool) and the blocks between any number of nodes       *)
(* (Sync), for any transactions, blocks, peers and calls.                  *)
(***************************************************************************)
EXTENDS Sync, TxPool, SequenceFacts

-----------------------------------------------------------------------------
(* The transaction pool. *)

\* The copy the miner holds exists only between its two lock sections.
CopyHeld == minerPc = "idle" => tx_list = <<>>

\* The invariant: where each addition went can only be told from the pool if the pool
\* repeats nothing, and what ClearPool clears only if the miner's copy is a part of it.
PoolInv ==
    /\ PoolTypeOK
    /\ PoolMatchesIds
    /\ CopyIsPrefix
    /\ CopyHeld
    /\ EveryAdditionAccounted

\* Everything the invariant mentions stays as it is when a thread gossips.
LEMMA GossipKeeps ==
    ASSUME PoolInv, NEW t \in Tx, Gossip(t) \/ GossipRaises(t)
    PROVE  PoolInv'
<1>1. PoolTypeOK'
  <2>1. /\ due \in [Tx -> Nat] /\ gossiped \in [Tx -> Nat] /\ mute \in [Tx -> Nat]
    BY DEF PoolInv, PoolTypeOK
  <2>2. due[t] > 0 /\ due' = [due EXCEPT ![t] = @ - 1]
    BY DEF Gossip, GossipRaises
  <2>3. due' \in [Tx -> Nat] /\ gossiped' \in [Tx -> Nat] /\ mute' \in [Tx -> Nat]
    BY <2>1, <2>2 DEF Gossip, GossipRaises
  <2> QED BY <2>3 DEF PoolInv, PoolTypeOK, Gossip, GossipRaises, pool, miner
<1>2. UNCHANGED <<pool, miner, added, packed, lost>>
  BY DEF Gossip, GossipRaises
<1> QED
  BY <1>1, <1>2 DEF PoolInv, PoolMatchesIds, CopyIsPrefix, CopyHeld,
                    EveryAdditionAccounted, pool, miner

\* A new transaction goes behind what the miner may have copied.
LEMMA AddTransactionKeeps ==
    ASSUME PoolInv, NEW t \in Tx, AddTransaction(t)
    PROVE  PoolInv'
<1>1. CASE Pooled(t)
  <2>1. UNCHANGED <<tx_pool, tx_ids, due, added, gossiped, mute, miner, packed, lost>>
    BY <1>1 DEF AddTransaction
  <2>2. redundant_tx_cnt' \in Nat /\ calls' \in [Tx -> Nat]
    BY <1>1 DEF AddTransaction, PoolInv, PoolTypeOK
  <2> QED
    BY <2>1, <2>2 DEF PoolInv, PoolTypeOK, PoolMatchesIds, CopyIsPrefix, CopyHeld,
                      EveryAdditionAccounted, miner
<1>2. CASE ~Pooled(t)
  <2>1. /\ tx_pool' = Append(tx_pool, t) /\ tx_ids' = tx_ids \cup {t}
        /\ added' = [added EXCEPT ![t] = @ + 1]
        /\ due' = [due EXCEPT ![t] = @ + 1] /\ calls' = [calls EXCEPT ![t] = @ + 1]
        /\ UNCHANGED <<redundant_tx_cnt, gossiped, mute, minerPc, tx_list, packed, lost>>
    BY <1>2 DEF AddTransaction, AppendTx, OweGossip, miner
  <2>2. /\ tx_pool \in Seq(Tx) /\ tx_list \in Seq(Tx)
        /\ Len(tx_pool) \in Nat /\ DOMAIN tx_pool = 1..Len(tx_pool)
        /\ Len(tx_list) \in Nat /\ DOMAIN tx_list = 1..Len(tx_list)
    BY LenProperties DEF PoolInv, PoolTypeOK
  <2>3. /\ tx_pool' \in Seq(Tx) /\ Len(tx_pool') = Len(tx_pool) + 1
        /\ Range(tx_pool') = Range(tx_pool) \cup {t}
        /\ \A i \in 1..Len(tx_pool) : tx_pool'[i] = tx_pool[i]
        /\ tx_pool'[Len(tx_pool) + 1] = t
    BY <2>1, <2>2, AppendFacts
  <2>4. DOMAIN tx_pool' = 1..(Len(tx_pool) + 1)
    BY <2>3, LenProperties
  <2>5. t \notin Range(tx_pool) /\ \A i \in 1..Len(tx_pool) : tx_pool[i] # t
    BY <1>2, <2>2 DEF Pooled, PoolInv, PoolMatchesIds, Range
  <2>6. PoolTypeOK'
    <3>1. /\ added' \in [Tx -> Nat] /\ due' \in [Tx -> Nat] /\ calls' \in [Tx -> Nat]
          /\ tx_ids' \subseteq Tx
      BY <2>1, SMTT(30) DEF PoolInv, PoolTypeOK
    <3> QED BY <2>1, <2>3, <3>1 DEF PoolInv, PoolTypeOK
  <2>7. PoolMatchesIds'
    <3>1. tx_ids' = Range(tx_pool')
      BY <2>1, <2>3 DEF PoolInv, PoolMatchesIds
    <3>2. ASSUME NEW i \in DOMAIN tx_pool', NEW j \in DOMAIN tx_pool',
                 tx_pool'[i] = tx_pool'[j]
          PROVE  i = j
      BY <3>2, <2>2, <2>3, <2>4, <2>5 DEF PoolInv, PoolMatchesIds
    <3> QED BY <3>1, <3>2 DEF PoolMatchesIds
  <2>8. CopyIsPrefix'
    BY <2>1, <2>2, <2>3 DEF PoolInv, CopyIsPrefix
  <2>9. EveryAdditionAccounted'
    <3> SUFFICES ASSUME NEW x \in Tx
                 PROVE  added'[x] = packed'[x] + lost'[x]
                                    + IF x \in Range(tx_pool') THEN 1 ELSE 0
      BY DEF EveryAdditionAccounted
    <3>1. /\ added[x] = packed[x] + lost[x] + IF x \in Range(tx_pool) THEN 1 ELSE 0
          /\ added \in [Tx -> Nat] /\ packed[x] \in Nat /\ lost[x] \in Nat
      BY DEF PoolInv, PoolTypeOK, EveryAdditionAccounted
    <3> QED BY <3>1, <2>1, <2>3, <2>5
  <2> QED BY <2>1, <2>6, <2>7, <2>8, <2>9 DEF PoolInv, CopyHeld
<1> QED BY <1>1, <1>2

LEMMA CopyPoolKeeps == ASSUME PoolInv, CopyPool PROVE PoolInv'
<1>1. UNCHANGED <<tx_pool, tx_ids, redundant_tx_cnt, due, gossiped, mute, calls, added,
                  packed, lost>>
  BY DEF CopyPool, pool, gossips
<1>2. tx_list' = tx_pool /\ minerPc' = "copied"
  BY DEF CopyPool, get_recent_transactions
<1>3. Len(tx_pool) \in Nat
  BY LenProperties DEF PoolInv, PoolTypeOK
<1>4. PoolTypeOK'
  BY <1>1, <1>2 DEF PoolInv, PoolTypeOK
<1>5. PoolMatchesIds' /\ EveryAdditionAccounted'
  BY <1>1 DEF PoolInv, PoolMatchesIds, EveryAdditionAccounted
<1>6. CopyIsPrefix' /\ CopyHeld'
  BY <1>1, <1>2, <1>3 DEF CopyIsPrefix, CopyHeld
<1> QED BY <1>4, <1>5, <1>6 DEF PoolInv

\* What is cleared was copied, and goes into the block, or was not, and is lost: the copy
\* is a part of the pool, so nothing is packed that was not in it.
LEMMA ClearPoolKeeps == ASSUME PoolInv, ClearPool PROVE PoolInv'
<1>1. /\ tx_pool' = <<>> /\ tx_ids' = {} /\ tx_list' = <<>> /\ minerPc' = "idle"
      /\ UNCHANGED <<redundant_tx_cnt, due, gossiped, mute, calls, added>>
  BY DEF ClearPool, EmptyPool, gossips
<1>2. /\ packed' = [t \in Tx |-> packed[t] + IF t \in Range(tx_list) THEN 1 ELSE 0]
      /\ lost' = [t \in Tx |->
                     lost[t] + IF t \in Range(tx_pool) \ Range(tx_list) THEN 1 ELSE 0]
  BY DEF ClearPool
<1>3. Range(tx_list) \subseteq Range(tx_pool)
  <2>1. /\ DOMAIN tx_list = 1..Len(tx_list) /\ DOMAIN tx_pool = 1..Len(tx_pool)
        /\ Len(tx_list) \in Nat /\ Len(tx_pool) \in Nat
    BY LenProperties DEF PoolInv, PoolTypeOK
  <2> QED BY <2>1 DEF PoolInv, CopyIsPrefix, Range
<1>4. /\ <<>> \in Seq(Tx) /\ Len(<<>>) = 0 /\ DOMAIN <<>> = {} /\ Range(<<>>) = {}
  BY DEF Range
<1>5. PoolTypeOK'
  BY <1>1, <1>2, <1>4, SMTT(30) DEF PoolInv, PoolTypeOK
<1>6. EveryAdditionAccounted'
  <2> SUFFICES ASSUME NEW t \in Tx
               PROVE  added'[t] = packed'[t] + lost'[t]
                                  + IF t \in Range(tx_pool') THEN 1 ELSE 0
    BY DEF EveryAdditionAccounted
  <2>1. /\ added[t] = packed[t] + lost[t] + IF t \in Range(tx_pool) THEN 1 ELSE 0
        /\ packed[t] \in Nat /\ lost[t] \in Nat
    BY DEF PoolInv, PoolTypeOK, EveryAdditionAccounted
  <2> QED BY <2>1, <1>1, <1>2, <1>3, <1>4
<1> QED
  BY <1>1, <1>4, <1>5, <1>6 DEF PoolInv, PoolMatchesIds, CopyIsPrefix, CopyHeld

LEMMA PoolInvInit == PoolInit => PoolInv
<1> SUFFICES ASSUME PoolInit PROVE PoolInv
  OBVIOUS
<1>1. <<>> \in Seq(Tx) /\ Len(<<>>) = 0 /\ DOMAIN <<>> = {} /\ Range(<<>>) = {}
  BY DEF Range
<1> QED
  BY <1>1 DEF PoolInit, Zero, PoolInv, PoolTypeOK, PoolMatchesIds, CopyIsPrefix, CopyHeld,
              EveryAdditionAccounted

LEMMA PoolInvStep == PoolInv /\ [PoolNext]_poolVars => PoolInv'
<1> SUFFICES ASSUME PoolInv, [PoolNext]_poolVars PROVE PoolInv'
  OBVIOUS
<1>1. CASE \E t \in Tx : AddTransaction(t)
  BY <1>1, AddTransactionKeeps
<1>2. CASE \E t \in Tx : Gossip(t) \/ GossipRaises(t)
  BY <1>2, GossipKeeps
<1>3. CASE CopyPool
  BY <1>3, CopyPoolKeeps
<1>4. CASE ClearPool
  BY <1>4, ClearPoolKeeps
<1>5. CASE UNCHANGED poolVars
  BY <1>5 DEF poolVars, pool, gossips, miner, PoolInv, PoolTypeOK, PoolMatchesIds, CopyIsPrefix,
              CopyHeld, EveryAdditionAccounted
<1> QED BY <1>1, <1>2, <1>3, <1>4, <1>5 DEF PoolNext

LEMMA PoolInvAlways == PoolSpec => []PoolInv
BY PoolInvInit, PoolInvStep, PTL DEF PoolSpec

\* The pool holds transactions, not lists of them, whatever the miner copies and clears.
THEOREM PoolTyped == PoolSpec => []PoolTypeOK
BY PoolInvAlways, PTL DEF PoolInv

\* tx_pool and tx_ids agree, and the pool repeats nothing.
THEOREM PoolAndIdsAgree == PoolSpec => []PoolMatchesIds
BY PoolInvAlways, PTL DEF PoolInv

\* Every transaction that was added is in the pool, in exactly one block, or was lost
\* between the miner's copy and its clear_pool.
THEOREM AdditionsAreAccounted == PoolSpec => []EveryAdditionAccounted
BY PoolInvAlways, PTL DEF PoolInv

\* The miner's copy stays the front of the pool until it clears it.
THEOREM CopyStaysInPool == PoolSpec => []CopyIsPrefix
BY PoolInvAlways, PTL DEF PoolInv

-----------------------------------------------------------------------------
(* Blocks between the nodes. *)

\* FlattenSeq goes from list to list: a set that the first one is in, and that no step leaves,
\* has the result in it.
LEMMA FlattenStays ==
    ASSUME NEW V, NEW N \in Nat, NEW step \in [1..N -> [V -> V]], NEW e \in V, NEW ss
    PROVE  /\ Len(ss) = N + 1 /\ ss[1] = e
           /\ \A i \in 1..N : \A r \in V : step[i][r] = r \o ss[i + 1]
           => FlattenSeq(ss) \in V
<1>1. PICK f \in [0..N -> V] : f[0] = e /\ \A i \in 1..N : f[i] = step[i][f[i - 1]]
  BY Iteration
<1>2. SUFFICES ASSUME Len(ss) = N + 1, ss[1] = e,
                      \A i \in 1..N : \A r \in V : step[i][r] = r \o ss[i + 1]
               PROVE  FlattenSeq(ss) \in V
  OBVIOUS
<1>3. Len(ss) = N + 1 /\ ss[1] = e
  BY <1>2
<1>4. PICK g : g = [i \in 1..Len(ss) |-> f[i - 1]]
  OBVIOUS
<1>5. \A i \in 1..Len(ss) : g[i] = IF i = 1 THEN ss[i] ELSE g[i - 1] \o ss[i]
  <2> TAKE i \in 1..Len(ss)
  <2>1. CASE i = 1
    BY <1>1, <1>3, <1>4, <2>1
  <2>2. CASE i # 1
    <3>1. i - 1 \in 1..N /\ i - 1 \in 1..Len(ss) /\ (i - 1) + 1 = i /\ (i - 1) - 1 \in 0..N
      BY <1>3, <2>2
    <3>2. g[i] = step[i - 1][f[(i - 1) - 1]] /\ g[i - 1] = f[(i - 1) - 1]
      BY <1>1, <1>4, <3>1
    <3>3. f[(i - 1) - 1] \in V
      BY <1>1, <3>1
    <3>4. step[i - 1][f[(i - 1) - 1]] = f[(i - 1) - 1] \o ss[(i - 1) + 1]
      BY <1>2, <3>1, <3>3
    <3> QED BY <2>2, <3>1, <3>2, <3>4
  <2> QED BY <2>1, <2>2
<1>6. g = [i \in 1..Len(ss) |-> IF i = 1 THEN ss[i] ELSE g[i - 1] \o ss[i]]
  <2>1. g = [i \in 1..Len(ss) |-> g[i]]
    BY <1>4
  <2> QED BY <1>5, <2>1
<1>7. PICK h : /\ h = [i \in 1..Len(ss) |-> IF i = 1 THEN ss[i] ELSE h[i - 1] \o ss[i]]
               /\ FlattenSeq(ss) = h[Len(ss)]
  <2>1. Len(ss) # 0
    BY <1>3
  <2>2. \E h : /\ h = [i \in 1..Len(ss) |-> IF i = 1 THEN ss[i] ELSE h[i - 1] \o ss[i]]
               /\ FlattenSeq(ss) = h[Len(ss)]
    BY <1>6, <2>1 DEF FlattenSeq
  <2> QED BY <2>2
<1>8. \A i \in 1..Len(ss) : h[i] = IF i = 1 THEN ss[i] ELSE h[i - 1] \o ss[i]
  BY <1>7
<1>9. PICK T : T = {n \in Nat : n <= N => h[n + 1] \in V}
  OBVIOUS
<1>10. 0 \in T
  BY <1>3, <1>8, <1>9
<1>11. \A n \in Nat : n \in T => n + 1 \in T
  <2> SUFFICES ASSUME NEW n \in Nat, n \in T, n + 1 <= N PROVE h[(n + 1) + 1] \in V
    BY <1>9
  <2>1. n + 1 \in 1..N /\ (n + 1) + 1 \in 1..Len(ss) /\ ((n + 1) + 1) - 1 = n + 1
    BY <1>3
  <2>2. h[n + 1] \in V
    BY <1>9
  <2>3. h[(n + 1) + 1] = h[n + 1] \o ss[(n + 1) + 1]
    <3>1. (n + 1) + 1 # 1
      OBVIOUS
    <3>2. \A i \in 1..Len(ss) : i # 1 => h[i] = h[i - 1] \o ss[i]
      BY <1>8
    <3> QED BY <2>1, <3>1, <3>2
  <2>4. step[n + 1][h[n + 1]] \in V
    BY <2>1, <2>2
  <2> QED BY <1>2, <2>1, <2>2, <2>3, <2>4
<1>12. Nat \subseteq T
  BY <1>10, <1>11, Induction
<1>13. N \in T
  BY <1>12
<1> QED BY <1>3, <1>7, <1>9, <1>13

\* So what is in a set that is closed under concatenation stays in it.
LEMMA FlattenFacts ==
    ASSUME NEW V, NEW ss \in Seq(V)
    PROVE  /\ ss = <<>> => FlattenSeq(ss) = <<>>
           /\ ss # <<>> /\ (\A r, q \in V : r \o q \in V) => FlattenSeq(ss) \in V
<1>1. ss = <<>> => FlattenSeq(ss) = <<>>
  BY DEF FlattenSeq
<1>2. ASSUME ss # <<>>, \A r, q \in V : r \o q \in V
      PROVE  FlattenSeq(ss) \in V
  <2>1. Len(ss) \in Nat /\ Len(ss) >= 1 /\ \A i \in 1..Len(ss) : ss[i] \in V
    BY <1>2, EmptySeq, LenProperties, ElementOfSeq
  <2>2. PICK N, step : /\ N = Len(ss) - 1
                       /\ step = [i \in 1..N |-> [r \in V |-> r \o ss[i + 1]]]
    OBVIOUS
  <2>3. N \in Nat /\ Len(ss) = N + 1 /\ \A i \in 1..N : i + 1 \in 1..Len(ss)
    BY <2>1, <2>2
  <2>4. \A i \in 1..N : \A r \in V : r \o ss[i + 1] \in V
    BY <1>2, <2>1, <2>3
  <2>5. step \in [1..N -> [V -> V]] /\ \A i \in 1..N : \A r \in V : step[i][r] = r \o ss[i + 1]
    BY <2>2, <2>4
  <2>6. PICK e \in V : e = ss[1]
    BY <2>1
  <2> QED BY <2>3, <2>5, <2>6, FlattenStays
<1> QED BY <1>1, <1>2

\* The lists of orphans of n each of which has its parent in the list, or has parent p.
Litter(n, p) ==
    {r \in Seq(Block) : \A o \in Range(r) :
        o \in Range(orphan_blocks[n]) /\ prev[o] \in Range(r) \cup {p}}

\* They are closed under concatenation, and go with their parent to the lists of its parent.
LEMMA LitterFacts ==
    ASSUME NEW n, NEW p
    PROVE  /\ <<>> \in Litter(n, p)
           /\ \A r, q \in Litter(n, p) : r \o q \in Litter(n, p)
           /\ \A c \in Block : \A r \in Litter(n, c) :
                  c \in Range(orphan_blocks[n]) /\ prev[c] = p => <<c>> \o r \in Litter(n, p)
<1>1. <<>> \in Seq(Block) /\ Range(<<>>) = {}
  BY DEF Range
<1>2. ASSUME NEW r \in Litter(n, p), NEW q \in Litter(n, p)
      PROVE  r \o q \in Litter(n, p)
  <2>1. r \in Seq(Block) /\ q \in Seq(Block)
    BY DEF Litter
  <2>2. r \o q \in Seq(Block) /\ Range(r \o q) = Range(r) \cup Range(q)
    BY <2>1, ConcatFacts
  <2> QED BY <2>2 DEF Litter
<1>3. ASSUME NEW c \in Block, NEW r \in Litter(n, c), c \in Range(orphan_blocks[n]), prev[c] = p
      PROVE  <<c>> \o r \in Litter(n, p)
  <2>1. r \in Seq(Block)
    BY DEF Litter
  <2>2. <<c>> \o r \in Seq(Block) /\ Range(<<c>> \o r) = Range(r) \cup {c}
    BY <2>1, ConsFacts
  <2> QED BY <1>3, <2>2 DEF Litter
<1> QED BY <1>1, <1>2, <1>3 DEF Litter

\* A block brings orphans that descend from it, whatever waits and in which order.
LEMMA WithOrphansFacts ==
    ASSUME NEW n, NEW b \in Block
    PROVE  orphan_blocks[n] \in Seq(Block) =>
               \E r \in Litter(n, b) : WithOrphans(n, b) = <<b>> \o r
<1> DEFINE After(f) == [p \in Block |-> <<p>> \o FlattenSeq([i \in DOMAIN Waiting(n, p) |->
                                                                f[Waiting(n, p)[i]]])]
           Good == {f \in [Block -> Seq(Block)] :
                       \A p \in Block : \E r \in Litter(n, p) : f[p] = <<p>> \o r}
<1>0. SUFFICES ASSUME orphan_blocks[n] \in Seq(Block)
               PROVE  \E r \in Litter(n, b) : WithOrphans(n, b) = <<b>> \o r
  OBVIOUS
<1>1. ASSUME NEW f \in Good, NEW p \in Block
      PROVE  \E r \in Litter(n, p) : After(f)[p] = <<p>> \o r
  <2>1. PICK w : w = Waiting(n, p)
    OBVIOUS
  <2>2. w \in Seq(Block) /\ Range(w) = Range(orphan_blocks[n]) \cap {o \in Block : prev[o] = p}
    BY <1>0, <2>1, KeptFacts DEF Waiting
  <2>3. DOMAIN w = 1..Len(w) /\ Len(w) \in Nat
    BY <2>2, LenProperties
  <2>4. ASSUME NEW i \in DOMAIN w PROVE f[w[i]] \in Litter(n, p)
    <3>1. PICK c : c = w[i]
      OBVIOUS
    <3>2. c \in Block /\ c \in Range(orphan_blocks[n]) /\ prev[c] = p
      BY <2>2, <3>1 DEF Range
    <3>3. PICK r \in Litter(n, c) : f[c] = <<c>> \o r
      BY <3>2
    <3>4. \A x \in Block : \A q \in Litter(n, x) :
              x \in Range(orphan_blocks[n]) /\ prev[x] = p => <<x>> \o q \in Litter(n, p)
      BY LitterFacts, Zenon
    <3>5. <<c>> \o r \in Litter(n, p)
      BY <3>2, <3>4, Zenon
    <3> QED BY <3>1, <3>3, <3>5, Zenon
  <2>5. PICK V, ss : V = Litter(n, p) /\ ss = [i \in DOMAIN w |-> f[w[i]]]
    OBVIOUS
  <2>6. ss \in Seq(V)
    <3>1. ss \in [1..Len(w) -> V]
      BY <2>3, <2>4, <2>5
    <3> QED BY <2>3, <3>1, SeqDef
  <2>7. FlattenSeq(ss) \in V
    <3>1. <<>> \in V /\ \A r, q \in V : r \o q \in V
      BY <2>5, LitterFacts
    <3> QED BY <2>6, <3>1, FlattenFacts
  <2> QED BY <2>1, <2>5, <2>7
<1>2. ASSUME NEW f \in Good PROVE After(f) \in Good
  <2>1. \A p \in Block : \A r \in Litter(n, p) : <<p>> \o r \in Seq(Block)
    BY ConsFacts DEF Litter
  <2>2. \A p \in Block : After(f)[p] \in Seq(Block)
    <3> HIDE DEF After, Good
    <3> QED BY <1>1, <2>1
  <2>3. After(f) \in [Block -> Seq(Block)]
    BY <2>2
  <2> HIDE DEF After
  <2> QED BY <1>1, <2>3
<1>3. PICK base : base = [p \in Block |-> <<p>>]
  OBVIOUS
<1>4. base \in Good
  <2>1. \A p \in Block : <<p>> \in Seq(Block) /\ <<p>> = <<p>> \o <<>>
    OBVIOUS
  <2> QED BY <1>3, <2>1, LitterFacts
<1>5. PICK N \in Nat : N = Len(orphan_blocks[n])
  BY <1>0, LenProperties
<1>6. PICK G, step : G = Good /\ step = [i \in 1..N |-> [f \in G |-> After(f)]]
  OBVIOUS
<1> HIDE DEF Good
<1>7. step \in [1..N -> [G -> G]] /\ base \in G
  <2> HIDE DEF After
  <2> QED BY <1>2, <1>4, <1>6
<1>8. PICK f \in [0..N -> G] : f[0] = base /\ \A i \in 1..N : f[i] = step[i][f[i - 1]]
  BY <1>7, Iteration
<1>9. f = [k \in 0..N |-> IF k = 0 THEN base ELSE After(f[k - 1])]
  <2> HIDE DEF After
  <2>1. \A k \in 0..N : f[k] = IF k = 0 THEN base ELSE After(f[k - 1])
    <3> TAKE k \in 0..N
    <3>1. k = 0 \/ (k \in 1..N /\ k - 1 \in 0..N)
      OBVIOUS
    <3> QED BY <1>6, <1>8, <3>1
  <2>2. f = [k \in 0..N |-> f[k]]
    BY <1>8
  <2> QED BY <2>1, <2>2
<1>10. \E h : /\ h = [k \in 0..Len(orphan_blocks[n]) |->
                     [p \in Block |->
                         IF k = 0 THEN <<p>>
                         ELSE <<p>> \o FlattenSeq([i \in DOMAIN Waiting(n, p) |->
                                                       h[k - 1][Waiting(n, p)[i]]])]]
              /\ WithOrphans(n, b) = h[Len(orphan_blocks[n])][b]
  <2>1. \A k \in 0..N : (IF k = 0 THEN base ELSE After(f[k - 1])) =
            [p \in Block |-> IF k = 0 THEN <<p>>
                             ELSE <<p>> \o FlattenSeq([i \in DOMAIN Waiting(n, p) |->
                                                           f[k - 1][Waiting(n, p)[i]]])]
    BY <1>3
  <2>2. f = [k \in 0..N |-> [p \in Block |->
                IF k = 0 THEN <<p>>
                ELSE <<p>> \o FlattenSeq([i \in DOMAIN Waiting(n, p) |->
                                              f[k - 1][Waiting(n, p)[i]]])]]
    <3> HIDE DEF After
    <3> QED BY <1>9, <2>1
  <2> HIDE DEF After
  <2> QED BY <1>5, <2>2 DEF WithOrphans
<1>11. PICK h : /\ h = [k \in 0..N |->
                      [p \in Block |->
                         IF k = 0 THEN <<p>>
                         ELSE <<p>> \o FlattenSeq([i \in DOMAIN Waiting(n, p) |->
                                                       h[k - 1][Waiting(n, p)[i]]])]]
               /\ WithOrphans(n, b) = h[N][b]
  BY <1>5, <1>10
<1>12. h[0] = base
  BY <1>3, <1>11
<1>13. \A k \in 1..N : h[k] = After(h[k - 1])
  <2> TAKE k \in 1..N
  <2>1. k \in 0..N /\ k # 0
    OBVIOUS
  <2>2. h[k] = [p \in Block |->
                   IF k = 0 THEN <<p>>
                   ELSE <<p>> \o FlattenSeq([i \in DOMAIN Waiting(n, p) |->
                                                 h[k - 1][Waiting(n, p)[i]]])]
    BY <1>11, <2>1
  <2> QED BY <2>1, <2>2
<1> HIDE DEF After
<1>14. PICK T : T = {k \in Nat : k <= N => h[k] \in Good}
  OBVIOUS
<1>15. 0 \in T
  BY <1>4, <1>12, <1>14
<1>16. \A k \in Nat : k \in T => k + 1 \in T
  <2> SUFFICES ASSUME NEW k \in Nat, k \in T, k + 1 <= N PROVE h[k + 1] \in Good
    BY <1>14
  <2>1. h[k] \in Good /\ k + 1 \in 1..N /\ (k + 1) - 1 = k
    BY <1>14
  <2> QED BY <1>2, <1>13, <2>1
<1>17. N \in T
  <2>1. Nat \subseteq T
    BY <1>15, <1>16, Induction
  <2> QED BY <2>1
<1>18. h[N] \in Good
  BY <1>14, <1>17
<1> QED BY <1>11, <1>18 DEF Good

\* What a message carries, by its type.
LEMMA MessageFacts ==
    ASSUME NEW m \in Message
    PROVE  /\ m.from \in Node /\ m.to \in Node
           /\ m.type = "INV" => m.block_ids \subseteq Block
           /\ m.type = "GET_BLOCK" =>
                  /\ m.from \in Node \ Light
                  /\ m.request_ids \in Seq(Block) /\ m.request_ids # <<>>
           /\ m.type = "BLOCK" => m.to \in Node \ Light /\ m.block \in Block
           /\ m.type = "BLOCK_HEADERS" => m.headers \in Seq(Block)
<1>1. CASE m \in [type : {"INV"}, from : Node, to : Node, block_ids : SUBSET Block]
  BY <1>1
<1>2. CASE m \in [type : {"GET_BLOCK"}, from : Node \ Light, to : Node,
                  request_ids : Seq(Block) \ {<<>>}]
  BY <1>2
<1>3. CASE m \in [type : {"BLOCK"}, from : Node, to : Node \ Light, block : Block]
  BY <1>3
<1>4. CASE m \in [type : {"GET_BLOCK_HEADERS"}, from : Node, to : Node]
  BY <1>4
<1>5. CASE m \in [type : {"BLOCK_HEADERS"}, from : Node, to : Node, headers : Seq(Block)]
  BY <1>5
<1> QED BY <1>1, <1>2, <1>3, <1>4, <1>5 DEF Message

\* The messages that are sent are messages.
LEMMA SentFacts ==
    /\ \A n, p \in Node : \A ids \in SUBSET Block :
           /\ Inv(n, p, ids) \in Message /\ Inv(n, p, ids).type = "INV"
           /\ Inv(n, p, ids).from = n /\ Inv(n, p, ids).block_ids = ids
    /\ \A n \in Node \ Light : \A p \in Node : \A ids \in Seq(Block) :
           /\ ids # <<>> => GetBlock(n, p, ids) \in Message
           /\ GetBlock(n, p, ids).type = "GET_BLOCK" /\ GetBlock(n, p, ids).request_ids = ids
    /\ \A b \in Block : \A p \in Node \ Light :
           /\ BlockTo(b, p) \in Message
           /\ BlockTo(b, p).type = "BLOCK" /\ BlockTo(b, p).block = b
    /\ \A n, p \in Node :
           GetHeaders(n, p) \in Message /\ GetHeaders(n, p).type = "GET_BLOCK_HEADERS"
    /\ \A n, p \in Node : \A list \in Seq(Block) :
           /\ Headers(n, p, list) \in Message
           /\ Headers(n, p, list).type = "BLOCK_HEADERS" /\ Headers(n, p, list).headers = list
<1>1. \A n, p \in Node : \A ids \in SUBSET Block :
          /\ Inv(n, p, ids) \in Message /\ Inv(n, p, ids).type = "INV"
          /\ Inv(n, p, ids).from = n /\ Inv(n, p, ids).block_ids = ids
  BY DEF Inv, Message
<1>2. \A n \in Node \ Light : \A p \in Node : \A ids \in Seq(Block) :
          /\ ids # <<>> => GetBlock(n, p, ids) \in Message
          /\ GetBlock(n, p, ids).type = "GET_BLOCK" /\ GetBlock(n, p, ids).request_ids = ids
  BY DEF GetBlock, Message
<1>3. \A b \in Block : \A p \in Node \ Light :
          /\ BlockTo(b, p) \in Message
          /\ BlockTo(b, p).type = "BLOCK" /\ BlockTo(b, p).block = b
  BY BlocksAssumption DEF BlockTo, Message
<1>4. \A n, p \in Node :
          GetHeaders(n, p) \in Message /\ GetHeaders(n, p).type = "GET_BLOCK_HEADERS"
  BY DEF GetHeaders, Message
<1>5. \A n, p \in Node : \A list \in Seq(Block) :
          /\ Headers(n, p, list) \in Message
          /\ Headers(n, p, list).type = "BLOCK_HEADERS" /\ Headers(n, p, list).headers = list
  BY DEF Headers, Message
<1> QED BY <1>1, <1>2, <1>3, <1>4, <1>5

\* The blocks of a chain are finitely many.
LEMMA ChainedFacts ==
    ASSUME NEW n
    PROVE  received_blocks[n] \in Seq(Block) =>
               Chained(n) \subseteq Block /\ IsFiniteSet(Chained(n))
<1>1. SUFFICES ASSUME received_blocks[n] \in Seq(Block)
               PROVE  Chained(n) \subseteq Block /\ IsFiniteSet(Chained(n))
  OBVIOUS
<1>2. Chained(n) \subseteq Block
  BY <1>1 DEF Chained, Range
<1>3. PICK s, N : s = received_blocks[n] /\ N = Len(s)
  OBVIOUS
<1>4. N \in Nat /\ s \in [1..N -> Block] /\ Chained(n) = {s[i] : i \in 1..N}
  BY <1>1, <1>3, LenProperties DEF Chained, Range
<1>5. IsFiniteSet({s[i] : i \in 1..N})
  <2>1. PICK T : T = {s[i] : i \in 1..N}
    OBVIOUS
  <2>2. s \in Surjection(1..N, T)
    BY <1>4, <2>1 DEF Surjection
  <2>3. IsFiniteSet(1..N)
    BY <1>4, FS_Interval
  <2>4. IsFiniteSet(T)
    BY <2>2, <2>3, FS_Surjection
  <2> QED BY <2>1, <2>4
<1> QED BY <1>1, <1>2, <1>4, <1>5

\* The lists of a finite set are lists.
LEMMA SetToSeqsFacts ==
    ASSUME NEW S, IsFiniteSet(S), S # {}, NEW s \in SetToSeqs(S)
    PROVE  s \in Seq(S) /\ s # <<>> /\ Range(s) \subseteq S
<1>1. Cardinality(S) \in Nat /\ Cardinality(S) # 0
  BY FS_CardinalityType, FS_EmptySet
<1>2. s \in [1..Cardinality(S) -> S]
  BY DEF SetToSeqs
<1>3. s \in Seq(S) /\ Len(s) = Cardinality(S)
  BY <1>1, <1>2, SeqDef, LenProperties
<1> QED BY <1>1, <1>2, <1>3 DEF Range

\* What a GET_BLOCK handler is.
LEMMA HandlerFacts ==
    ASSUME NEW h \in Handler
    PROVE  /\ h.at \in Node \ Light /\ h.from \in Node \ Light
           /\ h.asked \subseteq Block /\ h.found \subseteq Block /\ h.try \in 0..3
           /\ h.missing \in Seq(Block) /\ h.missing # <<>>
BY DEF Handler

\* A try ends at one of the blocks it looks for.
LEMMA ReachedFacts ==
    ASSUME NEW h \in Handler
    PROVE  Reached(h) \in 1..Len(h.missing)
<1>1. /\ Len(h.missing) \in Nat /\ Len(h.missing) >= 1
      /\ DOMAIN h.missing = 1..Len(h.missing)
  BY HandlerFacts, EmptySeq, LenProperties
<1>2. PICK N : N = Len(h.missing)
  OBVIOUS
<1>3. PICK T : T = {i \in 1..N : h.missing[i] \in Held(h.at) \/ i = N}
  OBVIOUS
<1>4. N \in T /\ T \in SUBSET Nat
  BY <1>1, <1>2, <1>3
<1>5. PICK i \in T : \A j \in T : i <= j
  <2>1. T # {}
    BY <1>4
  <2> QED BY <1>4, <2>1, LeastNumber
<1>6. \A j \in 1..(i - 1) : h.missing[j] \notin Held(h.at)
  <2> SUFFICES ASSUME NEW j \in 1..(i - 1), h.missing[j] \in Held(h.at) PROVE FALSE
    OBVIOUS
  <2>1. i \in 1..N /\ N \in Nat
    BY <1>1, <1>2, <1>3
  <2>2. j \in 1..N /\ ~(i <= j)
    BY <2>1
  <2>3. j \in T
    BY <1>3, <2>2
  <2> QED BY <1>5, <2>2, <2>3
<1>7. \E k \in DOMAIN h.missing :
          /\ \A j \in 1..(k - 1) : h.missing[j] \notin Held(h.at)
          /\ h.missing[k] \in Held(h.at) \/ k = Len(h.missing)
  BY <1>1, <1>2, <1>3, <1>6
<1>8. CASE h.try = 3
  BY <1>1, <1>8 DEF Reached
<1>9. CASE h.try # 3
  <2>1. Reached(h) \in DOMAIN h.missing
    BY <1>7, <1>9 DEF Reached
  <2> QED BY <1>1, <2>1
<1> QED BY <1>8, <1>9

\* A try finds what the node holds and leaves some of what was missing.
LEMMA TryFacts ==
    ASSUME NEW h \in Handler
    PROVE  /\ FoundNow(h) \subseteq Held(h.at) \cap Range(h.missing)
           /\ StillMissing(h) \in Seq(Block)
           /\ Range(StillMissing(h)) \subseteq Range(h.missing)
<1>1. PICK s, k : s = h.missing /\ k = Reached(h)
  OBVIOUS
<1>2. s \in Seq(Block) /\ Len(s) \in Nat /\ DOMAIN s = 1..Len(s) /\ k \in 1..Len(s)
  BY <1>1, HandlerFacts, ReachedFacts, LenProperties
<1>3. FoundNow(h) \subseteq Held(h.at) \cap Range(s)
  BY <1>1, <1>2 DEF FoundNow, Range
<1>4. ASSUME NEW i \in 0..Len(s)
      PROVE  SubSeq(s, 1, i) \in Seq(Block) /\ Range(SubSeq(s, 1, i)) \subseteq Range(s)
  <2>1. PICK t : t = SubSeq(s, 1, i)
    OBVIOUS
  <2>2. /\ t \in Seq(Block) /\ Len(t) = i /\ DOMAIN t = 1..i
        /\ \A j \in 1..i : t[j] = s[j]
    BY <1>2, <2>1, SubSeqProperties
  <2>3. Range(t) \subseteq Range(s)
    BY <1>2, <2>2 DEF Range
  <2> QED BY <2>1, <2>2, <2>3
<1>5. StillMissing(h) = SubSeq(s, 1, k) \/ StillMissing(h) = SubSeq(s, 1, k - 1)
  BY <1>1 DEF StillMissing
<1>6. k \in 0..Len(s) /\ k - 1 \in 0..Len(s)
  BY <1>2
<1> QED BY <1>1, <1>3, <1>4, <1>5, <1>6

-----------------------------------------------------------------------------
\* The blocks that are in their creators' chains.
Mined == {b \in Block : b \in Chained(Creator[b])}

\* The types of everything but messages and handlers.
StoreTypes ==
    /\ prev \in [Block -> Block \cup {Genesis, Unborn}]
    /\ received_blocks \in [Node -> Seq(Block)]
    /\ orphan_blocks \in [Node -> Seq(Block)]
    /\ header_store \in [Node -> Seq(Block)]
    /\ rounds \in [Node -> Nat]
    /\ starting \subseteq Node

\* A node keeps what was mined, its chain has the parents of its blocks, and its headers those
\* of its chain.
StoreRight(n) ==
    /\ Held(n) \cup KnownHeaders(n) \subseteq Mined
    /\ \A b \in Chained(n) : prev[b] \in Chained(n) \cup {Genesis}
    /\ Chained(n) \subseteq KnownHeaders(n)

\* A message names what was mined, and an announcement what its sender has.
MessageRight(m) ==
    /\ m \in Message
    /\ m.type = "INV" =>
           IsFiniteSet(m.block_ids) /\ m.block_ids \subseteq Chained(m.from) \cap Mined
    /\ m.type = "GET_BLOCK" => Range(m.request_ids) \subseteq Mined
    /\ m.type = "BLOCK" => m.block \in Mined
    /\ m.type = "BLOCK_HEADERS" => Range(m.headers) \subseteq Mined

\* A handler looks for what was mined, and what it has found is still there.
HandlerRight(h) ==
    /\ h \in Handler
    /\ h.asked \cup Range(h.missing) \subseteq Mined
    /\ h.found \subseteq Held(h.at) \cap Mined

\* The invariant.  Announcements are true and stay so because chains only grow; that a new
\* block is on no chain yet, so that its parent can be fixed, is a part of it: what is on a
\* chain has a parent there.
SyncInv ==
    /\ StoreTypes
    /\ \A n \in Node : StoreRight(n)
    /\ \A m \in messages : MessageRight(m)
    /\ \A h \in serving : HandlerRight(h)

LEMMA SyncInvImplies == SyncInv => TypeOK /\ AnnouncedIsHeld
BY DEF SyncInv, StoreTypes, MessageRight, HandlerRight, TypeOK, AnnouncedIsHeld

LEMMA SyncInvInit == Init => SyncInv
<1> SUFFICES ASSUME Init PROVE SyncInv
  OBVIOUS
<1>1. <<>> \in Seq(Block) /\ Range(<<>>) = {}
  BY DEF Range
<1>2. StoreTypes
  BY <1>1, BoundsAssumption DEF Init, StoreTypes
<1>3. \A n \in Node : Chained(n) = {} /\ Held(n) = {} /\ KnownHeaders(n) = {}
  BY <1>1 DEF Init, Chained, Held, KnownHeaders
<1> QED BY <1>2, <1>3 DEF Init, SyncInv, StoreRight

\* Messages and handlers stay right while chains grow and what is held stays.
LEMMA Growth ==
    ASSUME \A n \in Node : Chained(n) \subseteq Chained(n)' /\ Held(n) \subseteq Held(n)'
    PROVE  /\ Mined \subseteq Mined'
           /\ \A m : MessageRight(m) => MessageRight(m)'
           /\ \A h : HandlerRight(h) => HandlerRight(h)'
<1>1. Mined \subseteq Mined'
  BY BlocksAssumption DEF Mined
<1>2. ASSUME NEW m, MessageRight(m) PROVE MessageRight(m)'
  <2>1. m.from \in Node
    BY <1>2, MessageFacts DEF MessageRight
  <2> QED BY <1>1, <1>2, <2>1 DEF MessageRight
<1>3. ASSUME NEW h, HandlerRight(h) PROVE HandlerRight(h)'
  <2>1. h.at \in Node
    BY <1>3, HandlerFacts DEF HandlerRight
  <2> QED BY <1>1, <1>3, <2>1 DEF HandlerRight
<1> QED BY <1>1, <1>2, <1>3

\* A step that leaves the stores alone need only be right about what it sends and starts.
LEMMA QuietStep ==
    ASSUME SyncInv, UNCHANGED <<prev, stores>>,
           rounds' \in [Node -> Nat], starting' \subseteq Node,
           \A m \in messages' : m \in messages \/ MessageRight(m),
           \A h \in serving' : h \in serving \/ HandlerRight(h)
    PROVE  SyncInv'
<1>1. UNCHANGED <<prev, received_blocks, orphan_blocks, header_store>>
  BY DEF stores
<1>2. /\ Mined' = Mined
      /\ \A n \in Node : /\ Chained(n)' = Chained(n) /\ Held(n)' = Held(n)
                         /\ KnownHeaders(n)' = KnownHeaders(n)
  BY <1>1 DEF Mined, Chained, Held, KnownHeaders
<1>3. StoreTypes'
  BY <1>1 DEF SyncInv, StoreTypes
<1>4. \A n \in Node : StoreRight(n)'
  BY <1>1, <1>2 DEF SyncInv, StoreRight
<1>5. /\ \A m : MessageRight(m) => MessageRight(m)'
      /\ \A h : HandlerRight(h) => HandlerRight(h)'
  BY <1>2, Growth
<1>6. \A m \in messages' : MessageRight(m)'
  BY <1>5 DEF SyncInv
<1>7. \A h \in serving' : HandlerRight(h)'
  BY <1>5 DEF SyncInv
<1> QED BY <1>3, <1>4, <1>6, <1>7 DEF SyncInv

\* Most steps start nothing either.
LEMMA MessageStep ==
    ASSUME SyncInv, UNCHANGED <<prev, stores, serving, starting>>, rounds' \in [Node -> Nat],
           \A m \in messages' : m \in messages \/ MessageRight(m)
    PROVE  SyncInv'
<1>1. UNCHANGED <<prev, stores>> /\ serving' = serving /\ starting' \subseteq Node
  BY DEF SyncInv, StoreTypes
<1> QED BY <1>1, QuietStep

LEMMA DropKeeps == ASSUME SyncInv, NEW m \in messages, Drop(m) PROVE SyncInv'
<1>1. UNCHANGED <<prev, stores, serving, starting>> /\ rounds' \in [Node -> Nat]
  BY DEF Drop, SyncInv, StoreTypes
<1>2. messages' \subseteq messages
  BY DEF Drop
<1> QED BY <1>1, <1>2, MessageStep

\* A message that has no effect.
LEMMA IgnoreKeeps ==
    ASSUME SyncInv, NEW m \in messages, IgnoreBlock(m) \/ IgnoreAsLight(m) \/ RefuseHeaders(m)
    PROVE  SyncInv'
<1>1. UNCHANGED <<prev, stores, serving, starting>> /\ rounds' \in [Node -> Nat]
  BY DEF IgnoreBlock, IgnoreAsLight, RefuseHeaders, SyncInv, StoreTypes
<1>2. messages' \subseteq messages
  BY DEF IgnoreBlock, IgnoreAsLight, RefuseHeaders
<1> QED BY <1>1, <1>2, MessageStep

\* An INV of some of one's own chain is true.
LEMMA OwnInv ==
    ASSUME SyncInv, NEW n \in Node, NEW p \in Node, NEW ids, ids \subseteq Chained(n)
    PROVE  MessageRight(Inv(n, p, ids))
<1>1. Chained(n) \subseteq Block /\ IsFiniteSet(Chained(n))
  BY ChainedFacts DEF SyncInv, StoreTypes
<1>2. ids \in SUBSET Block /\ IsFiniteSet(ids)
  BY <1>1, FS_Subset
<1>3. ids \subseteq Mined
  BY DEF SyncInv, StoreRight, Held
<1>4. PICK m : m = Inv(n, p, ids)
  OBVIOUS
<1>5. m \in Message /\ m.type = "INV" /\ m.from = n /\ m.block_ids = ids
  BY <1>2, <1>4, SentFacts
<1>6. MessageRight(m)
  BY <1>2, <1>3, <1>5 DEF MessageRight
<1> QED BY <1>4, <1>6

LEMMA BroadcastKeeps ==
    ASSUME SyncInv, NEW n \in Node, NEW s \in SUBSET Node, BroadcastInventory(n, s)
    PROVE  SyncInv'
<1>1. UNCHANGED <<prev, stores>> /\ serving' = serving /\ rounds' = rounds
  BY DEF BroadcastInventory
<1>2. rounds' \in [Node -> Nat] /\ starting' \subseteq Node
  BY <1>1 DEF BroadcastInventory, SyncInv, StoreTypes
<1>3. messages' = messages \cup {Inv(n, p, Chained(n)) : p \in s}
  BY DEF BroadcastInventory, Inventory
<1>4. \A p \in s : MessageRight(Inv(n, p, Chained(n)))
  BY OwnInv
<1>5. \A m \in messages' : m \in messages \/ MessageRight(m)
  BY <1>3, <1>4
<1> QED BY <1>1, <1>2, <1>5, QuietStep

\* A request for mined blocks is right.
LEMMA RequestRight ==
    ASSUME NEW n \in Node \ Light, NEW p \in Node, NEW ids \in Seq(Block), ids # <<>>,
           Range(ids) \subseteq Mined
    PROVE  MessageRight(GetBlock(n, p, ids))
<1>1. PICK m : m = GetBlock(n, p, ids)
  OBVIOUS
<1>2. m \in Message /\ m.type = "GET_BLOCK" /\ m.request_ids = ids
  BY <1>1, SentFacts
<1>3. MessageRight(m)
  BY <1>2 DEF MessageRight
<1> QED BY <1>1, <1>3

\* What is asked for after an INV was announced and so has been mined.
LEMMA InvKeeps == ASSUME SyncInv, NEW m \in messages, HandleInv(m) PROVE SyncInv'
<1>1. UNCHANGED <<prev, stores, serving, starting>> /\ rounds' \in [Node -> Nat]
  BY DEF HandleInv, SyncInv, StoreTypes
<1>2. MessageRight(m) /\ m.type = "INV"
  BY DEF SyncInv, HandleInv, Take
<1>3. /\ m.from \in Node /\ m.to \in Node /\ m.block_ids \subseteq Block
      /\ IsFiniteSet(m.block_ids) /\ m.block_ids \subseteq Mined
  BY <1>2, MessageFacts DEF MessageRight
<1>4. CASE messages' = messages \ {m}
  BY <1>1, <1>4, MessageStep
<1>5. CASE messages' # messages \ {m}
  <2>1. PICK missing : missing = MissingFrom(m.to, m.block_ids)
    OBVIOUS
  <2>2. m.to \notin Light /\ missing # {}
    BY <1>5, <2>1 DEF HandleInv
  <2>3. PICK ids \in SetToSeqs(missing) :
            messages' = (messages \ {m}) \cup {GetBlock(m.to, m.from, ids)}
    BY <1>5, <2>1 DEF HandleInv
  <2>4. missing \subseteq m.block_ids /\ IsFiniteSet(missing)
    BY <1>3, <2>1, FS_Subset DEF MissingFrom
  <2>5. ids \in Seq(missing) /\ ids # <<>> /\ Range(ids) \subseteq missing
    BY <2>2, <2>4, SetToSeqsFacts
  <2>6. ids \in Seq(Block)
    BY <1>3, <2>4, <2>5, SeqDef
  <2>7. MessageRight(GetBlock(m.to, m.from, ids))
    BY <1>3, <2>2, <2>4, <2>5, <2>6, RequestRight
  <2>8. \A x \in messages' : x \in messages \/ MessageRight(x)
    BY <2>3, <2>7
  <2> QED BY <1>1, <2>8, MessageStep
<1> QED BY <1>4, <1>5

LEMMA StartServingKeeps == ASSUME SyncInv, NEW m \in messages, StartServing(m) PROVE SyncInv'
<1>1. /\ UNCHANGED <<prev, stores>> /\ rounds' \in [Node -> Nat] /\ starting' \subseteq Node
      /\ messages' \subseteq messages
  BY DEF StartServing, SyncInv, StoreTypes
<1>2. MessageRight(m) /\ m.type = "GET_BLOCK" /\ m.to \notin Light
  BY DEF SyncInv, StartServing, Take
<1>3. /\ m.from \in Node \ Light /\ m.to \in Node \ Light
      /\ m.request_ids \in Seq(Block) /\ m.request_ids # <<>>
      /\ Range(m.request_ids) \subseteq Mined
  BY <1>2, MessageFacts DEF MessageRight
<1>4. PICK h : h = [at |-> m.to, from |-> m.from, asked |-> Range(m.request_ids),
                    missing |-> m.request_ids, found |-> {}, try |-> 0]
  OBVIOUS
<1>5. Range(m.request_ids) \subseteq Block
  BY <1>3 DEF Mined
<1>6. h \in Handler
  BY <1>3, <1>4, <1>5 DEF Handler
<1>7. HandlerRight(h)
  BY <1>3, <1>4, <1>6 DEF HandlerRight
<1>8. serving' = serving \cup {h}
  BY <1>4 DEF StartServing
<1> QED BY <1>1, <1>7, <1>8, QuietStep

\* What a handler sends is held where it is, and what it asks others for was asked for.
LEMMA TryKeeps == ASSUME SyncInv, NEW h \in serving, TryToServe(h) PROVE SyncInv'
<1>1. UNCHANGED <<prev, stores>> /\ rounds' \in [Node -> Nat] /\ starting' \subseteq Node
  BY DEF TryToServe, SyncInv, StoreTypes
<1>2. HandlerRight(h)
  BY DEF SyncInv
<1>3. /\ h \in Handler /\ h.at \in Node \ Light /\ h.from \in Node \ Light /\ h.try \in 0..3
      /\ h.asked \subseteq Block
      /\ h.asked \cup Range(h.missing) \subseteq Mined /\ h.found \subseteq Held(h.at) \cap Mined
  BY <1>2, HandlerFacts DEF HandlerRight
<1>4. PICK left, found : left = StillMissing(h) /\ found = FoundNow(h)
  OBVIOUS
<1>5. /\ found \subseteq Held(h.at) \cap Mined
      /\ left \in Seq(Block) /\ Range(left) \subseteq Mined
  BY <1>3, <1>4, TryFacts
<1>6. \A m \in SendFound(h) : MessageRight(m)
  <2> SUFFICES ASSUME NEW b \in h.found \cup found, NEW m, m = BlockTo(b, h.from)
               PROVE  MessageRight(m)
    BY <1>4 DEF SendFound
  <2>1. b \in Mined /\ b \in Block
    BY <1>3, <1>5 DEF Mined
  <2>2. m \in Message /\ m.type = "BLOCK" /\ m.block = b
    BY <1>3, <2>1, SentFacts
  <2> QED BY <2>1, <2>2 DEF MessageRight
<1>7. left # <<>> => \A m \in AskOthers(h) : MessageRight(m)
  <2> SUFFICES ASSUME left # <<>>, NEW p \in Known[h.at] \ {h.at, h.from}
               PROVE  MessageRight(GetBlock(h.at, p, left))
    BY <1>4 DEF AskOthers
  <2>1. p \in Node
    BY <1>3, NodesAssumption
  <2> QED BY <1>3, <1>5, <2>1, RequestRight
<1>8. \A m \in messages' : m \in messages \/ MessageRight(m)
  <2>1. \/ messages' = messages \cup SendFound(h)
        \/ left # <<>> /\ messages' = messages \cup AskOthers(h)
        \/ left # <<>> /\ messages' = messages \cup AskOthers(h) \cup SendFound(h)
    BY <1>4 DEF TryToServe
  <2> QED BY <1>6, <1>7, <2>1
<1>9. \A x \in serving' : x \in serving \/ HandlerRight(x)
  <2>1. CASE serving' = serving \ {h}
    BY <2>1
  <2>2. CASE serving' # serving \ {h}
    <3>1. PICK k : k = [h EXCEPT !.missing = left, !.found = @ \cup found, !.try = @ + 1]
      OBVIOUS
    <3>2. left # <<>> /\ h.try < 3 /\ serving' = (serving \ {h}) \cup {k}
      BY <1>4, <2>2, <3>1 DEF TryToServe
    <3>3. /\ k.at = h.at /\ k.asked = h.asked /\ k.missing = left
          /\ k.found = h.found \cup found
      BY <1>3, <3>1 DEF Handler
    <3>4. k \in Handler
      <4>1. h.try + 1 \in 0..3 /\ left \in Seq(Block) \ {<<>>}
        BY <1>3, <1>5, <3>2
      <4>2. h.found \cup found \subseteq Block
        BY <1>3, <1>5 DEF Mined
      <4> QED BY <1>3, <3>1, <4>1, <4>2 DEF Handler
    <3>5. HandlerRight(k)
      BY <1>3, <1>5, <3>3, <3>4 DEF HandlerRight
    <3> QED BY <3>2, <3>5
  <2> QED BY <2>1, <2>2
<1> QED BY <1>1, <1>8, <1>9, QuietStep

LEMMA RequestHeadersKeeps == ASSUME SyncInv, NEW n \in Node, RequestHeaders(n) PROVE SyncInv'
<1>1. UNCHANGED <<prev, stores, serving, starting>>
  BY DEF RequestHeaders
<1>2. rounds' \in [Node -> Nat]
  BY DEF RequestHeaders, SyncInv, StoreTypes
<1>3. messages' = messages \cup {GetHeaders(n, p) : p \in Known[n] \ {n}}
  BY DEF RequestHeaders
<1>4. ASSUME NEW p \in Known[n], NEW m, m = GetHeaders(n, p) PROVE MessageRight(m)
  <2>1. p \in Node
    BY NodesAssumption
  <2>2. m \in Message /\ m.type = "GET_BLOCK_HEADERS"
    BY <1>4, <2>1, SentFacts
  <2> QED BY <2>2 DEF MessageRight
<1>5. \A m \in messages' : m \in messages \/ MessageRight(m)
  BY <1>3, <1>4
<1> QED BY <1>1, <1>2, <1>5, MessageStep

LEMMA SendHeadersKeeps == ASSUME SyncInv, NEW m \in messages, SendHeaders(m) PROVE SyncInv'
<1>1. UNCHANGED <<prev, stores, serving, starting>> /\ rounds' \in [Node -> Nat]
  BY DEF SendHeaders, SyncInv, StoreTypes
<1>2. m.from \in Node /\ m.to \in Node
  BY MessageFacts DEF SyncInv, MessageRight
<1>3. PICK x : x = Headers(m.to, m.from, header_store[m.to])
  OBVIOUS
<1>4. header_store[m.to] \in Seq(Block) /\ Range(header_store[m.to]) \subseteq Mined
  BY <1>2 DEF SyncInv, StoreTypes, StoreRight, KnownHeaders
<1>5. x \in Message /\ x.type = "BLOCK_HEADERS" /\ x.headers = header_store[m.to]
  BY <1>2, <1>3, <1>4, SentFacts
<1>6. MessageRight(x)
  BY <1>4, <1>5 DEF MessageRight
<1>7. messages' = (messages \ {m}) \cup {x}
  BY <1>3 DEF SendHeaders
<1> QED BY <1>1, <1>6, <1>7, MessageStep

\* A step that adds to the stores.
LEMMA StoreStep ==
    ASSUME SyncInv, StoreTypes', serving' = serving,
           \A n \in Node : Chained(n) \subseteq Chained(n)' /\ Held(n) \subseteq Held(n)',
           \A n \in Node : StoreRight(n)',
           \A m \in messages' : m \in messages \/ MessageRight(m)'
    PROVE  SyncInv'
<1>1. /\ \A m : MessageRight(m) => MessageRight(m)'
      /\ \A h : HandlerRight(h) => HandlerRight(h)'
  BY Growth
<1>2. \A m \in messages' : MessageRight(m)'
  BY <1>1 DEF SyncInv
<1>3. \A h \in serving' : HandlerRight(h)'
  BY <1>1 DEF SyncInv
<1> QED BY <1>2, <1>3 DEF SyncInv

\* An orphan more.
LEMMA WaitKeeps == ASSUME SyncInv, NEW m \in messages, Wait(m) PROVE SyncInv'
<1>1. MessageRight(m) /\ m.type = "BLOCK"
  BY DEF SyncInv, Wait, Take
<1>2. m.to \in Node /\ m.block \in Block /\ m.block \in Mined
  BY <1>1, MessageFacts DEF MessageRight
<1>3. PICK n, b : n = m.to /\ b = m.block
  OBVIOUS
<1>4. /\ UNCHANGED <<prev, received_blocks, header_store, serving, rounds, starting>>
      /\ messages' \subseteq messages
      /\ orphan_blocks' = [orphan_blocks EXCEPT ![n] =
                              IF b \in Range(@) THEN @ ELSE Append(@, b)]
  BY <1>3 DEF Wait
<1>5. orphan_blocks \in [Node -> Seq(Block)]
  BY DEF SyncInv, StoreTypes
<1>6. /\ orphan_blocks'[n] \in Seq(Block)
      /\ Range(orphan_blocks'[n]) = Range(orphan_blocks[n]) \cup {b}
      /\ \A p \in Node \ {n} : orphan_blocks'[p] = orphan_blocks[p]
  <2>1. orphan_blocks[n] \in Seq(Block)
    BY <1>2, <1>3, <1>5
  <2>2. /\ Append(orphan_blocks[n], b) \in Seq(Block)
        /\ Range(Append(orphan_blocks[n], b)) = Range(orphan_blocks[n]) \cup {b}
    BY <1>2, <1>3, <2>1, AppendFacts
  <2> QED BY <1>2, <1>3, <1>4, <1>5, <2>1, <2>2
<1>7. orphan_blocks' \in [Node -> Seq(Block)]
  BY <1>4, <1>5, <1>6
<1>8. StoreTypes'
  BY <1>4, <1>7 DEF SyncInv, StoreTypes
<1>9. /\ Mined' = Mined
      /\ \A p \in Node : /\ Chained(p)' = Chained(p) /\ KnownHeaders(p)' = KnownHeaders(p)
                         /\ Held(p) \subseteq Held(p)' /\ Held(p)' \subseteq Held(p) \cup {b}
  BY <1>4, <1>6 DEF Mined, Chained, KnownHeaders, Held
<1>10. \A p \in Node : StoreRight(p)'
  BY <1>2, <1>3, <1>4, <1>9 DEF SyncInv, StoreRight
<1> QED BY <1>4, <1>8, <1>9, <1>10, StoreStep

\* Some headers more, and a request for the blocks.
LEMMA HandleHeadersKeeps ==
    ASSUME SyncInv, NEW m \in messages, HandleHeaders(m)
    PROVE  SyncInv'
<1>1. MessageRight(m) /\ m.type = "BLOCK_HEADERS"
  BY DEF SyncInv, HandleHeaders, Take
<1>2. /\ m.to \in Node /\ m.from \in Node
      /\ m.headers \in Seq(Block) /\ Range(m.headers) \subseteq Mined
  BY <1>1, MessageFacts DEF MessageRight
<1>3. PICK n, new : n = m.to /\ new = Kept(m.headers, Block \ KnownHeaders(n))
  OBVIOUS
<1>4. new \in Seq(Block) /\ Range(new) \subseteq Mined
  <2>1. new \in Seq(Block) /\ Range(new) = Range(m.headers) \cap (Block \ KnownHeaders(n))
    BY <1>2, <1>3, KeptFacts
  <2> QED BY <1>2, <2>1
<1>5. /\ UNCHANGED <<prev, received_blocks, orphan_blocks, serving, rounds, starting>>
      /\ header_store' = [header_store EXCEPT ![n] = @ \o new]
  BY <1>3 DEF HandleHeaders
<1>6. header_store \in [Node -> Seq(Block)]
  BY DEF SyncInv, StoreTypes
<1>7. /\ header_store'[n] \in Seq(Block)
      /\ Range(header_store'[n]) = Range(header_store[n]) \cup Range(new)
      /\ \A p \in Node \ {n} : header_store'[p] = header_store[p]
  <2>1. header_store[n] \in Seq(Block)
    BY <1>2, <1>3, <1>6
  <2>2. /\ header_store[n] \o new \in Seq(Block)
        /\ Range(header_store[n] \o new) = Range(header_store[n]) \cup Range(new)
    BY <1>4, <2>1, ConcatFacts
  <2> QED BY <1>2, <1>3, <1>5, <1>6, <2>2
<1>8. header_store' \in [Node -> Seq(Block)]
  BY <1>5, <1>6, <1>7
<1>9. StoreTypes'
  BY <1>5, <1>8 DEF SyncInv, StoreTypes
<1>10. /\ Mined' = Mined
       /\ \A p \in Node : /\ Chained(p)' = Chained(p) /\ Held(p)' = Held(p)
                          /\ KnownHeaders(p) \subseteq KnownHeaders(p)'
                          /\ KnownHeaders(p)' \subseteq KnownHeaders(p) \cup Range(new)
  BY <1>5, <1>7 DEF Mined, Chained, KnownHeaders, Held
<1>11. \A p \in Node : StoreRight(p)'
  BY <1>4, <1>5, <1>10 DEF SyncInv, StoreRight
<1>12. \A x \in messages' : x \in messages \/ MessageRight(x)
  <2>1. PICK ids : ids = MissingBlocks(m)
    OBVIOUS
  <2>2. ids \in Seq(Block) /\ Range(ids) \subseteq Mined
    <3>1. PICK T : T = Block \ (Chained(m.to) \cap Range(orphan_blocks[m.to]))
      OBVIOUS
    <3>2. ids \in Seq(Block) /\ Range(ids) = Range(m.headers) \cap T
      BY <1>2, <2>1, <3>1, KeptFacts DEF MissingBlocks
    <3> QED BY <1>2, <3>2
  <2>3. CASE n \notin Light /\ ids # <<>>
    <3>1. messages' = (messages \ {m}) \cup {GetBlock(n, m.from, ids)}
      BY <1>3, <2>1, <2>3 DEF HandleHeaders, Fetches
    <3>2. MessageRight(GetBlock(n, m.from, ids))
      BY <1>2, <1>3, <2>2, <2>3, RequestRight
    <3> QED BY <3>1, <3>2
  <2>4. CASE ~(n \notin Light /\ ids # <<>>)
    BY <1>3, <2>1, <2>4 DEF HandleHeaders, Fetches
  <2> QED BY <2>3, <2>4
<1>13. \A x \in messages' : x \in messages \/ MessageRight(x)'
  BY <1>10, <1>12, Growth
<1> QED BY <1>5, <1>9, <1>10, <1>11, <1>13, StoreStep

\* An INV of a block that its sender has by the end of the step.
LEMMA NewInv ==
    ASSUME NEW n \in Node, NEW p \in Node, NEW b \in Block,
           b \in Chained(n)', b \in Mined'
    PROVE  MessageRight(Inv(n, p, {b}))'
<1>1. PICK m : m = Inv(n, p, {b})
  OBVIOUS
<1>2. m \in Message /\ m.type = "INV" /\ m.from = n /\ m.block_ids = {b}
  BY <1>1, SentFacts
<1>3. IsFiniteSet({b})
  BY FS_Singleton
<1>4. MessageRight(m)'
  BY <1>2, <1>3 DEF MessageRight
<1> QED BY <1>1, <1>4

\* A new block goes on the tip of its creator's chain, and was on no chain before.
LEMMA MineKeeps ==
    ASSUME SyncInv, NEW b \in Block, NEW s \in SUBSET Node, Mine(b, s)
    PROVE  SyncInv'
<1>1. PICK n : n = Creator[b]
  OBVIOUS
<1>2. n \in Node
  BY <1>1, BlocksAssumption
<1>3. /\ prev[b] = Unborn /\ prev' = [prev EXCEPT ![b] = Tip(n)]
      /\ received_blocks' = [received_blocks EXCEPT ![n] = Append(@, b)]
      /\ header_store' = [header_store EXCEPT ![n] = Append(@, b)]
      /\ messages' = messages \cup {Inv(n, p, {b}) : p \in s}
      /\ UNCHANGED <<orphan_blocks, serving, rounds, starting>>
  BY <1>1 DEF Mine
<1>4. StoreTypes
  BY DEF SyncInv
<1>5. received_blocks[n] \in Seq(Block) /\ header_store[n] \in Seq(Block)
  BY <1>2, <1>4 DEF StoreTypes
<1>6. /\ Append(received_blocks[n], b) \in Seq(Block)
      /\ Range(Append(received_blocks[n], b)) = Range(received_blocks[n]) \cup {b}
      /\ Append(header_store[n], b) \in Seq(Block)
      /\ Range(Append(header_store[n], b)) = Range(header_store[n]) \cup {b}
  BY <1>5, AppendFacts
<1>7. /\ received_blocks'[n] = Append(received_blocks[n], b)
      /\ header_store'[n] = Append(header_store[n], b)
      /\ \A p \in Node \ {n} : /\ received_blocks'[p] = received_blocks[p]
                               /\ header_store'[p] = header_store[p]
  BY <1>2, <1>3, <1>4 DEF StoreTypes
<1>8. Tip(n) \in Chained(n) \cup {Genesis} /\ Chained(n) \subseteq Block
  <2>1. CASE received_blocks[n] = <<>>
    BY <1>5, <2>1, ChainedFacts DEF Tip
  <2>2. CASE received_blocks[n] # <<>>
    <3>1. PICK c : c = received_blocks[n]
      OBVIOUS
    <3>2. c \in Seq(Block) /\ Len(c) \in DOMAIN c
      BY <1>5, <2>2, <3>1, EmptySeq, LenProperties
    <3> QED BY <1>5, <2>2, <3>1, <3>2, ChainedFacts DEF Tip, Chained, Range
  <2> QED BY <2>1, <2>2
<1>9. StoreTypes'
  <2>1. prev' \in [Block -> Block \cup {Genesis, Unborn}]
    BY <1>3, <1>4, <1>8 DEF StoreTypes
  <2>2. received_blocks' \in [Node -> Seq(Block)] /\ header_store' \in [Node -> Seq(Block)]
    BY <1>3, <1>4, <1>6 DEF StoreTypes
  <2> QED BY <1>3, <1>4, <2>1, <2>2 DEF StoreTypes
<1>10. /\ Chained(n)' = Chained(n) \cup {b} /\ KnownHeaders(n)' = KnownHeaders(n) \cup {b}
       /\ \A p \in Node \ {n} :
              Chained(p)' = Chained(p) /\ KnownHeaders(p)' = KnownHeaders(p)
  BY <1>6, <1>7 DEF Chained, KnownHeaders
<1>11. /\ \A p \in Node \ {n} : Held(p)' = Held(p)
       /\ Held(n)' = Held(n) \cup {b}
  BY <1>3, <1>10 DEF Held
<1>12. \A p \in Node : Chained(p) \subseteq Chained(p)' /\ Held(p) \subseteq Held(p)'
  BY <1>2, <1>10, <1>11
<1>13. Mined \subseteq Mined' /\ b \in Mined'
  <2>1. b \in Mined'
    BY <1>1, <1>10 DEF Mined
  <2> QED BY <1>12, <2>1, Growth
<1>14. \A p \in Node : b \notin Chained(p)
  <2>1. \A p \in Node : \A x \in Chained(p) : prev[x] \in Chained(p) \cup {Genesis}
    BY DEF SyncInv, StoreRight
  <2>2. \A p \in Node : Chained(p) \subseteq Block
    BY <1>4, ChainedFacts DEF StoreTypes
  <2> QED BY <1>3, <2>1, <2>2, BlocksAssumption
<1>15. \A p \in Node : StoreRight(p)'
  <2> SUFFICES ASSUME NEW p \in Node PROVE StoreRight(p)'
    OBVIOUS
  <2>1. StoreRight(p)
    BY DEF SyncInv
  <2>2. (Held(p) \cup KnownHeaders(p))' \subseteq Mined'
    BY <1>10, <1>11, <1>13, <2>1 DEF StoreRight
  <2>3. ASSUME NEW x \in Chained(p)' PROVE prev'[x] \in Chained(p)' \cup {Genesis}
    <3>1. CASE x = b
      <4>1. p = n
        BY <1>10, <1>14, <2>3, <3>1
      <4> QED BY <1>3, <1>4, <1>8, <1>10, <3>1, <4>1 DEF StoreTypes
    <3>2. CASE x # b
      <4>1. x \in Chained(p)
        BY <1>2, <1>10, <2>3, <3>2
      <4>2. prev'[x] = prev[x] /\ prev[x] \in Chained(p) \cup {Genesis}
        <5>1. x \in Block
          BY <1>4, <4>1, ChainedFacts DEF StoreTypes
        <5> QED BY <1>3, <1>4, <2>1, <3>2, <4>1, <5>1 DEF StoreRight, StoreTypes
      <4> QED BY <1>12, <4>2
    <3> QED BY <3>1, <3>2
  <2>4. Chained(p)' \subseteq KnownHeaders(p)'
    BY <1>2, <1>10, <2>1 DEF StoreRight
  <2> QED BY <2>2, <2>3, <2>4 DEF StoreRight
<1>16. \A m \in messages' : m \in messages \/ MessageRight(m)'
  <2>1. b \in Chained(n)'
    BY <1>10
  <2>2. \A p \in s : MessageRight(Inv(n, p, {b}))'
    BY <1>2, <1>13, <2>1, NewInv
  <2> QED BY <1>3, <2>2
<1> QED BY <1>3, <1>9, <1>12, <1>15, <1>16, StoreStep

\* A block whose parent is there, and the orphans that descend from it.
LEMMA ConnectKeeps ==
    ASSUME SyncInv, NEW m \in messages, NEW s \in SUBSET Node, Connect(m, s)
    PROVE  SyncInv'
<1>1. PICK n, b, new : n = m.to /\ b = m.block /\ new = WithOrphans(m.to, m.block)
  OBVIOUS
<1>2. MessageRight(m) /\ m.type = "BLOCK"
  BY DEF SyncInv, Connect, Take
<1>3. n \in Node /\ b \in Block /\ b \in Mined
  BY <1>1, <1>2, MessageFacts DEF MessageRight
<1>4. /\ prev[b] = Genesis \/ prev[b] \in Chained(n)
      /\ received_blocks' = [received_blocks EXCEPT ![n] = @ \o new]
      /\ header_store' = [header_store EXCEPT ![n] = @ \o new]
      /\ orphan_blocks' = [orphan_blocks EXCEPT ![n] = Kept(@, Block \ Range(new))]
      /\ messages' = (messages \ {m}) \cup {Inv(n, p, {b}) : p \in s}
      /\ UNCHANGED <<prev, serving, rounds, starting>>
  BY <1>1 DEF Connect, Connected
<1>5. StoreTypes
  BY DEF SyncInv
<1>6. /\ received_blocks[n] \in Seq(Block) /\ header_store[n] \in Seq(Block)
      /\ orphan_blocks[n] \in Seq(Block)
  BY <1>3, <1>5 DEF StoreTypes
<1>7. PICK r \in Litter(n, b) : new = <<b>> \o r
  BY <1>1, <1>3, <1>6, WithOrphansFacts
<1>8. /\ r \in Seq(Block) /\ Range(r) \subseteq Range(orphan_blocks[n])
      /\ \A o \in Range(r) : prev[o] \in Range(r) \cup {b}
  BY <1>7 DEF Litter
<1>9. new \in Seq(Block) /\ Range(new) = Range(r) \cup {b}
  BY <1>3, <1>7, <1>8, ConsFacts
<1>10. /\ received_blocks[n] \o new \in Seq(Block)
       /\ Range(received_blocks[n] \o new) = Range(received_blocks[n]) \cup Range(new)
       /\ header_store[n] \o new \in Seq(Block)
       /\ Range(header_store[n] \o new) = Range(header_store[n]) \cup Range(new)
  BY <1>6, <1>9, ConcatFacts
<1>11. PICK waiting : waiting = Kept(orphan_blocks[n], Block \ Range(new))
  OBVIOUS
<1>12. /\ waiting \in Seq(Block)
       /\ Range(waiting) = Range(orphan_blocks[n]) \cap (Block \ Range(new))
  BY <1>6, <1>11, KeptFacts
<1>13. /\ received_blocks'[n] = received_blocks[n] \o new
       /\ header_store'[n] = header_store[n] \o new
       /\ orphan_blocks'[n] = waiting
       /\ \A p \in Node \ {n} : /\ received_blocks'[p] = received_blocks[p]
                                /\ header_store'[p] = header_store[p]
                                /\ orphan_blocks'[p] = orphan_blocks[p]
  BY <1>3, <1>4, <1>5, <1>11 DEF StoreTypes
<1>14. StoreTypes'
  <2>1. /\ received_blocks' \in [Node -> Seq(Block)] /\ header_store' \in [Node -> Seq(Block)]
        /\ orphan_blocks' \in [Node -> Seq(Block)]
    BY <1>4, <1>5, <1>10, <1>11, <1>12 DEF StoreTypes
  <2> QED BY <1>4, <1>5, <2>1 DEF StoreTypes
<1>15. /\ Chained(n)' = Chained(n) \cup Range(new)
       /\ KnownHeaders(n)' = KnownHeaders(n) \cup Range(new)
       /\ Held(n)' = Held(n) \cup Range(new)
  <2>1. Chained(n)' = Chained(n) \cup Range(new) /\ KnownHeaders(n)' = KnownHeaders(n) \cup Range(new)
    BY <1>10, <1>13 DEF Chained, KnownHeaders
  <2>2. Range(orphan_blocks[n]) \subseteq Block
    BY <1>6 DEF Range
  <2>3. Range(orphan_blocks'[n]) = Range(orphan_blocks[n]) \ Range(new)
    BY <1>12, <1>13, <2>2
  <2> QED BY <2>1, <2>3 DEF Held
<1>16. \A p \in Node \ {n} : /\ Chained(p)' = Chained(p) /\ Held(p)' = Held(p)
                             /\ KnownHeaders(p)' = KnownHeaders(p)
  BY <1>13 DEF Chained, KnownHeaders, Held
<1>17. \A p \in Node : Chained(p) \subseteq Chained(p)' /\ Held(p) \subseteq Held(p)'
  BY <1>15, <1>16
<1>18. Mined \subseteq Mined'
  BY <1>17, Growth
<1>19. Range(new) \subseteq Mined
  <2>1. Range(orphan_blocks[n]) \subseteq Mined
    BY <1>3 DEF SyncInv, StoreRight, Held
  <2> QED BY <1>3, <1>8, <1>9, <2>1
<1>20. \A p \in Node : StoreRight(p)'
  <2> SUFFICES ASSUME NEW p \in Node PROVE StoreRight(p)'
    OBVIOUS
  <2>1. StoreRight(p)
    BY DEF SyncInv
  <2>2. CASE p # n
    BY <1>4, <1>16, <1>18, <2>1, <2>2 DEF StoreRight
  <2>3. CASE p = n
    <3>1. (Held(n) \cup KnownHeaders(n))' \subseteq Mined'
      BY <1>15, <1>18, <1>19, <2>1, <2>3 DEF StoreRight
    <3>2. \A x \in Chained(n)' : prev'[x] \in Chained(n)' \cup {Genesis}
      BY <1>4, <1>8, <1>9, <1>15, <2>1, <2>3 DEF StoreRight
    <3>3. Chained(n)' \subseteq KnownHeaders(n)'
      BY <1>15, <2>1, <2>3 DEF StoreRight
    <3> QED BY <2>3, <3>1, <3>2, <3>3 DEF StoreRight
  <2> QED BY <2>2, <2>3
<1>21. \A x \in messages' : x \in messages \/ MessageRight(x)'
  <2>1. b \in Chained(n)' /\ b \in Mined'
    BY <1>3, <1>9, <1>15, <1>18
  <2>2. \A p \in s : MessageRight(Inv(n, p, {b}))'
    BY <1>3, <2>1, NewInv
  <2> QED BY <1>4, <2>2
<1>22. serving' = serving
  BY <1>4
<1> QED BY <1>14, <1>17, <1>20, <1>21, <1>22, StoreStep

LEMMA SyncInvStep == SyncInv /\ [Next]_vars => SyncInv'
<1> SUFFICES ASSUME SyncInv, [Next]_vars PROVE SyncInv'
  OBVIOUS
<1>1. CASE \E b \in Block, s \in SUBSET Node : Mine(b, s)
  BY <1>1, MineKeeps
<1>2. CASE \E n \in Node, s \in SUBSET Node : BroadcastInventory(n, s)
  BY <1>2, BroadcastKeeps
<1>3. CASE \E n \in Node : RequestHeaders(n)
  BY <1>3, RequestHeadersKeeps
<1>4. CASE \E m \in messages : Drop(m)
  BY <1>4, DropKeeps
<1>5. CASE \E m \in messages, s \in SUBSET Node : Connect(m, s)
  BY <1>5, ConnectKeeps
<1>6. CASE \E m \in messages : Wait(m)
  BY <1>6, WaitKeeps
<1>7. CASE \E m \in messages : IgnoreBlock(m) \/ IgnoreAsLight(m) \/ RefuseHeaders(m)
  BY <1>7, IgnoreKeeps
<1>8. CASE \E m \in messages : HandleInv(m)
  BY <1>8, InvKeeps
<1>9. CASE \E m \in messages : StartServing(m)
  BY <1>9, StartServingKeeps
<1>10. CASE \E h \in serving : TryToServe(h)
  BY <1>10, TryKeeps
<1>11. CASE \E m \in messages : SendHeaders(m)
  BY <1>11, SendHeadersKeeps
<1>12. CASE \E m \in messages : HandleHeaders(m)
  BY <1>12, HandleHeadersKeeps
<1>13. CASE UNCHANGED vars
  BY <1>13, QuietStep DEF vars, SyncInv, StoreTypes
<1> QED
  BY <1>1, <1>2, <1>3, <1>4, <1>5, <1>6, <1>7, <1>8, <1>9, <1>10, <1>11, <1>12, <1>13
     DEF Next

LEMMA SyncInvAlways == SafeSpec => []SyncInv
BY SyncInvInit, SyncInvStep, PTL DEF SafeSpec

\* Chains, orphans, headers, messages and handlers are what they should be, whatever is
\* mined, announced, asked for and overtaken: light nodes ask for no block and get none.
THEOREM SyncTyped == SafeSpec => []TypeOK
BY SyncInvAlways, SyncInvImplies, PTL

\* Who announces a block has it as long as the announcement is on its way: inventories at the
\* start, INVs of mined blocks and of blocks passed on, at any number of nodes.
THEOREM AnnouncementsAreTrue == SafeSpec => []AnnouncedIsHeld
BY SyncInvAlways, SyncInvImplies, PTL

\* Who announces a block also has the block before it on its chain, so that a receiver can
\* get from one node whatever the block needs: orphans are adopted only after their parents.
AncestryHeld ==
    \A m \in messages : m.type = "INV" =>
        \A b \in m.block_ids : prev[b] \in Chained(m.from) \cup {Genesis}

THEOREM AncestryIsHeld == SafeSpec => []AncestryHeld
<1>1. SyncInv => AncestryHeld
  <2> SUFFICES ASSUME SyncInv, NEW m \in messages, m.type = "INV", NEW b \in m.block_ids
               PROVE  prev[b] \in Chained(m.from) \cup {Genesis}
    BY DEF AncestryHeld
  <2>1. MessageRight(m)
    BY DEF SyncInv
  <2>2. m.from \in Node /\ b \in Chained(m.from)
    BY <2>1, MessageFacts DEF MessageRight
  <2> QED BY <2>2 DEF SyncInv, StoreRight
<1> QED BY <1>1, SyncInvAlways, PTL

\* What a GET_BLOCK handler has found in its tries it still holds when it sends it after the
\* last one, seconds later: in the chain, if it was an orphan when it was found.
FoundIsHeld == \A h \in serving : h.found \subseteq Held(h.at)

THEOREM FoundStaysHeld == SafeSpec => []FoundIsHeld
<1>1. SyncInv => FoundIsHeld
  BY DEF SyncInv, HandlerRight, FoundIsHeld
<1> QED BY <1>1, SyncInvAlways, PTL
=============================================================================
