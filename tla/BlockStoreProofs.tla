-------------------------- MODULE BlockStoreProofs --------------------------
(***************************************************************************)
(* Proofs about the block store, for any set of blocks, of threads, any    *)
(* bounds, full and light nodes, with and without gossips that raise.      *)
(***************************************************************************)
EXTENDS BlockStore, SequenceFacts

(* Orders and how they grow. *)

\* A block whose parent is in a sequence may be appended to it without breaking its order.
LEMMA AppendKeepsOrder ==
    ASSUME NEW S, NEW s \in Seq(S), NEW e \in S, NEW pr, ParentsPrecede(s, pr),
           pr[e] = Genesis \/ pr[e] \in Range(s)
    PROVE  ParentsPrecede(Append(s, e), pr)
<1> DEFINE z == Append(s, e)
<1>1. /\ z \in Seq(S) /\ Len(z) = Len(s) + 1 /\ z[Len(s) + 1] = e
      /\ \A i \in 1..Len(s) : z[i] = s[i]
  BY AppendFacts
<1>2. DOMAIN s = 1..Len(s) /\ DOMAIN z = 1..(Len(s) + 1) /\ Len(s) \in Nat
  BY <1>1, LenProperties
<1> HIDE DEF z
<1>3. SUFFICES ASSUME NEW i \in DOMAIN z
               PROVE  pr[z[i]] = Genesis \/ \E j \in 1..(i - 1) : z[j] = pr[z[i]]
  BY DEF ParentsPrecede, z
<1>4. CASE i \in 1..Len(s)
  BY <1>1, <1>2, <1>4 DEF ParentsPrecede
<1>5. CASE i = Len(s) + 1
  BY <1>1, <1>2, <1>5 DEF Range
<1> QED BY <1>2, <1>3, <1>4, <1>5

\* So may a whole sequence of blocks whose parents are all in the first one.
LEMMA ConcatKeepsOrder ==
    ASSUME NEW S, NEW s \in Seq(S), NEW t \in Seq(S), NEW pr, ParentsPrecede(s, pr),
           \A h \in Range(t) : pr[h] = Genesis \/ pr[h] \in Range(s)
    PROVE  ParentsPrecede(s \o t, pr)
<1> DEFINE z == s \o t
<1>1. /\ z \in Seq(S) /\ Len(z) = Len(s) + Len(t)
      /\ \A i \in 1..Len(s) : z[i] = s[i]
      /\ \A i \in (Len(s) + 1)..(Len(s) + Len(t)) : z[i] \in Range(t)
  BY ConcatFacts
<1>2. /\ DOMAIN s = 1..Len(s) /\ DOMAIN z = 1..(Len(s) + Len(t))
      /\ Len(s) \in Nat /\ Len(t) \in Nat
  BY <1>1, LenProperties
<1> HIDE DEF z
<1>3. SUFFICES ASSUME NEW i \in DOMAIN z
               PROVE  pr[z[i]] = Genesis \/ \E j \in 1..(i - 1) : z[j] = pr[z[i]]
  BY DEF ParentsPrecede, z
<1>4. CASE i \in 1..Len(s)
  BY <1>1, <1>2, <1>4 DEF ParentsPrecede
<1>5. CASE i \in (Len(s) + 1)..(Len(s) + Len(t))
  <2>1. CASE pr[z[i]] = Genesis
    BY <2>1
  <2>2. CASE pr[z[i]] \in Range(s)
    <3>1. PICK j \in 1..Len(s) : s[j] = pr[z[i]]
      BY <2>2, <1>2 DEF Range
    <3>2. j \in 1..(i - 1) /\ z[j] = pr[z[i]]
      BY <3>1, <1>1, <1>2, <1>5
    <3> QED BY <3>2
  <2> QED BY <1>1, <1>5, <2>1, <2>2
<1> QED BY <1>2, <1>3, <1>4, <1>5

\* An order does not depend on the parent of a block that has none yet.
LEMMA BirthKeepsOrder ==
    ASSUME TypeOK, NEW s \in Seq(Block), ParentsPrecede(s, prev),
           NEW b \in Block, prev[b] = Unborn, NEW p, prev' = [prev EXCEPT ![b] = p]
    PROVE  ParentsPrecede(s, prev')
<1>1. DOMAIN s = 1..Len(s) /\ Len(s) \in Nat /\ \A i \in 1..Len(s) : s[i] \in Block
  BY LenProperties, ElementOfSeq
<1>2. \A i \in 1..Len(s) : prev[s[i]] # Unborn
  BY <1>1, BlocksAssumption DEF ParentsPrecede
<1>3. \A i \in 1..Len(s) : prev'[s[i]] = prev[s[i]]
  BY <1>1, <1>2 DEF TypeOK
<1> QED BY <1>1, <1>3 DEF ParentsPrecede

-----------------------------------------------------------------------------
(* The inductive invariant for the two stores. *)

\* Every block of the chain has its header.
ChainHasHeaders == Range(received_blocks) \subseteq Range(header_store)

\* The copy a header thread works with is old, but header_store only grows, and every
\* header it is about to append has its parent in the copy.
CopiesOld ==
    \A t \in Thread : hdr[t].pc = "checked" =>
        /\ hdr[t].known \subseteq Range(header_store)
        /\ \A h \in Range(hdr[t].list) : prev[h] = Genesis \/ prev[h] \in hdr[t].known

\* What the miner holds is its own block, linked into the chain.
CandidateLinked ==
    minerPc \in {"candidate", "gossip"} =>
        /\ candidate \in Own
        /\ prev[candidate] = Genesis \/ prev[candidate] \in Range(received_blocks)

StoreInv ==
    /\ TypeOK
    /\ UniqueBlocks
    /\ ParentFirst
    /\ HeaderParentFirst
    /\ ChainHasHeaders
    /\ CopiesOld
    /\ CandidateLinked

\* The blocks of a sorted sequence have been created.
LEMMA SortedBorn ==
    ASSUME NEW s \in Seq(Block), ParentsPrecede(s, prev), NEW b \in Range(s)
    PROVE  prev[b] # Unborn
<1>1. DOMAIN s = 1..Len(s) /\ Len(s) \in Nat /\ \A i \in 1..Len(s) : s[i] \in Block
  BY LenProperties, ElementOfSeq
<1> QED BY <1>1, BlocksAssumption DEF ParentsPrecede, Range

\* add_to_chain keeps both stores sorted and the chain free of repetitions, if the block
\* has passed handle_block's two checks.
LEMMA AddKeepsStores ==
    ASSUME StoreInv, NEW b \in Block, NEW self, ~Duplicate(b), Connected(b),
           AddToChain(b, self), prev' = prev
    PROVE  /\ received_blocks' \in Seq(Block) /\ header_store' \in Seq(Block)
           /\ UniqueBlocks' /\ ParentFirst' /\ HeaderParentFirst' /\ ChainHasHeaders'
           /\ Range(received_blocks) \subseteq Range(received_blocks')
           /\ Range(header_store) \subseteq Range(header_store')
<1>1. received_blocks \in Seq(Block) /\ header_store \in Seq(Block)
  BY DEF StoreInv, TypeOK
<1>2. header_store' = Append(header_store, b)
  BY DEF AddToChain
<1>3. /\ header_store' \in Seq(Block)
      /\ Range(header_store') = Range(header_store) \cup {b}
  BY <1>1, <1>2, AppendFacts
<1>4. HeaderParentFirst'
  <2>1. prev[b] = Genesis \/ prev[b] \in Range(header_store)
    BY DEF StoreInv, ChainHasHeaders, Connected
  <2>2. ParentsPrecede(Append(header_store, b), prev)
    BY <1>1, <2>1, AppendKeepsOrder DEF StoreInv, HeaderParentFirst
  <2> QED BY <1>2, <2>2 DEF HeaderParentFirst
<1>5. CASE received_blocks' = received_blocks
  BY <1>1, <1>3, <1>4, <1>5
     DEF StoreInv, UniqueBlocks, ParentFirst, ChainHasHeaders
<1>6. CASE received_blocks' = Append(received_blocks, b)
  <2>1. /\ received_blocks' \in Seq(Block)
        /\ Len(received_blocks') = Len(received_blocks) + 1
        /\ Range(received_blocks') = Range(received_blocks) \cup {b}
        /\ \A i \in 1..Len(received_blocks) : received_blocks'[i] = received_blocks[i]
        /\ received_blocks'[Len(received_blocks) + 1] = b
    BY <1>1, <1>6, AppendFacts
  <2>2. /\ DOMAIN received_blocks = 1..Len(received_blocks) /\ Len(received_blocks) \in Nat
        /\ DOMAIN received_blocks' = 1..(Len(received_blocks) + 1)
    BY <1>1, <2>1, LenProperties
  <2>3. b \notin Range(received_blocks)
    <3>1. CASE received_blocks = <<>>
      BY <3>1, <2>2, EmptySeq DEF Range
    <3>2. CASE received_blocks # <<>>
      BY <3>2 DEF Duplicate
    <3> QED BY <3>1, <3>2
  <2>4. \A i \in 1..Len(received_blocks) : received_blocks[i] # b
    BY <2>2, <2>3 DEF Range
  <2>5. UniqueBlocks'
    <3>1. SUFFICES ASSUME NEW i \in 1..(Len(received_blocks) + 1),
                          NEW j \in 1..(Len(received_blocks) + 1),
                          received_blocks'[i] = received_blocks'[j]
                   PROVE  i = j
      BY <2>2 DEF UniqueBlocks
    <3>2. CASE i \in 1..Len(received_blocks) /\ j \in 1..Len(received_blocks)
      BY <2>1, <2>2, <3>1, <3>2 DEF StoreInv, UniqueBlocks
    <3>3. CASE i = Len(received_blocks) + 1 \/ j = Len(received_blocks) + 1
      BY <2>1, <2>2, <2>4, <3>1, <3>3
    <3> QED BY <2>2, <3>2, <3>3
  <2>6. ParentFirst'
    <3>1. ParentsPrecede(Append(received_blocks, b), prev)
      BY <1>1, AppendKeepsOrder DEF StoreInv, ParentFirst, Connected
    <3> QED BY <1>6, <3>1 DEF ParentFirst
  <2>7. ChainHasHeaders'
    BY <1>3, <2>1 DEF StoreInv, ChainHasHeaders
  <2> QED BY <1>3, <1>4, <2>1, <2>5, <2>6, <2>7
<1> QED BY <1>5, <1>6 DEF AddToChain

\* One call of handle_block, whoever makes it.
LEMMA HandleBlockKeepsStores ==
    ASSUME StoreInv, NEW b \in Block, NEW self \in {"self", "system"},
           NEW stack \in Seq(Frame), HandleBlock(b, self, stack), prev' = prev
    PROVE  /\ received_blocks' \in Seq(Block) /\ header_store' \in Seq(Block)
           /\ orphan_blocks' \in [Block \cup {Genesis, Unborn} -> Seq(Block)]
           /\ frames' \in Seq(Frame)
           /\ announced' \subseteq {"self", "system"} \X Block
           /\ UniqueBlocks' /\ ParentFirst' /\ HeaderParentFirst' /\ ChainHasHeaders'
           /\ Range(received_blocks) \subseteq Range(received_blocks')
           /\ Range(header_store) \subseteq Range(header_store')
<1> USE DEF StoreInv, TypeOK
<1>1. CASE Duplicate(b) /\ frames' = stack /\ UNCHANGED <<store, announced>>
  BY <1>1 DEF store, UniqueBlocks, ParentFirst, HeaderParentFirst, ChainHasHeaders
<1>2. CASE /\ ~Duplicate(b) /\ Connected(b)
           /\ announced' = IF FromSelf(b, self) THEN announced
                                                ELSE announced \cup {<<self, b>>}
           /\ AddToChain(b, self)
           /\ frames' = CheckOrphans(b, stack)
           /\ UNCHANGED orphan_blocks
  <2>1. [bucket |-> b, next |-> 1] \in Frame
    BY DEF Frame
  <2>2. frames' \in Seq(Frame)
    BY <1>2, <2>1, AppendProperties DEF CheckOrphans
  <2>3. announced' \subseteq {"self", "system"} \X Block
    BY <1>2
  <2> QED BY <1>2, <2>2, <2>3, AddKeepsStores
<1>3. CASE /\ ~Duplicate(b) /\ ~Connected(b)
           /\ orphan_blocks' = [orphan_blocks EXCEPT ![prev[b]] = Append(@, b)]
           /\ frames' = stack
           /\ UNCHANGED <<received_blocks, header_store, announced>>
  <2>1. orphan_blocks' \in [Block \cup {Genesis, Unborn} -> Seq(Block)]
    <3>1. prev[b] \in Block \cup {Genesis, Unborn}
      OBVIOUS
    <3>2. Append(orphan_blocks[prev[b]], b) \in Seq(Block)
      BY <3>1, AppendProperties
    <3> QED BY <1>3, <3>1, <3>2
  <2> QED
    BY <1>3, <2>1 DEF UniqueBlocks, ParentFirst, HeaderParentFirst, ChainHasHeaders
<1> QED BY <1>1, <1>2, <1>3 DEF HandleBlock

\* What the other parts of the invariant need of a step that only lets the stores grow.
LEMMA GrowthKeepsCopies ==
    ASSUME StoreInv, prev' = prev, hdr' = hdr,
           Range(header_store) \subseteq Range(header_store')
    PROVE  CopiesOld'
BY DEF StoreInv, CopiesOld

LEMMA GrowthKeepsCandidate ==
    ASSUME StoreInv, prev' = prev, UNCHANGED candidate,
           minerPc' \in {"candidate", "gossip"} => minerPc \in {"candidate", "gossip"},
           Range(received_blocks) \subseteq Range(received_blocks')
    PROVE  CandidateLinked'
BY DEF StoreInv, CandidateLinked

LEMMA StoreInvInit == Init => StoreInv
<1> SUFFICES ASSUME Init PROVE StoreInv
  OBVIOUS
<1> USE DEF Init
<1>1. TypeOK
  BY EmptySeq DEF TypeOK, Idle
<1>2. DOMAIN received_blocks = {} /\ DOMAIN header_store = {}
  BY EmptySeq
<1>3. UniqueBlocks /\ ParentFirst /\ HeaderParentFirst /\ ChainHasHeaders
  BY <1>2 DEF UniqueBlocks, ParentFirst, HeaderParentFirst, ParentsPrecede,
              ChainHasHeaders, Range
<1>4. CopiesOld /\ CandidateLinked
  BY DEF CopiesOld, CandidateLinked, Idle
<1> QED BY <1>1, <1>3, <1>4 DEF StoreInv

\* A new block leaves everything already said about older blocks as it was.
LEMMA BirthKeepsStores ==
    ASSUME StoreInv, NEW b \in Block, prev[b] = Unborn, NEW p \in Block \cup {Genesis},
           prev' = [prev EXCEPT ![b] = p], UNCHANGED <<store, hdr>>
    PROVE  /\ prev' \in [Block -> Block \cup {Genesis, Unborn}]
           /\ UniqueBlocks' /\ ParentFirst' /\ HeaderParentFirst' /\ ChainHasHeaders'
           /\ CopiesOld'
<1> USE DEF store
<1>1. TypeOK
  BY DEF StoreInv
<1>2. prev' \in [Block -> Block \cup {Genesis, Unborn}]
  BY <1>1 DEF TypeOK
<1>3. ParentFirst'
  BY <1>1, BirthKeepsOrder DEF StoreInv, ParentFirst, TypeOK
<1>4. HeaderParentFirst'
  BY <1>1, BirthKeepsOrder DEF StoreInv, HeaderParentFirst, TypeOK
<1>5. UniqueBlocks' /\ ChainHasHeaders'
  BY DEF StoreInv, UniqueBlocks, ChainHasHeaders
<1>6. CopiesOld'
  <2>1. SUFFICES ASSUME NEW t \in Thread, hdr[t].pc = "checked"
                 PROVE  /\ hdr[t].known \subseteq Range(header_store)
                        /\ \A h \in Range(hdr[t].list) :
                               prev'[h] = Genesis \/ prev'[h] \in hdr[t].known
    BY DEF CopiesOld
  <2>2. hdr[t].known \subseteq Block /\ hdr[t].list \in Seq(Block)
    BY <1>1 DEF TypeOK
  <2>3. \A h \in Range(hdr[t].list) : h \in Block
    BY <2>2, ElementOfSeq, LenProperties DEF Range
  <2>4. \A h \in Range(hdr[t].list) : prev[h] # Unborn /\ prev'[h] = prev[h]
    BY <2>1, <2>2, <2>3, <1>1, BlocksAssumption DEF StoreInv, CopiesOld, TypeOK
  <2> QED BY <2>1, <2>4 DEF StoreInv, CopiesOld
<1> QED BY <1>2, <1>3, <1>4, <1>5, <1>6

LEMMA PublishKeeps ==
    ASSUME StoreInv, NEW b \in Remote, NEW p \in Block \cup {Genesis}, Publish(b, p)
    PROVE  StoreInv'
<1>1. b \in Block /\ prev[b] = Unborn /\ prev' = [prev EXCEPT ![b] = p]
  BY DEF Publish, Block
<1>2. CandidateLinked'
  <2>1. minerPc \in {"candidate", "gossip"} => candidate \in Block /\ candidate # b
    BY BlocksAssumption DEF StoreInv, CandidateLinked, Block
  <2> QED BY <1>1, <2>1 DEF StoreInv, CandidateLinked, TypeOK, Publish, store, miner
<1>3. TypeOK'
  BY <1>1, BirthKeepsStores DEF Publish, StoreInv, TypeOK, store, miner
<1> QED BY <1>1, <1>2, <1>3, BirthKeepsStores DEF Publish, StoreInv

LEMMA ReceiveBlockKeeps ==
    ASSUME StoreInv, NEW b \in Block, ReceiveBlock(b)
    PROVE  StoreInv'
<1>1. <<>> \in Seq(Frame) /\ HandleBlock(b, "self", <<>>) /\ prev' = prev
  BY EmptySeq DEF ReceiveBlock
<1>2. TypeOK'
  BY <1>1, HandleBlockKeepsStores DEF ReceiveBlock, StoreInv, TypeOK, miner
<1> QED
  BY <1>1, <1>2, HandleBlockKeepsStores, GrowthKeepsCopies, GrowthKeepsCandidate
     DEF ReceiveBlock, StoreInv, miner

\* The frame check_orphans works on, while the lock is held.
LEMMA TopFacts ==
    ASSUME TypeOK, ~LockFree
    PROVE  /\ Len(frames) \in Nat \ {0} /\ DOMAIN frames = 1..Len(frames)
           /\ Top \in Frame
           /\ Waiting \in Seq(Block)
           /\ ~LoopDone => Top.next \in DOMAIN Waiting /\ Waiting[Top.next] \in Block
           /\ Advanced \in Seq(Frame)
<1>1. frames \in Seq(Frame) /\ frames # <<>>
  BY DEF TypeOK, LockFree
<1>2. Len(frames) \in Nat \ {0} /\ DOMAIN frames = 1..Len(frames)
  BY <1>1, EmptySeq, LenProperties
<1>3. Top \in Frame
  BY <1>1, <1>2, ElementOfSeq DEF Top
<1>4. Waiting \in Seq(Block)
  BY <1>3 DEF Waiting, TypeOK, Frame
<1>5. ~LoopDone => Top.next \in DOMAIN Waiting /\ Waiting[Top.next] \in Block
  <2>1. DOMAIN Waiting = 1..Len(Waiting) /\ Len(Waiting) \in Nat
    BY <1>4, LenProperties
  <2>2. Top.next \in Nat \ {0}
    BY <1>3 DEF Frame
  <2> QED BY <1>4, <2>1, <2>2, ElementOfSeq DEF LoopDone
<1>6. Advanced \in Seq(Frame)
  <2> DEFINE f == [bucket |-> Top.bucket, next |-> Top.next + 1]
  <2>1. f \in Frame
    BY <1>3 DEF Frame
  <2>2. Advanced = [frames EXCEPT ![Len(frames)] = f]
    BY DEF Advanced, Top
  <2> QED BY <1>1, <1>2, <2>1, <2>2, ExceptSeq
<1> QED BY <1>2, <1>3, <1>4, <1>5, <1>6

LEMMA AdoptOrphanKeeps ==
    ASSUME StoreInv, AdoptOrphan
    PROVE  StoreInv'
<1> DEFINE o == Waiting[Top.next]
<1>1. o \in Block /\ Advanced \in Seq(Frame)
  BY TopFacts DEF AdoptOrphan, StoreInv
<1>2. HandleBlock(o, "system", Advanced) /\ prev' = prev
  BY DEF AdoptOrphan
<1> HIDE DEF o
<1>3. TypeOK'
  BY <1>1, <1>2, HandleBlockKeepsStores DEF AdoptOrphan, StoreInv, TypeOK, miner
<1> QED
  BY <1>1, <1>2, <1>3, HandleBlockKeepsStores, GrowthKeepsCopies, GrowthKeepsCandidate
     DEF AdoptOrphan, StoreInv, miner

\* Steps that leave the two stores, the parents and the header threads alone.
LEMMA OtherStepsKeep ==
    ASSUME StoreInv, TypeOK', CandidateLinked',
           UNCHANGED <<prev, received_blocks, header_store, hdr>>
    PROVE  StoreInv'
BY DEF StoreInv, UniqueBlocks, ParentFirst, HeaderParentFirst, ChainHasHeaders, CopiesOld

LEMMA DeleteBucketKeeps ==
    ASSUME StoreInv, DeleteBucket
    PROVE  StoreInv'
<1>1. frames' \in Seq(Frame)
  BY TopFacts, SubSeqProperties DEF DeleteBucket, StoreInv, TypeOK
<1>2. orphan_blocks' \in [Block \cup {Genesis, Unborn} -> Seq(Block)]
  BY EmptySeq DEF DeleteBucket, StoreInv, TypeOK
<1>3. TypeOK'
  BY <1>1, <1>2 DEF DeleteBucket, StoreInv, TypeOK, miner
<1>4. CandidateLinked'
  BY DEF DeleteBucket, StoreInv, CandidateLinked, miner
<1> QED BY <1>3, <1>4, OtherStepsKeep DEF DeleteBucket

LEMMA UnwindKeeps ==
    ASSUME StoreInv, Unwind
    PROVE  StoreInv'
<1>1. TypeOK'
  BY EmptySeq DEF Unwind, StoreInv, TypeOK, store, miner
<1>2. CandidateLinked'
  BY DEF Unwind, StoreInv, CandidateLinked, store, miner
<1> QED BY <1>1, <1>2, OtherStepsKeep DEF Unwind, store

LEMMA CreateBlockKeeps ==
    ASSUME StoreInv, NEW o \in Own, CreateBlock(o)
    PROVE  StoreInv'
<1>1. received_blocks \in Seq(Block) /\ o \in Block /\ prev[o] = Unborn
  BY DEF StoreInv, TypeOK, CreateBlock, Block
<1>2. Tip = Genesis \/ (Tip \in Block /\ Tip \in Range(received_blocks))
  <2>1. CASE received_blocks = <<>>
    BY <2>1 DEF Tip
  <2>2. CASE received_blocks # <<>>
    <3>1. Len(received_blocks) \in DOMAIN received_blocks
      BY <1>1, <2>2, LenProperties, EmptySeq
    <3> QED BY <1>1, <2>2, <3>1, ElementOfSeq, LenProperties DEF Tip, Range
  <2> QED BY <2>1, <2>2
<1>3. prev' = [prev EXCEPT ![o] = Tip]
  BY DEF CreateBlock
<1>4. CandidateLinked'
  BY <1>1, <1>2, <1>3 DEF CandidateLinked, CreateBlock, StoreInv, TypeOK, store
<1>5. TypeOK'
  BY <1>1, <1>2, <1>3 DEF CreateBlock, StoreInv, TypeOK, store
<1> QED
  BY <1>1, <1>2, <1>3, <1>4, <1>5, BirthKeepsStores DEF CreateBlock, StoreInv

LEMMA StoreOwnKeeps ==
    ASSUME StoreInv, StoreOwn
    PROVE  StoreInv'
<1>1. candidate \in Own /\ candidate \in Block
  BY DEF StoreOwn, StoreInv, CandidateLinked, Block
<1>2. <<>> \in Seq(Frame) /\ HandleBlock(candidate, "self", <<>>) /\ prev' = prev
  BY EmptySeq DEF StoreOwn
<1>3. TypeOK'
  BY <1>1, <1>2, HandleBlockKeepsStores DEF StoreOwn, StoreInv, TypeOK
<1> QED
  BY <1>1, <1>2, <1>3, HandleBlockKeepsStores, GrowthKeepsCopies, GrowthKeepsCandidate
     DEF StoreOwn, StoreInv

LEMMA AnnounceKeeps ==
    ASSUME StoreInv, AnnounceOwn \/ AnnounceRaises
    PROVE  StoreInv'
<1>1. CASE AnnounceOwn
  <2>1. candidate \in Block
    BY <1>1 DEF AnnounceOwn, StoreInv, CandidateLinked, Block
  <2>2. TypeOK' /\ CandidateLinked'
    BY <1>1, <2>1 DEF AnnounceOwn, StoreInv, TypeOK, CandidateLinked, store
  <2> QED BY <1>1, <2>2, OtherStepsKeep DEF AnnounceOwn, store
<1>2. CASE AnnounceRaises
  <2>1. TypeOK' /\ CandidateLinked'
    BY <1>2 DEF AnnounceRaises, StoreInv, TypeOK, CandidateLinked, store
  <2> QED BY <1>2, <2>1, OtherStepsKeep DEF AnnounceRaises, store
<1> QED BY <1>1, <1>2

LEMMA CheckHeadersKeeps ==
    ASSUME StoreInv, NEW t \in Thread, NEW l \in HeaderLists, CheckHeaders(t, l)
    PROVE  StoreInv'
<1>1. l \in Seq(Block)
  BY IsASeq DEF HeaderLists
<1>2. DOMAIN l = 1..Len(l)
  BY <1>1, LenProperties
<1>3. Range(header_store) \subseteq Block /\ Range(received_blocks) \subseteq Block
  BY ElementOfSeq, LenProperties DEF StoreInv, TypeOK, Range
<1>4. TypeOK'
  BY <1>1, <1>3 DEF CheckHeaders, StoreInv, TypeOK, store, miner
<1>5. \A h \in Range(l) : prev[h] = Genesis \/ prev[h] \in Range(header_store)
  BY DEF CheckHeaders, HeadersConnected, Range
<1>6. CopiesOld'
  BY <1>5 DEF CheckHeaders, StoreInv, TypeOK, CopiesOld, store
<1> QED
  BY <1>4, <1>6 DEF CheckHeaders, StoreInv, UniqueBlocks, ParentFirst, HeaderParentFirst,
                    ChainHasHeaders, CandidateLinked, store, miner

LEMMA ExtendHeadersKeeps ==
    ASSUME StoreInv, NEW t \in Thread, ExtendHeaders(t)
    PROVE  StoreInv'
<1> DEFINE list == hdr[t].list
<1>1. list \in Seq(Block) /\ header_store \in Seq(Block) /\ hdr[t].pc = "checked"
  BY DEF ExtendHeaders, StoreInv, TypeOK
<1>2. Range(list) \subseteq Block
  BY <1>1, ElementOfSeq, LenProperties DEF Range
<1>3. PICK new : new = Fresh(list, hdr[t].known)
  OBVIOUS
<1>4. header_store' = header_store \o new
  BY <1>3 DEF ExtendHeaders
<1>5. new \in Seq(Block) /\ Range(new) \subseteq Range(list)
  BY <1>1, <1>3, KeptFacts DEF Fresh
<1>6. /\ header_store' \in Seq(Block)
      /\ Range(header_store) \subseteq Range(header_store')
  BY <1>1, <1>4, <1>5, ConcatFacts
<1>7. \A h \in Range(new) : prev[h] = Genesis \/ prev[h] \in Range(header_store)
  BY <1>1, <1>5 DEF StoreInv, CopiesOld
<1> HIDE DEF list
<1>8. HeaderParentFirst'
  <2>1. ParentsPrecede(header_store \o new, prev)
    BY <1>1, <1>5, <1>7, ConcatKeepsOrder DEF StoreInv, HeaderParentFirst
  <2> QED BY <1>4, <2>1 DEF ExtendHeaders, HeaderParentFirst
<1>9. TypeOK'
  <2>1. MissingBlocks(t) \subseteq Block
    BY <1>2 DEF MissingBlocks, list
  <2>2. hdr' \in [Thread -> [pc : {"idle", "checked"}, list : Seq(Block),
                             known : SUBSET Block, held : SUBSET Block]]
    BY EmptySeq DEF ExtendHeaders, StoreInv, TypeOK, Idle
  <2> QED BY <1>6, <2>1, <2>2 DEF ExtendHeaders, StoreInv, TypeOK, miner
<1>10. CopiesOld'
  BY <1>6 DEF ExtendHeaders, StoreInv, TypeOK, CopiesOld, Idle
<1>11. UniqueBlocks' /\ ParentFirst' /\ ChainHasHeaders' /\ CandidateLinked'
  BY <1>6 DEF ExtendHeaders, StoreInv, UniqueBlocks, ParentFirst, ChainHasHeaders,
              CandidateLinked, miner
<1> QED BY <1>8, <1>9, <1>10, <1>11 DEF StoreInv

LEMMA StoreInvStep == StoreInv /\ [Next]_vars => StoreInv'
<1> SUFFICES ASSUME StoreInv, [Next]_vars PROVE StoreInv'
  OBVIOUS
<1>1. ASSUME NEW b \in Remote, NEW p \in Block \cup {Genesis}, Publish(b, p) PROVE StoreInv'
  BY <1>1, PublishKeeps
<1>2. ASSUME NEW b \in Block, ReceiveBlock(b) PROVE StoreInv'
  BY <1>2, ReceiveBlockKeeps
<1>3. ASSUME NEW b \in Block, ReceiveRaises(b) PROVE StoreInv'
  BY <1>3, UnwindKeeps DEF ReceiveRaises
<1>4. CASE AdoptOrphan
  BY <1>4, AdoptOrphanKeeps
<1>5. CASE AdoptRaises
  BY <1>5, UnwindKeeps DEF AdoptRaises
<1>6. CASE DeleteBucket
  BY <1>6, DeleteBucketKeeps
<1>7. ASSUME NEW o \in Own, CreateBlock(o) PROVE StoreInv'
  BY <1>7, CreateBlockKeeps
<1>8. CASE StoreOwn
  BY <1>8, StoreOwnKeeps
<1>9. CASE AnnounceOwn \/ AnnounceRaises
  BY <1>9, AnnounceKeeps
<1>10. ASSUME NEW t \in Thread, NEW l \in HeaderLists, CheckHeaders(t, l) PROVE StoreInv'
  BY <1>10, CheckHeadersKeeps
<1>11. ASSUME NEW t \in Thread, ExtendHeaders(t) PROVE StoreInv'
  BY <1>11, ExtendHeadersKeeps
<1>12. CASE UNCHANGED vars
  BY <1>12 DEF vars, store, miner, StoreInv, TypeOK, UniqueBlocks, ParentFirst,
               HeaderParentFirst, ChainHasHeaders, CopiesOld, CandidateLinked
<1> QED
  BY <1>1, <1>2, <1>3, <1>4, <1>5, <1>6, <1>7, <1>8, <1>9, <1>10, <1>11, <1>12 DEF Next

LEMMA StoreInvAlways == SafeSpec => []StoreInv
<1>1. StoreInv /\ [Next]_vars => StoreInv'
  BY StoreInvStep
<1> QED BY <1>1, StoreInvInit, PTL DEF SafeSpec

\* The variables of the block store keep their types.
THEOREM TypeCorrect == SafeSpec => []TypeOK
BY StoreInvAlways, PTL DEF StoreInv

\* No block is ever in received_blocks twice.
THEOREM BlocksAreUnique == SafeSpec => []UniqueBlocks
BY StoreInvAlways, PTL DEF StoreInv

\* received_blocks always lists a parent before its children.
THEOREM ChainIsSorted == SafeSpec => []ParentFirst
BY StoreInvAlways, PTL DEF StoreInv

\* header_store always lists a parent before its children, the copies the header
\* threads check against being as old as they may.
THEOREM HeadersAreSorted == SafeSpec => []HeaderParentFirst
BY StoreInvAlways, PTL DEF StoreInv

-----------------------------------------------------------------------------
(* A full node asks for the block of every header it adds without having the block. *)

\* What a header thread found in the chain is still there: the chain only grows.
HeldInChain ==
    \A t \in Thread : hdr[t].pc = "checked" => hdr[t].held \subseteq Range(received_blocks)

RequestInv ==
    /\ StoreInv
    /\ HeldInChain
    /\ HeadersRequested

\* Steps that leave the header threads and the headers alone.
LEMMA OtherStepsKeepRequests ==
    ASSUME RequestInv, StoreInv',
           UNCHANGED <<received_blocks, header_store, hdr, requested>>
    PROVE  RequestInv'
BY DEF RequestInv, HeldInChain, HeadersRequested

\* handle_block adds a block of which a full node has added the header.
LEMMA HandleBlockKeepsRequests ==
    ASSUME RequestInv, StoreInv', NEW b \in Block, NEW self \in {"self", "system"},
           NEW stack \in Seq(Frame), HandleBlock(b, self, stack), prev' = prev,
           UNCHANGED <<hdr, requested>>
    PROVE  RequestInv'
<1>1. CASE UNCHANGED <<received_blocks, header_store>>
  BY <1>1, OtherStepsKeepRequests
<1>2. CASE AddToChain(b, self)
  <2>1. received_blocks \in Seq(Block) /\ header_store \in Seq(Block)
    BY DEF RequestInv, StoreInv, TypeOK
  <2>2. Range(header_store') = Range(header_store) \cup {b}
    BY <1>2, <2>1, AppendFacts DEF AddToChain
  <2>3. Range(received_blocks) \subseteq Range(received_blocks')
    BY <1>2, <2>1, AppendFacts DEF AddToChain
  <2>4. ~Light => b \in Range(received_blocks')
    BY <1>2, <2>1, AppendFacts DEF AddToChain
  <2>5. HeldInChain'
    BY <2>3 DEF RequestInv, HeldInChain
  <2>6. HeadersRequested'
    BY <2>2, <2>3, <2>4 DEF RequestInv, HeadersRequested
  <2> QED BY <2>5, <2>6 DEF RequestInv
<1> QED BY <1>1, <1>2 DEF HandleBlock, store

\* The thread asks for all blocks of the message but those it found in the chain.
LEMMA ExtendHeadersKeepsRequests ==
    ASSUME RequestInv, StoreInv', NEW t \in Thread, ExtendHeaders(t)
    PROVE  RequestInv'
<1>1. /\ hdr[t].list \in Seq(Block) /\ header_store \in Seq(Block)
      /\ hdr[t].pc = "checked"
  BY DEF ExtendHeaders, RequestInv, StoreInv, TypeOK
<1>2. PICK new : new = Fresh(hdr[t].list, hdr[t].known)
  OBVIOUS
<1>3. new \in Seq(Block) /\ Range(new) \subseteq Range(hdr[t].list)
  BY <1>1, <1>2, KeptFacts DEF Fresh
<1>4. Range(header_store') = Range(header_store) \cup Range(new)
  BY <1>1, <1>2, <1>3, ConcatFacts DEF ExtendHeaders
<1>5. Range(hdr[t].list) \subseteq MissingBlocks(t) \cup Range(received_blocks)
  BY <1>1 DEF MissingBlocks, RequestInv, HeldInChain
<1>6. HeadersRequested'
  BY <1>3, <1>4, <1>5 DEF ExtendHeaders, RequestInv, HeadersRequested
<1>7. HeldInChain'
  BY DEF ExtendHeaders, RequestInv, StoreInv, TypeOK, HeldInChain, Idle
<1> QED BY <1>6, <1>7 DEF RequestInv

LEMMA RequestInvStep == RequestInv /\ [Next]_vars => RequestInv'
<1> SUFFICES ASSUME RequestInv, [Next]_vars PROVE RequestInv'
  OBVIOUS
<1>1. StoreInv'
  BY StoreInvStep DEF RequestInv
<1>2. TypeOK /\ <<>> \in Seq(Frame)
  BY EmptySeq DEF RequestInv, StoreInv
<1>3. ASSUME NEW b \in Remote, NEW p \in Block \cup {Genesis}, Publish(b, p)
      PROVE  RequestInv'
  BY <1>1, <1>3, OtherStepsKeepRequests DEF Publish, store
<1>4. ASSUME NEW b \in Block, ReceiveBlock(b) PROVE RequestInv'
  BY <1>1, <1>2, <1>4, HandleBlockKeepsRequests DEF ReceiveBlock
<1>5. ASSUME NEW b \in Block, ReceiveRaises(b) PROVE RequestInv'
  BY <1>1, <1>5, OtherStepsKeepRequests DEF ReceiveRaises, Unwind, store
<1>6. CASE AdoptOrphan
  <2>1. Waiting[Top.next] \in Block /\ Advanced \in Seq(Frame)
    BY <1>2, <1>6, TopFacts DEF AdoptOrphan
  <2> QED BY <1>1, <1>6, <2>1, HandleBlockKeepsRequests DEF AdoptOrphan
<1>7. CASE AdoptRaises
  BY <1>1, <1>7, OtherStepsKeepRequests DEF AdoptRaises, Unwind, store
<1>8. CASE DeleteBucket
  BY <1>1, <1>8, OtherStepsKeepRequests DEF DeleteBucket
<1>9. ASSUME NEW o \in Own, CreateBlock(o) PROVE RequestInv'
  BY <1>1, <1>9, OtherStepsKeepRequests DEF CreateBlock, store
<1>10. CASE StoreOwn
  <2>1. candidate \in Block
    BY <1>10 DEF StoreOwn, RequestInv, StoreInv, CandidateLinked, Block
  <2> QED BY <1>1, <1>2, <1>10, <2>1, HandleBlockKeepsRequests DEF StoreOwn
<1>11. CASE AnnounceOwn \/ AnnounceRaises
  BY <1>1, <1>11, OtherStepsKeepRequests DEF AnnounceOwn, AnnounceRaises, store
<1>12. ASSUME NEW t \in Thread, NEW l \in HeaderLists, CheckHeaders(t, l)
       PROVE  RequestInv'
  <2>1. HeldInChain'
    BY <1>2, <1>12 DEF CheckHeaders, RequestInv, HeldInChain, TypeOK, store
  <2> QED BY <1>1, <1>12, <2>1 DEF CheckHeaders, RequestInv, HeadersRequested, store
<1>13. ASSUME NEW t \in Thread, ExtendHeaders(t) PROVE RequestInv'
  BY <1>1, <1>13, ExtendHeadersKeepsRequests
<1>14. CASE UNCHANGED vars
  BY <1>1, <1>14, OtherStepsKeepRequests DEF vars, store
<1> QED
  BY <1>3, <1>4, <1>5, <1>6, <1>7, <1>8, <1>9, <1>10, <1>11, <1>12, <1>13, <1>14 DEF Next

\* A full node has asked for the block of every header it holds without the block, however
\* long ago the thread that added the header looked at the chain.
THEOREM MissingBlocksAreRequested == SafeSpec => []HeadersRequested
<1>1. Init => RequestInv
  <2>1. DOMAIN <<>> = {}
    BY EmptySeq
  <2> QED
    BY <2>1, StoreInvInit DEF Init, Idle, RequestInv, HeldInChain, HeadersRequested, Range
<1>2. RequestInv => HeadersRequested
  BY DEF RequestInv
<1> QED BY <1>1, <1>2, RequestInvStep, PTL DEF SafeSpec

-----------------------------------------------------------------------------
(* The orphans: none is lost, none is left waiting for a block of the chain, and none is the
   miner's own. *)

\* A bucket holds children of its key, created by other nodes.
BucketsOK ==
    \A p \in Block \cup {Genesis, Unborn} : \A x \in Range(orphan_blocks[p]) :
        prev[x] = p /\ x \in Remote /\ p # Unborn

\* Every check_orphans call in progress works for a block of the chain, and the orphans
\* its loop has left behind are in the chain.
FramesOK ==
    ~Light => \A k \in DOMAIN frames :
        /\ frames[k].bucket \in Range(received_blocks)
        /\ \A i \in DOMAIN orphan_blocks[frames[k].bucket] :
               i < frames[k].next =>
                   orphan_blocks[frames[k].bucket][i] \in Range(received_blocks)

\* An orphan whose parent is in the chain is the business of a call in progress.
OrphansAttended ==
    ~Light /\ ~raised => \A p \in Range(received_blocks) :
        orphan_blocks[p] # <<>> => \E k \in DOMAIN frames : frames[k].bucket = p

OrphanInv ==
    /\ StoreInv
    /\ BucketsOK
    /\ FramesOK
    /\ OrphansAttended
    /\ NoBlockLost

LEMMA RangeOfBlocks == ASSUME NEW s \in Seq(Block) PROVE Range(s) \subseteq Block
BY ElementOfSeq, LenProperties DEF Range

LEMMA OrphanInvInit == Init => OrphanInv
<1> SUFFICES ASSUME Init PROVE OrphanInv
  OBVIOUS
<1>1. StoreInv
  BY StoreInvInit
<1>2. DOMAIN <<>> = {} /\ Range(<<>>) = {}
  BY EmptySeq DEF Range
<1>3. BucketsOK /\ FramesOK /\ OrphansAttended /\ NoBlockLost
  BY <1>2 DEF Init, BucketsOK, FramesOK, OrphansAttended, NoBlockLost
<1> QED BY <1>1, <1>3 DEF OrphanInv

\* A block that is a duplicate is in the chain, or it waits while the chain is empty.
LEMMA DuplicateFacts ==
    ASSUME TypeOK, NEW b \in Block, Duplicate(b)
    PROVE  /\ b \in Range(received_blocks) \cup Orphaned
           /\ received_blocks # <<>> => b \in Range(received_blocks)
BY DEF Duplicate, Orphaned, TypeOK

\* Appending an orphan to its bucket.
LEMMA AppendOrphanFacts ==
    ASSUME TypeOK, NEW b \in Block,
           orphan_blocks' = [orphan_blocks EXCEPT ![prev[b]] = Append(@, b)]
    PROVE  /\ Range(orphan_blocks'[prev[b]]) = Range(orphan_blocks[prev[b]]) \cup {b}
           /\ \A p \in (Block \cup {Genesis, Unborn}) \ {prev[b]} :
                  orphan_blocks'[p] = orphan_blocks[p]
           /\ Orphaned' = Orphaned \cup {b}
<1>1. prev[b] \in Block \cup {Genesis, Unborn} /\ orphan_blocks[prev[b]] \in Seq(Block)
  BY DEF TypeOK
<1>2. /\ DOMAIN orphan_blocks = Block \cup {Genesis, Unborn}
      /\ DOMAIN orphan_blocks' = Block \cup {Genesis, Unborn}
      /\ orphan_blocks'[prev[b]] = Append(orphan_blocks[prev[b]], b)
      /\ \A p \in (Block \cup {Genesis, Unborn}) \ {prev[b]} :
             orphan_blocks'[p] = orphan_blocks[p]
  BY <1>1 DEF TypeOK
<1>3. Range(orphan_blocks'[prev[b]]) = Range(orphan_blocks[prev[b]]) \cup {b}
  BY <1>1, <1>2, AppendFacts
<1>4. Orphaned' = Orphaned \cup {b}
  BY <1>1, <1>2, <1>3 DEF Orphaned
<1> QED BY <1>2, <1>3, <1>4

\* What add_to_chain does to the chain of a full node.
LEMMA AddToFullChain ==
    ASSUME TypeOK, ~Light, NEW b \in Block, NEW self, AddToChain(b, self)
    PROVE  Range(received_blocks') = Range(received_blocks) \cup {b}
<1>1. received_blocks' = Append(received_blocks, b)
  BY DEF AddToChain
<1> QED BY <1>1, AppendFacts DEF TypeOK

\* The frames after check_orphans was entered for a block.
LEMMA CheckOrphansFacts ==
    ASSUME TypeOK, TypeOK', NEW b \in Block, NEW stack \in Seq(Frame), frames' = CheckOrphans(b, stack)
    PROVE  /\ \A k \in DOMAIN frames' :
                  \/ k \in DOMAIN stack /\ frames'[k] = stack[k]
                  \/ frames'[k] = [bucket |-> b, next |-> 1]
           /\ \A k \in DOMAIN stack : k \in DOMAIN frames' /\ frames'[k] = stack[k]
           /\ orphan_blocks[b] # <<>> => \E k \in DOMAIN frames' : frames'[k].bucket = b
<1> DEFINE f == [bucket |-> b, next |-> 1]
<1>1. CASE orphan_blocks[b] = <<>>
  BY <1>1 DEF CheckOrphans
<1>2. CASE orphan_blocks[b] # <<>>
  <2>1. f \in Frame /\ frames' = Append(stack, f)
    BY <1>2 DEF CheckOrphans, Frame
  <2> HIDE DEF f
  <2>2. /\ Len(frames') = Len(stack) + 1 /\ frames'[Len(stack) + 1] = f
        /\ \A k \in 1..Len(stack) : frames'[k] = stack[k]
    BY <2>1, AppendFacts
  <2>3. /\ DOMAIN stack = 1..Len(stack) /\ Len(stack) \in Nat
        /\ DOMAIN frames' = 1..(Len(stack) + 1)
    BY <2>2, LenProperties
  <2>4. \A k \in DOMAIN frames' : \/ k \in DOMAIN stack /\ frames'[k] = stack[k]
                            \/ frames'[k] = f
    BY <2>2, <2>3
  <2>5. Len(stack) + 1 \in DOMAIN frames' /\ frames'[Len(stack) + 1].bucket = b
    BY <2>2, <2>3 DEF f
  <2> QED BY <2>2, <2>3, <2>4, <2>5 DEF f
<1> QED BY <1>1, <1>2

\* handle_block called for a block from outside, with the lock free.
LEMMA TopCallKeepsOrphans ==
    ASSUME OrphanInv, LockFree, NEW b \in Block, HandleBlock(b, "self", <<>>),
           prev' = prev, prev[b] # Unborn, raised' = raised, handled' = handled \cup {b},
           b \in Own => Connected(b) \/ b \in Range(received_blocks),
           StoreInv'
    PROVE  OrphanInv'
<1> USE DEF OrphanInv
<1>1. TypeOK /\ TypeOK'
  BY DEF StoreInv
<1>2. frames = <<>> /\ DOMAIN <<>> = {} /\ <<>> \in Seq(Frame)
  BY EmptySeq DEF LockFree
<1>3. CASE Duplicate(b) /\ frames' = <<>> /\ UNCHANGED <<store, announced>>
  <2>1. BucketsOK' /\ FramesOK' /\ OrphansAttended'
    BY <1>2, <1>3 DEF BucketsOK, FramesOK, OrphansAttended, store
  <2>2. NoBlockLost'
    BY <1>1, <1>3, DuplicateFacts DEF NoBlockLost, Orphaned, store
  <2> QED BY <2>1, <2>2
<1>4. CASE /\ ~Duplicate(b) /\ Connected(b)
           /\ AddToChain(b, "self")
           /\ frames' = CheckOrphans(b, <<>>)
           /\ UNCHANGED orphan_blocks
  <2>1. BucketsOK'
    BY <1>4 DEF BucketsOK
  <2>3. /\ \A k \in DOMAIN frames' : frames'[k] = [bucket |-> b, next |-> 1]
        /\ orphan_blocks[b] # <<>> => \E k \in DOMAIN frames' : frames'[k].bucket = b
    <3> DEFINE st == <<>>
    <3>1. st \in Seq(Frame) /\ DOMAIN st = {} /\ frames' = CheckOrphans(b, st)
      BY <1>2, <1>4
    <3> HIDE DEF st
    <3>2. \A k \in DOMAIN frames' :
              \/ k \in DOMAIN st /\ frames'[k] = st[k]
              \/ frames'[k] = [bucket |-> b, next |-> 1]
      BY <1>1, <3>1, CheckOrphansFacts
    <3>3. orphan_blocks[b] # <<>> => \E k \in DOMAIN frames' : frames'[k].bucket = b
      BY <1>1, <3>1, CheckOrphansFacts
    <3> QED BY <3>1, <3>2, <3>3
  <2>4. CASE Light
    BY <2>1, <2>4 DEF FramesOK, OrphansAttended, NoBlockLost
  <2>5. CASE ~Light
    <3>1. Range(received_blocks') = Range(received_blocks) \cup {b}
      BY <1>1, <1>4, <2>5, AddToFullChain
    <3>2. FramesOK'
      <4>1. SUFFICES ASSUME NEW k \in DOMAIN frames'
                     PROVE  /\ frames'[k].bucket \in Range(received_blocks')
                            /\ \A i \in DOMAIN orphan_blocks[frames'[k].bucket] :
                                   i < frames'[k].next => FALSE
        BY <1>4 DEF FramesOK
      <4>2. frames'[k].bucket = b /\ frames'[k].next = 1
        BY <2>3
      <4>3. DOMAIN orphan_blocks[b] = 1..Len(orphan_blocks[b])
        BY <1>1, LenProperties DEF TypeOK
      <4>4. Len(orphan_blocks[b]) \in Nat
        BY <1>1, LenProperties DEF TypeOK
      <4> QED BY <3>1, <4>2, <4>3, <4>4
    <3>3. OrphansAttended'
      BY <1>2, <1>4, <2>3, <3>1 DEF OrphansAttended
    <3>4. NoBlockLost'
      BY <1>4, <3>1 DEF NoBlockLost, Orphaned
    <3> QED BY <2>1, <3>2, <3>3, <3>4
  <2> QED BY <2>4, <2>5
<1>5. CASE /\ ~Duplicate(b) /\ ~Connected(b)
           /\ orphan_blocks' = [orphan_blocks EXCEPT ![prev[b]] = Append(@, b)]
           /\ frames' = <<>>
           /\ UNCHANGED <<received_blocks, header_store, announced>>
  <2>1. /\ Range(orphan_blocks'[prev[b]]) = Range(orphan_blocks[prev[b]]) \cup {b}
        /\ \A p \in (Block \cup {Genesis, Unborn}) \ {prev[b]} :
               orphan_blocks'[p] = orphan_blocks[p]
        /\ Orphaned' = Orphaned \cup {b}
    BY <1>1, <1>5, AppendOrphanFacts
  <2>2. b \in Remote
    <3>1. b \in Own => b \in Range(received_blocks)
      BY <1>5
    <3>2. b \in Range(received_blocks) => received_blocks # <<>>
      BY <1>2 DEF Range
    <3> QED BY <3>1, <3>2, <1>5 DEF Duplicate, Block
  <2>3. BucketsOK'
    BY <2>1, <2>2 DEF BucketsOK
  <2>4. FramesOK' /\ NoBlockLost'
    BY <1>2, <1>5, <2>1 DEF FramesOK, NoBlockLost
  <2>5. OrphansAttended'
    <3>1. \A p \in Range(received_blocks) : p \in Block /\ p # prev[b]
      BY <1>1, <1>5, RangeOfBlocks DEF Connected, TypeOK
    <3> QED BY <1>2, <1>5, <2>1, <3>1 DEF OrphansAttended
  <2> QED BY <2>3, <2>4, <2>5
<1> QED BY <1>3, <1>4, <1>5 DEF HandleBlock

\* The frames after a loop of check_orphans has moved on by one.
LEMMA AdvancedFacts ==
    ASSUME TypeOK, ~LockFree
    PROVE  /\ DOMAIN Advanced = DOMAIN frames
           /\ Len(frames) \in DOMAIN frames
           /\ \A k \in DOMAIN frames : Advanced[k].bucket = frames[k].bucket
           /\ \A k \in DOMAIN frames \ {Len(frames)} : Advanced[k] = frames[k]
           /\ Advanced[Len(frames)] = [bucket |-> Top.bucket, next |-> Top.next + 1]
<1>1. Len(frames) \in DOMAIN frames
  BY TopFacts
<1>2. Advanced = [frames EXCEPT ![Len(frames)] = [bucket |-> Top.bucket,
                                                  next |-> Top.next + 1]]
  BY DEF Advanced, Top
<1> QED BY <1>1, <1>2 DEF Top

\* The call of check_orphans for the next orphan of its loop.
LEMMA AdoptOrphanKeepsOrphans ==
    ASSUME OrphanInv, AdoptOrphan, StoreInv'
    PROVE  OrphanInv'
<1> DEFINE o == Waiting[Top.next]
           C == Range(received_blocks)
<1> USE DEF OrphanInv
<1>1. TypeOK /\ TypeOK'
  BY DEF StoreInv
<1>2. /\ ~LockFree /\ ~LoopDone /\ HandleBlock(o, "system", Advanced)
      /\ UNCHANGED <<prev, raised, handled>>
  BY DEF AdoptOrphan
<1>3. /\ Top \in Frame /\ Waiting \in Seq(Block) /\ Advanced \in Seq(Frame)
      /\ Top.next \in DOMAIN Waiting /\ o \in Block
  BY <1>1, <1>2, TopFacts
<1>4. /\ DOMAIN Advanced = DOMAIN frames
      /\ Len(frames) \in DOMAIN frames
      /\ \A k \in DOMAIN frames : Advanced[k].bucket = frames[k].bucket
      /\ \A k \in DOMAIN frames \ {Len(frames)} : Advanced[k] = frames[k]
      /\ Advanced[Len(frames)] = [bucket |-> Top.bucket, next |-> Top.next + 1]
  BY <1>1, <1>2, AdvancedFacts
<1>5. Top.bucket \in Block /\ Top = frames[Len(frames)] /\ Waiting = orphan_blocks[Top.bucket]
  BY <1>3 DEF Frame, Top, Waiting
<1>6. prev[o] = Top.bucket /\ o \in Remote /\ prev[o] # Unborn
  BY <1>3, <1>5 DEF BucketsOK, Range
<1>7. ~Light => Top.bucket \in C
  BY <1>4, <1>5 DEF FramesOK
\* The loop may move on as soon as its orphan is in the chain.
<1>8. ASSUME ~Light, NEW D, C \subseteq D, o \in D
      PROVE  \A k \in DOMAIN Advanced :
                 /\ Advanced[k].bucket \in D
                 /\ \A i \in DOMAIN orphan_blocks[Advanced[k].bucket] :
                        i < Advanced[k].next => orphan_blocks[Advanced[k].bucket][i] \in D
  <2>1. SUFFICES ASSUME NEW k \in DOMAIN frames
                 PROVE  /\ Advanced[k].bucket \in D
                        /\ \A i \in DOMAIN orphan_blocks[Advanced[k].bucket] :
                               i < Advanced[k].next
                                   => orphan_blocks[Advanced[k].bucket][i] \in D
    BY <1>4
  <2>2. CASE k # Len(frames)
    BY <1>4, <1>8, <2>2 DEF FramesOK
  <2>3. CASE k = Len(frames)
    <3>1. \A i \in DOMAIN Waiting : i < Top.next => Waiting[i] \in C
      BY <1>4, <1>5, <1>8 DEF FramesOK
    <3>2. DOMAIN Waiting \subseteq Nat /\ Top.next \in Nat
      BY <1>3, LenProperties DEF Frame
    <3>3. \A i \in DOMAIN Waiting : i < Top.next + 1 => i < Top.next \/ i = Top.next
      BY <3>2
    <3>4. \A i \in DOMAIN Waiting : i < Top.next + 1 => Waiting[i] \in D
      BY <1>8, <3>1, <3>3
    <3> QED BY <1>4, <1>5, <1>7, <1>8, <2>3, <3>4
  <2> QED BY <2>2, <2>3
<1> HIDE DEF o
<1>9. CASE Duplicate(o) /\ frames' = Advanced /\ UNCHANGED <<store, announced>>
  <2>1. ~Light => o \in C
    <3>1. ~Light => received_blocks # <<>>
      BY <1>7, EmptySeq DEF Range
    <3> QED BY <1>1, <1>3, <1>9, <3>1, DuplicateFacts
  <2>2. FramesOK'
    BY <1>8, <1>9, <2>1 DEF FramesOK, store
  <2>3. BucketsOK' /\ NoBlockLost'
    BY <1>2, <1>9 DEF BucketsOK, NoBlockLost, Orphaned, store
  <2>4. OrphansAttended'
    BY <1>2, <1>4, <1>9 DEF OrphansAttended, store
  <2> QED BY <2>2, <2>3, <2>4
<1>10. CASE /\ ~Duplicate(o) /\ Connected(o)
            /\ AddToChain(o, "system")
            /\ frames' = CheckOrphans(o, Advanced)
            /\ UNCHANGED orphan_blocks
  <2>1. BucketsOK'
    BY <1>2, <1>10 DEF BucketsOK
  <2>2. \A k \in DOMAIN frames' :
            \/ k \in DOMAIN Advanced /\ frames'[k] = Advanced[k]
            \/ frames'[k] = [bucket |-> o, next |-> 1]
    BY <1>1, <1>3, <1>10, CheckOrphansFacts
  <2>3. /\ \A k \in DOMAIN Advanced : k \in DOMAIN frames' /\ frames'[k] = Advanced[k]
        /\ orphan_blocks[o] # <<>> => \E k \in DOMAIN frames' : frames'[k].bucket = o
    BY <1>1, <1>3, <1>10, CheckOrphansFacts
  <2>4. CASE Light
    BY <2>1, <2>4 DEF FramesOK, OrphansAttended, NoBlockLost
  <2>5. CASE ~Light
    <3>1. Range(received_blocks') = C \cup {o}
      BY <1>1, <1>3, <1>10, <2>5, AddToFullChain
    <3>2. FramesOK'
      <4>1. SUFFICES ASSUME NEW k \in DOMAIN frames'
                     PROVE  /\ frames'[k].bucket \in C \cup {o}
                            /\ \A i \in DOMAIN orphan_blocks[frames'[k].bucket] :
                                   i < frames'[k].next
                                       => orphan_blocks[frames'[k].bucket][i] \in C \cup {o}
        BY <1>10, <3>1 DEF FramesOK
      <4>2. CASE k \in DOMAIN Advanced /\ frames'[k] = Advanced[k]
        BY <1>8, <2>5, <4>2
      <4>3. CASE frames'[k] = [bucket |-> o, next |-> 1]
        <5>1. DOMAIN orphan_blocks[o] = 1..Len(orphan_blocks[o])
              /\ Len(orphan_blocks[o]) \in Nat
          BY <1>1, <1>3, LenProperties DEF TypeOK
        <5> QED BY <4>3, <5>1
      <4> QED BY <2>2, <4>2, <4>3
    <3>3. OrphansAttended'
      <4>1. \A p \in C : orphan_blocks[p] # <<>> /\ ~raised
                             => \E k \in DOMAIN frames' : frames'[k].bucket = p
        BY <1>4, <2>3, <2>5 DEF OrphansAttended
      <4> QED BY <1>2, <1>10, <2>3, <3>1, <4>1 DEF OrphansAttended
    <3>4. NoBlockLost'
      BY <1>2, <1>10, <3>1 DEF NoBlockLost, Orphaned
    <3> QED BY <2>1, <3>2, <3>3, <3>4
  <2> QED BY <2>4, <2>5
<1>11. CASE /\ ~Duplicate(o) /\ ~Connected(o)
            /\ orphan_blocks' = [orphan_blocks EXCEPT ![prev[o]] = Append(@, o)]
            /\ frames' = Advanced
            /\ UNCHANGED <<received_blocks, header_store, announced>>
  \* On a full node this cannot be: the parent is the block the loop works for.
  <2>1. Light
    BY <1>6, <1>7, <1>11 DEF Connected
  <2>2. /\ Range(orphan_blocks'[prev[o]]) = Range(orphan_blocks[prev[o]]) \cup {o}
        /\ \A p \in (Block \cup {Genesis, Unborn}) \ {prev[o]} :
               orphan_blocks'[p] = orphan_blocks[p]
    BY <1>1, <1>3, <1>11, AppendOrphanFacts
  <2>3. BucketsOK'
    BY <1>2, <1>6, <2>2 DEF BucketsOK
  <2> QED BY <2>1, <2>3 DEF FramesOK, OrphansAttended, NoBlockLost
<1> QED BY <1>2, <1>9, <1>10, <1>11 DEF HandleBlock

\* The end of a loop of check_orphans: what its bucket held is in the chain.
LEMMA DeleteBucketKeepsOrphans ==
    ASSUME OrphanInv, DeleteBucket, StoreInv'
    PROVE  OrphanInv'
<1> DEFINE C == Range(received_blocks)
<1> USE DEF OrphanInv
<1>1. TypeOK /\ TypeOK'
  BY DEF StoreInv
<1>2. /\ ~LockFree /\ LoopDone
      /\ orphan_blocks' = [orphan_blocks EXCEPT ![Top.bucket] = <<>>]
      /\ frames' = SubSeq(frames, 1, Len(frames) - 1)
      /\ UNCHANGED <<prev, received_blocks, handled, raised>>
  BY DEF DeleteBucket
<1>3. /\ Len(frames) \in Nat \ {0} /\ DOMAIN frames = 1..Len(frames)
      /\ Top \in Frame /\ Waiting \in Seq(Block)
  BY <1>1, <1>2, TopFacts
<1>4. /\ Top = frames[Len(frames)] /\ Waiting = orphan_blocks[Top.bucket]
      /\ Top.bucket \in Block
  BY <1>3 DEF Top, Waiting, Frame
<1>5. /\ DOMAIN frames' = 1..(Len(frames) - 1)
      /\ \A k \in 1..(Len(frames) - 1) : frames'[k] = frames[k]
  BY <1>1, <1>2, <1>3, SubSeqProperties DEF TypeOK
<1>6. /\ orphan_blocks'[Top.bucket] = <<>>
      /\ \A p \in (Block \cup {Genesis, Unborn}) \ {Top.bucket} :
             orphan_blocks'[p] = orphan_blocks[p]
  BY <1>1, <1>2, <1>4 DEF TypeOK
<1>7. DOMAIN <<>> = {} /\ Range(<<>>) = {}
  BY EmptySeq DEF Range
<1>8. ~Light => Range(Waiting) \subseteq C
  <2>1. DOMAIN Waiting = 1..Len(Waiting) /\ Len(Waiting) \in Nat
    BY <1>3, LenProperties
  <2>2. Top.next \in Nat
    BY <1>3 DEF Frame
  <2>3. \A i \in DOMAIN Waiting : i < Top.next
    BY <1>2, <2>1, <2>2 DEF LoopDone
  <2>4. ~Light => \A i \in DOMAIN Waiting : Waiting[i] \in C
    BY <1>3, <1>4, <2>3 DEF FramesOK
  <2> QED BY <2>4 DEF Range
<1>9. BucketsOK'
  BY <1>2, <1>6, <1>7 DEF BucketsOK
<1>10. FramesOK'
  <2>1. SUFFICES ASSUME ~Light, NEW k \in 1..(Len(frames) - 1)
                 PROVE  /\ frames[k].bucket \in C
                        /\ \A i \in DOMAIN orphan_blocks'[frames[k].bucket] :
                               i < frames[k].next
                                   => orphan_blocks'[frames[k].bucket][i] \in C
    BY <1>2, <1>5 DEF FramesOK
  <2>2. k \in DOMAIN frames /\ frames[k] \in Frame
    BY <1>1, <1>3, ElementOfSeq DEF TypeOK
  <2>3. frames[k].bucket \in Block
    BY <2>2 DEF Frame
  <2>4. CASE frames[k].bucket = Top.bucket
    BY <1>6, <1>7, <2>1, <2>2, <2>4 DEF FramesOK
  <2>5. CASE frames[k].bucket # Top.bucket
    BY <1>6, <2>1, <2>2, <2>3, <2>5 DEF FramesOK
  <2> QED BY <2>4, <2>5
<1>11. OrphansAttended'
  <2>1. SUFFICES ASSUME ~Light, ~raised, NEW p \in C, orphan_blocks'[p] # <<>>
                 PROVE  \E k \in DOMAIN frames' : frames'[k].bucket = p
    BY <1>2 DEF OrphansAttended
  <2>2. p # Top.bucket /\ p \in Block
    BY <1>1, <1>6, <2>1, RangeOfBlocks DEF TypeOK
  <2>3. orphan_blocks[p] # <<>>
    BY <1>6, <2>1, <2>2
  <2>4. PICK k \in DOMAIN frames : frames[k].bucket = p
    BY <2>1, <2>3 DEF OrphansAttended
  <2>5. k \in 1..(Len(frames) - 1)
    BY <1>3, <1>4, <2>2, <2>4
  <2> QED BY <1>5, <2>4, <2>5
<1>12. NoBlockLost'
  <2>1. SUFFICES ASSUME ~Light, NEW x \in Orphaned, x \notin C
                 PROVE  x \in Orphaned'
    BY <1>2 DEF NoBlockLost
  <2>2. /\ DOMAIN orphan_blocks = Block \cup {Genesis, Unborn}
        /\ DOMAIN orphan_blocks' = Block \cup {Genesis, Unborn}
    BY <1>1 DEF TypeOK
  <2>3. PICK p \in Block \cup {Genesis, Unborn} : x \in Range(orphan_blocks[p])
    BY <2>1, <2>2 DEF Orphaned
  <2>4. p # Top.bucket
    BY <1>4, <1>8, <2>1, <2>3
  <2>5. x \in Range(orphan_blocks'[p])
    BY <1>6, <2>3, <2>4
  <2> QED BY <2>2, <2>3, <2>5 DEF Orphaned
<1> QED BY <1>9, <1>10, <1>11, <1>12

\* A gossip that raises ends every call in progress.
LEMMA UnwindKeepsOrphans ==
    ASSUME OrphanInv, Unwind, StoreInv'
    PROVE  OrphanInv'
<1>1. DOMAIN <<>> = {}
  BY EmptySeq
<1> QED
  BY <1>1 DEF OrphanInv, Unwind, BucketsOK, FramesOK, OrphansAttended, NoBlockLost, store

\* The creation of a block: no orphan is without a parent.
LEMMA BirthKeepsOrphans ==
    ASSUME OrphanInv, NEW b \in Block, prev[b] = Unborn, NEW p \in Block \cup {Genesis},
           prev' = [prev EXCEPT ![b] = p], UNCHANGED <<store, frames, handled, raised>>,
           StoreInv'
    PROVE  OrphanInv'
<1>1. BucketsOK'
  <2>1. SUFFICES ASSUME NEW q \in Block \cup {Genesis, Unborn},
                        NEW x \in Range(orphan_blocks[q])
                 PROVE  prev'[x] = q /\ x \in Remote /\ q # Unborn
    BY DEF BucketsOK, store
  <2>2. prev[x] = q /\ x \in Remote /\ q # Unborn
    BY DEF OrphanInv, BucketsOK
  <2> QED BY <2>2 DEF OrphanInv, StoreInv, TypeOK, Block
<1> QED
  BY <1>1 DEF OrphanInv, FramesOK, OrphansAttended, NoBlockLost, Orphaned, store

\* Steps that touch neither the chain nor the orphans.
LEMMA OtherStepsKeepOrphans ==
    ASSUME OrphanInv, StoreInv',
           UNCHANGED <<prev, received_blocks, orphan_blocks, frames, handled, raised>>
    PROVE  OrphanInv'
BY DEF OrphanInv, BucketsOK, FramesOK, OrphansAttended, NoBlockLost, Orphaned

LEMMA OrphanInvStep == OrphanInv /\ [Next]_vars => OrphanInv'
<1> SUFFICES ASSUME OrphanInv, [Next]_vars PROVE OrphanInv'
  OBVIOUS
<1>1. StoreInv'
  BY StoreInvStep DEF OrphanInv
<1>2. ASSUME NEW b \in Remote, NEW p \in Block \cup {Genesis}, Publish(b, p)
      PROVE  OrphanInv'
  BY <1>1, <1>2, BirthKeepsOrphans DEF Publish, Block
<1>3. ASSUME NEW b \in Block, ReceiveBlock(b) PROVE OrphanInv'
  BY <1>1, <1>3, TopCallKeepsOrphans DEF ReceiveBlock, Visible
<1>4. ASSUME NEW b \in Block, ReceiveRaises(b) PROVE OrphanInv'
  BY <1>1, <1>4, UnwindKeepsOrphans DEF ReceiveRaises
<1>5. CASE AdoptOrphan
  BY <1>1, <1>5, AdoptOrphanKeepsOrphans
<1>6. CASE AdoptRaises
  BY <1>1, <1>6, UnwindKeepsOrphans DEF AdoptRaises
<1>7. CASE DeleteBucket
  BY <1>1, <1>7, DeleteBucketKeepsOrphans
<1>8. ASSUME NEW o \in Own, CreateBlock(o) PROVE OrphanInv'
  <2>1. Tip \in Block \cup {Genesis}
    <3>1. received_blocks \in Seq(Block)
      BY DEF OrphanInv, StoreInv, TypeOK
    <3> QED BY <3>1, EmptySeq, LenProperties, ElementOfSeq DEF Tip
  <2> QED BY <1>1, <1>8, <2>1, BirthKeepsOrphans DEF CreateBlock, Block
<1>9. CASE StoreOwn
  <2>1. candidate \in Own /\ candidate \in Block /\ Connected(candidate)
    BY <1>9 DEF StoreOwn, OrphanInv, StoreInv, CandidateLinked, Connected, Block
  <2>2. prev[candidate] # Unborn
    BY <2>1, BlocksAssumption, RangeOfBlocks DEF Connected, OrphanInv, StoreInv, TypeOK
  <2> QED BY <1>1, <1>9, <2>1, <2>2, TopCallKeepsOrphans DEF StoreOwn
<1>10. CASE AnnounceOwn \/ AnnounceRaises
  BY <1>1, <1>10, OtherStepsKeepOrphans DEF AnnounceOwn, AnnounceRaises, store
<1>11. ASSUME NEW t \in Thread, NEW l \in HeaderLists, CheckHeaders(t, l) PROVE OrphanInv'
  BY <1>1, <1>11, OtherStepsKeepOrphans DEF CheckHeaders, store
<1>12. ASSUME NEW t \in Thread, ExtendHeaders(t) PROVE OrphanInv'
  BY <1>1, <1>12, OtherStepsKeepOrphans DEF ExtendHeaders
<1>13. CASE UNCHANGED vars
  BY <1>1, <1>13, OtherStepsKeepOrphans DEF vars, store
<1> QED
  BY <1>2, <1>3, <1>4, <1>5, <1>6, <1>7, <1>8, <1>9, <1>10, <1>11, <1>12, <1>13 DEF Next

LEMMA OrphanInvAlways == SafeSpec => []OrphanInv
BY OrphanInvInit, OrphanInvStep, PTL DEF SafeSpec

\* On a full node whose gossips have not raised, every block handle_block was called with
\* is in the chain or waits for its parent.
THEOREM BlocksAreKept == SafeSpec => []NoBlockLost
BY OrphanInvAlways, PTL DEF OrphanInv

\* On such a node, whenever block_lock is free, no orphan waits for a block of the chain.
THEOREM OrphansAreAdopted == SafeSpec => []NoStuckOrphan
<1>1. OrphanInv => NoStuckOrphan
  <2>1. DOMAIN <<>> = {}
    BY EmptySeq
  <2> QED BY <2>1 DEF OrphanInv, OrphansAttended, NoStuckOrphan, LockFree
<1> QED BY <1>1, OrphanInvAlways, PTL

\* The block of this node's miner never waits as an orphan.
THEOREM OwnIsNeverOrphaned == SafeSpec => []OwnNeverOrphaned
<1>1. OrphanInv => OwnNeverOrphaned
  BY BlocksAssumption
     DEF OrphanInv, StoreInv, TypeOK, BucketsOK, OwnNeverOrphaned, Orphaned
<1> QED BY <1>1, OrphanInvAlways, PTL
=============================================================================
