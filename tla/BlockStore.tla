----------------------------- MODULE BlockStore -----------------------------
(***************************************************************************)
(* The local blockchain of one node (block_handler.py and the              *)
(* BLOCK_HEADERS handler of message_handler.py).                           *)
(*                                                                         *)
(* Three kinds of threads work on it: the threads that handle a received   *)
(* BLOCK, the threads that handle a received BLOCK_HEADERS, and the miner. *)
(* They synchronise on the re-entrant block_lock.  handle_block runs with  *)
(* the lock held from its duplicate check to its end, the recursion        *)
(* through check_orphans included; that recursion is the stack "frames",   *)
(* so the lock is free exactly when the stack is empty.  The miner and the *)
(* header handler release the lock between reading the store and writing   *)
(* it, and carry what they read as local variables.                        *)
(*                                                                         *)
(* A block is its identifier; "prev" is the prev_id inside the block.      *)
(* Blocks whose block_id is not their hash never get past the check at the *)
(* top of the handlers and are left out.                                   *)
(***************************************************************************)
EXTENDS Naturals, Sequences, FiniteSets, Functions, Lists

CONSTANTS
    Remote,      \* the blocks of the other nodes
    Own,         \* the blocks this node's miner will create
    Genesis,     \* the prev_id of a first block, '0'*64
    Unborn,      \* the prev_id of a block nobody has created yet
    Thread,      \* the threads that may be handling a BLOCK_HEADERS message
    Light,       \* does this node's configuration say light?
    PeersJoin,   \* may a HELLO add a known peer while gossip_message iterates over them?
    MaxHeaders,  \* bound: length of a received BLOCK_HEADERS message
    MaxCopies    \* bound: copies of one block that wait as orphans

Block == Remote \cup Own

ASSUME BlocksAssumption ==
    /\ Remote \cap Own = {}
    /\ Genesis \notin Block
    /\ Unborn \notin Block \cup {Genesis}
ASSUME FlagsAssumption == Light \in BOOLEAN /\ PeersJoin \in BOOLEAN
ASSUME BoundsAssumption == MaxHeaders \in Nat /\ MaxCopies \in Nat

VARIABLES
    prev,            \* the prev_id of every block that exists
    received_blocks, \* the local chain
    header_store,    \* the headers of the blocks of the chain, and of heard of ones
    orphan_blocks,   \* the blocks that wait for a parent, by parent
    frames,          \* the check_orphans calls in progress, innermost last
    hdr,             \* the local variables of the BLOCK_HEADERS threads
    minerPc,         \* where the miner is
    candidate,       \* the block the miner holds
    announced,       \* the INVs gossiped: <<sender in the INV, block>>
    requested,       \* the blocks asked for with a GET_BLOCK
    handled,         \* history: the blocks whose top handle_block call returned from its checks
    raised           \* history: has gossip_message raised inside handle_block?

store == <<received_blocks, header_store, orphan_blocks>>
miner == <<minerPc, candidate>>
vars == <<prev, store, frames, hdr, miner, announced, requested, handled, raised>>

Frame == [bucket : Block, next : Nat \ {0}]
Idle == [pc |-> "idle", list |-> <<>>, known |-> {}, held |-> {}]

TypeOK ==
    /\ prev \in [Block -> Block \cup {Genesis, Unborn}]
    /\ received_blocks \in Seq(Block)
    /\ header_store \in Seq(Block)
    /\ orphan_blocks \in [Block \cup {Genesis, Unborn} -> Seq(Block)]
    /\ frames \in Seq(Frame)
    /\ hdr \in [Thread -> [pc : {"idle", "checked"}, list : Seq(Block),
                          known : SUBSET Block, held : SUBSET Block]]
    /\ minerPc \in {"idle", "candidate", "gossip", "dead"}
    /\ candidate \in Own \cup {Unborn}
    /\ announced \subseteq {"self", "system"} \X Block
    /\ requested \subseteq Block
    /\ handled \subseteq Block
    /\ raised \in BOOLEAN

Init ==
    /\ prev = [b \in Block |-> Unborn]
    /\ received_blocks = <<>>
    /\ header_store = <<>>
    /\ orphan_blocks = [b \in Block \cup {Genesis, Unborn} |-> <<>>]
    /\ frames = <<>>
    /\ hdr = [t \in Thread |-> Idle]
    /\ minerPc = "idle"
    /\ candidate = Unborn
    /\ announced = {}
    /\ requested = {}
    /\ handled = {}
    /\ raised = FALSE

-----------------------------------------------------------------------------
(* The rest of the network. *)

\* A block another node can know: its own, or one of ours that is in our chain
\* (from there on an INV or a BLOCK_HEADERS may have shown it).
Visible(b) == prev[b] # Unborn /\ (b \in Own => b \in Range(received_blocks))

\* Another node creates a block on any block it knows.
Publish(b, p) ==
    /\ prev[b] = Unborn
    /\ p = Genesis \/ (p \in Block /\ Visible(p))
    /\ prev' = [prev EXCEPT ![b] = p]
    /\ UNCHANGED <<store, frames, hdr, miner, announced, requested, handled, raised>>

\* A BLOCK_HEADERS message is the whole header_store of a peer; the handler relies on no
\* order of it and checks each header, so any list is enumerated.
HeaderLists == UNION {[1..n -> {b \in Block : Visible(b)}] : n \in 1..MaxHeaders}

-----------------------------------------------------------------------------
(* handle_block and what it calls, with block_lock held. *)

LockFree == frames = <<>>

\* Mutant: the chain is not looked at.
DuplicateOrphan(b) == b \in Range(orphan_blocks[prev[b]])

\* The code's `received_blocks or orphan_blocks.get(...)`: the orphans are looked
\* at only while the chain is empty.
Duplicate(b) ==
    b \in IF received_blocks # <<>> THEN Range(received_blocks)
                                    ELSE Range(orphan_blocks[prev[b]])

\* Mutants: the parent is looked up among the headers; only the tip may be extended.
ConnectedByHeader(b) == prev[b] = Genesis \/ prev[b] \in Range(header_store)
ConnectedToTip(b) ==
    IF received_blocks = <<>> THEN prev[b] = Genesis
                              ELSE prev[b] = received_blocks[Len(received_blocks)]

Connected(b) == prev[b] = Genesis \/ prev[b] \in Range(received_blocks)

\* block['sender'] == self_id; self_id is "system" in the calls of check_orphans.
FromSelf(b, self) == b \in Own /\ self = "self"

AddToChain(b, self) ==
    /\ received_blocks' = IF (Light /\ self = "self") /\ ~FromSelf(b, self)
                          THEN received_blocks
                          ELSE Append(received_blocks, b)
    /\ header_store' = Append(header_store, b)

\* Mutants: no orphan is looked for; orphans of orphans are not; the loop starts at 0.
NoCheckOrphans(new_hash, stack) == stack
CheckOrphansOnce(new_hash, stack) ==
    IF orphan_blocks[new_hash] = <<>> \/ stack # <<>>
    THEN stack
    ELSE Append(stack, [bucket |-> new_hash, next |-> 1])
CheckOrphansFrom0(new_hash, stack) ==
    IF orphan_blocks[new_hash] = <<>>
    THEN stack
    ELSE Append(stack, [bucket |-> new_hash, next |-> 0])

\* check_orphans is entered only when new_hash has a bucket.
CheckOrphans(new_hash, stack) ==
    IF orphan_blocks[new_hash] = <<>>
    THEN stack
    ELSE Append(stack, [bucket |-> new_hash, next |-> 1])

\* The call that gossips before it adds the block.
GossipsFirst(b, self) == ~Duplicate(b) /\ Connected(b) /\ ~FromSelf(b, self)

\* One call of handle_block up to its check_orphans; stack is the frames of its callers.
HandleBlock(b, self, stack) ==
    \/ /\ Duplicate(b)
       /\ frames' = stack
       /\ UNCHANGED <<store, announced>>
    \/ /\ ~Duplicate(b) /\ Connected(b)
       /\ announced' = IF FromSelf(b, self) THEN announced
                                            ELSE announced \cup {<<self, b>>}
       /\ AddToChain(b, self)
       /\ frames' = CheckOrphans(b, stack)
       /\ UNCHANGED orphan_blocks
    \/ /\ ~Duplicate(b) /\ ~Connected(b)
       /\ orphan_blocks' = [orphan_blocks EXCEPT ![prev[b]] = Append(@, b)]
       /\ frames' = stack
       /\ UNCHANGED <<received_blocks, header_store, announced>>

Copies(b) == {i \in DOMAIN orphan_blocks[prev[b]] : orphan_blocks[prev[b]][i] = b}

\* A BLOCK reaches handle_block; again, once its message id has expired.
ReceiveBlock(b) ==
    /\ LockFree
    /\ Visible(b)
    /\ Cardinality(Copies(b)) < MaxCopies
    /\ HandleBlock(b, "self", <<>>)
    /\ handled' = handled \cup {b}
    /\ UNCHANGED <<prev, hdr, miner, requested, raised>>

Top == frames[Len(frames)]
Waiting == orphan_blocks[Top.bucket]
Advanced == [frames EXCEPT ![Len(frames)] = [bucket |-> @.bucket, next |-> @.next + 1]]

\* Mutant: the loop stops one orphan early.
LoopDoneEarly == Top.next >= Len(Waiting)

LoopDone == Top.next > Len(Waiting)

\* The loop of check_orphans hands its next orphan to handle_block as 'system'.
AdoptOrphan ==
    /\ ~LockFree
    /\ ~LoopDone
    /\ HandleBlock(Waiting[Top.next], "system", Advanced)
    /\ UNCHANGED <<prev, hdr, miner, requested, handled, raised>>

\* After its loop check_orphans deletes the bucket.
DeleteBucket ==
    /\ ~LockFree
    /\ LoopDone
    /\ orphan_blocks' = [orphan_blocks EXCEPT ![Top.bucket] = <<>>]
    /\ frames' = SubSeq(frames, 1, Len(frames) - 1)
    /\ UNCHANGED <<prev, received_blocks, header_store, hdr, miner, announced, requested,
                   handled, raised>>

\* gossip_message raises RuntimeError because known_peers changed size: handle_block
\* catches other exceptions only, so every call in progress ends and the lock is free.
Unwind ==
    /\ PeersJoin
    /\ frames' = <<>>
    /\ raised' = TRUE
    /\ UNCHANGED <<prev, store, hdr, miner, announced, requested, handled>>

ReceiveRaises(b) ==
    /\ LockFree /\ Visible(b) /\ GossipsFirst(b, "self")
    /\ Unwind

AdoptRaises ==
    /\ ~LockFree
    /\ ~LoopDone
    /\ GossipsFirst(Waiting[Top.next], "system")
    /\ Unwind

-----------------------------------------------------------------------------
(* The miner. *)

Tip == IF received_blocks = <<>> THEN Genesis ELSE received_blocks[Len(received_blocks)]

\* create_dummy_block: the tip is read under the lock, which is then released.
CreateBlock(o) ==
    /\ ~Light
    /\ minerPc = "idle" /\ LockFree /\ prev[o] = Unborn
    /\ prev' = [prev EXCEPT ![o] = Tip]
    /\ candidate' = o
    /\ minerPc' = "candidate"
    /\ UNCHANGED <<store, frames, hdr, announced, requested, handled, raised>>

\* The miner passes its block to handle_block, which takes the lock again.
StoreOwn ==
    /\ minerPc = "candidate" /\ LockFree
    /\ HandleBlock(candidate, "self", <<>>)
    /\ handled' = handled \cup {candidate}
    /\ minerPc' = "gossip"
    /\ UNCHANGED <<prev, hdr, candidate, requested, raised>>

\* Then it gossips the INV of the block, outside the lock.
AnnounceOwn ==
    /\ minerPc = "gossip"
    /\ announced' = announced \cup {<<"self", candidate>>}
    /\ minerPc' = "idle"
    /\ candidate' = Unborn
    /\ UNCHANGED <<prev, store, frames, hdr, requested, handled, raised>>

\* If that gossip raises, nothing catches it and the miner thread ends.
AnnounceRaises ==
    /\ PeersJoin
    /\ minerPc = "gossip"
    /\ minerPc' = "dead"
    /\ UNCHANGED <<prev, store, frames, hdr, candidate, announced, requested, handled, raised>>

-----------------------------------------------------------------------------
(* The BLOCK_HEADERS handler. *)

\* Mutant: only the last header of the message is checked.
LastConnected(list) ==
    LET h == list[Len(list)] IN prev[h] = Genesis \/ prev[h] \in Range(header_store)

\* Every parent is among the headers already known: those of the message do not count.
HeadersConnected(list) ==
    \A i \in DOMAIN list : prev[list[i]] = Genesis \/ prev[list[i]] \in Range(header_store)

Orphaned == UNION {Range(orphan_blocks[p]) : p \in DOMAIN orphan_blocks}

\* It copies the known headers, blocks and orphans under the lock and checks the message
\* outside it; a message with an unknown parent is dropped without effect.
CheckHeaders(t, list) ==
    /\ hdr[t].pc = "idle" /\ LockFree
    /\ HeadersConnected(list)
    /\ hdr' = [hdr EXCEPT ![t] = [pc |-> "checked", list |-> list,
                                  known |-> Range(header_store),
                                  held |-> Range(received_blocks) \cap Orphaned]]
    /\ UNCHANGED <<prev, store, frames, miner, announced, requested, handled, raised>>

\* The headers of the message that were unknown when the copy was made, in order.
Fresh(list, known) == Kept(list, Range(list) \ known)

\* Mutant: the copy is not brought up to date before the missing blocks are computed.
MissingOfCopy(t) == (Range(hdr[t].list) \cap hdr[t].known) \ hdr[t].held

\* The blocks a full node asks for: all of the message's but those the copies hold both
\* in the chain and as orphans.
MissingBlocks(t) == Range(hdr[t].list) \ hdr[t].held

\* It takes the lock again, appends what the copy does not hold and asks for the blocks.
ExtendHeaders(t) ==
    /\ hdr[t].pc = "checked" /\ LockFree
    /\ header_store' = header_store \o Fresh(hdr[t].list, hdr[t].known)
    /\ requested' = IF Light THEN requested ELSE requested \cup MissingBlocks(t)
    /\ hdr' = [hdr EXCEPT ![t] = Idle]
    /\ UNCHANGED <<prev, received_blocks, orphan_blocks, frames, miner, announced,
                   handled, raised>>

-----------------------------------------------------------------------------
Next ==
    \/ \E b \in Remote, p \in Block \cup {Genesis} : Publish(b, p)
    \/ \E b \in Block : ReceiveBlock(b)
    \/ \E b \in Block : ReceiveRaises(b)
    \/ AdoptOrphan
    \/ AdoptRaises
    \/ DeleteBucket
    \/ \E o \in Own : CreateBlock(o)
    \/ StoreOwn
    \/ AnnounceOwn
    \/ AnnounceRaises
    \/ \E t \in Thread, l \in HeaderLists : CheckHeaders(t, l)
    \/ \E t \in Thread : ExtendHeaders(t)

\* A thread inside the lock runs on; the miner keeps mining.  Nothing makes the network
\* deliver, and the threads that handle a message may raise at any gossip.
Fairness ==
    /\ WF_vars(AdoptOrphan \/ AdoptRaises \/ DeleteBucket)
    /\ WF_vars(StoreOwn)
    /\ WF_vars(AnnounceOwn \/ AnnounceRaises)

SafeSpec == Init /\ [][Next]_vars
Spec == SafeSpec /\ Fairness

-----------------------------------------------------------------------------
(* Safety. *)

\* Every block of s but a first one comes after its parent, the parents being those of pr.
ParentsPrecede(s, pr) ==
    \A i \in DOMAIN s :
        pr[s[i]] = Genesis \/ \E j \in 1..(i - 1) : s[j] = pr[s[i]]

\* No block is in the chain twice, whatever is delivered again, arrives out of order or
\* races the miner: the duplicate check and the append share one lock section.
UniqueBlocks ==
    \A i, j \in DOMAIN received_blocks :
        received_blocks[i] = received_blocks[j] => i = j

\* received_blocks is topologically sorted: a block's parent stands before it, although
\* blocks arrive in any order and the miner chose its parent in an earlier lock section.
ParentFirst == ParentsPrecede(received_blocks, prev)

\* So is header_store, although a BLOCK_HEADERS message is checked against a copy of it
\* that is out of date when the message's headers are appended.
HeaderParentFirst == ParentsPrecede(header_store, prev)

\* A full node has asked for the block of every header it holds without the block: the
\* BLOCK_HEADERS handler may not add a header and forget to request its block.
HeadersRequested ==
    ~Light => Range(header_store) \subseteq Range(received_blocks) \cup requested

\* A block handle_block was called with is in the chain or waits as an orphan: buckets
\* are deleted only after all their blocks were adopted (unless a gossip raised).
NoBlockLost ==
    ~Light /\ ~raised => handled \subseteq Range(received_blocks) \cup Orphaned

\* With the lock free no orphan waits for a parent that is in the chain: check_orphans
\* has followed every chain of orphans to its end (unless a gossip raised).
NoStuckOrphan ==
    LockFree /\ ~Light /\ ~raised =>
        \A p \in Range(received_blocks) : orphan_blocks[p] = <<>>

\* The block the miner made never waits as an orphan: the parent it read before it let
\* go of the lock is still in the chain when handle_block takes the lock again.
OwnNeverOrphaned == Orphaned \cap Own = {}

-----------------------------------------------------------------------------
(* Liveness. *)

\* A handled block whose parent gets into the chain follows it, or a gossip raised.
OrphansFollow ==
    \A b \in Block :
        b \in handled /\ prev[b] \in Range(received_blocks)
            ~> b \in Range(received_blocks) \/ raised \/ Light

\* What the miner has made gets into the chain, however busy block_lock is.
MinedBlocksStored ==
    \A o \in Own : (candidate = o) ~> o \in Range(received_blocks)

-----------------------------------------------------------------------------
(* What the documents say and the code does not do (README of the repository, section   *)
(* Part 3, and the comments of the handlers). *)

\* The block the miner adds is linked to the last block of the chain.
MinerExtendsTip ==
    [][\A o \in Own : o \in Range(received_blocks') \ Range(received_blocks)
                          => prev[o] = Tip]_vars

\* A block that gets into the chain from another node is announced under this node's id.
AnnouncedAsSelf ==
    LockFree => \A b \in Range(received_blocks) \ Own : <<"self", b>> \in announced

\* header_store holds no header twice.
UniqueHeaders ==
    \A i, j \in DOMAIN header_store : header_store[i] = header_store[j] => i = j
=============================================================================
