-------------------------------- MODULE Sync --------------------------------
(***************************************************************************)
(* How blocks get from node to node: INV and GET_BLOCK after a block was   *)
(* mined or received, GET_BLOCK_HEADERS and BLOCK_HEADERS in rounds        *)
(* (message_handler.py, inv_message.py, block_handler.py and               *)
(* gossip_message).                                                        *)
(*                                                                         *)
(* What a handler does under block_lock is one step here; BlockStore looks *)
(* into it.  A GET_BLOCK handler tries up to four times, with pauses of    *)
(* seconds, so each of its tries is a step of its own.                     *)
(*                                                                         *)
(* Messages may overtake each other.  A lost message is one no step takes, *)
(* which only the fairness of Spec excludes; of two equal messages on      *)
(* their way only one is kept.                                             *)
(***************************************************************************)
EXTENDS Naturals, Sequences, SequencesExt, Lists

CONSTANTS
    Node,     \* the nodes
    Light,    \* the light nodes
    Known,    \* the known_peers of every node
    Fanout,   \* the fanout of every node
    Block,    \* the blocks that will be mined
    Creator,  \* who mines a block
    Genesis,  \* the prev_id of a first block
    Unborn,   \* the prev_id of a block that is not mined yet
    Rounds,   \* bound: rounds of request_block_sync of every node
    Starting  \* bound: the nodes that have yet to call broadcast_inventory

ASSUME NodesAssumption ==
    Light \subseteq Node /\ Known \in [Node -> SUBSET Node] /\ Fanout \in [Node -> Nat]
ASSUME BlocksAssumption ==
    /\ Creator \in [Block -> Node \ Light]
    /\ Genesis \notin Block /\ Unborn \notin Block \cup {Genesis}
ASSUME BoundsAssumption == Rounds \in [Node -> Nat] /\ Starting \subseteq Node

VARIABLES
    prev,            \* the prev_id of every block
    received_blocks, \* the chain of every node
    orphan_blocks,   \* the blocks that wait for a parent, in the order they came
    header_store,    \* the headers of every node
    messages,        \* the messages on their way
    serving,         \* the GET_BLOCK handlers that are at work
    rounds,          \* rounds of request_block_sync
    starting         \* the nodes that have not called broadcast_inventory yet

stores == <<received_blocks, orphan_blocks, header_store>>
vars == <<prev, stores, messages, serving, rounds, starting>>

-----------------------------------------------------------------------------
(* Messages. *)

Inv(n, p, ids) == [type |-> "INV", from |-> n, to |-> p, block_ids |-> ids]
GetBlock(n, p, ids) == [type |-> "GET_BLOCK", from |-> n, to |-> p, request_ids |-> ids]
GetHeaders(n, p) == [type |-> "GET_BLOCK_HEADERS", from |-> n, to |-> p]
Headers(n, p, list) == [type |-> "BLOCK_HEADERS", from |-> n, to |-> p, headers |-> list]

\* A block travels as it was mined: its sender is its creator, whoever sends it on.
BlockTo(b, p) == [type |-> "BLOCK", from |-> Creator[b], to |-> p, block |-> b]

\* Light nodes ask for no block and so get none.
Message ==
    [type : {"INV"}, from : Node, to : Node, block_ids : SUBSET Block]
        \cup [type : {"GET_BLOCK"}, from : Node \ Light, to : Node, request_ids : Seq(Block) \ {<<>>}]
        \cup [type : {"BLOCK"}, from : Node, to : Node \ Light, block : Block]
        \cup [type : {"GET_BLOCK_HEADERS"}, from : Node, to : Node]
        \cup [type : {"BLOCK_HEADERS"}, from : Node, to : Node, headers : Seq(Block)]

Handler == [at : Node \ Light, from : Node \ Light, asked : SUBSET Block, missing : Seq(Block) \ {<<>>},
            found : SUBSET Block, try : 0..3]

TypeOK ==
    /\ prev \in [Block -> Block \cup {Genesis, Unborn}]
    /\ received_blocks \in [Node -> Seq(Block)]
    /\ orphan_blocks \in [Node -> Seq(Block)]
    /\ header_store \in [Node -> Seq(Block)]
    /\ messages \subseteq Message
    /\ serving \subseteq Handler
    /\ rounds \in [Node -> Nat]
    /\ starting \subseteq Node

Init ==
    /\ prev = [b \in Block |-> Unborn]
    /\ received_blocks = [n \in Node |-> <<>>]
    /\ orphan_blocks = [n \in Node |-> <<>>]
    /\ header_store = [n \in Node |-> <<>>]
    /\ messages = {}
    /\ serving = {}
    /\ rounds = [n \in Node |-> 0]
    /\ starting = Starting

-----------------------------------------------------------------------------
(* gossip_message, and the checks of dispatch_message. *)

\* The sets of peers random.sample may select.
Samples(n) ==
    LET candidates == Known[n] \ {n}
    IN  {s \in SUBSET candidates :
            Cardinality(s) = IF Fanout[n] < Cardinality(candidates) THEN Fanout[n]
                             ELSE Cardinality(candidates)}

\* A message taken from the network; that of an unknown sender is dropped.
Take(m, type) == m \in messages /\ m.type = type /\ m.from \in Known[m.to]

Drop(m) ==
    /\ m \in messages /\ m.from \notin Known[m.to]
    /\ messages' = messages \ {m}
    /\ UNCHANGED <<prev, stores, serving, rounds, starting>>

-----------------------------------------------------------------------------
(* Mining, and the INV of a node that starts. *)

Chained(n) == Range(received_blocks[n])

\* Also an orphan is found by get_block_by_id.
Held(n) == Chained(n) \cup Range(orphan_blocks[n])

Tip(n) ==
    IF received_blocks[n] = <<>> THEN Genesis ELSE received_blocks[n][Len(received_blocks[n])]

\* A block of one's own goes on top of the chain and is announced.
Mine(b, sample) ==
    LET n == Creator[b]
    IN  /\ prev[b] = Unborn
        /\ sample \in Samples(n)
        /\ prev' = [prev EXCEPT ![b] = Tip(n)]
        /\ received_blocks' = [received_blocks EXCEPT ![n] = Append(@, b)]
        /\ header_store' = [header_store EXCEPT ![n] = Append(@, b)]
        /\ messages' = messages \cup {Inv(n, p, {b}) : p \in sample}
        /\ UNCHANGED <<orphan_blocks, serving, rounds, starting>>

\* Mutant: orphans are announced too.
InventoryWithOrphans(n) == Held(n)

\* get_inventory takes the chain only.
Inventory(n) == Chained(n)

\* broadcast_inventory is called once, when the node starts; the thread of the call may
\* come after the first blocks.
BroadcastInventory(n, sample) ==
    /\ n \in starting
    /\ sample \in Samples(n)
    /\ starting' = starting \ {n}
    /\ messages' = messages \cup {Inv(n, p, Inventory(n)) : p \in sample}
    /\ UNCHANGED <<prev, stores, serving, rounds>>

-----------------------------------------------------------------------------
(* The BLOCK handler. *)

Connected(n, b) == prev[b] = Genesis \/ prev[b] \in Chained(n)

\* The orphans that wait for p.
Waiting(n, p) == Kept(orphan_blocks[n], {o \in Block : prev[o] = p})

\* A block and the orphans check_orphans adopts after it, children after their parent, each
\* followed by its own; no line of descent is longer than there are orphans.
WithOrphans(n, b) ==
    LET adopted[k \in 0..Len(orphan_blocks[n])] ==
            [p \in Block |->
                IF k = 0 THEN <<p>>
                ELSE <<p>> \o FlattenSeq([i \in DOMAIN Waiting(n, p) |->
                                             adopted[k - 1][Waiting(n, p)[i]]])]
    IN  adopted[Len(orphan_blocks[n])][b]

\* The block, its header and those of the orphans it brings are appended.  The orphans are
\* announced too, but as sent by "system", which every node drops.
Connect(m, sample) ==
    LET n == m.to
        new == WithOrphans(n, m.block)
    IN  /\ Take(m, "BLOCK")
        /\ m.block \notin Chained(n) /\ Connected(n, m.block)
        /\ sample \in Samples(n)
        /\ received_blocks' = [received_blocks EXCEPT ![n] = @ \o new]
        /\ header_store' = [header_store EXCEPT ![n] = @ \o new]
        /\ orphan_blocks' = [orphan_blocks EXCEPT ![n] = Kept(@, Block \ Range(new))]
        /\ messages' = (messages \ {m}) \cup {Inv(n, p, {m.block}) : p \in sample}
        /\ UNCHANGED <<prev, serving, rounds, starting>>

\* A block without its parent waits; the parent is not asked for.  A second copy of an
\* orphan changes nothing that another node sees and is not kept.
Wait(m) ==
    LET n == m.to
    IN  /\ Take(m, "BLOCK")
        /\ m.block \notin Chained(n) /\ ~Connected(n, m.block)
        /\ orphan_blocks' = [orphan_blocks EXCEPT ![n] =
                                IF m.block \in Range(@) THEN @ ELSE Append(@, m.block)]
        /\ messages' = messages \ {m}
        /\ UNCHANGED <<prev, received_blocks, header_store, serving, rounds, starting>>

IgnoreBlock(m) ==
    /\ Take(m, "BLOCK") /\ m.block \in Chained(m.to)
    /\ messages' = messages \ {m}
    /\ UNCHANGED <<prev, stores, serving, rounds, starting>>

-----------------------------------------------------------------------------
(* The INV handler. *)

\* Mutant: nothing is asked for.
NothingMissing(n, ids) == {}

MissingFrom(n, ids) == ids \ Chained(n)

\* The blocks that are not in the chain are asked for, in the order of a set, orphans too.
HandleInv(m) ==
    /\ Take(m, "INV")
    /\ \/ /\ m.to \notin Light /\ MissingFrom(m.to, m.block_ids) # {}
          /\ \E ids \in SetToSeqs(MissingFrom(m.to, m.block_ids)) :
                 messages' = (messages \ {m}) \cup {GetBlock(m.to, m.from, ids)}
       \/ /\ m.to \in Light \/ MissingFrom(m.to, m.block_ids) = {}
          /\ messages' = messages \ {m}
    /\ UNCHANGED <<prev, stores, serving, rounds, starting>>

-----------------------------------------------------------------------------
(* The GET_BLOCK handler. *)

StartServing(m) ==
    /\ Take(m, "GET_BLOCK") /\ m.to \notin Light
    /\ messages' = messages \ {m}
    /\ serving' = serving \cup
           {[at |-> m.to, from |-> m.from, asked |-> Range(m.request_ids),
             missing |-> m.request_ids, found |-> {}, try |-> 0]}
    /\ UNCHANGED <<prev, stores, rounds, starting>>

IgnoreAsLight(m) ==
    /\ Take(m, "GET_BLOCK") /\ m.to \in Light
    /\ messages' = messages \ {m}
    /\ UNCHANGED <<prev, stores, serving, rounds, starting>>

\* How far a try gets: to the first block that is found, or to the end.  The last try ends
\* at the first block, found or not.
Reached(h) ==
    IF h.try = 3 THEN 1
    ELSE CHOOSE i \in DOMAIN h.missing :
             /\ \A j \in 1..(i - 1) : h.missing[j] \notin Held(h.at)
             /\ h.missing[i] \in Held(h.at) \/ i = Len(h.missing)

FoundNow(h) == {h.missing[Reached(h)]} \cap Held(h.at)

\* What is left for the next try: what comes before the block found.  What comes after it
\* is forgotten.
StillMissing(h) ==
    IF FoundNow(h) = {} THEN SubSeq(h.missing, 1, Reached(h))
                        ELSE SubSeq(h.missing, 1, Reached(h) - 1)

\* What has been found is sent when the handler ends.
SendFound(h) == {BlockTo(b, h.from) : b \in h.found \cup FoundNow(h)}

\* All others are asked for what is missing, also by the last try.
AskOthers(h) ==
    {GetBlock(h.at, p, StillMissing(h)) : p \in Known[h.at] \ {h.at, h.from}}

TryToServe(h) ==
    /\ h \in serving
    /\ \/ /\ StillMissing(h) = <<>>
          /\ messages' = messages \cup SendFound(h)
          /\ serving' = serving \ {h}
       \/ /\ StillMissing(h) # <<>> /\ h.try < 3
          /\ messages' = messages \cup AskOthers(h)
          /\ serving' = (serving \ {h}) \cup
                 {[h EXCEPT !.missing = StillMissing(h), !.found = @ \cup FoundNow(h),
                            !.try = @ + 1]}
       \/ /\ StillMissing(h) # <<>> /\ h.try = 3
          /\ messages' = messages \cup AskOthers(h) \cup SendFound(h)
          /\ serving' = serving \ {h}
    /\ UNCHANGED <<prev, stores, rounds, starting>>

-----------------------------------------------------------------------------
(* Headers. *)

\* One round of request_block_sync.
RequestHeaders(n) ==
    /\ rounds[n] < Rounds[n]
    /\ rounds' = [rounds EXCEPT ![n] = @ + 1]
    /\ messages' = messages \cup {GetHeaders(n, p) : p \in Known[n] \ {n}}
    /\ UNCHANGED <<prev, stores, serving, starting>>

SendHeaders(m) ==
    /\ Take(m, "GET_BLOCK_HEADERS")
    /\ messages' = (messages \ {m}) \cup {Headers(m.to, m.from, header_store[m.to])}
    /\ UNCHANGED <<prev, stores, serving, rounds, starting>>

\* The headers that were known before the message came.
KnownHeaders(n) == Range(header_store[n])

HeadersConnected(m) ==
    \A b \in Range(m.headers) : prev[b] = Genesis \/ prev[b] \in KnownHeaders(m.to)

\* The test for missing blocks is true of all that are not both in the chain and waiting as
\* orphans.
MissingBlocks(m) ==
    Kept(m.headers, Block \ (Chained(m.to) \cap Range(orphan_blocks[m.to])))

\* Mutant: light nodes ask for blocks too.
FetchesAlways(n) == TRUE

\* Blocks are asked for by full nodes only.
Fetches(n) == n \notin Light

\* All new headers are kept, or none; of the blocks, the sender is asked for.
HandleHeaders(m) ==
    LET n == m.to
    IN  /\ Take(m, "BLOCK_HEADERS") /\ HeadersConnected(m)
        /\ header_store' = [header_store EXCEPT ![n] =
                               @ \o Kept(m.headers, Block \ KnownHeaders(n))]
        /\ messages' = (messages \ {m}) \cup
               IF Fetches(n) /\ MissingBlocks(m) # <<>>
               THEN {GetBlock(n, m.from, MissingBlocks(m))} ELSE {}
        /\ UNCHANGED <<prev, received_blocks, orphan_blocks, serving, rounds, starting>>

\* One header without its parent, and the message has no effect.
RefuseHeaders(m) ==
    /\ Take(m, "BLOCK_HEADERS") /\ ~HeadersConnected(m)
    /\ messages' = messages \ {m}
    /\ UNCHANGED <<prev, stores, serving, rounds, starting>>

-----------------------------------------------------------------------------
Next ==
    \/ \E b \in Block, s \in SUBSET Node : Mine(b, s)
    \/ \E n \in Node, s \in SUBSET Node : BroadcastInventory(n, s)
    \/ \E n \in Node : RequestHeaders(n)
    \/ \E m \in messages : Drop(m)
    \/ \E m \in messages, s \in SUBSET Node : Connect(m, s)
    \/ \E m \in messages : Wait(m)
    \/ \E m \in messages : IgnoreBlock(m)
    \/ \E m \in messages : HandleInv(m)
    \/ \E m \in messages : StartServing(m)
    \/ \E m \in messages : IgnoreAsLight(m)
    \/ \E h \in serving : TryToServe(h)
    \/ \E m \in messages : SendHeaders(m)
    \/ \E m \in messages : HandleHeaders(m)
    \/ \E m \in messages : RefuseHeaders(m)

\* The threads of the handlers and of the outboxes run on, and the network delivers: at every
\* node, for every kind of message that brings a block.  Nothing is assumed of the miners.
HandleBlock(m) ==
    (\E s \in SUBSET Node : Connect(m, s)) \/ Wait(m) \/ IgnoreBlock(m)

Fairness ==
    \A n \in Node :
        /\ WF_vars(\E m \in messages : m.to = n /\ HandleBlock(m))
        /\ WF_vars(\E m \in messages : m.to = n /\ HandleInv(m))
        /\ WF_vars(\E m \in messages : m.to = n /\ StartServing(m))
        /\ WF_vars(\E h \in serving : h.at = n /\ TryToServe(h))

SafeSpec == Init /\ [][Next]_vars
Spec == SafeSpec /\ Fairness

-----------------------------------------------------------------------------
(* Safety. *)

\* Who announces a block has it, for as long as the announcement lasts: also an INV that is
\* gossiped before its block is appended, and one of a node that has just started.
AnnouncedIsHeld ==
    \A m \in messages : m.type = "INV" => m.block_ids \subseteq Chained(m.from)

-----------------------------------------------------------------------------
(* Liveness. *)

\* A node accepts messages of the other and blocks of the creator.
MayFetch(p, n, b) == {n, Creator[b]} \subseteq Known[p] /\ p \in Known[n]

\* A block that is announced alone, as by its creator and by every node that stores it, is
\* fetched, if no message is lost: whatever else is asked for, by whomever, in the meantime.
AnnouncedIsFetched ==
    \A p \in Node \ Light, b \in Block :
        (\E n \in Node : Inv(n, p, {b}) \in messages /\ MayFetch(p, n, b)) ~> (b \in Held(p))

-----------------------------------------------------------------------------
(* What the documents say and the code does not do. *)

\* README: the blocks that exist are sent one by one to the requester.
AllHeldSent ==
    [][\A h \in serving \ serving' :
          (h.try = 3 \/ StillMissing(h) = <<>>) =>
              {BlockTo(b, h.from) : b \in h.asked \cap Held(h.at)} \subseteq messages']_vars
=============================================================================
