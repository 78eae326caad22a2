------------------------------- MODULE TxPool -------------------------------
(***************************************************************************)
(* The transaction pool of a full node (transaction.py), with the threads  *)
(* that use it: the handlers of TX messages and the generator, which add a *)
(* transaction and gossip it if it was new, and the miner, which copies    *)
(* the pool into a block and clears it.                                    *)
(*                                                                         *)
(* Each function of transaction.py is one section of tx_lock.  The miner's *)
(* two calls are two sections: block_lock, which it holds around them, is  *)
(* not taken by those who add.  Gossip happens outside the lock.           *)
(*                                                                         *)
(* A transaction is its id.  A TX message whose id is not its hash is      *)
(* rejected before it gets here; a light node gossips the others and has   *)
(* no pool.                                                                *)
(***************************************************************************)
EXTENDS Naturals, Sequences, Functions

CONSTANTS
    Tx,         \* the transactions
    PeersJoin,  \* may a HELLO add a known peer while gossip_message iterates over them?
    MaxCalls    \* bound: calls of add_transaction for one transaction

ASSUME PoolAssumption == PeersJoin \in BOOLEAN /\ MaxCalls \in Nat

VARIABLES
    tx_pool,            \* the transactions of the pool
    tx_ids,             \* their ids
    redundant_tx_cnt,   \* additions refused because the id was there
    due,                \* gossips that threads still have to make, by transaction
    minerPc,            \* where the miner is
    tx_list,            \* the transactions of the miner's block
    calls,              \* history: calls of add_transaction
    added,              \* history: calls that added
    gossiped,           \* history: gossips made
    mute,               \* history: gossips that raised
    packed,             \* history: blocks of this node that hold the transaction
    lost                \* history: times it was cleared from the pool and in no block

pool == <<tx_pool, tx_ids, redundant_tx_cnt>>
miner == <<minerPc, tx_list>>
gossips == <<due, gossiped, mute>>
poolVars == <<pool, gossips, miner, calls, added, packed, lost>>

Zero == [t \in Tx |-> 0]

PoolTypeOK ==
    /\ tx_pool \in Seq(Tx)
    /\ tx_ids \subseteq Tx
    /\ redundant_tx_cnt \in Nat
    /\ minerPc \in {"idle", "copied"}
    /\ tx_list \in Seq(Tx)
    /\ due \in [Tx -> Nat] /\ gossiped \in [Tx -> Nat] /\ mute \in [Tx -> Nat]
    /\ calls \in [Tx -> Nat] /\ added \in [Tx -> Nat]
    /\ packed \in [Tx -> Nat] /\ lost \in [Tx -> Nat]

PoolInit ==
    /\ tx_pool = <<>>
    /\ tx_ids = {}
    /\ redundant_tx_cnt = 0
    /\ minerPc = "idle"
    /\ tx_list = <<>>
    /\ due = Zero /\ gossiped = Zero /\ mute = Zero
    /\ calls = Zero /\ added = Zero
    /\ packed = Zero /\ lost = Zero

-----------------------------------------------------------------------------
\* Mutant: the transaction is appended as a list of one.
AppendList(t) == Append(tx_pool, <<t>>)

AppendTx(t) == Append(tx_pool, t)

\* Mutant: the id is looked for in the wrong place.
NeverPooled(t) == FALSE

\* The caller has still to gossip t, outside the lock.
OweGossip(t) == [due EXCEPT ![t] = @ + 1]

Pooled(t) == t \in tx_ids

\* add_transaction, called by a TX handler or by the generator; both gossip on TRUE.
AddTransaction(t) ==
    /\ calls[t] < MaxCalls
    /\ calls' = [calls EXCEPT ![t] = @ + 1]
    /\ \/ /\ Pooled(t)
          /\ redundant_tx_cnt' = redundant_tx_cnt + 1
          /\ UNCHANGED <<tx_pool, tx_ids, due, added>>
       \/ /\ ~Pooled(t)
          /\ tx_pool' = AppendTx(t)
          /\ tx_ids' = tx_ids \cup {t}
          /\ due' = OweGossip(t)
          /\ added' = [added EXCEPT ![t] = @ + 1]
          /\ UNCHANGED redundant_tx_cnt
    /\ UNCHANGED <<gossiped, mute, miner, packed, lost>>

\* The gossip that follows an addition.
Gossip(t) ==
    /\ due[t] > 0
    /\ due' = [due EXCEPT ![t] = @ - 1]
    /\ gossiped' = [gossiped EXCEPT ![t] = @ + 1]
    /\ UNCHANGED <<pool, mute, miner, calls, added, packed, lost>>

\* It raises because known_peers changed size, and ends its thread.
GossipRaises(t) ==
    /\ PeersJoin
    /\ due[t] > 0
    /\ due' = [due EXCEPT ![t] = @ - 1]
    /\ mute' = [mute EXCEPT ![t] = @ + 1]
    /\ UNCHANGED <<pool, gossiped, miner, calls, added, packed, lost>>

\* Mutant: the most recent transaction comes first.
CopyReversed == [i \in DOMAIN tx_pool |-> tx_pool[Len(tx_pool) + 1 - i]]

get_recent_transactions == tx_pool

\* create_dummy_block: get_recent_transactions ...
CopyPool ==
    /\ minerPc = "idle"
    /\ tx_list' = get_recent_transactions
    /\ minerPc' = "copied"
    /\ UNCHANGED <<pool, gossips, calls, added, packed, lost>>

\* Mutant: the ids are forgotten.
EmptyPoolOnly == tx_pool' = <<>> /\ UNCHANGED <<tx_ids, redundant_tx_cnt>>

EmptyPool == tx_pool' = <<>> /\ tx_ids' = {} /\ UNCHANGED redundant_tx_cnt

\* ... and then clear_pool, whatever the pool holds by now.  The block is complete.
ClearPool ==
    /\ minerPc = "copied"
    /\ EmptyPool
    /\ packed' = [t \in Tx |-> packed[t] + IF t \in Range(tx_list) THEN 1 ELSE 0]
    /\ lost' = [t \in Tx |-> lost[t] + IF t \in Range(tx_pool) \ Range(tx_list) THEN 1 ELSE 0]
    /\ minerPc' = "idle"
    /\ tx_list' = <<>>
    /\ UNCHANGED <<gossips, calls, added>>

PoolNext ==
    \/ \E t \in Tx : AddTransaction(t)
    \/ \E t \in Tx : Gossip(t)
    \/ \E t \in Tx : GossipRaises(t)
    \/ CopyPool
    \/ ClearPool

PoolSpec == PoolInit /\ [][PoolNext]_poolVars

-----------------------------------------------------------------------------
\* tx_ids and tx_pool say the same and the pool repeats nothing, whoever adds and
\* whenever the miner clears: the duplicate check works on tx_ids alone.
PoolMatchesIds ==
    /\ tx_ids = Range(tx_pool)
    /\ \A i, j \in DOMAIN tx_pool : tx_pool[i] = tx_pool[j] => i = j

\* Every addition is accounted for: the transaction is in the pool, or went into exactly
\* one block, or was lost.  None is packed into two blocks, or packed and lost.
EveryAdditionAccounted ==
    \A t \in Tx :
        added[t] = packed[t] + lost[t] + IF t \in Range(tx_pool) THEN 1 ELSE 0

\* A transaction the miner has copied is still in the pool when it clears it.
CopyIsPrefix ==
    /\ Len(tx_list) <= Len(tx_pool)
    /\ \A i \in DOMAIN tx_list : tx_list[i] = tx_pool[i]

-----------------------------------------------------------------------------
\* README:298: the transactions are read from the pool before the pool is cleared, so
\* what is cleared is in the block.
NoTransactionLost == \A t \in Tx : lost[t] = 0
=============================================================================
