----------------------------- MODULE EventStore -----------------------------
(***************************************************************************)
(* The EventStore contract on the chains it may live on.  A transaction    *)
(* waits in the pool of its chain until a block takes it; the contract      *)
(* keeps no storage, so all it leaves behind is the log of DataWritten      *)
(* events.  Pool, blocks and receipts are the EVM node's (external); the    *)
(* two require checks and the event are contracts/EventStore.sol.           *)
(*                                                                          *)
(* Abstracted: the writer, the key hash and the timestamp of an event.      *)
(* block.timestamp grows strictly with the block number, so the block       *)
(* number stands for both in every order the readers use.                   *)
(***************************************************************************)
EXTENDS Integers, Sequences, FiniteSets, Functions

CONSTANTS
    Chains,        \* the chains some RPC endpoint or wallet is connected to
    Contracts,     \* well-formed addresses
    Deployed,      \* where an EventStore is: pairs <<chain, address>>
    Hashes,        \* transaction hashes, each used once
    Text,          \* the strings a caller may pass, "" among them
    MaxBatch,      \* bound: writeData calls a single transaction makes
    MaxHeight      \* bound: blocks per chain

ASSUME EventStoreAssumption ==
    /\ Deployed \subseteq Chains \X Contracts
    /\ IsFiniteSet(Hashes)
    /\ MaxBatch \in Nat \ {0}
    /\ MaxHeight \in Nat

VARIABLES
    height,        \* number of the latest block, per chain
    pool,          \* broadcast transactions no block has taken yet
    receipts,      \* what became of the mined ones
    log            \* every DataWritten event ever emitted

chainVars == <<height, pool, receipts, log>>

-----------------------------------------------------------------------------
Call == [key : Text, value : Text]

\* A person's transaction makes one call; another contract may make several.
Batch == UNION {[1..n -> Call] : n \in 1..MaxBatch}

Transaction ==
    [hash : Hashes, chain : Chains, to : Contracts, calls : Batch]

Event ==
    [chain : Chains, to : Contracts, hash : Hashes, block : Nat \ {0},
     index : Nat, key : Text \ {""}, value : Text \ {""}]

\* The require statements of writeData.
writeData(call) == call.key # "" /\ call.value # ""

RunsContract(t) == <<t.chain, t.to>> \in Deployed

\* One failing call reverts its whole transaction.  An address without code
\* accepts any transaction and does nothing.
Succeeds(t) == RunsContract(t) => \A i \in DOMAIN t.calls : writeData(t.calls[i])

DataWritten(t, i, block, index) ==
    [chain |-> t.chain, to |-> t.to, hash |-> t.hash, block |-> block,
     index |-> index, key |-> t.calls[i].key, value |-> t.calls[i].value]

-----------------------------------------------------------------------------
HashUnused(h) == \A t \in pool \cup receipts : t.hash # h

Broadcast(t) ==
    /\ HashUnused(t.hash)
    /\ pool' = pool \cup {t}
    /\ UNCHANGED <<height, receipts, log>>

\* Mutant: a failing require stops its own call only.
EmittingEagerly(T) ==
    UNION {{t} \X {i \in DOMAIN t.calls : writeData(t.calls[i])} :
              t \in {u \in T : RunsContract(u)}}

\* The calls that emit when the transactions T are executed.
Emitting(T) ==
    UNION {{t} \X DOMAIN t.calls : t \in {u \in T : RunsContract(u) /\ Succeeds(u)}}

\* The log indices of a block: the calls of a transaction are numbered
\* consecutively, the transactions come in an order of the miner's choice.
LogIndices(E) ==
    {ix \in Bijection(E, 0..(Cardinality(E) - 1)) :
        \A e, f \in E : e[1] = f[1] => ix[f] - ix[e] = f[2] - e[2]}

\* Bound: blocks without transactions leave room for every transaction to come.
Unmined == {h \in Hashes : \A r \in receipts : r.hash # h}

MineBlock(c) ==
    /\ height[c] < MaxHeight
    /\ height' = [height EXCEPT ![c] = @ + 1]
    /\ \E T \in SUBSET {t \in pool : t.chain = c} :
          /\ T # {} \/ height[c] + Cardinality(Unmined) < MaxHeight
          /\ pool' = pool \ T
          /\ receipts' = receipts \cup
                {[hash |-> t.hash, chain |-> c, block |-> height[c] + 1,
                  ok |-> Succeeds(t)] : t \in T}
          /\ \E ix \in LogIndices(Emitting(T)) :
                log' = log \cup
                    {DataWritten(e[1], e[2], height[c] + 1, ix[e]) : e \in Emitting(T)}

InitChain ==
    /\ height = [c \in Chains |-> 0]
    /\ pool = {}
    /\ receipts = {}
    /\ log = {}

NextChain ==
    \/ \E t \in Transaction : Broadcast(t)
    \/ \E c \in Chains : MineBlock(c)

-----------------------------------------------------------------------------
Receipt == [hash : Hashes, chain : Chains, block : Nat \ {0}, ok : BOOLEAN]

ChainTypeOK ==
    /\ height \in [Chains -> Nat]
    /\ pool \subseteq Transaction
    /\ receipts \subseteq Receipt
    /\ log \subseteq Event
    /\ IsFiniteSet(pool)
    /\ IsFiniteSet(log)
=============================================================================
