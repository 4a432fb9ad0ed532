------------------------------ MODULE Subgraph ------------------------------
(***************************************************************************)
(* The subgraph: graph-node (external) feeds the blocks of one chain, in    *)
(* order, to handleDataWritten, which saves one immutable entity per event. *)
(* All the entities of a block are committed at once.                       *)
(***************************************************************************)
EXTENDS EventStore

CONSTANTS
    GraphChain,    \* subgraph.yaml: network
    GraphAddress,  \*                source.address
    StartBlock     \*                source.startBlock

ASSUME SubgraphAssumption ==
    /\ GraphChain \in Chains
    /\ GraphAddress \in Contracts
    /\ StartBlock \in Nat

VARIABLES
    indexed,       \* the last block of GraphChain whose events are entities
    entities       \* the store of the schema's only entity, DataWritten

graphVars == <<indexed, entities>>

Entity ==
    [id : Hashes \X Nat, key : Text, value : Text, blockNumber : Nat,
     transactionHash : Hashes]

\* Mutant: the identity forgets the log index.
EntityIdOfTransaction(event) == <<event.hash, 0>>

EntityId(event) == <<event.hash, event.index>>

\* Mutant: the identity leaves the log index out.
handleDataWrittenWithoutIndex(event) ==
    [id |-> <<event.hash, 0>>, key |-> event.key, value |-> event.value,
     blockNumber |-> event.block, transactionHash |-> event.hash]

\* Mutant: the transaction hash is the identity.
handleDataWrittenByHash(event) ==
    [id |-> event.hash, key |-> event.key, value |-> event.value,
     blockNumber |-> event.block, transactionHash |-> event.hash]

handleDataWritten(event) ==
    [id |-> EntityId(event), key |-> event.key, value |-> event.value,
     blockNumber |-> event.block, transactionHash |-> event.hash]

\* Mutant: the entity is saved once per block.
saveLast(store, E) ==
    store \cup {handleDataWritten(e) : e \in {f \in E : \A g \in E : g.index <= f.index}}

\* What the store holds after the events E of a block were handled in the order
\* of their index: save() replaces the entity of the same identity.
save(store, E) ==
    LET last == {e \in E : \A f \in E :
                    handleDataWritten(f).id = handleDataWritten(e).id => f.index <= e.index}
        saved == {handleDataWritten(e) : e \in last}
    IN  {old \in store : \A new \in saved : new.id # old.id} \cup saved

\* Mutant: the manifest starts one block too late.
SubscribedLate(b) ==
    {e \in log : /\ e.chain = GraphChain /\ e.to = GraphAddress
                 /\ e.block = b /\ e.block > StartBlock}

\* The events of block b that the manifest subscribes to.
Subscribed(b) ==
    {e \in log : /\ e.chain = GraphChain /\ e.to = GraphAddress
                 /\ e.block = b /\ e.block >= StartBlock}

IndexBlock ==
    /\ indexed < height[GraphChain]
    /\ indexed' = indexed + 1
    /\ entities' = save(entities, Subscribed(indexed + 1))
    /\ UNCHANGED chainVars

InitSubgraph == indexed = 0 /\ entities = {}

Init == InitChain /\ InitSubgraph

Next ==
    \/ NextChain /\ UNCHANGED graphVars
    \/ IndexBlock

vars == <<chainVars, graphVars>>

Spec == Init /\ [][Next]_vars

\* graph-node keeps indexing as long as there are blocks to index.
FairSpec == Spec /\ WF_vars(IndexBlock)

-----------------------------------------------------------------------------
TypeOK ==
    /\ ChainTypeOK
    /\ indexed \in Nat
    /\ entities \subseteq Entity

\* A reverted transaction leaves no event at all: the require statements of
\* writeData undo every call of their transaction, also those that emitted.
RevertsLeaveNoEvent ==
    \A r \in receipts : ~r.ok => \A e \in log : e.hash # r.hash

\* An event is told apart from every other by its transaction hash and log
\* index: mapping.ts and contract.js both build their row identity on this.
EventsHaveOneIdentity ==
    \A e, f \in log : EntityId(e) = EntityId(f) => e = f

\* The subscribed events of the blocks indexed so far.
IndexedEvents ==
    {e \in log : e.block <= indexed /\ e \in Subscribed(e.block)}

\* The store holds one entity for every subscribed event of the blocks indexed
\* so far, with its contents, and no other: no save overwrites another's entity.
OneEntityPerEvent ==
    /\ Cardinality(entities) = Cardinality(IndexedEvents)
    /\ \A e \in IndexedEvents : \E n \in entities :
          <<n.transactionHash, n.blockNumber, n.key, n.value>> =
              <<e.hash, e.block, e.key, e.value>>

\* The store is a materialized view of the subscribed events.
View == INSTANCE MaterializedView WITH
    Item   <- Hashes \X (0..(MaxBatch * Cardinality(Hashes) - 1)),
    blocks <- [b \in 1..height[GraphChain] |-> {EntityId(e) : e \in Subscribed(b)}],
    view   <- {n.id : n \in entities}

\* The indexer implements the view.
IsMaterializedView == View!SafeSpec

\* With graph-node running, every subscribed event becomes an entity.
IndexerCatchesUp == View!CatchesUp
=============================================================================
