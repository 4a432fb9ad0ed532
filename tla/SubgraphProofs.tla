--------------------------- MODULE SubgraphProofs ----------------------------
(***************************************************************************)
(* What holds of the chains and of the subgraph, and what the three        *)
(* readers of the console show of them, for every set of chains,           *)
(* addresses, deployments, settings, strings and transaction hashes.       *)
(***************************************************************************)
EXTENDS Readers, FiniteSetTheorems, TLAPS

-----------------------------------------------------------------------------
(* The events of a block.                                                   *)

\* The calls of finitely many transactions are finitely many.
LEMMA EmittingIsFinite ==
    ASSUME NEW T \in SUBSET Transaction, IsFiniteSet(T)
    PROVE  IsFiniteSet(Emitting(T))
<1>1. Emitting(T) \subseteq T \X (1..MaxBatch)
    BY EventStoreAssumption DEF Emitting, Transaction, Batch
<1>2. IsFiniteSet(1..MaxBatch)
    BY FS_Interval, EventStoreAssumption
<1>3. IsFiniteSet(T \X (1..MaxBatch))
    BY <1>2, FS_Product
<1> QED
    BY <1>1, <1>3, FS_Subset

\* What MineBlock adds to the log.
Added(T, b, ix) == {DataWritten(e[1], e[2], b, ix[e]) : e \in Emitting(T)}

\* A call that emits is a call of a transaction that succeeds on an EventStore.
LEMMA EmittingCalls ==
    ASSUME NEW T \in SUBSET Transaction, NEW e \in Emitting(T)
    PROVE  /\ e[1] \in T /\ e[2] \in DOMAIN e[1].calls
           /\ e = <<e[1], e[2]>>
           /\ e[1].calls[e[2]] \in Call
           /\ Succeeds(e[1])
           /\ writeData(e[1].calls[e[2]])
<1>1. PICK t \in T : RunsContract(t) /\ Succeeds(t) /\ e \in {t} \X DOMAIN t.calls
    BY DEF Emitting
<1>2. e[1] = t /\ e[2] \in DOMAIN t.calls /\ e = <<e[1], e[2]>>
    BY <1>1
<1>3. t \in Transaction
    OBVIOUS
<1>4. t.calls \in Batch
    BY <1>3 DEF Transaction
<1>5. t.calls[e[2]] \in Call
    BY <1>2, <1>4 DEF Batch
<1> QED
    BY <1>1, <1>2, <1>5 DEF Succeeds

\* The indices of a block are natural numbers and tell its calls apart.
LEMMA LogIndicesNumber ==
    ASSUME NEW E, IsFiniteSet(E), NEW ix \in LogIndices(E)
    PROVE  /\ \A e \in E : ix[e] \in Nat
           /\ \A e, f \in E : ix[e] = ix[f] => e = f
<1>1. Cardinality(E) \in Nat
    BY FS_CardinalityType
<1>2. ix \in [E -> 0..(Cardinality(E) - 1)] /\ IsInjective(ix)
    BY DEF LogIndices, Bijection, Injection
<1> QED
    BY <1>1, <1>2 DEF IsInjective

\* The events of a block are well-formed and finitely many.
LEMMA AddedEvents ==
    ASSUME NEW T \in SUBSET Transaction, IsFiniteSet(T), NEW b \in Nat \ {0},
           NEW ix \in LogIndices(Emitting(T))
    PROVE  Added(T, b, ix) \subseteq Event /\ IsFiniteSet(Added(T, b, ix))
<1>1. IsFiniteSet(Emitting(T))
    BY EmittingIsFinite
<1>2. ASSUME NEW e \in Emitting(T)
      PROVE  DataWritten(e[1], e[2], b, ix[e]) \in Event
    <2>1. e[1] \in Transaction /\ e[1].calls[e[2]] \in Call /\ writeData(e[1].calls[e[2]])
        BY EmittingCalls
    <2>2. ix[e] \in Nat
        BY <1>1, LogIndicesNumber
    <2> QED
        BY <2>1, <2>2 DEF DataWritten, Event, Transaction, Call, writeData
<1>3. IsFiniteSet(Added(T, b, ix))
    <2> DEFINE f == [e \in Emitting(T) |-> DataWritten(e[1], e[2], b, ix[e])]
    <2>1. f \in Surjection(Emitting(T), Added(T, b, ix))
        BY DEF Surjection, Added
    <2> HIDE DEF f
    <2> QED
        BY <1>1, <2>1, FS_Surjection
<1> QED
    BY <1>2, <1>3 DEF Added

-----------------------------------------------------------------------------
(* Type correctness.                                                        *)

LEMMA MineBlockTyping ==
    ASSUME ChainTypeOK, NEW c \in Chains, MineBlock(c)
    PROVE  ChainTypeOK'
<1>1. PICK T \in SUBSET {t \in pool : t.chain = c} :
          /\ pool' = pool \ T
          /\ receipts' = receipts \cup
                {[hash |-> t.hash, chain |-> c, block |-> height[c] + 1,
                  ok |-> Succeeds(t)] : t \in T}
          /\ \E ix \in LogIndices(Emitting(T)) :
                log' = log \cup Added(T, height[c] + 1, ix)
    BY DEF MineBlock, Added
<1>2. PICK ix \in LogIndices(Emitting(T)) : log' = log \cup Added(T, height[c] + 1, ix)
    BY <1>1
<1>3. T \in SUBSET Transaction /\ T \subseteq pool /\ IsFiniteSet(T)
    BY FS_Subset DEF ChainTypeOK
<1>4. height' \in [Chains -> Nat] /\ height[c] + 1 \in Nat \ {0}
    BY DEF ChainTypeOK, MineBlock
<1>5. Added(T, height[c] + 1, ix) \subseteq Event /\ IsFiniteSet(Added(T, height[c] + 1, ix))
    BY <1>3, <1>4, AddedEvents
<1>6. receipts' \subseteq Receipt
    <2>1. \A t \in T : Succeeds(t) \in BOOLEAN /\ t.hash \in Hashes
        BY <1>3 DEF Transaction, Succeeds
    <2> QED
        BY <1>1, <1>4, <2>1 DEF ChainTypeOK, Receipt
<1>7. pool' \subseteq Transaction /\ IsFiniteSet(pool')
    BY <1>1, FS_Difference DEF ChainTypeOK
<1>8. log' \subseteq Event /\ IsFiniteSet(log')
    BY <1>2, <1>5, FS_Union DEF ChainTypeOK
<1> QED
    BY <1>4, <1>6, <1>7, <1>8 DEF ChainTypeOK

LEMMA BroadcastTyping ==
    ASSUME ChainTypeOK, NEW t \in Transaction, Broadcast(t)
    PROVE  ChainTypeOK'
<1>1. IsFiniteSet(pool')
    BY FS_AddElement DEF ChainTypeOK, Broadcast
<1> QED
    BY <1>1 DEF ChainTypeOK, Broadcast

LEMMA IndexBlockTyping ==
    ASSUME TypeOK, IndexBlock
    PROVE  TypeOK'
<1>1. \A e \in Event : handleDataWritten(e) \in Entity
    BY DEF Event, handleDataWritten, Entity, EntityId
<1>2. Subscribed(indexed + 1) \subseteq Event
    BY DEF Subscribed, TypeOK, ChainTypeOK
<1>3. entities' \subseteq Entity
    BY <1>1, <1>2 DEF IndexBlock, save, TypeOK
<1>4. ChainTypeOK'
    BY DEF IndexBlock, chainVars, TypeOK, ChainTypeOK
<1> QED
    BY <1>3, <1>4 DEF TypeOK, IndexBlock

\* Heights, pool, receipts, log, index and entities have their types in every
\* reachable state, and log and pool are finite.
THEOREM Typing == Spec => []TypeOK
<1>1. Init => TypeOK
    BY FS_EmptySet DEF Init, InitChain, InitSubgraph, TypeOK, ChainTypeOK
<1>2. TypeOK /\ [Next]_vars => TypeOK'
    <2> SUFFICES ASSUME TypeOK, [Next]_vars PROVE TypeOK'
        OBVIOUS
    <2>1. CASE NextChain /\ UNCHANGED graphVars
        <3>1. ChainTypeOK'
            BY <2>1, MineBlockTyping, BroadcastTyping DEF NextChain, TypeOK
        <3> QED
            BY <2>1, <3>1 DEF TypeOK, graphVars
    <2>2. CASE IndexBlock
        BY <2>2, IndexBlockTyping
    <2>3. CASE UNCHANGED vars
        BY <2>3 DEF vars, chainVars, graphVars, TypeOK, ChainTypeOK
    <2> QED
        BY <2>1, <2>2, <2>3 DEF Next
<1> QED
    BY <1>1, <1>2, PTL DEF Spec

-----------------------------------------------------------------------------
(* The identity of an event.  A hash leaves the pool for the receipts once,  *)
(* so the events that share it come from one block, where the log indices    *)
(* are distinct.                                                             *)

EachHashOnce ==
    /\ \A t, u \in pool : t.hash = u.hash => t = u
    /\ \A t \in pool, r \in receipts : t.hash # r.hash
    /\ \A r, s \in receipts : r.hash = s.hash => r = s

EventsHaveReceipts ==
    \A e \in log :
        /\ e.block <= height[e.chain]
        /\ \E r \in receipts :
              r.hash = e.hash /\ r.chain = e.chain /\ r.block = e.block /\ r.ok

ChainInv == EachHashOnce /\ EventsHaveReceipts /\ EventsHaveOneIdentity

LEMMA BroadcastKeepsChainInv ==
    ASSUME ChainTypeOK, ChainInv, NEW t \in Transaction, Broadcast(t)
    PROVE  ChainInv'
<1>1. EachHashOnce'
    BY DEF ChainInv, EachHashOnce, Broadcast, HashUnused
<1>2. EventsHaveReceipts' /\ EventsHaveOneIdentity'
    BY DEF ChainInv, EventsHaveReceipts, EventsHaveOneIdentity, EntityId, Broadcast
<1> QED
    BY <1>1, <1>2 DEF ChainInv

LEMMA MineBlockKeepsChainInv ==
    ASSUME ChainTypeOK, ChainInv, NEW c \in Chains, MineBlock(c)
    PROVE  /\ ChainInv'
           /\ log \subseteq log'
           /\ \A e \in log' \ log : e.chain = c /\ e.block = height[c] + 1
<1> DEFINE receipt(t) == [hash |-> t.hash, chain |-> c, block |-> height[c] + 1,
                          ok |-> Succeeds(t)]
<1>1. PICK T \in SUBSET {t \in pool : t.chain = c} :
          /\ pool' = pool \ T
          /\ receipts' = receipts \cup {receipt(t) : t \in T}
          /\ \E ix \in LogIndices(Emitting(T)) :
                log' = log \cup Added(T, height[c] + 1, ix)
    BY DEF MineBlock, Added
<1>2. PICK ix \in LogIndices(Emitting(T)) : log' = log \cup Added(T, height[c] + 1, ix)
    BY <1>1
<1>3. T \in SUBSET Transaction /\ T \subseteq pool /\ \A t \in T : t.chain = c
    BY DEF ChainTypeOK
<1>4. IsFiniteSet(Emitting(T))
    BY <1>3, EmittingIsFinite, FS_Subset DEF ChainTypeOK
<1>5. EachHashOnce'
    <2>1. \A t, u \in pool' : t.hash = u.hash => t = u
        BY <1>1 DEF ChainInv, EachHashOnce
    <2>2. \A t \in pool', r \in receipts' : t.hash # r.hash
        BY <1>1, <1>3 DEF ChainInv, EachHashOnce
    <2>3. \A r, s \in receipts' : r.hash = s.hash => r = s
        BY <1>1, <1>3 DEF ChainInv, EachHashOnce
    <2> QED
        BY <2>1, <2>2, <2>3 DEF EachHashOnce
<1>6. ASSUME NEW e \in Added(T, height[c] + 1, ix)
      PROVE  /\ e.chain = c /\ e.block = height[c] + 1
             /\ \E t \in T : e.hash = t.hash /\ Succeeds(t)
    BY <1>3, EmittingCalls DEF Added, DataWritten
<1>7. EventsHaveReceipts'
    <2> SUFFICES ASSUME NEW e \in log'
                 PROVE  /\ e.block <= height'[e.chain]
                        /\ \E r \in receipts' : /\ r.hash = e.hash /\ r.chain = e.chain
                                                /\ r.block = e.block /\ r.ok
        BY DEF EventsHaveReceipts
    <2>1. CASE e \in log
        <3>1. e.chain \in Chains /\ e.block \in Nat /\ e.block <= height[e.chain]
            BY <2>1 DEF ChainInv, EventsHaveReceipts, ChainTypeOK, Event
        <3>2. height[e.chain] \in Nat /\ height'[e.chain] \in {height[e.chain], height[e.chain] + 1}
            BY <3>1 DEF MineBlock, ChainTypeOK
        <3>3. e.block <= height'[e.chain]
            BY <3>1, <3>2
        <3> QED
            BY <2>1, <3>3, <1>1 DEF ChainInv, EventsHaveReceipts
    <2>2. CASE e \in Added(T, height[c] + 1, ix)
        <3>1. height'[c] = height[c] + 1 /\ height[c] \in Nat
            BY DEF MineBlock, ChainTypeOK
        <3>2. PICK t \in T : e.hash = t.hash /\ Succeeds(t)
            BY <2>2, <1>6
        <3>3. receipt(t) \in receipts'
            BY <1>1
        <3> QED
            BY <2>2, <1>6, <3>1, <3>2, <3>3
    <2> QED
        BY <1>2, <2>1, <2>2
<1>8. EventsHaveOneIdentity'
    <2> SUFFICES ASSUME NEW e \in log', NEW f \in log',
                        e.hash = f.hash, e.index = f.index
                 PROVE  e = f
        BY DEF EventsHaveOneIdentity, EntityId
    <2>1. CASE e \in log /\ f \in log
        BY <2>1 DEF ChainInv, EventsHaveOneIdentity, EntityId
    <2>2. ASSUME NEW x \in log, NEW y \in Added(T, height[c] + 1, ix) PROVE x.hash # y.hash
        BY <1>3, <1>6 DEF ChainInv, EachHashOnce, EventsHaveReceipts
    <2>3. CASE e \in Added(T, height[c] + 1, ix) /\ f \in Added(T, height[c] + 1, ix)
        <3>1. PICK d \in Emitting(T) : e = DataWritten(d[1], d[2], height[c] + 1, ix[d])
            BY <2>3 DEF Added
        <3>2. PICK g \in Emitting(T) : f = DataWritten(g[1], g[2], height[c] + 1, ix[g])
            BY <2>3 DEF Added
        <3>3. ix[d] = ix[g]
            BY <3>1, <3>2 DEF DataWritten
        <3>4. d = g
            BY <1>4, <3>3, LogIndicesNumber
        <3> QED
            BY <3>1, <3>2, <3>4
    <2> QED
        BY <1>2, <2>1, <2>2, <2>3
<1> QED
    BY <1>2, <1>5, <1>6, <1>7, <1>8 DEF ChainInv

-----------------------------------------------------------------------------
(* The entity store.                                                        *)

StoreIsTheImage == entities = {handleDataWritten(e) : e \in IndexedEvents}

StoreInv == indexed <= height[GraphChain] /\ StoreIsTheImage

\* Saving the entities of a block replaces none of the older ones.
LEMMA IndexBlockOnlyAdds ==
    ASSUME TypeOK, ChainInv, StoreInv, IndexBlock
    PROVE  entities' = entities \cup {handleDataWritten(e) : e \in Subscribed(indexed + 1)}
<1> DEFINE saved == {handleDataWritten(e) : e \in Subscribed(indexed + 1)}
<1>1. indexed \in Nat
    BY DEF TypeOK
<1>2. ASSUME NEW old \in entities, NEW new \in saved
      PROVE  new.id # old.id
    <2>1. PICK e \in IndexedEvents : old = handleDataWritten(e)
        BY DEF StoreInv, StoreIsTheImage
    <2>2. PICK f \in Subscribed(indexed + 1) : new = handleDataWritten(f)
        OBVIOUS
    <2>3. /\ e \in log /\ e.block <= indexed
          /\ f \in log /\ f.block = indexed + 1
        BY DEF IndexedEvents, Subscribed
    <2>4. e # f
        BY <1>1, <2>3
    <2>5. EntityId(e) # EntityId(f)
        BY <2>3, <2>4 DEF ChainInv, EventsHaveOneIdentity
    <2> QED
        BY <2>1, <2>2, <2>5 DEF handleDataWritten
<1>3. ASSUME NEW e \in Subscribed(indexed + 1), NEW f \in Subscribed(indexed + 1),
             handleDataWritten(f).id = handleDataWritten(e).id
      PROVE  f.index <= e.index
    <2>1. e \in log /\ f \in log /\ EntityId(e) = EntityId(f)
        BY <1>3 DEF Subscribed, handleDataWritten
    <2>2. e = f /\ e.index \in Nat
        BY <2>1 DEF ChainInv, EventsHaveOneIdentity, TypeOK, ChainTypeOK, Event
    <2> QED
        BY <2>2
<1> DEFINE last == {e \in Subscribed(indexed + 1) : \A f \in Subscribed(indexed + 1) :
                       handleDataWritten(f).id = handleDataWritten(e).id => f.index <= e.index}
<1>4. last = Subscribed(indexed + 1)
    BY <1>3
<1>5. entities' = {old \in entities : \A new \in {handleDataWritten(e) : e \in last} :
                      new.id # old.id} \cup {handleDataWritten(e) : e \in last}
    BY DEF IndexBlock, save
<1> HIDE DEF last
<1> QED
    BY <1>2, <1>4, <1>5

LEMMA IndexBlockKeepsStoreInv ==
    ASSUME TypeOK, ChainInv, StoreInv, IndexBlock
    PROVE  StoreInv'
<1>1. log' = log /\ height' = height /\ indexed' = indexed + 1
    BY DEF IndexBlock, chainVars
<1>2. height[GraphChain] \in Nat /\ indexed \in Nat
    BY SubgraphAssumption DEF TypeOK, ChainTypeOK
<1>3. indexed' <= height'[GraphChain]
    BY <1>1, <1>2 DEF IndexBlock
<1>4. IndexedEvents' = IndexedEvents \cup Subscribed(indexed + 1)
    <2>1. \A e \in log : e.block \in Nat
        BY DEF TypeOK, ChainTypeOK, Event
    <2>2. \A e \in log : e.block <= indexed + 1 <=> e.block <= indexed \/ e.block = indexed + 1
        BY <1>2, <2>1
    <2> QED
        BY <1>1, <2>2 DEF IndexedEvents, Subscribed
<1>5. StoreIsTheImage'
    BY <1>4, IndexBlockOnlyAdds DEF StoreInv, StoreIsTheImage, handleDataWritten, EntityId
<1> QED
    BY <1>3, <1>5 DEF StoreInv

LEMMA ChainStepKeepsStoreInv ==
    ASSUME TypeOK, StoreInv, UNCHANGED graphVars, log \subseteq log',
           \A d \in Chains : height'[d] \in Nat /\ height[d] <= height'[d],
           \A e \in log' \ log : e.block \in Nat /\ e.block > height[e.chain]
    PROVE  StoreInv'
<1>1. height[GraphChain] \in Nat /\ indexed \in Nat
    BY SubgraphAssumption DEF TypeOK, ChainTypeOK
<1>2. indexed' <= height'[GraphChain]
    BY <1>1, SubgraphAssumption DEF StoreInv, graphVars
<1>3. ASSUME NEW e \in log' \ log, e.chain = GraphChain
      PROVE  ~(e.block <= indexed)
    BY <1>1, <1>3 DEF StoreInv
<1>4. IndexedEvents' = IndexedEvents
    BY <1>3 DEF IndexedEvents, Subscribed, graphVars
<1>5. StoreIsTheImage'
    BY <1>4 DEF StoreInv, StoreIsTheImage, handleDataWritten, EntityId, graphVars
<1> QED
    BY <1>2, <1>5 DEF StoreInv

-----------------------------------------------------------------------------
(* The invariant of the two together.                                       *)

SubgraphInv == TypeOK /\ ChainInv /\ StoreInv

LEMMA InitEstablishesInv == Init => SubgraphInv
<1> SUFFICES ASSUME Init PROVE SubgraphInv
    OBVIOUS
<1>1. TypeOK
    BY FS_EmptySet DEF Init, InitChain, InitSubgraph, TypeOK, ChainTypeOK
<1>2. ChainInv
    BY DEF Init, InitChain, ChainInv, EachHashOnce, EventsHaveReceipts,
           EventsHaveOneIdentity
<1>3. StoreInv
    BY SubgraphAssumption
    DEF Init, InitChain, InitSubgraph, StoreInv, StoreIsTheImage, IndexedEvents
<1> QED
    BY <1>1, <1>2, <1>3 DEF SubgraphInv

LEMMA StepKeepsInv == SubgraphInv /\ [Next]_vars => SubgraphInv'
<1> SUFFICES ASSUME SubgraphInv, [Next]_vars PROVE SubgraphInv'
    OBVIOUS
<1> USE DEF SubgraphInv
<1>1. ASSUME NEW t \in Transaction, Broadcast(t), UNCHANGED graphVars
      PROVE  SubgraphInv'
    <2>1. TypeOK'
        BY <1>1, BroadcastTyping DEF TypeOK, graphVars
    <2>2. log' = log /\ height' = height
        BY <1>1 DEF Broadcast
    <2>3. StoreInv'
        BY <1>1, <2>2, ChainStepKeepsStoreInv DEF TypeOK, ChainTypeOK
    <2> QED
        BY <1>1, <2>1, <2>3, BroadcastKeepsChainInv DEF TypeOK
<1>2. ASSUME NEW c \in Chains, MineBlock(c), UNCHANGED graphVars
      PROVE  SubgraphInv'
    <2>1. TypeOK'
        BY <1>2, MineBlockTyping DEF TypeOK, graphVars
    <2>2. /\ ChainInv' /\ log \subseteq log'
          /\ \A e \in log' \ log : e.chain = c /\ e.block = height[c] + 1
        BY <1>2, MineBlockKeepsChainInv DEF TypeOK
    <2>3. \A d \in Chains : height'[d] \in Nat /\ height[d] <= height'[d]
        BY <1>2 DEF MineBlock, TypeOK, ChainTypeOK
    <2>4. height[c] \in Nat
        BY DEF TypeOK, ChainTypeOK
    <2>5. \A e \in log' \ log : e.block \in Nat /\ e.block > height[e.chain]
        BY <2>2, <2>4
    <2> QED
        BY <1>2, <2>1, <2>2, <2>3, <2>5, ChainStepKeepsStoreInv
<1>3. CASE IndexBlock
    <2>1. ChainInv'
        BY <1>3 DEF IndexBlock, chainVars, ChainInv, EachHashOnce, EventsHaveReceipts,
                    EventsHaveOneIdentity, EntityId
    <2> QED
        BY <1>3, <2>1, IndexBlockTyping, IndexBlockKeepsStoreInv
<1>4. CASE UNCHANGED vars
    BY <1>4 DEF vars, chainVars, graphVars, TypeOK, ChainTypeOK, ChainInv, EachHashOnce,
                EventsHaveReceipts, EventsHaveOneIdentity, EntityId, StoreInv,
                StoreIsTheImage, IndexedEvents, Subscribed, handleDataWritten
<1> QED
    BY <1>1, <1>2, <1>3, <1>4 DEF Next, NextChain

\* The inductive invariant of the chains with their subgraph.
THEOREM SubgraphInvariant == Spec => []SubgraphInv
<1> QED
    BY InitEstablishesInv, StepKeepsInv, PTL DEF Spec

\* Transaction hash and log index identify an event, so the identities that
\* mapping.ts and contract.js build from them never collide.
THEOREM EventIdentity == Spec => []EventsHaveOneIdentity
<1>1. SubgraphInv => EventsHaveOneIdentity
    BY DEF SubgraphInv, ChainInv
<1> QED
    BY <1>1, SubgraphInvariant, PTL

\* A transaction in which a require of writeData failed leaves no event.
THEOREM RevertedTransactions == Spec => []RevertsLeaveNoEvent
<1>1. SubgraphInv => RevertsLeaveNoEvent
    BY DEF SubgraphInv, ChainInv, EachHashOnce, EventsHaveReceipts, RevertsLeaveNoEvent
<1> QED
    BY <1>1, SubgraphInvariant, PTL

\* The entities are in bijection with the events they were made from.
LEMMA StoreCounts == SubgraphInv => OneEntityPerEvent
<1> SUFFICES ASSUME SubgraphInv PROVE OneEntityPerEvent
    OBVIOUS
<1>1. IsFiniteSet(IndexedEvents)
    BY FS_Subset DEF SubgraphInv, TypeOK, ChainTypeOK, IndexedEvents
<1> DEFINE f == [e \in IndexedEvents |-> handleDataWritten(e)]
<1>2. f \in Surjection(IndexedEvents, entities)
    BY DEF Surjection, SubgraphInv, StoreInv, StoreIsTheImage
<1>3. f \in Injection(IndexedEvents, entities)
    <2>1. \A d, e \in IndexedEvents : f[d] = f[e] => EntityId(d) = EntityId(e)
        BY DEF handleDataWritten
    <2>2. \A d, e \in IndexedEvents : f[d] = f[e] => d = e
        BY <2>1 DEF SubgraphInv, ChainInv, EventsHaveOneIdentity, IndexedEvents
    <2>3. f \in [IndexedEvents -> entities]
        BY <1>2 DEF Surjection
    <2> HIDE DEF f
    <2> QED
        BY <2>2, <2>3 DEF Injection, IsInjective
<1>4. \A e \in IndexedEvents : \E n \in entities :
         <<n.transactionHash, n.blockNumber, n.key, n.value>> =
             <<e.hash, e.block, e.key, e.value>>
    <2> TAKE e \in IndexedEvents
    <2>1. handleDataWritten(e) \in entities
        BY DEF SubgraphInv, StoreInv, StoreIsTheImage
    <2> WITNESS handleDataWritten(e) \in entities
    <2> QED
        BY DEF handleDataWritten
<1> HIDE DEF f
<1>5. Cardinality(entities) = Cardinality(IndexedEvents)
    BY <1>1, <1>2, <1>3, FS_Surjection
<1> QED
    BY <1>4, <1>5 DEF OneEntityPerEvent

\* The entity store holds one entity per event of the indexed part of the log.
THEOREM EntityStore == Spec => []OneEntityPerEvent
<1> QED
    BY StoreCounts, SubgraphInvariant, PTL

-----------------------------------------------------------------------------
(* The subgraph implements MaterializedView: every step of the chains and   *)
(* of the indexer is a step of the view, or none.                           *)

(* The items of the view are finitely many: a block has no more log indices *)
(* than its transactions can make calls.                                    *)

\* The number of identities a hash can be part of, over all hashes.
Bound == MaxBatch * Cardinality(Hashes)

IndicesFit == \A e \in log : e.index < Bound

\* The calls of transactions with different hashes are counted by the hashes.
LEMMA EmittingFits ==
    ASSUME NEW T \in SUBSET Transaction, \A t, u \in T : t.hash = u.hash => t = u
    PROVE  /\ IsFiniteSet(Emitting(T)) /\ Cardinality(Emitting(T)) \in Nat
           /\ Cardinality(Emitting(T)) <= Bound /\ Bound \in Nat
<1> DEFINE H == Hashes \X (1..MaxBatch)
           f == [e \in Emitting(T) |-> <<e[1].hash, e[2]>>]
<1>1. IsFiniteSet(Hashes) /\ Cardinality(Hashes) \in Nat /\ MaxBatch \in Nat \ {0}
    BY EventStoreAssumption, FS_CardinalityType
<1>2. IsFiniteSet(1..MaxBatch) /\ Cardinality(1..MaxBatch) = MaxBatch
    BY <1>1, FS_Interval
<1>3. IsFiniteSet(H) /\ Cardinality(H) = Cardinality(Hashes) * MaxBatch
    BY <1>1, <1>2, FS_Product
<1>4. ASSUME NEW e \in Emitting(T)
      PROVE  e[1] \in T /\ e[1].hash \in Hashes /\ e[2] \in 1..MaxBatch /\ e = <<e[1], e[2]>>
    <2>1. e[1] \in T /\ e[2] \in DOMAIN e[1].calls /\ e = <<e[1], e[2]>>
        BY EmittingCalls
    <2>2. e[1].calls \in Batch /\ e[1].hash \in Hashes
        BY <2>1 DEF Transaction
    <2>3. DOMAIN e[1].calls \subseteq 1..MaxBatch
        BY <1>1, <2>2 DEF Batch
    <2> QED
        BY <2>1, <2>2, <2>3
<1>5. f \in [Emitting(T) -> H]
    BY <1>4
<1>6. \A d, e \in Emitting(T) : f[d] = f[e] => d = e
    <2> SUFFICES ASSUME NEW d \in Emitting(T), NEW e \in Emitting(T), f[d] = f[e]
                 PROVE  d = e
        OBVIOUS
    <2>1. d[1].hash = e[1].hash /\ d[2] = e[2]
        OBVIOUS
    <2>2. d[1] = e[1]
        BY <1>4, <2>1
    <2> QED
        BY <1>4, <2>1, <2>2
<1> HIDE DEF f, H
<1>7. f \in Injection(Emitting(T), H)
    BY <1>5, <1>6 DEF Injection, IsInjective
<1>8. IsFiniteSet(Emitting(T)) /\ Cardinality(Emitting(T)) <= Cardinality(H)
    BY <1>3, <1>7, FS_Injection
<1>9. Cardinality(Emitting(T)) \in Nat
    BY <1>8, FS_CardinalityType
<1>10. Bound \in Nat /\ Bound = Cardinality(Hashes) * MaxBatch
    BY <1>1 DEF Bound
<1> QED
    BY <1>3, <1>8, <1>9, <1>10

LEMMA StepKeepsIndices ==
    ASSUME SubgraphInv, IndicesFit, [Next]_vars
    PROVE  IndicesFit'
<1>1. ASSUME NEW c \in Chains, MineBlock(c)
      PROVE  IndicesFit'
    <2>1. PICK T \in SUBSET {t \in pool : t.chain = c} :
              \E ix \in LogIndices(Emitting(T)) :
                  log' = log \cup Added(T, height[c] + 1, ix)
        BY <1>1 DEF MineBlock, Added
    <2>2. PICK ix \in LogIndices(Emitting(T)) : log' = log \cup Added(T, height[c] + 1, ix)
        BY <2>1
    <2>3. T \in SUBSET Transaction /\ \A t, u \in T : t.hash = u.hash => t = u
        BY DEF SubgraphInv, TypeOK, ChainTypeOK, ChainInv, EachHashOnce
    <2>4. /\ IsFiniteSet(Emitting(T)) /\ Cardinality(Emitting(T)) \in Nat
          /\ Cardinality(Emitting(T)) <= Bound /\ Bound \in Nat
        BY <2>3, EmittingFits
    <2>5. ix \in [Emitting(T) -> 0..(Cardinality(Emitting(T)) - 1)]
        BY DEF LogIndices, Bijection, Injection
    <2>6. \A e \in Emitting(T) : ix[e] < Bound
        BY <2>4, <2>5
    <2>7. \A e \in Added(T, height[c] + 1, ix) : e.index < Bound
        BY <2>6 DEF Added, DataWritten
    <2> QED
        BY <2>2, <2>7 DEF IndicesFit
<1>2. ASSUME NEW t \in Transaction, Broadcast(t)
      PROVE  IndicesFit'
    BY <1>2 DEF Broadcast, IndicesFit
<1>3. CASE IndexBlock \/ UNCHANGED vars
    BY <1>3 DEF IndexBlock, vars, chainVars, IndicesFit
<1> QED
    BY <1>1, <1>2, <1>3 DEF Next, NextChain

-----------------------------------------------------------------------------
(* The refinement mapping.                                                  *)

\* What View is given as the blocks of the source and as the view.
IdsOf(b) == {EntityId(e) : e \in Subscribed(b)}
Source   == [b \in 1..height[GraphChain] |-> IdsOf(b)]
Stored   == {n.id : n \in entities}

LEMMA SourceIsASequence ==
    ASSUME SubgraphInv
    PROVE  /\ height[GraphChain] \in Nat
           /\ Len(Source) = height[GraphChain]
           /\ \A n \in 0..height[GraphChain] : UNION {Source[i] : i \in 1..n} =
                  UNION {IdsOf(i) : i \in 1..n}
<1>1. height[GraphChain] \in Nat
    BY SubgraphAssumption DEF SubgraphInv, TypeOK, ChainTypeOK
<1>2. Len(Source) = height[GraphChain]
    BY <1>1 DEF Source
<1>3. ASSUME NEW n \in 0..height[GraphChain]
      PROVE  UNION {Source[i] : i \in 1..n} = UNION {IdsOf(i) : i \in 1..n}
    <2>1. \A i \in 1..n : Source[i] = IdsOf(i)
        BY <1>1 DEF Source
    <2> QED
        BY <2>1
<1> QED
    BY <1>1, <1>2, <1>3

\* The store holds the identities of the blocks indexed so far.
StoredUpTo == Stored = UNION {IdsOf(i) : i \in 1..indexed}

LEMMA StoredIsAPrefix == SubgraphInv => StoredUpTo
<1> SUFFICES ASSUME SubgraphInv PROVE StoredUpTo
    OBVIOUS
<1>1. indexed \in Nat /\ \A e \in log : e.block \in Nat \ {0}
    BY DEF SubgraphInv, TypeOK, ChainTypeOK, Event
<1>2. Stored = {EntityId(e) : e \in IndexedEvents}
    <2>1. entities = {handleDataWritten(e) : e \in IndexedEvents}
        BY DEF SubgraphInv, StoreInv, StoreIsTheImage
    <2>2. \A e \in IndexedEvents : handleDataWritten(e).id = EntityId(e)
        BY DEF handleDataWritten
    <2>3. \A x : x \in Stored <=> \E e \in IndexedEvents : x = handleDataWritten(e).id
        BY <2>1 DEF Stored
    <2> QED
        BY <2>2, <2>3
<1>3. \A e : e \in IndexedEvents <=> \E i \in 1..indexed : e \in Subscribed(i)
    BY <1>1 DEF IndexedEvents, Subscribed
<1> QED
    BY <1>2, <1>3 DEF IdsOf, StoredUpTo

\* The blocks mined so far keep their identities; a new block n brings new ones.
LEMMA SourceGrows ==
    ASSUME SubgraphInv, SubgraphInv', IndicesFit', NEW c \in Chains, MineBlock(c),
           NEW n, n = height[GraphChain] + 1
    PROVE  /\ \A b \in 1..height[GraphChain] : IdsOf(b)' = IdsOf(b)
           /\ c # GraphChain => height'[GraphChain] = height[GraphChain]
           /\ c = GraphChain =>
                 /\ height'[GraphChain] = n
                 /\ IdsOf(n)' \subseteq
                        (Hashes \X (0..(Bound - 1)))
                            \ UNION {IdsOf(i) : i \in 1..height[GraphChain]}
<1>1. /\ log \subseteq log'
      /\ \A e \in log' \ log : e.chain = c /\ e.block = height[c] + 1
    BY MineBlockKeepsChainInv DEF SubgraphInv, TypeOK
<1>2. /\ height \in [Chains -> Nat] /\ height[GraphChain] \in Nat
      /\ height' = [height EXCEPT ![c] = @ + 1]
    BY SubgraphAssumption DEF SubgraphInv, TypeOK, ChainTypeOK, MineBlock
<1>3. ASSUME NEW b \in 1..height[GraphChain]
      PROVE  IdsOf(b)' = IdsOf(b)
    <2>1. \A e \in log' \ log : ~(e.chain = GraphChain /\ e.block = b)
        BY <1>1, <1>2
    <2> QED
        BY <1>1, <2>1 DEF IdsOf, Subscribed, EntityId
<1>4. c # GraphChain => height'[GraphChain] = height[GraphChain]
    BY <1>2, SubgraphAssumption
<1>5. ASSUME c = GraphChain
      PROVE  /\ height'[GraphChain] = n
             /\ IdsOf(n)' \subseteq
                    (Hashes \X (0..(Bound - 1)))
                        \ UNION {IdsOf(i) : i \in 1..height[GraphChain]}
    <2>1. height'[GraphChain] = n
        BY <1>2, <1>5
    <2>2. IdsOf(n)' \subseteq Hashes \X (0..(Bound - 1))
        <3>1. Bound \in Nat
            BY EventStoreAssumption, FS_CardinalityType DEF Bound
        <3>2. \A e \in log' : e.hash \in Hashes /\ e.index \in Nat /\ e.index < Bound
            BY DEF SubgraphInv, TypeOK, ChainTypeOK, Event, IndicesFit, Bound
        <3>3. \A e \in log' : e.index \in 0..(Bound - 1)
            BY <3>1, <3>2
        <3> QED
            BY <3>2, <3>3 DEF IdsOf, Subscribed, EntityId
    <2>3. ASSUME NEW i \in 1..height[GraphChain], NEW e \in Subscribed(i),
                 NEW f \in Subscribed(n)'
          PROVE  EntityId(e) # EntityId(f)
        <3>1. e \in log' /\ f \in log' /\ e.block = i /\ f.block = n
            BY <1>1 DEF Subscribed
        <3>2. e # f
            BY <1>2, <3>1
        <3> QED
            BY <3>1, <3>2 DEF SubgraphInv, ChainInv, EventsHaveOneIdentity, EntityId
    <2>4. \A x \in IdsOf(n)' : \A i \in 1..height[GraphChain] : x \notin IdsOf(i)
        BY <2>3 DEF IdsOf, EntityId
    <2> QED
        BY <2>1, <2>2, <2>4
<1> QED
    BY <1>3, <1>4, <1>5

-----------------------------------------------------------------------------
(* The steps.                                                               *)

LEMMA InitIsAView == Init => View!Init
<1> SUFFICES ASSUME Init PROVE View!Init
    OBVIOUS
<1>1. height[GraphChain] = 0 /\ entities = {}
    BY SubgraphAssumption DEF Init, InitChain, InitSubgraph
<1>2. 1..height[GraphChain] = {}
    BY <1>1
<1>3. Source = << >>
    BY <1>2 DEF Source
<1> QED
    BY <1>1, <1>3 DEF View!Init, Source, IdsOf

\* A block of the chain that is indexed extends the source.
LEMMA MineBlockExtends ==
    ASSUME SubgraphInv, SubgraphInv', IndicesFit', MineBlock(GraphChain),
           UNCHANGED graphVars
    PROVE  View!Extend
<1> DEFINE h == height[GraphChain]
<1>1. PICK n : n = h + 1
    OBVIOUS
<1>2. /\ \A b \in 1..h : IdsOf(b)' = IdsOf(b)
      /\ h' = n
      /\ IdsOf(n)' \subseteq
             (Hashes \X (0..(Bound - 1))) \ UNION {IdsOf(i) : i \in 1..h}
    BY <1>1, SubgraphAssumption, SourceGrows
<1>3. h \in Nat /\ Len(Source) = h /\
      UNION {Source[i] : i \in 1..h} = UNION {IdsOf(i) : i \in 1..h}
    BY SourceIsASequence
<1>4. Source' = Append(Source, IdsOf(n)')
    <2>1. Source' = [b \in 1..n |-> IdsOf(b)']
        BY <1>2 DEF Source
    <2>2. Source = [b \in 1..h |-> IdsOf(b)']
        BY <1>2 DEF Source
    <2> QED
        BY <1>1, <1>3, <2>1, <2>2
<1>5. IdsOf(n)' \in SUBSET ((Hashes \X (0..(Bound - 1))) \ View!UpTo(Len(Source)))
    BY <1>2, <1>3 DEF View!UpTo, Source, IdsOf
<1>6. Stored' = Stored
    BY DEF Stored, graphVars
<1> QED
    BY <1>4, <1>5, <1>6 DEF View!Extend, View!UpTo, Source, Stored, IdsOf, Bound

\* Indexing a block applies it.
LEMMA IndexBlockApplies ==
    ASSUME SubgraphInv, SubgraphInv', IndexBlock
    PROVE  View!Apply
<1> DEFINE h == height[GraphChain]
<1>1. PICK n : n = indexed + 1
    OBVIOUS
<1>2. /\ h \in Nat /\ indexed \in Nat /\ indexed' = n /\ n \in 1..h /\ indexed = n - 1
      /\ UNCHANGED <<log, height>>
    BY <1>1, SourceIsASequence DEF IndexBlock, chainVars, SubgraphInv, TypeOK
<1>3. Source' = Source /\ \A i : IdsOf(i)' = IdsOf(i)
    BY <1>2 DEF Source, IdsOf, Subscribed, EntityId
<1>4. Stored = UNION {IdsOf(i) : i \in 1..(n - 1)}
    BY <1>2, StoredIsAPrefix DEF StoredUpTo
<1>5. Stored' = UNION {IdsOf(i) : i \in 1..n}
    <2>1. StoredUpTo'
        BY StoredIsAPrefix, PTL
    <2> QED
        BY <1>2, <1>3, <2>1 DEF StoredUpTo
<1>6. /\ UNION {Source[i] : i \in 1..(n - 1)} = UNION {IdsOf(i) : i \in 1..(n - 1)}
      /\ UNION {Source[i] : i \in 1..n} = UNION {IdsOf(i) : i \in 1..n}
      /\ Len(Source) = h
    <2>1. n \in 0..h /\ n - 1 \in 0..h
        BY <1>2
    <2> QED
        BY <2>1, SourceIsASequence
<1>7. n \in 1..Len(Source) /\ Stored = UNION {Source[i] : i \in 1..(n - 1)}
      /\ Stored' = UNION {Source[i] : i \in 1..n} /\ Source' = Source
    BY <1>2, <1>3, <1>4, <1>5, <1>6
<1> QED
    BY <1>7 DEF View!Apply, View!UpTo, Source, Stored, IdsOf

\* A step that leaves the events of the indexed chain and the store alone.
LEMMA OthersStutter ==
    ASSUME Source' = Source, entities' = entities
    PROVE  UNCHANGED View!viewVars
BY DEF View!viewVars, Source, IdsOf

LEMMA StepIsAViewStep ==
    ASSUME SubgraphInv, SubgraphInv', IndicesFit', [Next]_vars
    PROVE  [View!Next]_(View!viewVars)
<1>1. ASSUME NEW c \in Chains, MineBlock(c), UNCHANGED graphVars
      PROVE  [View!Next]_(View!viewVars)
    <2>1. CASE c = GraphChain
        BY <1>1, <2>1, MineBlockExtends DEF View!Next
    <2>2. CASE c # GraphChain
        <3>1. PICK n : n = height[GraphChain] + 1
            OBVIOUS
        <3>2. /\ \A b \in 1..height[GraphChain] : IdsOf(b)' = IdsOf(b)
              /\ height'[GraphChain] = height[GraphChain]
            BY <1>1, <2>2, <3>1, SourceGrows
        <3>3. Source' = Source
            BY <3>2 DEF Source
        <3> QED
            BY <1>1, <3>3, OthersStutter DEF graphVars
    <2> QED
        BY <2>1, <2>2
<1>2. ASSUME NEW t \in Transaction, Broadcast(t), UNCHANGED graphVars
      PROVE  [View!Next]_(View!viewVars)
    <2>1. Source' = Source
        BY <1>2 DEF Broadcast, Source, IdsOf, Subscribed, EntityId
    <2> QED
        BY <1>2, <2>1, OthersStutter DEF graphVars
<1>3. CASE IndexBlock
    BY <1>3, IndexBlockApplies DEF View!Next
<1>4. CASE UNCHANGED vars
    <2>1. Source' = Source /\ entities' = entities
        BY <1>4 DEF vars, chainVars, graphVars, Source, IdsOf, Subscribed, EntityId
    <2> QED
        BY <2>1, OthersStutter
<1> QED
    BY <1>1, <1>2, <1>3, <1>4 DEF Next, NextChain

-----------------------------------------------------------------------------
(* The theorem.                                                             *)

\* The entity store is at every moment the events of some prefix of the blocks of
\* the chain it indexes: it starts empty, and every step mines a block, applies the
\* next one whole, or leaves blocks and store alone.
THEOREM TheStoreIsAView == Spec => IsMaterializedView
<1>1. Init => IndicesFit
    BY DEF Init, InitChain, IndicesFit
<1>2. SubgraphInv /\ IndicesFit /\ [Next]_vars => IndicesFit'
    BY StepKeepsIndices
<1>3. SubgraphInv /\ SubgraphInv' /\ IndicesFit' /\ [Next]_vars =>
          [View!Next]_(View!viewVars)
    BY StepIsAViewStep
<1>4. Spec => []IndicesFit
    BY <1>1, <1>2, SubgraphInvariant, PTL DEF Spec
<1>5. Spec => View!Init
    BY InitIsAView DEF Spec
<1> QED
    BY <1>3, <1>4, <1>5, SubgraphInvariant, PTL DEF Spec, IsMaterializedView, View!SafeSpec

-----------------------------------------------------------------------------
(* The tables.                                                              *)

\* A sort of finitely many events lists each of them once.
LEMMA SortsListAll ==
    ASSUME NEW E, IsFiniteSet(E), NEW s \in Injection(1..Cardinality(E), E)
    PROVE  /\ Cardinality(E) \in Nat /\ s \in [1..Cardinality(E) -> E]
           /\ \A i, j \in 1..Cardinality(E) : s[i] = s[j] => i = j
           /\ \A e \in E : \E i \in 1..Cardinality(E) : s[i] = e
<1>1. Cardinality(E) \in Nat
    BY FS_CardinalityType
<1>2. IsFiniteSet(1..Cardinality(E)) /\ Cardinality(1..Cardinality(E)) = Cardinality(E)
    BY <1>1, FS_Interval
<1>3. s \in Surjection(1..Cardinality(E), E)
    BY <1>2, FS_Injection
<1> QED
    BY <1>1, <1>3 DEF Surjection, Injection, IsInjective

LEMMA LogsAreFinite ==
    ASSUME SubgraphInv, NEW cf, NEW h
    PROVE  IsFiniteSet(GetLogs(cf, h)) /\ GetLogs(cf, h) \subseteq log
BY FS_Subset DEF SubgraphInv, TypeOK, ChainTypeOK, GetLogs

\* What is asked for and logged is in the table.
LEMMA NodeTablesListAll ==
    ASSUME SubgraphInv, NEW cf \in Configs, NEW h, h = height[cf.rpcUrl],
           NEW table \in readViaRpc(cf, h), NEW e \in log,
           e.chain = cf.rpcUrl, e.to = cf.address, e.block >= cf.fromBlock
    PROVE  \E i \in DOMAIN table : table[i].id = EntityId(e)
<1> DEFINE E == GetLogs(cf, h)
           n == Cardinality(E)
<1>1. PICK s \in sortByBlockDesc(E) : table = Table(s)
    BY DEF readViaRpc
<1>2. e \in E
    <2>1. e.block \in Nat /\ e.block <= height[e.chain] /\ cf.fromBlock \in Nat
        BY ReadersAssumption
        DEF SubgraphInv, TypeOK, ChainTypeOK, Event, ChainInv, EventsHaveReceipts
    <2>2. h \in Nat
        BY ReadersAssumption DEF SubgraphInv, TypeOK, ChainTypeOK
    <2> QED
        BY <2>1, <2>2 DEF GetLogs
<1>3. /\ s \in [1..n -> E]
      /\ \E i \in 1..n : s[i] = e
    <2>1. s \in Injection(1..n, E) /\ IsFiniteSet(E)
        BY LogsAreFinite DEF sortByBlockDesc
    <2> HIDE DEF E
    <2> QED
        BY <1>2, <2>1, SortsListAll
<1> HIDE DEF n, E
<1>4. PICK i \in 1..n : s[i] = e
    BY <1>3
<1> QED
    BY <1>1, <1>3, <1>4 DEF Table, normalize, EntityId

LEMMA KeysAreDistinct == SubgraphInv => NodeRowsHaveOwnKey
<1> SUFFICES ASSUME SubgraphInv, NEW cf \in Configs,
                    NEW s \in sortByBlockDesc(GetLogs(cf, height[cf.rpcUrl]))
             PROVE  IsInjective([i \in DOMAIN Table(s) |-> Table(s)[i].id])
    BY DEF NodeRowsHaveOwnKey, readViaRpc
<1> DEFINE E == GetLogs(cf, height[cf.rpcUrl])
           n == Cardinality(E)
<1>1. /\ n \in Nat /\ s \in [1..n -> E] /\ E \subseteq log
      /\ \A i, j \in 1..n : s[i] = s[j] => i = j
    <2>1. s \in Injection(1..n, E)
        BY DEF sortByBlockDesc
    <2> HIDE DEF E
    <2> QED
        BY <2>1, LogsAreFinite, SortsListAll DEF E
<1> HIDE DEF n, E
<1>2. DOMAIN Table(s) = 1..n /\ \A i \in 1..n : Table(s)[i].id = EntityId(s[i])
    BY <1>1 DEF Table, normalize, EntityId
<1>3. \A i, j \in 1..n : Table(s)[i].id = Table(s)[j].id => i = j
    BY <1>1, <1>2 DEF SubgraphInv, ChainInv, EventsHaveOneIdentity
<1> QED
    BY <1>2, <1>3 DEF IsInjective

\* However many events a transaction emits, no two rows that are read from the node
\* share the identity React keys them by.
THEOREM RowsAreToldApart == Spec => []NodeRowsHaveOwnKey
<1> QED
    BY KeysAreDistinct, SubgraphInvariant, PTL

-----------------------------------------------------------------------------
(* The node and the subgraph.                                               *)

\* Asked for the same events, both answer from the indexed ones.
LEMMA SameSource ==
    ASSUME SubgraphInv, NEW cf \in Configs, SameEvents(cf)
    PROVE  /\ GetLogs(cf, indexed) = IndexedEvents
           /\ {n \in entities : n.blockNumber <= indexed} = entities
           /\ entities = {handleDataWritten(e) : e \in IndexedEvents}
           /\ IsFiniteSet(IndexedEvents) /\ IsFiniteSet(entities)
           /\ IndexedEvents \subseteq log
           /\ Cardinality(entities) = Cardinality(IndexedEvents)
           /\ \A d, e \in IndexedEvents :
                 handleDataWritten(d) = handleDataWritten(e) => d = e
<1>1. indexed \in Nat /\ StartBlock \in Nat /\ \A e \in log : e.block \in Nat
    BY SubgraphAssumption DEF SubgraphInv, TypeOK, ChainTypeOK, Event
<1>2. entities = {handleDataWritten(e) : e \in IndexedEvents}
    BY DEF SubgraphInv, StoreInv, StoreIsTheImage
<1>3. GetLogs(cf, indexed) = IndexedEvents
    BY <1>1 DEF GetLogs, IndexedEvents, Subscribed, SameEvents
<1>4. \A e \in IndexedEvents : handleDataWritten(e).blockNumber <= indexed
    BY DEF IndexedEvents, handleDataWritten
<1>5. {n \in entities : n.blockNumber <= indexed} = entities
    BY <1>2, <1>4
<1>6. IsFiniteSet(IndexedEvents) /\ IndexedEvents \subseteq log
    BY FS_Subset DEF SubgraphInv, TypeOK, ChainTypeOK, IndexedEvents
<1>7. IsFiniteSet(entities)
    <2> DEFINE f == [e \in IndexedEvents |-> handleDataWritten(e)]
    <2>1. f \in Surjection(IndexedEvents, entities)
        BY <1>2 DEF Surjection
    <2> HIDE DEF f
    <2> QED
        BY <1>6, <2>1, FS_Surjection
<1>8. Cardinality(entities) = Cardinality(IndexedEvents)
    BY StoreCounts DEF OneEntityPerEvent
<1>9. \A d, e \in IndexedEvents : handleDataWritten(d) = handleDataWritten(e) => d = e
    <2>1. \A d, e \in IndexedEvents :
             handleDataWritten(d) = handleDataWritten(e) => EntityId(d) = EntityId(e)
        BY DEF handleDataWritten
    <2> QED
        BY <1>6, <2>1 DEF SubgraphInv, ChainInv, EventsHaveOneIdentity
<1> QED
    BY <1>2, <1>3, <1>5, <1>6, <1>7, <1>8, <1>9

\* What a row shows.
Shown(row)   == [row EXCEPT !.id = 0]
ShownIn(table) == {Shown(row) : row \in Range(table)}

\* The node shows the indexed events.
LEMMA NodeShows ==
    ASSUME SubgraphInv, NEW cf \in Configs, SameEvents(cf),
           NEW node \in readViaRpc(cf, indexed)
    PROVE  /\ Len(node) = Cardinality(IndexedEvents) /\ Len(node) \in Nat
           /\ ShownIn(node) = {Shown(handleDataWritten(e)) : e \in IndexedEvents}
<1> DEFINE E == IndexedEvents
           n == Cardinality(E)
<1>1. PICK s \in sortByBlockDesc(E) : node = Table(s)
    BY SameSource DEF readViaRpc
<1>2. /\ n \in Nat /\ s \in [1..n -> E]
      /\ \A e \in E : \E i \in 1..n : s[i] = e
    <2>1. s \in Injection(1..n, E) /\ IsFiniteSet(E)
        BY SameSource DEF sortByBlockDesc
    <2> HIDE DEF E
    <2> QED
        BY <2>1, SortsListAll
<1> HIDE DEF n, E
<1>3. node = [i \in 1..n |-> normalize(s[i], s[i].index)]
    BY <1>1, <1>2 DEF Table
<1>4. \A e : normalize(e, e.index) = handleDataWritten(e)
    BY DEF normalize, handleDataWritten, EntityId
<1>5. Range(node) = {handleDataWritten(e) : e \in E}
    BY <1>2, <1>3, <1>4 DEF Range
<1> QED
    BY <1>2, <1>3, <1>5 DEF ShownIn, n, E

LEMMA RetitledRowsShowTheSame ==
    ASSUME NEW x \in Entity, NEW y
    PROVE  Shown([x EXCEPT !.id = y]) = Shown(x) /\ Shown(x).blockNumber = x.blockNumber
BY DEF Entity, Shown

\* The subgraph shows the newest of the entities.
LEMMA GraphShows ==
    ASSUME SubgraphInv, NEW cf \in Configs, SameEvents(cf),
           NEW graph \in readViaSubgraph(indexed)
    PROVE  LET n == Cardinality(entities)
               m == IF n < First THEN n ELSE First
           IN  /\ n \in Nat /\ m \in Nat /\ Len(graph) = m
               /\ \E s \in [1..m -> entities] :
                     /\ ShownIn(graph) = {Shown(s[i]) : i \in 1..m}
                     /\ \A e \in entities \ Range(s), i \in 1..m :
                           s[i].blockNumber >= e.blockNumber
                     /\ n <= First => \A e \in entities : \E i \in 1..m : s[i] = e
<1> DEFINE n == Cardinality(entities)
           m == IF n < First THEN n ELSE First
<1>1. n \in Nat /\ m \in Nat /\ First \in Nat
    BY SameSource, ReadersAssumption, FS_CardinalityType
<1>2. PICK s \in NewestFirst(entities) :
          graph = [i \in DOMAIN s |-> [s[i] EXCEPT !.id = <<s[i].transactionHash, 0>>]]
    BY SameSource DEF readViaSubgraph
<1>3. /\ s \in Injection(1..m, entities)
      /\ \A e \in entities \ Range(s), i \in 1..m : s[i].blockNumber >= e.blockNumber
    BY DEF NewestFirst
<1>4. s \in [1..m -> entities]
    BY <1>3 DEF Injection
<1>5. n <= First => \A e \in entities : \E i \in 1..m : s[i] = e
    <2> SUFFICES ASSUME n <= First PROVE \A e \in entities : \E i \in 1..m : s[i] = e
        OBVIOUS
    <2>1. m = n
        BY <1>1
    <2> QED
        BY <1>3, <2>1, SameSource, SortsListAll
<1>6. \A i \in 1..m : s[i] \in Entity
    BY <1>4 DEF SubgraphInv, TypeOK
<1> HIDE DEF m, n
<1>7. graph = [i \in 1..m |-> [s[i] EXCEPT !.id = <<s[i].transactionHash, 0>>]]
    BY <1>2, <1>4
<1>8. Len(graph) = m
    BY <1>1, <1>7
<1>9. ShownIn(graph) = {Shown(s[i]) : i \in 1..m}
    <2>1. \A i \in 1..m : Shown(graph[i]) = Shown(s[i])
        BY <1>6, <1>7, RetitledRowsShowTheSame
    <2>2. ShownIn(graph) = {Shown(graph[i]) : i \in 1..m}
        BY <1>7 DEF ShownIn, Range
    <2> QED
        BY <2>1, <2>2
<1> QED
    BY <1>1, <1>3, <1>4, <1>5, <1>8, <1>9 DEF m, n

LEMMA GraphAgreesWithNode == SubgraphInv => GraphShowsTheSameEvents
<1> SUFFICES ASSUME SubgraphInv, NEW cf \in Configs, SameEvents(cf),
                    NEW node \in readViaRpc(cf, indexed),
                    NEW graph \in readViaSubgraph(indexed)
             PROVE  LET missing == ShownIn(node) \ ShownIn(graph)
                    IN  /\ ShownIn(graph) \subseteq ShownIn(node)
                        /\ Len(graph) = IF Len(node) < First THEN Len(node) ELSE First
                        /\ Len(node) <= First => missing = {}
                        /\ \A new \in ShownIn(graph), old \in missing :
                              old.blockNumber <= new.blockNumber
    BY Zenon DEF GraphShowsTheSameEvents, ShownIn, Shown
<1> DEFINE n == Cardinality(entities)
           m == IF n < First THEN n ELSE First
           missing == ShownIn(node) \ ShownIn(graph)
<1>1. PICK s \in [1..m -> entities] :
         /\ ShownIn(graph) = {Shown(s[i]) : i \in 1..m}
         /\ \A e \in entities \ Range(s), i \in 1..m : s[i].blockNumber >= e.blockNumber
         /\ n <= First => \A e \in entities : \E i \in 1..m : s[i] = e
    BY GraphShows
<1>2. n \in Nat /\ Len(graph) = m
    BY GraphShows
<1>3. /\ Len(node) = n
      /\ ShownIn(node) = {Shown(x) : x \in entities}
    BY NodeShows, SameSource
<1>4. \A x \in entities : x \in Entity /\ x.blockNumber \in Nat
    BY DEF SubgraphInv, TypeOK, Entity
<1> HIDE DEF n, m
<1>5. ShownIn(graph) \subseteq ShownIn(node)
    BY <1>1, <1>3
<1>6. Len(node) <= First => missing = {}
    BY <1>1, <1>3
<1>7. ASSUME NEW new \in ShownIn(graph), NEW old \in missing
      PROVE  old.blockNumber <= new.blockNumber
    <2>1. PICK i \in 1..m : new = Shown(s[i])
        BY <1>1
    <2>2. PICK x \in entities : old = Shown(x)
        BY <1>3
    <2>3. x \notin Range(s)
        BY <1>1, <2>2 DEF Range
    <2>4. s[i] \in entities /\ s[i].blockNumber >= x.blockNumber
        BY <1>1, <2>2, <2>3
    <2>5. old.blockNumber = x.blockNumber /\ new.blockNumber = s[i].blockNumber
        BY <1>4, <2>1, <2>2, <2>4, RetitledRowsShowTheSame
    <2> QED
        BY <1>4, <2>2, <2>4, <2>5
<1> QED
    BY <1>2, <1>3, <1>5, <1>6, <1>7 DEF m

\* Up to row ids and the order within a block, the subgraph shows what the node
\* shows of the blocks it has indexed: all of it where it fits on the page, and
\* otherwise a full page that leaves out nothing newer than it shows.
THEOREM GraphShowsTheNodesEvents == Spec => []GraphShowsTheSameEvents
<1> QED
    BY GraphAgreesWithNode, SubgraphInvariant, PTL

-----------------------------------------------------------------------------
(* The index of an event that is alone in its block.                        *)

\* The indices of a block start at 0 and leave none out.
IndicesAreConsecutive ==
    \A e \in log : \A j \in 0..e.index :
        \E f \in log : f.chain = e.chain /\ f.block = e.block /\ f.index = j

LEMMA StepKeepsIndicesConsecutive ==
    ASSUME SubgraphInv, IndicesAreConsecutive, [Next]_vars
    PROVE  IndicesAreConsecutive'
<1>1. ASSUME NEW c \in Chains, MineBlock(c)
      PROVE  IndicesAreConsecutive'
    <2>1. PICK T \in SUBSET {t \in pool : t.chain = c} :
              \E ix \in LogIndices(Emitting(T)) :
                  log' = log \cup Added(T, height[c] + 1, ix)
        BY <1>1 DEF MineBlock, Added
    <2>2. PICK ix \in LogIndices(Emitting(T)) : log' = log \cup Added(T, height[c] + 1, ix)
        BY <2>1
    <2> DEFINE n == Cardinality(Emitting(T))
    <2>3. T \in SUBSET Transaction /\ \A t \in T : t.chain = c
        BY DEF SubgraphInv, TypeOK, ChainTypeOK
    <2>4. n \in Nat
        <3>1. IsFiniteSet(T)
            BY FS_Subset DEF SubgraphInv, TypeOK, ChainTypeOK
        <3> QED
            BY <2>3, <3>1, EmittingIsFinite, FS_CardinalityType
    <2>5. /\ ix \in [Emitting(T) -> 0..(n - 1)]
          /\ \A j \in 0..(n - 1) : \E d \in Emitting(T) : ix[d] = j
        BY DEF LogIndices, Bijection, Injection, Surjection
    <2> HIDE DEF n
    <2>6. ASSUME NEW e \in Added(T, height[c] + 1, ix), NEW j \in 0..e.index
          PROVE  \E f \in log' : f.chain = e.chain /\ f.block = e.block /\ f.index = j
        <3>1. PICK d \in Emitting(T) : e = DataWritten(d[1], d[2], height[c] + 1, ix[d])
            BY DEF Added
        <3>2. ix[d] \in 0..(n - 1) /\ e.index = ix[d]
            BY <2>5, <3>1 DEF DataWritten
        <3>3. j \in 0..(n - 1)
            BY <2>4, <3>2
        <3>4. PICK g \in Emitting(T) : ix[g] = j
            BY <2>5, <3>3
        <3>5. d[1].chain = c /\ g[1].chain = c
            BY <2>3, EmittingCalls
        <3> DEFINE f == DataWritten(g[1], g[2], height[c] + 1, ix[g])
        <3>6. f \in log'
            BY <2>2 DEF Added
        <3>7. f.chain = e.chain /\ f.block = e.block /\ f.index = j
            BY <3>1, <3>4, <3>5 DEF DataWritten
        <3> QED
            BY <3>6, <3>7
    <2> QED
        BY <2>2, <2>6 DEF IndicesAreConsecutive
<1>2. ASSUME NEW t \in Transaction, Broadcast(t)
      PROVE  IndicesAreConsecutive'
    BY <1>2 DEF Broadcast, IndicesAreConsecutive
<1>3. CASE IndexBlock \/ UNCHANGED vars
    BY <1>3 DEF IndexBlock, vars, chainVars, IndicesAreConsecutive
<1> QED
    BY <1>1, <1>2, <1>3 DEF Next, NextChain

LEMMA ConsecutiveIndices == Spec => []IndicesAreConsecutive
<1>1. Init => IndicesAreConsecutive
    BY DEF Init, InitChain, IndicesAreConsecutive
<1>2. SubgraphInv /\ IndicesAreConsecutive /\ [Next]_vars => IndicesAreConsecutive'
    BY StepKeepsIndicesConsecutive
<1> QED
    BY <1>1, <1>2, SubgraphInvariant, PTL DEF Spec

OneEventPerBlock == \A e, f \in log : e.block = f.block /\ e.chain = f.chain => e = f

LEMMA LoneEventsComeFirst ==
    ASSUME SubgraphInv, IndicesAreConsecutive, OneEventPerBlock, NEW e \in log
    PROVE  e.index = 0
<1>1. e.index \in Nat
    BY DEF SubgraphInv, TypeOK, ChainTypeOK, Event
<1>2. 0 \in 0..e.index
    BY <1>1
<1>3. PICK f \in log : f.chain = e.chain /\ f.block = e.block /\ f.index = 0
    BY <1>2 DEF IndicesAreConsecutive
<1> QED
    BY <1>3 DEF OneEventPerBlock

-----------------------------------------------------------------------------
(* The three tables.                                                        *)

\* With one event per block, a row of the subgraph is the row of the node.
LEMMA SameRows ==
    ASSUME SubgraphInv, IndicesAreConsecutive, OneEventPerBlock, NEW e \in log
    PROVE  LET x == handleDataWritten(e)
           IN  normalize(e, e.index) = [x EXCEPT !.id = <<x.transactionHash, 0>>]
BY LoneEventsComeFirst DEF normalize, handleDataWritten, EntityId

\* A table of the node is one of the subgraph.
LEMMA NodeTableIsGraphTable ==
    ASSUME SubgraphInv, IndicesAreConsecutive, OneEventPerBlock,
           NEW cf \in Configs, SameEvents(cf), Cardinality(entities) <= First,
           NEW s \in sortByBlockDesc(IndexedEvents)
    PROVE  Table(s) \in readViaSubgraph(indexed)
<1> DEFINE E == IndexedEvents
           n == Cardinality(E)
           g == [i \in 1..n |-> handleDataWritten(s[i])]
<1>1. /\ n \in Nat /\ s \in [1..n -> E]
      /\ \A i, j \in 1..n : s[i] = s[j] => i = j
      /\ \A e \in E : \E i \in 1..n : s[i] = e
    <2>1. s \in Injection(1..n, E) /\ IsFiniteSet(E)
        BY SameSource DEF sortByBlockDesc
    <2> HIDE DEF E
    <2> QED
        BY <2>1, SortsListAll
<1>2. \A i, j \in 1..n : i < j => \/ s[i].block > s[j].block
                                  \/ s[i].block = s[j].block /\ s[i].index < s[j].index
    BY DEF sortByBlockDesc
<1>3. /\ E \subseteq log /\ entities = {handleDataWritten(e) : e \in E}
      /\ Cardinality(entities) = n
      /\ \A d, e \in E : handleDataWritten(d) = handleDataWritten(e) => d = e
      /\ {x \in entities : x.blockNumber <= indexed} = entities
    BY SameSource
<1>4. \A e \in E : e.block \in Nat /\ handleDataWritten(e).blockNumber = e.block
    BY <1>3 DEF SubgraphInv, TypeOK, ChainTypeOK, Event, handleDataWritten
<1> HIDE DEF n, E
<1>5. g \in Injection(1..n, entities)
    BY <1>1, <1>3 DEF Injection, IsInjective
<1>6. \A i, j \in 1..n : i < j => g[i].blockNumber >= g[j].blockNumber
    BY <1>1, <1>2, <1>4
<1>7. entities \ Range(g) = {}
    BY <1>1, <1>3 DEF Range
<1>8. (IF n < First THEN n ELSE First) = n
    BY <1>1, <1>3, ReadersAssumption
<1>9. DOMAIN g = 1..n
    OBVIOUS
<1>10. Table(s) = [i \in 1..n |-> [g[i] EXCEPT !.id = <<g[i].transactionHash, 0>>]]
    <2>1. \A i \in 1..n : normalize(s[i], s[i].index) =
                              [g[i] EXCEPT !.id = <<g[i].transactionHash, 0>>]
        BY <1>1, <1>3, SameRows
    <2>2. Table(s) = [i \in 1..n |-> normalize(s[i], s[i].index)]
        BY <1>1 DEF Table
    <2> HIDE DEF g
    <2> QED
        BY <2>1, <2>2
<1> HIDE DEF g
<1>11. g \in NewestFirst(entities)
    BY <1>3, <1>5, <1>6, <1>7, <1>8 DEF NewestFirst
<1> QED
    BY <1>3, <1>9, <1>10, <1>11 DEF readViaSubgraph

\* And the other way round.
LEMMA GraphTableIsNodeTable ==
    ASSUME SubgraphInv, IndicesAreConsecutive, OneEventPerBlock,
           NEW cf \in Configs, SameEvents(cf), Cardinality(entities) <= First,
           NEW g \in NewestFirst(entities)
    PROVE  \E s \in sortByBlockDesc(IndexedEvents) :
               Table(s) = [i \in DOMAIN g |->
                              [g[i] EXCEPT !.id = <<g[i].transactionHash, 0>>]]
<1> DEFINE E == IndexedEvents
           n == Cardinality(E)
           event(i) == CHOOSE e \in E : handleDataWritten(e) = g[i]
           s == [i \in 1..n |-> event(i)]
<1>1. /\ E \subseteq log /\ entities = {handleDataWritten(e) : e \in E}
      /\ Cardinality(entities) = n /\ n \in Nat
      /\ IsFiniteSet(E)
    BY SameSource, FS_CardinalityType
<1>2. (IF Cardinality(entities) < First THEN Cardinality(entities) ELSE First) = n
    BY <1>1, ReadersAssumption
<1>3. /\ g \in [1..n -> entities] /\ IsInjective(g)
      /\ \A i, j \in 1..n : i < j => g[i].blockNumber >= g[j].blockNumber
    BY <1>2 DEF NewestFirst, Injection
<1>4. \A e \in E : e.block \in Nat /\ handleDataWritten(e).blockNumber = e.block
                   /\ e.chain = GraphChain
    BY <1>1 DEF SubgraphInv, TypeOK, ChainTypeOK, Event, handleDataWritten,
               IndexedEvents, Subscribed
<1> HIDE DEF n, E
<1>5. \A i \in 1..n : event(i) \in E /\ handleDataWritten(event(i)) = g[i]
    BY <1>1, <1>3
<1> HIDE DEF event
<1>6. s \in Injection(1..n, E)
    <2>1. \A i, j \in 1..n : s[i] = s[j] => g[i] = g[j]
        BY <1>5
    <2>2. \A i, j \in 1..n : s[i] = s[j] => i = j
        BY <1>3, <2>1 DEF IsInjective
    <2>3. s \in [1..n -> E]
        BY <1>5
    <2> HIDE DEF s
    <2> QED
        BY <2>2, <2>3 DEF Injection, IsInjective
<1>7. \A i, j \in 1..n : i < j => s[i].block > s[j].block
    <2> SUFFICES ASSUME NEW i \in 1..n, NEW j \in 1..n, i < j
                 PROVE  s[i].block > s[j].block
        OBVIOUS
    <2>1. s[i] = event(i) /\ s[j] = event(j) /\ event(i) \in E /\ event(j) \in E
        BY <1>5
    <2>2. event(i).block >= event(j).block
        BY <1>3, <1>4, <1>5
    <2>3. event(i) # event(j)
        <3>1. i # j /\ DOMAIN g = 1..n
            BY <1>1, <1>3
        <3>2. g[i] # g[j]
            BY <1>3, <3>1 DEF IsInjective
        <3> QED
            BY <1>5, <3>2
    <2>4. event(i).block # event(j).block
        BY <1>1, <1>4, <2>1, <2>3 DEF OneEventPerBlock
    <2> QED
        BY <1>4, <2>1, <2>2, <2>4
<1>8. s \in sortByBlockDesc(E)
    BY <1>6, <1>7 DEF sortByBlockDesc, n
<1>9. Table(s) = [i \in DOMAIN g |-> [g[i] EXCEPT !.id = <<g[i].transactionHash, 0>>]]
    <2>1. \A i \in 1..n : normalize(s[i], s[i].index) =
                              [g[i] EXCEPT !.id = <<g[i].transactionHash, 0>>]
        BY <1>1, <1>5, SameRows
    <2>2. Table(s) = [i \in 1..n |-> normalize(s[i], s[i].index)]
        BY DEF Table
    <2>3. DOMAIN g = 1..n
        BY <1>3
    <2> HIDE DEF s
    <2> QED
        BY <2>1, <2>2, <2>3
<1> HIDE DEF s
<1> QED
    BY <1>8, <1>9 DEF E

LEMMA ReadersAgree == SubgraphInv /\ IndicesAreConsecutive => ThreeReadersAgree
<1> SUFFICES ASSUME SubgraphInv, IndicesAreConsecutive, OneEventPerBlock,
                    NEW cf \in Configs, SameEvents(cf), Cardinality(entities) <= First
             PROVE  readViaRpc(cf, indexed) = readViaSubgraph(indexed)
    BY DEF ThreeReadersAgree, OneEventPerBlock, readViaRpc, readViaEthers
<1>1. /\ GetLogs(cf, indexed) = IndexedEvents
      /\ {x \in entities : x.blockNumber <= indexed} = entities
    BY SameSource
<1>2. ASSUME NEW table \in readViaRpc(cf, indexed)
      PROVE  table \in readViaSubgraph(indexed)
    BY <1>1, NodeTableIsGraphTable DEF readViaRpc
<1>3. ASSUME NEW table \in readViaSubgraph(indexed)
      PROVE  table \in readViaRpc(cf, indexed)
    <2>1. PICK g \in NewestFirst(entities) :
              table = [i \in DOMAIN g |-> [g[i] EXCEPT !.id = <<g[i].transactionHash, 0>>]]
        BY <1>1 DEF readViaSubgraph
    <2>2. PICK s \in sortByBlockDesc(IndexedEvents) : Table(s) = table
        BY <2>1, GraphTableIsNodeTable
    <2> QED
        BY <1>1, <2>2 DEF readViaRpc
<1> QED
    BY <1>2, <1>3

\* Where every block holds one event, the three tables are the same, row ids and
\* order included.
THEOREM TheThreeReadersAgree == Spec => []ThreeReadersAgree
<1> QED
    BY ReadersAgree, SubgraphInvariant, ConsecutiveIndices, PTL

=============================================================================
