---------------------------- MODULE ConsoleProofs ----------------------------
(***************************************************************************)
(* What holds of the console's App component and of its write form,        *)
(* however many calls are in flight, answers overlap and events come in,   *)
(* whatever chain the wallet is on, for every set of chains, addresses and *)
(* settings.                                                               *)
(*                                                                         *)
(* The argument: blocks are only added above the height of their chain,    *)
(* and entities above the indexed block, so what a reader answers for a    *)
(* height that has been reached never changes again.                       *)
(***************************************************************************)
EXTENDS ConsoleWrite, SubgraphProofs

-----------------------------------------------------------------------------
(* The past does not change.                                                *)

LEMMA ThePastIsKept ==
    ASSUME SubgraphInv, [Next]_vars
    PROVE  /\ \A c \in Chains : height[c] \in Nat /\ height'[c] \in Nat
                                /\ height[c] <= height'[c]
           /\ indexed \in Nat /\ indexed' \in Nat /\ indexed <= indexed'
           /\ log \subseteq log'
           /\ \A e \in log' \ log : e.block \in Nat /\ e.block > height[e.chain]
           /\ entities \subseteq entities'
           /\ \A n \in entities' \ entities : n.blockNumber > indexed
<1>1. TypeOK'
    BY StepKeepsInv DEF SubgraphInv
<1>2. ASSUME NEW c \in Chains, MineBlock(c), UNCHANGED graphVars
      PROVE  /\ \A d \in Chains : height[d] <= height'[d]
             /\ log \subseteq log'
             /\ \A e \in log' \ log : e.block \in Nat /\ e.block > height[e.chain]
    <2>1. /\ log \subseteq log'
          /\ \A e \in log' \ log : e.chain = c /\ e.block = height[c] + 1
        BY <1>2, MineBlockKeepsChainInv DEF SubgraphInv, TypeOK
    <2>2. height[c] \in Nat
        BY DEF SubgraphInv, TypeOK, ChainTypeOK
    <2> QED
        BY <1>2, <2>1, <2>2 DEF MineBlock, SubgraphInv, TypeOK, ChainTypeOK
<1>3. CASE IndexBlock
    <2>1. indexed' = indexed + 1 /\ indexed \in Nat /\ UNCHANGED chainVars
        BY <1>3 DEF IndexBlock, SubgraphInv, TypeOK
    <2>2. entities' = entities \cup {handleDataWritten(e) : e \in Subscribed(indexed + 1)}
        BY <1>3, IndexBlockOnlyAdds DEF SubgraphInv
    <2>3. \A e \in Subscribed(indexed + 1) : handleDataWritten(e).blockNumber = indexed + 1
        BY DEF Subscribed, handleDataWritten
    <2> QED
        BY <2>1, <2>2, <2>3, <1>1 DEF chainVars, SubgraphInv, TypeOK, ChainTypeOK
<1>4. CASE UNCHANGED vars
    BY <1>4, <1>1 DEF vars, chainVars, graphVars, SubgraphInv, TypeOK, ChainTypeOK
<1>5. ASSUME NEW t \in Transaction, Broadcast(t), UNCHANGED graphVars
      PROVE  UNCHANGED <<height, log, indexed, entities>>
    BY <1>5 DEF Broadcast, graphVars
<1> QED
    BY <1>1, <1>2, <1>3, <1>4, <1>5
    DEF Next, NextChain, graphVars, SubgraphInv, TypeOK, ChainTypeOK

LEMMA ViewTypes ==
    ASSUME NEW view \in Views
    PROVE  /\ view.reader \in ReaderIds /\ view.config \in Configs
           /\ view.config.rpcUrl \in Chains /\ view.config.fromBlock \in Nat
BY ReadersAssumption DEF Views

\* What a reader answers for a height it has reached stays the same.
LEMMA AnswersDoNotChange ==
    ASSUME SubgraphInv, [Next]_vars, NEW view \in Views, NEW h \in 0..AnsweredAt(view)
    PROVE  h \in 0..AnsweredAt(view)' /\ READERS(view, h)' = READERS(view, h)
<1>1. view.config.rpcUrl \in Chains
    BY ViewTypes
<1>2. CASE view.reader = "graph"
    <2>1. h <= indexed /\ h \in 0..AnsweredAt(view)'
        BY <1>2, ThePastIsKept DEF AnsweredAt
    <2>2. {n \in entities : n.blockNumber <= h}' = {n \in entities : n.blockNumber <= h}
        <3>1. \A n \in entities' \ entities : ~(n.blockNumber <= h)
            <4>1. \A n \in entities' : n.blockNumber \in Nat
                BY StepKeepsInv DEF SubgraphInv, TypeOK, Entity
            <4> QED
                BY <2>1, <4>1, ThePastIsKept
        <3> QED
            BY <3>1, ThePastIsKept
    <2> QED
        BY <1>2, <2>1, <2>2 DEF READERS, readViaSubgraph, NewestFirst
<1>3. CASE view.reader \in {"rpc", "ethers"}
    <2>1. h <= height[view.config.rpcUrl] /\ h \in 0..AnsweredAt(view)'
        BY <1>1, <1>3, ThePastIsKept DEF AnsweredAt
    <2>2. GetLogs(view.config, h)' = GetLogs(view.config, h)
        <3>1. \A e \in log' \ log : e.chain = view.config.rpcUrl => ~(e.block <= h)
            BY <1>1, <2>1, ThePastIsKept
        <3>2. \A e \in log' \ log : e.chain = view.config.rpcUrl =>
                 e.block \notin view.config.fromBlock..h
            BY <3>1
        <3> QED
            BY <3>2, ThePastIsKept DEF GetLogs
    <2> QED
        BY <1>3, <2>1, <2>2 DEF READERS, readViaRpc, readViaEthers
<1> QED
    BY <1>2, <1>3, ViewTypes DEF ReaderIds

-----------------------------------------------------------------------------
(* Tables are sequences of rows.                                            *)

LEMMA SequenceOf ==
    ASSUME NEW n \in Nat, NEW S, NEW s \in [1..n -> S]
    PROVE  s \in Seq(S)
OBVIOUS

LEMMA EntitiesAreFinite == SubgraphInv => IsFiniteSet(entities)
<1> SUFFICES ASSUME SubgraphInv PROVE IsFiniteSet(entities)
    OBVIOUS
<1>1. IsFiniteSet(IndexedEvents)
    BY FS_Subset DEF SubgraphInv, TypeOK, ChainTypeOK, IndexedEvents
<1> DEFINE f == [e \in IndexedEvents |-> handleDataWritten(e)]
<1>2. f \in Surjection(IndexedEvents, entities)
    BY DEF Surjection, SubgraphInv, StoreInv, StoreIsTheImage
<1> HIDE DEF f
<1> QED
    BY <1>1, <1>2, FS_Surjection

LEMMA NodeTables ==
    ASSUME SubgraphInv, NEW cf, NEW h, NEW s \in sortByBlockDesc(GetLogs(cf, h))
    PROVE  Table(s) \in Seq(Row)
<1> DEFINE E == GetLogs(cf, h)
<1>1. E \subseteq Event /\ Cardinality(E) \in Nat
    BY FS_Subset, FS_CardinalityType DEF SubgraphInv, TypeOK, ChainTypeOK, GetLogs
<1>2. s \in [1..Cardinality(E) -> E]
    BY DEF sortByBlockDesc, Injection
<1>3. \A i \in 1..Cardinality(E) : normalize(s[i], s[i].index) \in Row
    <2>1. \A e \in Event : normalize(e, e.index) \in Row
        BY DEF normalize, Row, Event
    <2> QED
        BY <1>1, <1>2, <2>1
<1>4. Table(s) \in [1..Cardinality(E) -> Row]
    BY <1>2, <1>3 DEF Table
<1> QED
    BY <1>1, <1>4, SequenceOf

LEMMA GraphTables ==
    ASSUME SubgraphInv, NEW h, NEW table \in readViaSubgraph(h)
    PROVE  table \in Seq(Row)
<1> DEFINE E == {n \in entities : n.blockNumber <= h}
<1> DEFINE n == IF Cardinality(E) < First THEN Cardinality(E) ELSE First
<1>1. E \subseteq Entity /\ Cardinality(E) \in Nat
    BY EntitiesAreFinite, FS_Subset, FS_CardinalityType DEF SubgraphInv, TypeOK
<1>2. n \in Nat
    BY <1>1, ReadersAssumption
<1>3. PICK s \in NewestFirst(E) :
         table = [i \in DOMAIN s |-> [s[i] EXCEPT !.id = <<s[i].transactionHash, 0>>]]
    BY DEF readViaSubgraph
<1>4. s \in [1..n -> E]
    BY <1>3 DEF NewestFirst, Injection
<1>5. \A i \in 1..n : [s[i] EXCEPT !.id = <<s[i].transactionHash, 0>>] \in Row
    BY <1>1, <1>4 DEF Entity, Row
<1> HIDE DEF n
<1>6. table \in [1..n -> Row]
    BY <1>3, <1>4, <1>5
<1> QED
    BY <1>2, <1>6, SequenceOf

LEMMA AnswersAreTables ==
    ASSUME SubgraphInv, NEW view \in Views, NEW h, NEW table \in READERS(view, h)
    PROVE  table \in Seq(Row)
BY ViewTypes, NodeTables, GraphTables DEF READERS, readViaRpc, readViaEthers, ReaderIds

-----------------------------------------------------------------------------
(* The refresh calls and the table.                                         *)

TableTyping ==
    /\ rows \in Seq(Row)
    /\ loading \in BOOLEAN
    /\ error \in {"", "invalid address", "failed"}
    /\ issued \in Nat
    /\ calls \subseteq RefreshCall
    /\ \A c, d \in calls : c.id = d.id => c = d
    /\ \A c \in calls : c.id <= issued
    /\ shown \in [id : Nat, view : Views]

AnswersAreSnapshots ==
    \A call \in calls : call.answered =>
        \E h \in 0..AnsweredAt(call.view) : call.rows \in READERS(call.view, h)

TableInv == TableTyping /\ TableIsASnapshot /\ AnswersAreSnapshots

\* Whatever the page does with its table, a step of the chains or of the
\* subgraph leaves every answer an answer.
LEMMA WorldKeepsTableInv ==
    ASSUME SubgraphInv, TableInv, [Next]_vars, UNCHANGED tableVars
    PROVE  TableInv'
<1>1. TableTyping'
    BY DEF TableInv, TableTyping, tableVars
<1>2. TableIsASnapshot'
    <2>1. shown.id = 0 => rows = <<>>
        BY DEF TableInv, TableIsASnapshot
    <2>2. ASSUME NEW view \in Views, shown.id # 0, shown.view = view
          PROVE  \E h \in 0..AnsweredAt(view)' : rows \in READERS(view, h)'
        <3>1. PICK h \in 0..AnsweredAt(view) : rows \in READERS(view, h)
            BY <2>2 DEF TableInv, TableIsASnapshot
        <3> QED
            BY <3>1, AnswersDoNotChange
    <2> QED
        BY <2>1, <2>2 DEF TableIsASnapshot, tableVars
<1>3. AnswersAreSnapshots'
    <2> SUFFICES ASSUME NEW call \in calls, call.answered
                 PROVE  \E h \in 0..AnsweredAt(call.view)' : call.rows \in READERS(call.view, h)'
        BY DEF AnswersAreSnapshots, tableVars
    <2>1. PICK h \in 0..AnsweredAt(call.view) : call.rows \in READERS(call.view, h)
        BY DEF TableInv, AnswersAreSnapshots
    <2>2. call.view \in Views
        BY DEF TableInv, TableTyping, RefreshCall
    <2> QED
        BY <2>1, <2>2, AnswersDoNotChange
<1> QED
    BY <1>1, <1>2, <1>3 DEF TableInv

\* The steps of the page leave chains and subgraph alone.
WorldUnchanged == UNCHANGED <<chainVars, graphVars>>

LEMMA AnswersStay ==
    ASSUME SubgraphInv, WorldUnchanged, NEW view \in Views, NEW h \in 0..AnsweredAt(view)
    PROVE  h \in 0..AnsweredAt(view)' /\ READERS(view, h)' = READERS(view, h)
BY AnswersDoNotChange DEF WorldUnchanged, vars

\* Where the calls a step adds are unanswered or answered by their reader, and
\* the table it shows is empty, unchanged or the answer of a call.
LEMMA TableStep ==
    ASSUME SubgraphInv, TableInv, WorldUnchanged, TableTyping',
           \A call \in calls' \ calls : call.answered =>
               call.rows \in READERS(call.view, AnsweredAt(call.view)),
           \/ shown'.id = 0 /\ rows' = <<>>
           \/ UNCHANGED <<shown, rows>>
           \/ \E call \in calls : /\ call.answered
                                  /\ rows' = call.rows /\ shown'.view = call.view
                                  /\ shown'.id # 0
    PROVE  TableInv'
<1>1. ASSUME NEW call \in calls', call.answered
      PROVE  \E h \in 0..AnsweredAt(call.view)' : call.rows \in READERS(call.view, h)'
    <2>1. call.view \in Views
        BY DEF TableTyping, RefreshCall
    <2>2. PICK h \in 0..AnsweredAt(call.view) : call.rows \in READERS(call.view, h)
        <3>1. CASE call \in calls
            BY <1>1, <3>1 DEF TableInv, AnswersAreSnapshots
        <3>2. CASE call \notin calls
            <4>1. AnsweredAt(call.view) \in Nat
                BY <2>1, ViewTypes DEF AnsweredAt, SubgraphInv, TypeOK, ChainTypeOK
            <4>2. AnsweredAt(call.view) \in 0..AnsweredAt(call.view)
                BY <4>1
            <4> QED
                BY <1>1, <3>2, <4>2
        <3> QED
            BY <3>1, <3>2
    <2> QED
        BY <2>1, <2>2, AnswersStay
<1>2. shown'.id = 0 => rows' = <<>>
    <2>1. shown.id = 0 => rows = <<>>
        BY DEF TableInv, TableIsASnapshot
    <2> QED
        BY <2>1
<1>3. ASSUME NEW view \in Views, shown'.id # 0, shown'.view = view
      PROVE  \E h \in 0..AnsweredAt(view)' : rows' \in READERS(view, h)'
    <2>1. \E h \in 0..AnsweredAt(view) : rows' \in READERS(view, h)
        <3>1. CASE UNCHANGED <<shown, rows>>
            BY <1>3, <3>1 DEF TableInv, TableIsASnapshot
        <3>2. ASSUME NEW call \in calls, call.answered, rows' = call.rows,
                     shown'.view = call.view
              PROVE  \E h \in 0..AnsweredAt(view) : rows' \in READERS(view, h)
            BY <1>3, <3>2 DEF TableInv, AnswersAreSnapshots
        <3> QED
            BY <1>3, <3>1, <3>2
    <2> QED
        BY <2>1, AnswersStay
<1> QED
    BY <1>1, <1>2, <1>3 DEF TableInv, AnswersAreSnapshots, TableIsASnapshot

LEMMA EmptyTable == <<>> \in Seq(Row)
OBVIOUS

LEMMA RefreshKeepsTableInv ==
    ASSUME SubgraphInv, TableInv, WorldUnchanged, NEW view \in Views, refresh(view)
    PROVE  TableInv'
<1>1. CASE Refuse(view)
    <2>1. rows' = <<>> /\ shown' = [id |-> 0, view |-> view]
        BY <1>1 DEF Refuse
    <2>2. error' \in {"", "invalid address"} /\ UNCHANGED <<loading, calls, issued>>
        BY <1>1 DEF Refuse
    <2>3. TableTyping'
        BY <2>1, <2>2, EmptyTable DEF TableInv, TableTyping
    <2> QED
        BY <2>1, <2>2, <2>3, TableStep
<1>2. CASE Request(view)
    <2> DEFINE new == [id |-> issued + 1, view |-> view, answered |-> FALSE, rows |-> <<>>]
    <2>1. issued \in Nat /\ issued' = issued + 1 /\ calls' = calls \cup {new}
        BY <1>2 DEF Request, TableInv, TableTyping
    <2>2. new \in RefreshCall /\ new.id = issued'
        BY <2>1, EmptyTable DEF RefreshCall
    <2>3. ~new.answered
        OBVIOUS
    <2> HIDE DEF new
    <2>4. /\ calls \subseteq RefreshCall
          /\ \A c \in calls : c.id <= issued
          /\ \A c, d \in calls : c.id = d.id => c = d
        BY DEF TableInv, TableTyping
    <2>5. \A c \in RefreshCall : c.id \in Nat
        BY DEF RefreshCall
    <2>6. \A c \in calls : c.id \in Nat /\ c.id < issued'
        BY <2>1, <2>4, <2>5
    <2>7. calls' \subseteq RefreshCall /\ \A c \in calls' : c.id <= issued'
        BY <2>1, <2>2, <2>4, <2>6
    <2>8. \A c, d \in calls' : c.id = d.id => c = d
        <3>1. \A c \in calls : c.id # new.id
            BY <2>1, <2>2, <2>6
        <3> QED
            BY <2>1, <2>4, <3>1
    <2>9. loading' = TRUE /\ error' = "" /\ UNCHANGED <<rows, shown>>
        BY <1>2 DEF Request
    <2>10. TableTyping'
        <3>1. issued' \in Nat
            BY <2>1
        <3>2. loading' \in BOOLEAN /\ error' \in {"", "invalid address", "failed"}
            BY <2>9
        <3>3. rows' \in Seq(Row) /\ shown' \in [id : Nat, view : Views]
            BY <2>9 DEF TableInv, TableTyping
        <3> QED
            BY <2>7, <2>8, <3>1, <3>2, <3>3 DEF TableTyping
    <2>11. \A c \in calls' \ calls : ~c.answered
        BY <2>1, <2>3
    <2> QED
        BY <2>9, <2>10, <2>11, TableStep
<1> QED
    BY <1>1, <1>2 DEF refresh

LEMMA AnswerKeepsTableInv ==
    ASSUME SubgraphInv, TableInv, NEW call \in calls, Answer(call)
    PROVE  TableInv'
<1>1. PICK table \in READERS(call.view, AnsweredAt(call.view)) :
         calls' = (calls \ {call}) \cup {[call EXCEPT !.answered = TRUE, !.rows = table]}
    BY DEF Answer
<1> DEFINE new == [call EXCEPT !.answered = TRUE, !.rows = table]
<1>2. call \in RefreshCall /\ call.view \in Views
    BY DEF TableInv, TableTyping, RefreshCall
<1>3. table \in Seq(Row)
    BY <1>2, AnswersAreTables
<1>4. /\ new \in RefreshCall /\ new.id = call.id
      /\ new.view = call.view /\ new.rows = table
    BY <1>2, <1>3 DEF RefreshCall
<1> HIDE DEF new
<1>5. TableTyping'
    <2>1. UNCHANGED <<rows, loading, error, issued, shown>>
        BY DEF Answer
    <2>2. calls' = (calls \ {call}) \cup {new}
        BY <1>1 DEF new
    <2>3. /\ calls' \subseteq RefreshCall /\ \A c \in calls' : c.id <= issued
          /\ \A c, d \in calls' : c.id = d.id => c = d
        BY <1>4, <2>2 DEF TableInv, TableTyping
    <2> QED
        BY <2>1, <2>3 DEF TableInv, TableTyping
<1>6. WorldUnchanged /\ UNCHANGED <<shown, rows>>
    BY DEF Answer, WorldUnchanged
<1>7. \A c \in calls' \ calls : c.answered => c.rows \in READERS(c.view, AnsweredAt(c.view))
    BY <1>1, <1>4 DEF new
<1> QED
    BY <1>5, <1>6, <1>7, TableStep

LEMMA DeliverKeepsTableInv ==
    ASSUME SubgraphInv, TableInv, NEW call \in calls, Deliver(call)
    PROVE  TableInv'
<1>1. call \in RefreshCall
    BY DEF TableInv, TableTyping
<1>2. TableTyping'
    BY <1>1 DEF Deliver, TableInv, TableTyping, RefreshCall
<1>3. /\ call.answered /\ rows' = call.rows
      /\ shown'.view = call.view /\ shown'.id # 0
    BY <1>1 DEF Deliver, RefreshCall
<1>4. WorldUnchanged /\ calls' \subseteq calls
    BY DEF Deliver, WorldUnchanged
<1> QED
    BY <1>2, <1>3, <1>4, TableStep

LEMMA FailKeepsTableInv ==
    ASSUME SubgraphInv, TableInv, NEW call \in calls, Fail(call)
    PROVE  TableInv'
<1>1. call \in RefreshCall
    BY DEF TableInv, TableTyping
<1>2. TableTyping'
    <2>1. /\ rows' = <<>> /\ error' = "failed" /\ loading' = FALSE /\ issued' = issued
          /\ calls' \subseteq calls /\ shown' = [id |-> 0, view |-> call.view]
        BY DEF Fail
    <2>2. call.view \in Views
        BY <1>1 DEF RefreshCall
    <2> QED
        BY <2>1, <2>2, EmptyTable DEF TableInv, TableTyping
<1>3. shown'.id = 0 /\ rows' = <<>>
    BY DEF Fail
<1>4. WorldUnchanged /\ calls' \subseteq calls
    BY DEF Fail, WorldUnchanged
<1> QED
    BY <1>2, <1>3, <1>4, TableStep

-----------------------------------------------------------------------------
(* The subscription and its counter.  The counted events of the chain the   *)
(* page is on are those the subscription has handed over or older than it,   *)
(* so the listener never meets one of them as new.                           *)

UiTyping == config \in Configs /\ readerId \in ReaderIds

LiveTyping == sub \in Subscription /\ liveCount \in Nat /\ counted \subseteq Event

CountInv ==
    /\ IsFiniteSet(counted) /\ counted \subseteq log
    /\ EventsAreCountedOnce
    /\ sub.phase \in {"located", "on"} =>
          \A e \in counted :
              e.chain = config.rpcUrl => OldEvent(e) \/ e \in sub.seen

LiveInv == UiTyping /\ LiveTyping /\ CountInv

LEMMA ListenerCounts ==
    ASSUME SubgraphInv, LiveInv, NEW event \in Unseen, sub.phase = "on",
           sub' = [sub EXCEPT !.seen = @ \cup {event}],
           \/ OldEvent(event) /\ UNCHANGED <<liveCount, counted>>
           \/ /\ ~OldEvent(event)
              /\ liveCount' = liveCount + 1 /\ counted' = counted \cup {event},
           UNCHANGED <<log, config, readerId>>
    PROVE  LiveInv'
<1>1. event \in log /\ event \in Event /\ event.chain = config.rpcUrl /\ event \notin sub.seen
    BY DEF Unseen, SubgraphInv, TypeOK, ChainTypeOK
<1>2. sub' \in Subscription
    BY <1>1 DEF LiveInv, LiveTyping, Subscription
<1>3. /\ sub'.phase = "on" /\ sub'.startBlock = sub.startBlock
      /\ sub'.seen = sub.seen \cup {event}
    BY <1>2 DEF LiveInv, LiveTyping, Subscription
<1>4. CASE OldEvent(event) /\ UNCHANGED <<liveCount, counted>>
    BY <1>2, <1>3, <1>4
    DEF LiveInv, UiTyping, LiveTyping, CountInv, EventsAreCountedOnce, OldEvent
<1>5. CASE ~OldEvent(event) /\ liveCount' = liveCount + 1 /\ counted' = counted \cup {event}
    <2>1. event \notin counted
        BY <1>1, <1>5 DEF LiveInv, CountInv
    <2>2. IsFiniteSet(counted') /\ Cardinality(counted') = Cardinality(counted) + 1
        BY <1>5, <2>1, FS_AddElement DEF LiveInv, CountInv
    <2>3. LiveTyping'
        BY <1>1, <1>2, <1>5 DEF LiveInv, LiveTyping
    <2>4. EventsAreCountedOnce' /\ counted' \subseteq log'
        BY <1>1, <1>5, <2>2 DEF LiveInv, CountInv, EventsAreCountedOnce
    <2>5. \A e \in counted' : e.chain = config'.rpcUrl => OldEvent(e)' \/ e \in sub'.seen
        BY <1>3, <1>5 DEF LiveInv, CountInv, OldEvent
    <2> QED
        BY <2>2, <2>3, <2>4, <2>5 DEF LiveInv, UiTyping, CountInv
<1> QED
    BY <1>4, <1>5

\* A new subscription starts at a height that no counted event is above.
LEMMA LocateKeepsLiveInv ==
    ASSUME SubgraphInv, LiveInv, Locate
    PROVE  LiveInv'
<1>1. config.rpcUrl \in Chains /\ height[config.rpcUrl] \in Nat
    BY ReadersAssumption DEF LiveInv, UiTyping, SubgraphInv, TypeOK, ChainTypeOK
<1>2. /\ sub' \in Subscription /\ sub'.startBlock = height[config.rpcUrl]
      /\ UNCHANGED <<log, config, readerId, liveCount, counted>>
    BY <1>1 DEF Locate, LiveInv, LiveTyping, Subscription, chainVars, uiVars
<1>3. \A e \in counted : e.chain = config.rpcUrl => e.block <= height[config.rpcUrl]
    BY DEF LiveInv, CountInv, SubgraphInv, ChainInv, EventsHaveReceipts
<1> QED
    BY <1>2, <1>3 DEF LiveInv, UiTyping, LiveTyping, CountInv, EventsAreCountedOnce, OldEvent

LEMMA ListenKeepsLiveInv ==
    ASSUME SubgraphInv, LiveInv, Listen
    PROVE  LiveInv'
<1>1. config.rpcUrl \in Chains /\ height[config.rpcUrl] \in Nat
    BY ReadersAssumption DEF LiveInv, UiTyping, SubgraphInv, TypeOK, ChainTypeOK
<1>2. /\ sub' \in Subscription /\ sub'.startBlock = sub.startBlock /\ sub'.seen = sub.seen
      /\ UNCHANGED <<log, config, readerId, liveCount, counted>>
    BY <1>1 DEF Listen, LiveInv, LiveTyping, Subscription, chainVars, uiVars
<1> QED
    BY <1>2 DEF Listen, LiveInv, UiTyping, LiveTyping, CountInv, EventsAreCountedOnce, OldEvent

\* A subscription that is replaced or given up counts nothing.
LEMMA ResubscribeKeepsLiveInv ==
    ASSUME LiveInv, NEW view \in Views, UNCHANGED <<log, liveCount, counted>>,
           sub' \in {Subscribe(view), NotSubscribed}, UiTyping'
    PROVE  LiveInv'
<1>1. sub' \in Subscription /\ sub'.phase \notin {"located", "on"}
    BY DEF Subscribe, NotSubscribed, Subscription
<1> QED
    BY <1>1 DEF LiveInv, LiveTyping, CountInv, EventsAreCountedOnce

LEMMA LogGrowthKeepsLiveInv ==
    ASSUME LiveInv, log \subseteq log', UNCHANGED <<uiVars, liveVars>>
    PROVE  LiveInv'
BY DEF LiveInv, UiTyping, LiveTyping, CountInv, EventsAreCountedOnce, OldEvent, uiVars, liveVars

-----------------------------------------------------------------------------
(* The page as a whole.                                                     *)

\* loading is set by a call that is sent and cleared by the one that settles.
LoadingInv == LoadingMeansReading

ConsoleInv == SubgraphInv /\ TableInv /\ LiveInv /\ LoadingInv

LEMMA SelectionIsAView == UiTyping => Selection \in Views
BY DEF UiTyping, Selection, Views

LEMMA RefreshKeepsLoadingInv ==
    ASSUME LoadingInv, NEW view, refresh(view)
    PROVE  LoadingInv'
BY DEF LoadingInv, LoadingMeansReading, refresh, Refuse, Request

LEMMA InitEstablishesConsoleInv == ConsoleInit => ConsoleInv
<1> SUFFICES ASSUME ConsoleInit PROVE ConsoleInv
    OBVIOUS
<1>1. SubgraphInv
    BY InitEstablishesInv DEF ConsoleInit
<1>2. UiTyping
    BY ConsoleAssumption DEF ConsoleInit, InitApp, UiTyping, ReaderIds
<1>3. Selection \in Views
    BY <1>2, SelectionIsAView
<1>4. LiveInv
    <2>1. LiveTyping /\ sub.phase \in {"off", "locating"}
        BY DEF ConsoleInit, InitApp, LiveTyping, Subscribe, NotSubscribed, Subscription
    <2>2. CountInv
        BY <2>1, FS_EmptySet DEF ConsoleInit, InitApp, CountInv, EventsAreCountedOnce
    <2> QED
        BY <1>2, <2>1, <2>2 DEF LiveInv
<1>5. shown \in [id : Nat, view : Views] /\ shown.id = 0 /\ rows = <<>>
    BY <1>3 DEF ConsoleInit, InitApp, Nothing
<1>6. /\ issued \in Nat /\ loading \in BOOLEAN
      /\ error \in {"", "invalid address", "failed"}
    <2>1. CASE isAddress(config.address)
        <3>1. issued = 1 /\ loading = TRUE /\ error = ""
            BY <2>1, Zenon DEF ConsoleInit, InitApp
        <3> QED
            BY <3>1
    <2>2. CASE ~isAddress(config.address)
        <3>1. issued = 0 /\ loading = FALSE /\ error \in {"", "invalid address"}
            BY <2>2, Zenon DEF ConsoleInit, InitApp
        <3> QED
            BY <3>1
    <2> QED
        BY <2>1, <2>2
<1>7. /\ calls \subseteq RefreshCall
      /\ \A c \in calls : c.id <= issued /\ ~c.answered
      /\ \A c, d \in calls : c.id = d.id => c = d
    <2> DEFINE first == [id |-> 1, view |-> Selection, answered |-> FALSE, rows |-> <<>>]
    <2>1. first \in RefreshCall /\ first.id = 1 /\ ~first.answered
        BY <1>3, EmptyTable DEF RefreshCall
    <2>2. calls = {} \/ (calls = {first} /\ issued = 1)
        BY DEF ConsoleInit, InitApp
    <2> HIDE DEF first
    <2> QED
        BY <2>1, <2>2
<1>8. TableInv
    <2>1. TableTyping
        BY <1>5, <1>6, <1>7, EmptyTable DEF TableTyping
    <2> QED
        BY <1>5, <1>7, <2>1 DEF TableInv, TableIsASnapshot, AnswersAreSnapshots
<1>9. LoadingInv
    BY DEF ConsoleInit, InitApp, LoadingInv, LoadingMeansReading
<1> QED
    BY <1>1, <1>4, <1>8, <1>9 DEF ConsoleInv

LEMMA EnvironmentKeepsConsoleInv ==
    ASSUME ConsoleInv, [Next]_vars, UNCHANGED appVars
    PROVE  ConsoleInv'
<1>1. SubgraphInv'
    BY StepKeepsInv DEF ConsoleInv
<1>2. TableInv'
    BY WorldKeepsTableInv DEF ConsoleInv, appVars
<1>3. LiveInv'
    BY ThePastIsKept, LogGrowthKeepsLiveInv DEF ConsoleInv, appVars
<1>4. LoadingInv'
    BY DEF ConsoleInv, LoadingInv, LoadingMeansReading, appVars, tableVars
<1> QED
    BY <1>1, <1>2, <1>3, <1>4 DEF ConsoleInv

LEMMA ReselectKeepsConsoleInv ==
    ASSUME ConsoleInv, NEW view \in Views, Reselect(view)
    PROVE  ConsoleInv'
<1>1. WorldUnchanged /\ refresh(view)
    BY DEF Reselect, WorldUnchanged
<1>2. SubgraphInv'
    BY <1>1, StepKeepsInv DEF ConsoleInv, WorldUnchanged, vars
<1>3. TableInv'
    BY <1>1, RefreshKeepsTableInv DEF ConsoleInv
<1>4. LiveInv'
    <2>1. UiTyping'
        BY DEF Reselect, UiTyping, Views
    <2>2. UNCHANGED <<log, liveCount, counted>> /\ sub' \in {Subscribe(view), NotSubscribed}
        BY DEF Reselect, chainVars
    <2> QED
        BY <2>1, <2>2, ResubscribeKeepsLiveInv DEF ConsoleInv
<1>5. LoadingInv'
    BY <1>1, RefreshKeepsLoadingInv DEF ConsoleInv
<1> QED
    BY <1>2, <1>3, <1>4, <1>5 DEF ConsoleInv

LEMMA ListenerKeepsConsoleInv ==
    ASSUME ConsoleInv, NEW event \in Unseen, listener(event)
    PROVE  ConsoleInv'
<1>1. WorldUnchanged /\ UNCHANGED <<log, config, readerId>>
    BY DEF listener, WorldUnchanged, uiVars, chainVars
<1>2. SubgraphInv'
    BY <1>1, StepKeepsInv DEF ConsoleInv, WorldUnchanged, vars
<1>3. LiveInv'
    BY <1>1, ListenerCounts DEF ConsoleInv, listener
<1>4. TableInv' /\ LoadingInv'
    <2>1. CASE OldEvent(event)
        <3>1. UNCHANGED tableVars
            BY <2>1 DEF listener
        <3> QED
            BY <1>1, <3>1, WorldKeepsTableInv
            DEF ConsoleInv, LoadingInv, LoadingMeansReading, WorldUnchanged, vars, tableVars
    <2>2. CASE ~OldEvent(event)
        <3>1. refresh(Selection)
            BY <2>2 DEF listener
        <3>2. Selection \in Views
            BY SelectionIsAView DEF ConsoleInv, LiveInv
        <3> QED
            BY <1>1, <3>1, <3>2, RefreshKeepsTableInv, RefreshKeepsLoadingInv DEF ConsoleInv
    <2> QED
        BY <2>1, <2>2
<1> QED
    BY <1>2, <1>3, <1>4 DEF ConsoleInv

\* A step that leaves chains, subgraph and subscription alone.
LEMMA CallStepKeepsConsoleInv ==
    ASSUME ConsoleInv, WorldUnchanged, UNCHANGED <<uiVars, liveVars>>, TableInv', LoadingInv'
    PROVE  ConsoleInv'
<1>1. SubgraphInv'
    BY StepKeepsInv DEF ConsoleInv, WorldUnchanged, vars
<1>2. LiveInv'
    BY LogGrowthKeepsLiveInv DEF ConsoleInv, WorldUnchanged, chainVars
<1> QED
    BY <1>1, <1>2 DEF ConsoleInv

\* A step of the subscription that leaves everything else alone.
LEMMA LiveStepKeepsConsoleInv ==
    ASSUME ConsoleInv, WorldUnchanged, UNCHANGED tableVars, LiveInv'
    PROVE  ConsoleInv'
<1>1. SubgraphInv'
    BY StepKeepsInv DEF ConsoleInv, WorldUnchanged, vars
<1>2. TableInv'
    BY WorldKeepsTableInv DEF ConsoleInv, WorldUnchanged, vars
<1>3. LoadingInv'
    BY DEF ConsoleInv, LoadingInv, LoadingMeansReading, tableVars
<1> QED
    BY <1>1, <1>2, <1>3 DEF ConsoleInv

LEMMA StepKeepsConsoleInv == ConsoleInv /\ [ConsoleNext]_consoleVars => ConsoleInv'
<1> SUFFICES ASSUME ConsoleInv, [ConsoleNext]_consoleVars PROVE ConsoleInv'
    OBVIOUS
<1>1. Selection \in Views
    BY SelectionIsAView DEF ConsoleInv, LiveInv
<1>2. CASE Environment
    BY <1>2, EnvironmentKeepsConsoleInv DEF Environment
<1>3. ASSUME NEW id \in ReaderIds, SelectReader(id) PROVE ConsoleInv'
    <2>1. [Selection EXCEPT !.reader = id] \in Views
        BY <1>1 DEF Views
    <2> QED
        BY <1>3, <2>1, ReselectKeepsConsoleInv DEF SelectReader
<1>4. ASSUME NEW cf \in Configs, update(cf) PROVE ConsoleInv'
    <2>1. [Selection EXCEPT !.config = cf] \in Views
        BY <1>1 DEF Views
    <2> QED
        BY <1>4, <2>1, ReselectKeepsConsoleInv DEF update
<1>5. CASE ClickRefresh
    <2>1. WorldUnchanged /\ UNCHANGED <<uiVars, liveVars>> /\ refresh(Selection)
        BY <1>5 DEF ClickRefresh, WorldUnchanged
    <2>2. TableInv' /\ LoadingInv'
        BY <1>1, <2>1, RefreshKeepsTableInv, RefreshKeepsLoadingInv DEF ConsoleInv
    <2> QED
        BY <2>1, <2>2, CallStepKeepsConsoleInv
<1>6. ASSUME NEW call \in calls, Answer(call) PROVE ConsoleInv'
    <2>1. WorldUnchanged /\ UNCHANGED <<uiVars, liveVars>>
        BY <1>6 DEF Answer, WorldUnchanged
    <2>2. LoadingInv'
        BY <1>6 DEF Answer, ConsoleInv, LoadingInv, LoadingMeansReading
    <2>3. TableInv'
        BY <1>6, AnswerKeepsTableInv DEF ConsoleInv
    <2> QED
        BY <2>1, <2>2, <2>3, CallStepKeepsConsoleInv
<1>7. ASSUME NEW call \in calls, Deliver(call) PROVE ConsoleInv'
    <2>1. WorldUnchanged /\ UNCHANGED <<uiVars, liveVars>>
        BY <1>7 DEF Deliver, WorldUnchanged
    <2>2. LoadingInv'
        BY <1>7 DEF Deliver, LoadingInv, LoadingMeansReading
    <2>3. TableInv'
        BY <1>7, DeliverKeepsTableInv DEF ConsoleInv
    <2> QED
        BY <2>1, <2>2, <2>3, CallStepKeepsConsoleInv
<1>8. ASSUME NEW call \in calls, Fail(call) PROVE ConsoleInv'
    <2>1. WorldUnchanged /\ UNCHANGED <<uiVars, liveVars>>
        BY <1>8 DEF Fail, WorldUnchanged
    <2>2. LoadingInv'
        BY <1>8 DEF Fail, LoadingInv, LoadingMeansReading
    <2>3. TableInv'
        BY <1>8, FailKeepsTableInv DEF ConsoleInv
    <2> QED
        BY <2>1, <2>2, <2>3, CallStepKeepsConsoleInv
<1>9. CASE Locate
    <2>1. WorldUnchanged /\ UNCHANGED tableVars
        BY <1>9 DEF Locate, WorldUnchanged
    <2> QED
        BY <1>9, <2>1, LocateKeepsLiveInv, LiveStepKeepsConsoleInv DEF ConsoleInv
<1>10. CASE LocateFails
    <2>1. WorldUnchanged /\ UNCHANGED <<tableVars, log, uiVars, liveCount, counted>>
        BY <1>10 DEF LocateFails, WorldUnchanged, chainVars
    <2>2. UiTyping' /\ sub' \in {Subscribe(Selection), NotSubscribed}
        BY <1>10, <2>1 DEF LocateFails, ConsoleInv, LiveInv, UiTyping, uiVars
    <2>3. LiveInv'
        BY <1>1, <2>1, <2>2, ResubscribeKeepsLiveInv DEF ConsoleInv
    <2> QED
        BY <2>1, <2>3, LiveStepKeepsConsoleInv
<1>11. CASE Listen
    <2>1. WorldUnchanged /\ UNCHANGED tableVars
        BY <1>11 DEF Listen, WorldUnchanged
    <2> QED
        BY <1>11, <2>1, ListenKeepsLiveInv, LiveStepKeepsConsoleInv DEF ConsoleInv
<1>12. ASSUME NEW event \in Unseen, listener(event) PROVE ConsoleInv'
    BY <1>12, ListenerKeepsConsoleInv
<1>13. CASE UNCHANGED consoleVars
    BY <1>13, EnvironmentKeepsConsoleInv DEF consoleVars, vars
<1> QED
    BY <1>2, <1>3, <1>4, <1>5, <1>6, <1>7, <1>8, <1>9, <1>10, <1>11, <1>12, <1>13
    DEF ConsoleNext, App

\* The inductive invariant of the page.
THEOREM ConsoleInvariant == ConsoleSpec => []ConsoleInv
<1> QED
    BY InitEstablishesConsoleInv, StepKeepsConsoleInv, PTL DEF ConsoleSpec

\* Every value the page keeps has its type, calls are told apart by their
\* number, and no number is above the latest.
THEOREM ConsoleTyping == ConsoleSpec => []ConsoleTypeOK
<1>1. ConsoleInv => ConsoleTypeOK
    BY DEF ConsoleInv, ConsoleTypeOK, SubgraphInv, TableInv, TableTyping, LiveInv, UiTyping,
           LiveTyping
<1> QED
    BY <1>1, ConsoleInvariant, PTL

\* App.jsx:59-81, however many calls overlap: the table is empty or one answer
\* of one reader for one setting, of a height the chain has really had.
THEOREM Snapshot == ConsoleSpec => []TableIsASnapshot
<1>1. ConsoleInv => TableIsASnapshot
    BY DEF ConsoleInv, TableInv
<1> QED
    BY <1>1, ConsoleInvariant, PTL

\* App.jsx:88-114, however often the page subscribes anew: the live counter is
\* the number of different events counted.
THEOREM CountedOnce == ConsoleSpec => []EventsAreCountedOnce
<1>1. ConsoleInv => EventsAreCountedOnce
    BY DEF ConsoleInv, LiveInv, CountInv
<1> QED
    BY <1>1, ConsoleInvariant, PTL

\* App.jsx:59-81: the page never says it is reading when it is not.
THEOREM Reading == ConsoleSpec => []LoadingMeansReading
<1>1. ConsoleInv => LoadingMeansReading
    BY DEF ConsoleInv, LoadingInv
<1> QED
    BY <1>1, ConsoleInvariant, PTL

-----------------------------------------------------------------------------
(* The page with its form: what the inductive invariants say.              *)

\* A table holds every event the subscription reported as new.
ShowsReported(table) ==
    \A e \in sub.seen :
        ~OldEvent(e) /\ e.block >= config.fromBlock =>
            \E i \in DOMAIN table : table[i].id = EntityId(e)

\* Only a subscription that listens has reported events, and they are logged.
SubInv ==
    /\ \A e \in sub.seen : e \in log /\ e.chain = config.rpcUrl /\ e.to = config.address
    /\ sub.phase # "on" => sub.seen = {}
    /\ sub.phase # "off" => readerId # "graph" /\ isAddress(config.address)

\* A new event makes a later call, so the answer of the latest one, on its way or
\* shown, holds what has been reported.
ReportedInv ==
    /\ \A call \in calls :
          call.id = issued /\ call.view = Selection /\ call.answered =>
              ShowsReported(call.rows)
    /\ LatestCallShowsReportedEvents
    /\ shown.id <= issued

SeenInv == SubInv /\ ReportedInv

FormTyping ==
    form \in [phase : {"idle", "signing", "waiting"},
              status : {"none", "pending", "ok", "error"},
              view : Views, calls : Seq(Call), sent : SUBSET Transaction]

\* The one event of a transaction that makes one call.
OneEvent(t) ==
    \E e \in log :
        /\ <<e.chain, e.to, e.key, e.value>> =
             <<t.chain, t.to, t.calls[1].key, t.calls[1].value>>
        /\ \A f \in log : f.hash = t.hash <=> f = e

Mined(t) == \E r \in receipts : r.hash = t.hash

\* What was sent is what was submitted, and waits in the pool or has been mined.
SentInv ==
    /\ \A t, u \in form.sent : t = u
    /\ form.phase # "idle" => isAddress(form.view.config.address)
    /\ form.phase = "signing" => Len(form.calls) = 1
    /\ \A t \in form.sent :
          /\ Len(form.calls) = 1 /\ t.calls = form.calls
          /\ t.to = form.view.config.address /\ Succeeds(t)
          /\ t \in pool \/ (Mined(t) /\ (RunsContract(t) => OneEvent(t)))
    /\ form.status = "ok" => \A t \in form.sent : Mined(t)

\* The write the form reports, and a table read with the settings cf that holds all
\* the events of a set it was asked for.
Own == {e \in log : Reported(e)}

ShowsAll(E, cf, table) ==
    \A e \in E :
        e.chain = cf.rpcUrl /\ e.to = cf.address /\ e.block >= cf.fromBlock =>
            \E i \in DOMAIN table : table[i].id = EntityId(e)

\* Reporting a write makes a later call, which is answered after the write was mined.
OwnInv ==
    form.status = "ok" =>
        /\ \A call \in calls :
              call.id = issued /\ call.answered /\ call.view.reader # "graph" =>
                  ShowsAll(Own, call.view.config, call.rows)
        /\ shown.id = issued /\ shown.id # 0 /\ shown.view.reader # "graph" =>
              ShowsAll(Own, shown.view.config, rows)

WriteInv == ConsoleInv /\ SeenInv /\ FormTyping /\ SentInv /\ OwnInv

-----------------------------------------------------------------------------
(* What the steps of the page's table do.                                   *)

LEMMA EntityIdsStay == \A e : EntityId(e)' = EntityId(e)
BY DEF EntityId

\* Neither the latest call nor the table comes from before a refresh.
LEMMA RefreshIsTheLatest ==
    ASSUME TableTyping, shown.id <= issued, NEW view \in Views, refresh(view)
    PROVE  /\ shown'.id <= issued' /\ issued <= issued' /\ issued' \in Nat
           /\ \/ shown'.id = 0 /\ UNCHANGED <<calls, issued>>
              \/ /\ issued' # issued /\ shown'.id # issued'
                 /\ \A call \in calls' : call.id = issued' => ~call.answered
           /\ view.reader = "graph" \/ isAddress(view.config.address) => issued' # issued
<1>1. issued \in Nat /\ shown.id \in Nat
    BY DEF TableTyping
<1>2. CASE Refuse(view)
    <2>1. /\ shown'.id = 0 /\ UNCHANGED <<calls, issued>>
          /\ ~(view.reader = "graph" \/ isAddress(view.config.address))
        BY <1>2 DEF Refuse
    <2> QED
        BY <1>1, <2>1
<1>3. CASE Request(view)
    <2> DEFINE new == [id |-> issued', view |-> view, answered |-> FALSE, rows |-> <<>>]
    <2>1. issued' = issued + 1 /\ calls' = calls \cup {new} /\ UNCHANGED shown
        BY <1>3 DEF Request
    <2>2. ~new.answered
        OBVIOUS
    <2> HIDE DEF new
    <2>3. \A call \in calls : call.id \in Nat /\ call.id <= issued
        BY DEF TableTyping, RefreshCall
    <2>4. \A call \in calls' : call.id = issued' => ~call.answered
        BY <1>1, <2>1, <2>2, <2>3
    <2> QED
        BY <1>1, <2>1, <2>4
<1> QED
    BY <1>2, <1>3 DEF refresh

\* Whatever a refresh does, what it leaves answered or shown holds what it has to.
LEMMA RefreshKeepsReportedInv ==
    ASSUME TableTyping, ReportedInv, NEW view \in Views, refresh(view),
           \/ UNCHANGED <<uiVars, sub>>
           \/ sub'.seen = {}
           \/ issued' # issued
    PROVE  ReportedInv'
<1>1. /\ shown'.id <= issued' /\ issued <= issued' /\ issued' \in Nat
      /\ \/ shown'.id = 0 /\ UNCHANGED <<calls, issued>>
         \/ /\ issued' # issued /\ shown'.id # issued'
            /\ \A call \in calls' : call.id = issued' => ~call.answered
    BY RefreshIsTheLatest DEF ReportedInv
<1>2. CASE sub'.seen = {}
    BY <1>1, <1>2 DEF ReportedInv, ShowsReported, LatestCallShowsReportedEvents
<1>3. CASE issued' # issued
    BY <1>1, <1>3 DEF ReportedInv, LatestCallShowsReportedEvents
<1>4. CASE issued' = issued /\ UNCHANGED <<uiVars, sub>>
    BY <1>1, <1>4
    DEF ReportedInv, ShowsReported, LatestCallShowsReportedEvents, Selection, OldEvent,
        EntityId, uiVars
<1> QED
    BY <1>2, <1>3, <1>4

\* Steps of the chains and the subgraph, and those of the subscription that report
\* nothing new.
LEMMA QuietStepKeepsReportedInv ==
    ASSUME ReportedInv, UNCHANGED <<tableVars, config, readerId>>,
           \/ sub'.seen = {}
           \/ /\ sub'.startBlock = sub.startBlock
              /\ \A e \in sub'.seen : e \in sub.seen \/ OldEvent(e)
    PROVE  ReportedInv'
<1>1. CASE sub'.seen = {}
    BY <1>1 DEF ReportedInv, ShowsReported, LatestCallShowsReportedEvents, tableVars
<1>2. CASE /\ sub'.startBlock = sub.startBlock
           /\ \A e \in sub'.seen : e \in sub.seen \/ OldEvent(e)
    <2>1. \A table : ShowsReported(table) => ShowsReported(table)'
        BY <1>2 DEF ShowsReported, OldEvent, EntityId
    <2>2. UNCHANGED <<calls, issued, shown, rows, Selection>>
        BY DEF tableVars, Selection
    <2> QED
        BY <2>1, <2>2 DEF ReportedInv, LatestCallShowsReportedEvents, ShowsReported
<1> QED
    BY <1>1, <1>2

LEMMA SubscriptionFields ==
    ASSUME LiveInv
    PROVE  \A s : /\ [sub EXCEPT !.seen = s].seen = s
                  /\ [sub EXCEPT !.seen = s].startBlock = sub.startBlock
                  /\ [sub EXCEPT !.seen = s].phase = sub.phase
BY DEF LiveInv, LiveTyping, Subscription

LEMMA SubscribeSeesNothing ==
    ASSUME NEW view
    PROVE  /\ Subscribe(view).seen = {} /\ NotSubscribed.seen = {}
           /\ NotSubscribed.phase = "off"
           /\ Subscribe(view).phase # "on"
           /\ Subscribe(view).phase # "off" =>
                 isAddress(view.config.address) /\ view.reader # "graph"
BY DEF Subscribe, NotSubscribed

-----------------------------------------------------------------------------
(* The steps of the console.                                                *)

\* What the steps of other components leave alone.
LEMMA OthersKeepSeenInv ==
    ASSUME SeenInv, log \subseteq log', UNCHANGED <<tableVars, config, readerId, sub>>
    PROVE  SeenInv'
<1>1. SubInv'
    BY DEF SeenInv, SubInv
<1>2. ReportedInv'
    BY QuietStepKeepsReportedInv DEF SeenInv
<1> QED
    BY <1>1, <1>2 DEF SeenInv

LEMMA RefreshKeepsSeenInv ==
    ASSUME TableTyping, SeenInv, NEW view \in Views, refresh(view),
           UNCHANGED <<log, uiVars, sub>>
    PROVE  SeenInv'
<1>1. SubInv'
    BY DEF SeenInv, SubInv, uiVars
<1>2. ReportedInv'
    BY RefreshKeepsReportedInv DEF SeenInv
<1> QED
    BY <1>1, <1>2 DEF SeenInv

LEMMA ReselectKeepsSeenInv ==
    ASSUME TableTyping, SeenInv, NEW view \in Views, Reselect(view)
    PROVE  SeenInv'
<1>1. /\ sub' = Subscribe(view) /\ readerId' = view.reader /\ config' = view.config
      /\ refresh(view)
    BY DEF Reselect
<1>2. SubInv'
    BY <1>1, SubscribeSeesNothing DEF SubInv
<1>3. ReportedInv'
    BY <1>1, SubscribeSeesNothing, RefreshKeepsReportedInv DEF SeenInv
<1> QED
    BY <1>2, <1>3 DEF SeenInv

\* The node that answers the selected reader has logged what was reported.
LEMMA AnswerKeepsSeenInv ==
    ASSUME ConsoleInv, SeenInv, NEW call \in calls, Answer(call)
    PROVE  SeenInv'
<1>1. PICK table \in READERS(call.view, AnsweredAt(call.view)) :
         calls' = (calls \ {call}) \cup {[call EXCEPT !.answered = TRUE, !.rows = table]}
    BY DEF Answer
<1> DEFINE new == [call EXCEPT !.answered = TRUE, !.rows = table]
<1>2. call \in RefreshCall /\ call.view \in Views
    BY DEF ConsoleInv, TableInv, TableTyping, RefreshCall
<1>3. new.id = call.id /\ new.view = call.view /\ new.rows = table
    BY <1>2 DEF RefreshCall
<1> HIDE DEF new
<1>4. UNCHANGED <<log, config, readerId, sub, issued, shown, rows>>
    BY DEF Answer, chainVars, uiVars, liveVars
<1>5. ASSUME call.view = Selection
      PROVE  ShowsReported(table)
    <2> SUFFICES ASSUME NEW e \in sub.seen, e.block >= config.fromBlock
                 PROVE  \E i \in DOMAIN table : table[i].id = EntityId(e)
        BY DEF ShowsReported
    <2>1. /\ e \in log /\ e.chain = config.rpcUrl /\ e.to = config.address
          /\ readerId # "graph"
        BY DEF SeenInv, SubInv
    <2>2. /\ config \in Configs
          /\ call.view.reader = readerId /\ call.view.config = config
          /\ readerId \in {"rpc", "ethers"}
        BY <1>5, <2>1 DEF ConsoleInv, LiveInv, UiTyping, Selection, ReaderIds
    <2>3. table \in readViaRpc(config, height[config.rpcUrl])
        BY <2>2 DEF READERS, AnsweredAt, readViaRpc, readViaEthers
    <2> QED
        BY <2>1, <2>2, <2>3, NodeTablesListAll DEF ConsoleInv
<1>6. SubInv'
    BY <1>4 DEF SeenInv, SubInv
<1>7. ReportedInv'
    <2>1. \A t : ShowsReported(t)' <=> ShowsReported(t)
        BY <1>4 DEF ShowsReported, OldEvent, EntityId
    <2>2. Selection' = Selection
        BY <1>4 DEF Selection
    <2>3. calls' = (calls \ {call}) \cup {new}
        BY <1>1 DEF new
    <2>4. \A c \in calls' : c.id = issued /\ c.view = Selection /\ c.answered =>
             ShowsReported(c.rows)
        BY <1>3, <1>5, <2>3 DEF SeenInv, ReportedInv
    <2>5. LatestCallShowsReportedEvents'
        BY <1>4, <2>2
        DEF SeenInv, ReportedInv, LatestCallShowsReportedEvents, OldEvent, EntityId
    <2> QED
        BY <1>4, <2>1, <2>2, <2>4, <2>5 DEF SeenInv, ReportedInv, ShowsReported
<1> QED
    BY <1>6, <1>7 DEF SeenInv

LEMMA SettleKeepsSeenInv ==
    ASSUME ConsoleInv, SeenInv, NEW call \in calls, Deliver(call) \/ Fail(call)
    PROVE  SeenInv'
<1>1. UNCHANGED <<log, config, readerId, sub, issued>> /\ calls' \subseteq calls
    BY DEF Deliver, Fail, chainVars, uiVars, liveVars
<1>2. /\ \A t : ShowsReported(t)' <=> ShowsReported(t)
      /\ Selection' = Selection
    BY <1>1 DEF ShowsReported, OldEvent, EntityId, Selection
<1>3. call \in RefreshCall /\ call.id <= issued /\ issued \in Nat
    BY DEF ConsoleInv, TableInv, TableTyping
<1>4. SubInv'
    BY <1>1 DEF SeenInv, SubInv
<1>5. shown'.id = issued' /\ shown'.id # 0 /\ shown'.view = Selection' =>
          ShowsReported(rows')
    <2>1. CASE Deliver(call)
        BY <1>1, <1>2, <2>1 DEF Deliver, SeenInv, ReportedInv
    <2>2. CASE Fail(call)
        BY <2>2 DEF Fail
    <2> QED
        BY <2>1, <2>2
<1>6. shown'.id <= issued'
    BY <1>1, <1>3 DEF Deliver, Fail
<1>7. ReportedInv'
    BY <1>1, <1>2, <1>5, <1>6
    DEF SeenInv, ReportedInv, LatestCallShowsReportedEvents, ShowsReported
<1> QED
    BY <1>4, <1>7 DEF SeenInv

\* A subscription on its way has reported nothing.
LEMMA SubscribingKeepsSeenInv ==
    ASSUME ConsoleInv, SeenInv, Locate \/ LocateFails \/ Listen
    PROVE  SeenInv'
<1>1. UNCHANGED <<tableVars, config, readerId, log>>
    BY DEF Locate, LocateFails, Listen, uiVars, chainVars
<1>2. sub.phase # "on" /\ sub.phase # "off" /\ sub.seen = {}
    BY DEF Locate, LocateFails, Listen, SeenInv, SubInv
<1>3. sub'.seen = {}
    <2>1. sub \in Subscription
        BY DEF ConsoleInv, LiveInv, LiveTyping
    <2>2. CASE Locate \/ Listen
        BY <1>2, <2>1, <2>2 DEF Locate, Listen, Subscription
    <2>3. CASE LocateFails
        BY <2>3, SubscribeSeesNothing DEF LocateFails
    <2> QED
        BY <2>2, <2>3
<1>4. SubInv'
    BY <1>1, <1>2, <1>3 DEF SeenInv, SubInv
<1>5. ReportedInv'
    BY <1>1, <1>3, QuietStepKeepsReportedInv DEF SeenInv
<1> QED
    BY <1>4, <1>5 DEF SeenInv

\* A new event is reported with a call of its own.
LEMMA ListenerKeepsSeenInv ==
    ASSUME ConsoleInv, SeenInv, NEW event \in Unseen, listener(event)
    PROVE  SeenInv'
<1>1. UNCHANGED <<log, config, readerId>> /\ sub' = [sub EXCEPT !.seen = @ \cup {event}]
    BY DEF listener, chainVars, uiVars
<1>2. /\ sub'.seen = sub.seen \cup {event} /\ sub'.startBlock = sub.startBlock
      /\ sub'.phase = sub.phase /\ sub.phase = "on"
    BY <1>1, SubscriptionFields DEF ConsoleInv, listener
<1>3. event \in log /\ event.chain = config.rpcUrl /\ event.to = config.address
    BY DEF Unseen
<1>4. SubInv'
    BY <1>1, <1>2, <1>3 DEF SeenInv, SubInv
<1>5. CASE OldEvent(event)
    <2>1. UNCHANGED tableVars
        BY <1>5 DEF listener
    <2> QED
        BY <1>1, <1>2, <1>4, <1>5, <2>1, QuietStepKeepsReportedInv DEF SeenInv
<1>6. CASE ~OldEvent(event)
    <2>1. refresh(Selection) /\ Selection \in Views
        BY <1>6, SelectionIsAView DEF listener, ConsoleInv, LiveInv
    <2>2. isAddress(Selection.config.address)
        BY <1>2 DEF SeenInv, SubInv, Selection
    <2>3. TableTyping /\ shown.id <= issued
        BY DEF ConsoleInv, TableInv, SeenInv, ReportedInv
    <2>4. issued' # issued
        BY <2>1, <2>2, <2>3, RefreshIsTheLatest
    <2> QED
        BY <1>4, <2>1, <2>3, <2>4, RefreshKeepsReportedInv DEF SeenInv
<1> QED
    BY <1>5, <1>6

LEMMA StepKeepsSeenInv ==
    ASSUME ConsoleInv, SeenInv, [ConsoleNext]_consoleVars
    PROVE  SeenInv'
<1>1. Selection \in Views /\ TableTyping
    BY SelectionIsAView DEF ConsoleInv, LiveInv, TableInv
<1>2. CASE Environment
    <2>1. log \subseteq log'
        BY <1>2, ThePastIsKept DEF Environment, ConsoleInv
    <2> QED
        BY <1>2, <2>1, OthersKeepSeenInv DEF Environment, appVars, uiVars, liveVars
<1>3. ASSUME NEW id \in ReaderIds, SelectReader(id) PROVE SeenInv'
    <2>1. [Selection EXCEPT !.reader = id] \in Views
        BY <1>1 DEF Views
    <2> QED
        BY <1>1, <1>3, <2>1, ReselectKeepsSeenInv DEF SelectReader
<1>4. ASSUME NEW cf \in Configs, update(cf) PROVE SeenInv'
    <2>1. [Selection EXCEPT !.config = cf] \in Views
        BY <1>1 DEF Views
    <2> QED
        BY <1>1, <1>4, <2>1, ReselectKeepsSeenInv DEF update
<1>5. CASE ClickRefresh
    <2>1. refresh(Selection) /\ UNCHANGED <<log, uiVars, sub>>
        BY <1>5 DEF ClickRefresh, chainVars, liveVars
    <2> QED
        BY <1>1, <2>1, RefreshKeepsSeenInv
<1>6. ASSUME NEW call \in calls, Answer(call) PROVE SeenInv'
    BY <1>6, AnswerKeepsSeenInv
<1>7. ASSUME NEW call \in calls, Deliver(call) \/ Fail(call) PROVE SeenInv'
    BY <1>7, SettleKeepsSeenInv
<1>8. CASE Locate \/ LocateFails \/ Listen
    BY <1>8, SubscribingKeepsSeenInv
<1>9. ASSUME NEW event \in Unseen, listener(event) PROVE SeenInv'
    BY <1>9, ListenerKeepsSeenInv
<1>10. CASE UNCHANGED consoleVars
    BY <1>10, OthersKeepSeenInv DEF consoleVars, chainVars, appVars, uiVars, liveVars
<1> QED
    BY <1>2, <1>3, <1>4, <1>5, <1>6, <1>7, <1>8, <1>9, <1>10 DEF ConsoleNext, App

LEMMA InitEstablishesSeenInv == ConsoleInit => SeenInv
<1> SUFFICES ASSUME ConsoleInit PROVE SeenInv
    OBVIOUS
<1>1. sub = Subscribe(Selection) /\ shown.id = 0
    BY DEF ConsoleInit, InitApp, Nothing
<1>2. SubInv
    BY <1>1, SubscribeSeesNothing DEF SubInv, Selection
<1>3. ReportedInv
    <2>1. issued \in Nat
        BY InitEstablishesConsoleInv DEF ConsoleInv, TableInv, TableTyping
    <2>2. shown.id <= issued
        BY <1>1, <2>1
    <2> QED
        BY <1>1, <2>2, SubscribeSeesNothing
        DEF ReportedInv, ShowsReported, LatestCallShowsReportedEvents
<1> QED
    BY <1>2, <1>3 DEF SeenInv

\* If the table comes from the latest refresh that was sent, with the reader and the
\* settings now selected, it shows every event the subscription reported (App.jsx:
\* 59-114): a new event makes a call of its own, and the answer to it is of a chain
\* that has logged the event.
THEOREM ReportedEventsAreShown == ConsoleSpec => []LatestCallShowsReportedEvents
<1>1. SeenInv => LatestCallShowsReportedEvents
    BY DEF SeenInv, ReportedInv
<1>2. ConsoleInv /\ SeenInv /\ [ConsoleNext]_consoleVars => SeenInv'
    BY StepKeepsSeenInv
<1> QED
    BY <1>1, <1>2, InitEstablishesSeenInv, ConsoleInvariant, PTL DEF ConsoleSpec

-----------------------------------------------------------------------------
(* The transaction of the form: one event, once it is mined.                *)

\* A hash that has its receipt gets no further event.
LEMMA ReceiptsAreFinal ==
    ASSUME SubgraphInv, [Next]_vars
    PROVE  /\ receipts \subseteq receipts'
           /\ \A e \in log' \ log, r \in receipts : r.hash # e.hash
<1>1. ASSUME NEW c \in Chains, MineBlock(c)
      PROVE  /\ receipts \subseteq receipts'
             /\ \A e \in log' \ log, r \in receipts : r.hash # e.hash
    <2>1. PICK T \in SUBSET {t \in pool : t.chain = c} :
              \E ix \in LogIndices(Emitting(T)) :
                  log' = log \cup Added(T, height[c] + 1, ix)
        BY <1>1 DEF MineBlock, Added
    <2>2. PICK ix \in LogIndices(Emitting(T)) : log' = log \cup Added(T, height[c] + 1, ix)
        BY <2>1
    <2>3. T \in SUBSET Transaction /\ T \subseteq pool
        BY DEF SubgraphInv, TypeOK, ChainTypeOK
    <2>4. \A e \in Added(T, height[c] + 1, ix) : \E t \in pool : e.hash = t.hash
        BY <2>3, EmittingCalls DEF Added, DataWritten
    <2>5. receipts \subseteq receipts'
        BY <1>1 DEF MineBlock
    <2> QED
        BY <2>2, <2>4, <2>5 DEF SubgraphInv, ChainInv, EachHashOnce
<1>2. ASSUME NEW t \in Transaction, Broadcast(t)
      PROVE  UNCHANGED <<receipts, log>>
    BY <1>2 DEF Broadcast
<1>3. CASE IndexBlock \/ UNCHANGED vars
    BY <1>3 DEF IndexBlock, vars, chainVars
<1> QED
    BY <1>1, <1>2, <1>3 DEF Next, NextChain

\* The block that takes a transaction of one call gives it its receipt and, where
\* an EventStore is, its only event.
LEMMA MiningEmitsOnce ==
    ASSUME SubgraphInv, NEW c \in Chains, MineBlock(c), NEW t \in pool, t \notin pool',
           Succeeds(t), t.calls \in Seq(Call), Len(t.calls) = 1
    PROVE  Mined(t)' /\ (RunsContract(t) => OneEvent(t)')
<1>1. PICK T \in SUBSET {u \in pool : u.chain = c} :
          /\ pool' = pool \ T
          /\ receipts' = receipts \cup
                {[hash |-> u.hash, chain |-> c, block |-> height[c] + 1,
                  ok |-> Succeeds(u)] : u \in T}
          /\ \E ix \in LogIndices(Emitting(T)) :
                log' = log \cup Added(T, height[c] + 1, ix)
    BY DEF MineBlock, Added
<1>2. PICK ix \in LogIndices(Emitting(T)) : log' = log \cup Added(T, height[c] + 1, ix)
    BY <1>1
<1>3. T \in SUBSET Transaction /\ T \subseteq pool /\ t \in T
    BY <1>1 DEF SubgraphInv, TypeOK, ChainTypeOK
<1>4. Mined(t)'
    <2> DEFINE r == [hash |-> t.hash, chain |-> c, block |-> height[c] + 1,
                     ok |-> Succeeds(t)]
    <2>1. r \in receipts' /\ r.hash = t.hash
        BY <1>1, <1>3
    <2> QED
        BY <2>1 DEF Mined
<1>5. ASSUME RunsContract(t)
      PROVE  OneEvent(t)'
    <2> DEFINE d == <<t, 1>>
               e == DataWritten(t, 1, height[c] + 1, ix[d])
    <2>1. DOMAIN t.calls = {1}
        OBVIOUS
    <2>2. d \in Emitting(T) /\ d[1] = t /\ d[2] = 1
        BY <1>3, <1>5, <2>1 DEF Emitting
    <2>3. e \in log'
        BY <1>2, <2>2 DEF Added
    <2>4. /\ e.hash = t.hash
          /\ <<e.chain, e.to, e.key, e.value>> =
               <<t.chain, t.to, t.calls[1].key, t.calls[1].value>>
        BY DEF DataWritten
    <2>5. ASSUME NEW f \in log', f.hash = t.hash
          PROVE  f = e
        <3>1. f \notin log
            BY <2>5 DEF SubgraphInv, ChainInv, EachHashOnce, EventsHaveReceipts
        <3>2. PICK g \in Emitting(T) : f = DataWritten(g[1], g[2], height[c] + 1, ix[g])
            BY <1>2, <3>1 DEF Added
        <3>3. g[1] \in T /\ g[2] \in DOMAIN g[1].calls /\ g = <<g[1], g[2]>>
            BY <1>3, EmittingCalls
        <3>4. g[1].hash = t.hash
            BY <2>5, <3>2 DEF DataWritten
        <3>5. g[1] = t
            BY <1>3, <3>3, <3>4 DEF SubgraphInv, ChainInv, EachHashOnce
        <3>6. g = d
            BY <2>1, <3>3, <3>5
        <3> QED
            BY <3>2, <3>5, <3>6
    <2> HIDE DEF e, d
    <2> QED
        BY <2>3, <2>4, <2>5 DEF OneEvent
<1> QED
    BY <1>4, <1>5

\* Steps of the chains, of the subgraph and of the page leave what was sent in the
\* pool, or mined with its event.
LEMMA WorldKeepsSentInv ==
    ASSUME SubgraphInv, [Next]_vars, FormTyping, SentInv, form' = form
    PROVE  SentInv'
<1>1. /\ receipts \subseteq receipts'
      /\ \A e \in log' \ log, r \in receipts : r.hash # e.hash
      /\ log \subseteq log'
    BY ReceiptsAreFinal, ThePastIsKept
<1>2. \A t : Mined(t) => Mined(t)'
    BY <1>1 DEF Mined
<1>3. ASSUME NEW t \in form.sent
      PROVE  t \in pool' \/ (Mined(t)' /\ (RunsContract(t) => OneEvent(t)'))
    <2>1. CASE t \in pool
        <3>1. t.calls \in Seq(Call) /\ Len(t.calls) = 1 /\ Succeeds(t)
            BY DEF SentInv, FormTyping
        <3>2. ASSUME NEW c \in Chains, MineBlock(c)
              PROVE  t \in pool' \/ (Mined(t)' /\ (RunsContract(t) => OneEvent(t)'))
            BY <2>1, <3>1, <3>2, MiningEmitsOnce
        <3>3. ASSUME NEW u \in Transaction, Broadcast(u)
              PROVE  t \in pool'
            BY <2>1, <3>3 DEF Broadcast
        <3>4. CASE IndexBlock \/ UNCHANGED vars
            BY <2>1, <3>4 DEF IndexBlock, vars, chainVars
        <3> QED
            BY <3>2, <3>3, <3>4 DEF Next, NextChain
    <2>2. CASE t \notin pool
        <3>1. Mined(t) /\ (RunsContract(t) => OneEvent(t))
            BY <2>2 DEF SentInv
        <3>2. \A f \in log' : f.hash = t.hash => f \in log
            BY <1>1, <3>1 DEF Mined
        <3>3. OneEvent(t) => OneEvent(t)'
            BY <1>1, <3>2 DEF OneEvent
        <3> QED
            BY <1>2, <3>1, <3>3
    <2> QED
        BY <2>1, <2>2
<1>4. \A t : RunsContract(t)' <=> RunsContract(t)
    BY DEF RunsContract
<1>5. \A t : Succeeds(t)' <=> Succeeds(t)
    BY DEF Succeeds, RunsContract, writeData
<1> QED
    BY <1>2, <1>3, <1>4, <1>5 DEF SentInv, isAddress

-----------------------------------------------------------------------------
(* The table and the write of the form.                                     *)

\* Events that come later are not of the write that is reported.
LEMMA WorldKeepsOwnInv ==
    ASSUME SubgraphInv, [Next]_vars, SentInv, OwnInv, form' = form, UNCHANGED tableVars
    PROVE  OwnInv'
<1>1. \A e \in log' \ log, r \in receipts : r.hash # e.hash
    BY ReceiptsAreFinal
<1>2. CASE form.status = "ok"
    <2>1. \A e \in log' \ log : ~Reported(e)
        BY <1>1, <1>2 DEF SentInv, Mined, Reported
    <2>2. Own' = Own
        BY <2>1, ThePastIsKept DEF Own, Reported
    <2>3. UNCHANGED <<calls, issued, shown, rows>>
        BY DEF tableVars
    <2> QED
        BY <1>2, <2>2, <2>3 DEF OwnInv
<1>3. CASE form.status # "ok"
    BY <1>3 DEF OwnInv
<1> QED
    BY <1>2, <1>3

LEMMA RefreshKeepsOwnInv ==
    ASSUME TableTyping, ReportedInv, NEW view \in Views, refresh(view), log' = log,
           \/ OwnInv /\ form' = form
           \/ view.reader = "graph" \/ isAddress(view.config.address)
    PROVE  OwnInv'
<1>1. /\ issued' \in Nat
      /\ \/ shown'.id = 0 /\ UNCHANGED <<calls, issued>>
         \/ /\ issued' # issued /\ shown'.id # issued'
            /\ \A call \in calls' : call.id = issued' => ~call.answered
      /\ view.reader = "graph" \/ isAddress(view.config.address) => issued' # issued
    BY RefreshIsTheLatest DEF ReportedInv
<1>2. CASE issued' # issued
    BY <1>1, <1>2 DEF OwnInv
<1>3. CASE issued' = issued
    <2>1. shown'.id = 0 /\ UNCHANGED <<calls, issued>> /\ OwnInv /\ form' = form
        BY <1>1, <1>3
    <2> QED
        BY <2>1 DEF OwnInv, Own, Reported
<1> QED
    BY <1>2, <1>3

LEMMA AnswerKeepsOwnInv ==
    ASSUME ConsoleInv, OwnInv, form' = form, NEW call \in calls, Answer(call)
    PROVE  OwnInv'
<1>1. PICK table \in READERS(call.view, AnsweredAt(call.view)) :
         calls' = (calls \ {call}) \cup {[call EXCEPT !.answered = TRUE, !.rows = table]}
    BY DEF Answer
<1> DEFINE new == [call EXCEPT !.answered = TRUE, !.rows = table]
<1>2. call \in RefreshCall /\ call.view \in Views
    BY DEF ConsoleInv, TableInv, TableTyping, RefreshCall
<1>3. new.id = call.id /\ new.view = call.view /\ new.rows = table
    BY <1>2 DEF RefreshCall
<1> HIDE DEF new
<1>4. UNCHANGED <<log, issued, shown, rows>>
    BY DEF Answer, chainVars
<1>5. ASSUME call.view.reader # "graph"
      PROVE  ShowsAll(Own, call.view.config, table)
    <2>1. call.view.config \in Configs /\ call.view.reader \in {"rpc", "ethers"}
        BY <1>2, <1>5, ViewTypes DEF ReaderIds
    <2>2. table \in readViaRpc(call.view.config, height[call.view.config.rpcUrl])
        BY <2>1 DEF READERS, AnsweredAt, readViaRpc, readViaEthers
    <2> QED
        BY <2>1, <2>2, NodeTablesListAll DEF Own, ShowsAll, ConsoleInv
<1>6. Own' = Own
    BY <1>4 DEF Own, Reported
<1>7. calls' = (calls \ {call}) \cup {new}
    BY <1>1 DEF new
<1>8. form.status = "ok" =>
          \A c \in calls' : c.id = issued /\ c.answered /\ c.view.reader # "graph" =>
              ShowsAll(Own, c.view.config, c.rows)
    BY <1>3, <1>5, <1>7 DEF OwnInv
<1> QED
    BY <1>4, <1>6, <1>8 DEF OwnInv

LEMMA SettleKeepsOwnInv ==
    ASSUME OwnInv, form' = form, NEW call \in calls, Deliver(call) \/ Fail(call)
    PROVE  OwnInv'
<1>1. UNCHANGED <<log, issued>> /\ calls' \subseteq calls
    BY DEF Deliver, Fail, chainVars
<1>2. Own' = Own
    BY <1>1 DEF Own, Reported
<1>3. form.status = "ok" /\ shown'.id = issued' /\ shown'.id # 0
            /\ shown'.view.reader # "graph" =>
          ShowsAll(Own, shown'.view.config, rows')
    <2>1. CASE Deliver(call)
        BY <1>1, <2>1 DEF Deliver, OwnInv
    <2>2. CASE Fail(call)
        BY <2>2 DEF Fail
    <2> QED
        BY <2>1, <2>2
<1> QED
    BY <1>1, <1>2, <1>3 DEF OwnInv

-----------------------------------------------------------------------------
(* The steps of the console beside the form.                                *)

LEMMA ConsoleStepKeepsSentInv ==
    ASSUME ConsoleInv, FormTyping, SentInv, [ConsoleNext]_consoleVars, form' = form
    PROVE  SentInv'
<1>1. [Next]_vars
    BY DEF ConsoleNext, Environment, App, SelectReader, update, Reselect, ClickRefresh, Answer,
           Deliver, Fail, Locate, LocateFails, Listen, listener, consoleVars, vars
<1> QED
    BY <1>1, WorldKeepsSentInv DEF ConsoleInv

LEMMA ConsoleStepKeepsOwnInv ==
    ASSUME ConsoleInv, SeenInv, SentInv, OwnInv, [ConsoleNext]_consoleVars, form' = form
    PROVE  OwnInv'
<1>1. Selection \in Views /\ TableTyping /\ ReportedInv
    BY SelectionIsAView DEF ConsoleInv, LiveInv, TableInv, SeenInv
<1>2. ASSUME [Next]_vars, UNCHANGED tableVars PROVE OwnInv'
    BY <1>2, WorldKeepsOwnInv DEF ConsoleInv
<1>3. ASSUME NEW view \in Views, Reselect(view) PROVE OwnInv'
    BY <1>1, <1>3, RefreshKeepsOwnInv DEF Reselect, chainVars
<1>4. ASSUME NEW id \in ReaderIds, SelectReader(id) PROVE OwnInv'
    <2>1. [Selection EXCEPT !.reader = id] \in Views
        BY <1>1 DEF Views
    <2> QED
        BY <1>3, <1>4, <2>1 DEF SelectReader
<1>5. ASSUME NEW cf \in Configs, update(cf) PROVE OwnInv'
    <2>1. [Selection EXCEPT !.config = cf] \in Views
        BY <1>1 DEF Views
    <2> QED
        BY <1>3, <1>5, <2>1 DEF update
<1>6. CASE ClickRefresh
    BY <1>1, <1>6, RefreshKeepsOwnInv DEF ClickRefresh, chainVars
<1>7. ASSUME NEW call \in calls, Answer(call) PROVE OwnInv'
    BY <1>7, AnswerKeepsOwnInv
<1>8. ASSUME NEW call \in calls, Deliver(call) \/ Fail(call) PROVE OwnInv'
    BY <1>8, SettleKeepsOwnInv
<1>9. CASE Environment
    BY <1>2, <1>9 DEF Environment, appVars
<1>10. CASE Locate \/ LocateFails \/ Listen
    BY <1>2, <1>10 DEF Locate, LocateFails, Listen, vars
<1>11. ASSUME NEW event \in Unseen, listener(event) PROVE OwnInv'
    <2>1. CASE OldEvent(event)
        BY <1>2, <1>11, <2>1 DEF listener, vars
    <2>2. CASE ~OldEvent(event)
        BY <1>1, <1>11, <2>2, RefreshKeepsOwnInv DEF listener, chainVars
    <2> QED
        BY <2>1, <2>2
<1>12. CASE UNCHANGED consoleVars
    BY <1>2, <1>12 DEF consoleVars, vars, appVars
<1> QED
    BY <1>4, <1>5, <1>6, <1>7, <1>8, <1>9, <1>10, <1>11, <1>12 DEF ConsoleNext, App

LEMMA ConsoleStepKeepsWriteInv ==
    ASSUME WriteInv, [ConsoleNext]_consoleVars, form' = form
    PROVE  WriteInv'
<1>1. ConsoleInv' /\ SeenInv'
    BY StepKeepsConsoleInv, StepKeepsSeenInv DEF WriteInv
<1>2. FormTyping'
    BY DEF WriteInv, FormTyping
<1>3. SentInv' /\ OwnInv'
    BY ConsoleStepKeepsSentInv, ConsoleStepKeepsOwnInv DEF WriteInv
<1> QED
    BY <1>1, <1>2, <1>3 DEF WriteInv

-----------------------------------------------------------------------------
(* The steps of the form.                                                   *)

\* Only a report by the form gives the table something to show.
LEMMA FormStepKeepsWriteInv ==
    ASSUME WriteInv, UNCHANGED consoleVars, FormTyping', SentInv', form'.status # "ok"
    PROVE  WriteInv'
<1>1. ConsoleInv' /\ SeenInv'
    BY StepKeepsConsoleInv, StepKeepsSeenInv DEF WriteInv
<1>2. OwnInv'
    BY DEF OwnInv
<1> QED
    BY <1>1, <1>2 DEF WriteInv

LEMMA SubmitKeepsWriteInv ==
    ASSUME WriteInv, NEW call \in Call, Submit(call)
    PROVE  WriteInv'
<1>1. /\ form' = [phase |-> "signing", status |-> "none", view |-> Selection,
                  calls |-> <<call>>, sent |-> {}]
      /\ isAddress(config.address) /\ UNCHANGED consoleVars
    BY DEF Submit, disabled
<1>2. Selection \in Views /\ Selection.config = config
    BY SelectionIsAView DEF WriteInv, ConsoleInv, LiveInv, Selection
<1>3. <<call>> \in Seq(Call) /\ Len(<<call>>) = 1
    OBVIOUS
<1>4. FormTyping'
    BY <1>1, <1>2, <1>3 DEF FormTyping
<1>5. SentInv'
    BY <1>1, <1>2, <1>3 DEF SentInv, isAddress
<1> QED
    BY <1>1, <1>4, <1>5, FormStepKeepsWriteInv

\* A transaction is sent for a call that was submitted.
LEMMA SignKeepsWriteInv ==
    ASSUME WriteInv, NEW t \in Transaction, Sign(t)
    PROVE  WriteInv'
<1>1. /\ form' = [form EXCEPT !.phase = "waiting", !.status = "pending", !.sent = {t}]
      /\ form.phase = "signing" /\ Succeeds(t)
      /\ t.to = form.view.config.address /\ t.calls = form.calls
      /\ t \in pool'
    BY DEF Sign, Broadcast
<1>2. form \in [phase : {"idle", "signing", "waiting"},
                status : {"none", "pending", "ok", "error"},
                view : Views, calls : Seq(Call), sent : SUBSET Transaction]
    BY DEF WriteInv, FormTyping
<1>3. FormTyping'
    BY <1>1, <1>2 DEF FormTyping
<1>4. /\ form'.phase = "waiting" /\ form'.status = "pending" /\ form'.sent = {t}
      /\ form'.view = form.view /\ form'.calls = form.calls
    BY <1>1, <1>2
<1>5. SentInv'
    <2>1. Len(form.calls) = 1 /\ isAddress(form.view.config.address)
        BY <1>1 DEF WriteInv, SentInv
    <2> QED
        BY <1>1, <1>4, <2>1 DEF SentInv, isAddress, Succeeds, RunsContract, writeData
<1>6. ConsoleInv' /\ SeenInv'
    <2>1. Environment
        BY DEF Sign, Environment, Next, NextChain
    <2> QED
        BY <2>1, StepKeepsConsoleInv, StepKeepsSeenInv DEF WriteInv, ConsoleNext
<1>7. OwnInv'
    BY <1>4 DEF OwnInv
<1> QED
    BY <1>3, <1>5, <1>6, <1>7 DEF WriteInv

\* The refresh of the report is the one of the rendering that was submitted: a
\* later call than any other, for settings that may not be the page's any more.
LEMMA ConfirmKeepsWriteInv ==
    ASSUME WriteInv, Confirm
    PROVE  WriteInv'
<1>1. /\ form' = [form EXCEPT !.phase = "idle", !.status = "ok"]
      /\ form.phase = "waiting" /\ \E t \in form.sent : Mined(t)
      /\ refresh(form.view)
      /\ WorldUnchanged /\ UNCHANGED <<uiVars, liveVars>>
    BY DEF Confirm, Mined, WorldUnchanged
<1>2. form \in [phase : {"idle", "signing", "waiting"},
                status : {"none", "pending", "ok", "error"},
                view : Views, calls : Seq(Call), sent : SUBSET Transaction]
    BY DEF WriteInv, FormTyping
<1>3. form.view \in Views /\ isAddress(form.view.config.address)
    BY <1>1, <1>2 DEF WriteInv, SentInv
<1>4. FormTyping'
    BY <1>1, <1>2 DEF FormTyping
<1>5. /\ form'.phase = "idle" /\ form'.status = "ok" /\ form'.sent = form.sent
      /\ form'.view = form.view /\ form'.calls = form.calls
    BY <1>1, <1>2
<1>6. SentInv'
    <2>1. \A t \in form.sent : Mined(t)
        BY <1>1 DEF WriteInv, SentInv
    <2>2. UNCHANGED <<pool, receipts, log>>
        BY <1>1 DEF WorldUnchanged, chainVars
    <2>3. \A t : (OneEvent(t) => OneEvent(t)') /\ (Mined(t) => Mined(t)')
        BY <2>2 DEF OneEvent, Mined
    <2>4. \A t : (Succeeds(t)' <=> Succeeds(t)) /\ (RunsContract(t)' <=> RunsContract(t))
        BY DEF Succeeds, RunsContract, writeData
    <2> QED
        BY <1>5, <2>1, <2>2, <2>3, <2>4 DEF WriteInv, SentInv
<1>7. ConsoleInv'
    BY <1>1, <1>3, RefreshKeepsTableInv, RefreshKeepsLoadingInv, CallStepKeepsConsoleInv
    DEF WriteInv, ConsoleInv
<1>8. TableTyping /\ ReportedInv /\ UNCHANGED <<log, sub>>
    BY <1>1 DEF WriteInv, ConsoleInv, TableInv, SeenInv, WorldUnchanged, chainVars, liveVars
<1>9. SeenInv'
    BY <1>1, <1>3, <1>8, RefreshKeepsSeenInv DEF WriteInv
<1>10. OwnInv'
    BY <1>1, <1>3, <1>8, RefreshKeepsOwnInv
<1> QED
    BY <1>4, <1>6, <1>7, <1>9, <1>10 DEF WriteInv

LEMMA CatchKeepsWriteInv ==
    ASSUME WriteInv, Catch
    PROVE  WriteInv'
<1>1. /\ form' = [form EXCEPT !.phase = "idle", !.status = "error", !.sent = {}]
      /\ UNCHANGED consoleVars
    BY DEF Catch
<1>2. form \in [phase : {"idle", "signing", "waiting"},
                status : {"none", "pending", "ok", "error"},
                view : Views, calls : Seq(Call), sent : SUBSET Transaction]
    BY DEF WriteInv, FormTyping
<1>3. FormTyping'
    BY <1>1, <1>2 DEF FormTyping
<1>4. form'.phase = "idle" /\ form'.status = "error" /\ form'.sent = {}
    BY <1>1, <1>2
<1>5. SentInv'
    BY <1>4 DEF SentInv
<1> QED
    BY <1>1, <1>3, <1>4, <1>5, FormStepKeepsWriteInv

LEMMA StepKeepsWriteInv == WriteInv /\ [WriteNext]_writeVars => WriteInv'
<1> SUFFICES ASSUME WriteInv, [WriteNext]_writeVars PROVE WriteInv'
    OBVIOUS
<1>1. ASSUME [ConsoleNext]_consoleVars, form' = form PROVE WriteInv'
    BY <1>1, ConsoleStepKeepsWriteInv
<1>2. CASE ConsoleNext /\ UNCHANGED formVars
    BY <1>1, <1>2 DEF formVars
<1>3. ASSUME NEW call \in Call, Submit(call) PROVE WriteInv'
    BY <1>3, SubmitKeepsWriteInv
<1>4. ASSUME NEW t \in Transaction, Sign(t) PROVE WriteInv'
    BY <1>4, SignKeepsWriteInv
<1>5. CASE Confirm
    BY <1>5, ConfirmKeepsWriteInv
<1>6. CASE Catch
    BY <1>6, CatchKeepsWriteInv
<1>7. ASSUME NEW c \in Chains, SwitchChain(c) PROVE WriteInv'
    BY <1>1, <1>7 DEF SwitchChain
<1>8. CASE UNCHANGED writeVars
    BY <1>1, <1>8 DEF writeVars, formVars
<1> QED
    BY <1>2, <1>3, <1>4, <1>5, <1>6, <1>7, <1>8 DEF WriteNext, WriteForm

LEMMA InitEstablishesWriteInv == WriteInit => WriteInv
<1> SUFFICES ASSUME WriteInit PROVE WriteInv
    OBVIOUS
<1>1. ConsoleInv /\ SeenInv
    BY InitEstablishesConsoleInv, InitEstablishesSeenInv DEF WriteInit
<1>2. form = [phase |-> "idle", status |-> "none", view |-> Selection,
              calls |-> <<>>, sent |-> {}]
    BY DEF WriteInit, InitForm
<1>3. Selection \in Views
    BY <1>1, SelectionIsAView DEF ConsoleInv, LiveInv
<1>4. FormTyping
    BY <1>2, <1>3 DEF FormTyping
<1>5. SentInv /\ OwnInv
    BY <1>2 DEF SentInv, OwnInv
<1> QED
    BY <1>1, <1>4, <1>5 DEF WriteInv

-----------------------------------------------------------------------------
(* What the page with its form promises.                                    *)

\* The inductive invariant of the page and its form.
THEOREM WriteInvariant == WriteSpec => []WriteInv
<1> QED
    BY InitEstablishesWriteInv, StepKeepsWriteInv, PTL DEF WriteSpec

\* WriteForm.jsx:33-56: a write that is reported as mined, to an address that holds
\* an EventStore on the wallet's chain, has emitted exactly one event, with the key
\* and the value that were submitted.
THEOREM ReportedWriteIsOneEvent == WriteSpec => []ConfirmedWriteIsOneEvent
<1>1. WriteInv => ConfirmedWriteIsOneEvent
    <2> SUFFICES ASSUME WriteInv, NEW t \in form.sent, form.status = "ok", RunsContract(t)
                 PROVE  \E e \in log :
                          /\ <<e.chain, e.to, e.key, e.value>> =
                               <<t.chain, form.view.config.address,
                                 form.calls[1].key, form.calls[1].value>>
                          /\ \A f \in log : Reported(f) <=> f = e
        BY DEF ConfirmedWriteIsOneEvent
    <2>1. Mined(t) /\ t \notin pool
        BY DEF WriteInv, SentInv, Mined, ConsoleInv, SubgraphInv, ChainInv, EachHashOnce
    <2>2. OneEvent(t) /\ t.calls = form.calls /\ t.to = form.view.config.address
        BY <2>1 DEF WriteInv, SentInv
    <2>3. \A f : Reported(f) <=> f.hash = t.hash
        BY DEF WriteInv, SentInv, Reported
    <2> QED
        BY <2>2, <2>3 DEF OneEvent
<1> QED
    BY <1>1, WriteInvariant, PTL

\* WriteForm.jsx:49 and App.jsx:59-81: after a report, the latest call that has been
\* answered by a node lists the write, whatever the settings are by then; only an
\* older answer that arrives late can hide it.
THEOREM ReportedWriteIsShown == WriteSpec => []OwnWriteIsShown
<1>1. WriteInv => OwnWriteIsShown
    <2> SUFFICES ASSUME WriteInv, form.status = "ok", readerId # "graph",
                        shown.id = issued, shown.id # 0, shown.view = Selection
                 PROVE  \A e \in log : Reported(e) /\ Listed(e) =>
                            \E i \in DOMAIN rows : rows[i].id = EntityId(e)
        BY DEF OwnWriteIsShown
    <2>1. shown.view.reader = readerId /\ shown.view.config = config
        BY DEF Selection
    <2>2. ShowsAll(Own, config, rows)
        BY <2>1 DEF WriteInv, OwnInv
    <2> QED
        BY <2>2 DEF ShowsAll, Own, Listed
<1> QED
    BY <1>1, WriteInvariant, PTL

\* What holds of the console by itself holds of it beside the form, whose reports
\* refresh the table with settings the page may have left.
ConsolePromises ==
    /\ TableIsASnapshot
    /\ EventsAreCountedOnce
    /\ LoadingMeansReading
    /\ LatestCallShowsReportedEvents

THEOREM ConsoleStaysTrue == WriteSpec => []ConsolePromises
<1>1. WriteInv => ConsolePromises
    BY DEF WriteInv, ConsoleInv, TableInv, LiveInv, CountInv, LoadingInv, SeenInv,
           ReportedInv, ConsolePromises
<1> QED
    BY <1>1, WriteInvariant, PTL

=============================================================================
