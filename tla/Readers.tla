------------------------------ MODULE Readers -------------------------------
(***************************************************************************)
(* The three ways the console reads the events back (lib/contract.js), each *)
(* as the set of tables it may return when it is answered at height h of    *)
(* the chain, or of the index.  A table is a sequence of rows, in the order *)
(* it is displayed.                                                         *)
(***************************************************************************)
EXTENDS Subgraph

CONSTANTS
    Configs,       \* the connection settings the user may type
    First          \* the page size of the GraphQL query, 100 in the code

ASSUME ReadersAssumption ==
    /\ \A cf \in Configs : cf.rpcUrl \in Chains /\ cf.fromBlock \in Nat
    /\ First \in Nat \ {0}

ReaderIds == {"rpc", "ethers", "graph"}

\* What one refresh reads: a reader and the settings it is given.
Views == [reader : ReaderIds, config : Configs]

isAddress(address) == address \in Contracts

Row ==
    [id : Hashes \X Nat, key : Text, value : Text, blockNumber : Nat,
     transactionHash : Hashes]

\* Mutant: the log index is undefined, as when read by the name of ethers v5.
normalizeWithoutIndex(event, logIndex) ==
    [id |-> <<event.hash, 0>>, key |-> event.key, value |-> event.value,
     blockNumber |-> event.block, transactionHash |-> event.hash]

normalize(event, logIndex) ==
    [id |-> <<event.hash, logIndex>>, key |-> event.key, value |-> event.value,
     blockNumber |-> event.block, transactionHash |-> event.hash]

\* eth_getLogs over [fromBlock, h]
GetLogs(cf, h) ==
    {e \in log : /\ e.chain = cf.rpcUrl /\ e.to = cf.address
                 /\ e.block \in cf.fromBlock..h}

\* Mutant: oldest block first.
sortByBlockAsc(E) ==
    {s \in Injection(1..Cardinality(E), E) :
        \A i, j \in 1..Cardinality(E) :
            i < j => \/ s[i].block < s[j].block
                     \/ s[i].block = s[j].block /\ s[i].index < s[j].index}

\* The node lists the logs in block order; the sort is stable and compares the
\* block, then the timestamp, which all logs of one block share.
sortByBlockDesc(E) ==
    {s \in Injection(1..Cardinality(E), E) :
        \A i, j \in 1..Cardinality(E) :
            i < j => \/ s[i].block > s[j].block
                     \/ s[i].block = s[j].block /\ s[i].index < s[j].index}

Table(s) == [i \in DOMAIN s |-> normalize(s[i], s[i].index)]

readViaRpc(cf, h) == {Table(s) : s \in sortByBlockDesc(GetLogs(cf, h))}

\* contract.queryFilter asks the node for the same logs and decodes them.
readViaEthers(cf, h) == {Table(s) : s \in sortByBlockDesc(GetLogs(cf, h))}

\* The newest `First' entities, by timestamp; how graph-node breaks a tie does
\* not follow the order of the logs.
NewestFirst(E) ==
    LET n == IF Cardinality(E) < First THEN Cardinality(E) ELSE First
    IN  {s \in Injection(1..n, E) :
            /\ \A i, j \in 1..n : i < j => s[i].blockNumber >= s[j].blockNumber
            /\ \A e \in E \ Range(s), i \in 1..n : s[i].blockNumber >= e.blockNumber}

\* The query takes neither the address nor the first block of the settings,
\* and every row is normalized with log index 0.
readViaSubgraph(h) ==
    {[i \in DOMAIN s |-> [s[i] EXCEPT !.id = <<s[i].transactionHash, 0>>]] :
        s \in NewestFirst({n \in entities : n.blockNumber <= h})}

READERS(view, h) ==
    CASE view.reader = "rpc"    -> readViaRpc(view.config, h)
      [] view.reader = "ethers" -> readViaEthers(view.config, h)
      [] view.reader = "graph"  -> readViaSubgraph(h)

\* The height a reader that answers now answers for.
AnsweredAt(view) == IF view.reader = "graph" THEN indexed ELSE height[view.config.rpcUrl]

-----------------------------------------------------------------------------
\* No two rows of a table read from the node share the identity that React
\* keys them by, however many events a transaction emits.
NodeRowsHaveOwnKey ==
    \A cf \in Configs : \A table \in readViaRpc(cf, height[cf.rpcUrl]) :
        IsInjective([i \in DOMAIN table |-> table[i].id])

\* The settings under which the node and the subgraph are asked for the same
\* events.
SameEvents(cf) ==
    /\ cf.rpcUrl = GraphChain /\ cf.address = GraphAddress
    /\ cf.fromBlock = StartBlock

\* Up to row ids and the order within a block, the subgraph shows the events of
\* the blocks it has indexed as the node does: all of them where they fit on the
\* page, and otherwise a full page that leaves out no event newer than it shows.
GraphShowsTheSameEvents ==
    \A cf \in Configs : SameEvents(cf) =>
        LET shown(table) == {[row EXCEPT !.id = 0] : row \in Range(table)}
        IN  \A node \in readViaRpc(cf, indexed), graph \in readViaSubgraph(indexed) :
                LET missing == shown(node) \ shown(graph)
                IN  /\ shown(graph) \subseteq shown(node)
                    /\ Len(graph) = IF Len(node) < First THEN Len(node) ELSE First
                    /\ Len(node) <= First => missing = {}
                    /\ \A new \in shown(graph), old \in missing :
                          old.blockNumber <= new.blockNumber

\* Where every block holds one event, as on a local node that mines each
\* transaction of a person by itself, the three tables are the same, row ids
\* and order included (frontend/README.md promises it of the first two).
ThreeReadersAgree ==
    (\A e, f \in log : e.block = f.block /\ e.chain = f.chain => e = f) =>
        \A cf \in Configs :
            SameEvents(cf) /\ Cardinality(entities) <= First =>
                /\ readViaRpc(cf, indexed) = readViaEthers(cf, indexed)
                /\ readViaRpc(cf, indexed) = readViaSubgraph(indexed)

\* App.jsx:160, on the tabs: the same events, and the three readings should
\* agree.
TabsAgree ==
    \A cf \in Configs :
        SameEvents(cf) /\ Cardinality(entities) <= First =>
            readViaSubgraph(indexed) = readViaRpc(cf, indexed)
=============================================================================
