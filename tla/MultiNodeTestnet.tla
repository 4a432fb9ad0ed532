--------------------------- MODULE MultiNodeTestnet ---------------------------
(***************************************************************************)
(* `edud multi-node`: one directory per validator, each with its keys, a    *)
(* genesis transaction (gentx), a genesis file and its configuration.  The  *)
(* command is run again and again over the same output directory; a run may *)
(* fail or be killed between any two of its writes, and the next one starts *)
(* from whatever is on disk.                                                *)
(*                                                                          *)
(* A key is named by the run that generated it: node n's keys of run r are  *)
(* "r in the directory of n".  0 stands for a key that is not there.        *)
(***************************************************************************)
EXTENDS Integers, Sequences, FiniteSets

CONSTANTS
    MaxNodes,      \* nodes are numbered from 0 to MaxNodes - 1
    MaxRuns,       \* bound: how often the command is run
    StakeLists,    \* the values of --validators-stake-amount
    PortLists,     \* the values of --list-ports, << >> when it is empty
    NotANumber,    \* an entry of a stake list that does not parse
    Balance,       \* bond tokens of a genesis account, 500 power
    DefaultStake,  \* stake of a validator without an entry, 100 power
    NoPort,        \* "", the port of a node the list says nothing of
    NoState        \* appState == nil

ASSUME MultiNodeAssumption ==
    /\ MaxNodes \in Nat \ {0} /\ MaxRuns \in Nat
    /\ Balance \in Nat /\ DefaultStake \in Nat
    /\ NotANumber \notin Nat /\ NoPort \notin Int
    /\ StakeLists \subseteq Seq(Nat \cup {NotANumber})
    /\ PortLists \subseteq Seq(Nat)

Nodes == 0 .. MaxNodes - 1
Runs  == 1 .. MaxRuns

\* The flags of one run.
Args == [numValidators : 1 .. MaxNodes, stakes : StakeLists, ports : PortLists]

-----------------------------------------------------------------------------
(* Flags *)

\* An entry that does not parse is skipped without advancing the index.
validatorsStakesAmount(a) ==
    LET parses(x) == x # NotANumber IN SelectSeq(a.stakes, parses)

\* The stake of node n.
valTokens(a, n) ==
    LET amounts == validatorsStakesAmount(a)
    IN  IF n + 1 \in DOMAIN amounts THEN amounts[n + 1] ELSE DefaultStake

ports(a, n) ==
    IF a.ports = << >> THEN 26657 - 3 * n
    ELSE IF n + 1 \in DOMAIN a.ports THEN a.ports[n + 1] ELSE NoPort

\* Mutant: another offset than the other nodes are told.
p2pPortOneApart(n) == 26656 - n

\* The ports of node n besides the one it serves RPC on.
p2pPort(n)        == 26656 - 3 * n
proxyPort(n)      == 26658 - 3 * n
prometheusPort(n) == 26660 + n
grpcPort(n)       == 9090 - 2 * n
apiPort(n)        == 1317 - n

\* Mutant: the offset of the peer list is not that of the listener.
memoPortOfAnotherOffset(n) == 26656 - 2 * n

\* The port other nodes are told to find node n at.
memoPort(n) == 26656 - 3 * n

-----------------------------------------------------------------------------
(* What a node's directory holds *)

Account == [node : Nodes, run : Runs]

\* A gentx file, named after the node id that wrote it.  One that was copied
\* onto itself is empty: its account is 0 and it decodes to nothing.
Gentx == [node : Nodes, key : Runs, account : 0 .. MaxRuns,
          stake : {valTokens(a, n) : a \in Args, n \in Nodes}]

SameFile(g, h) == g.node = h.node /\ g.key = h.key

\* What initGenFiles writes has no gentxs and no time; at the end it has both.
\* Run 0: no file.
Genesis == [chain : 0 .. MaxRuns, time : 0 .. MaxRuns,
            accounts : SUBSET Account, gentxs : SUBSET Gentx]

NoGenesis == [chain |-> 0, time |-> 0, accounts |-> {}, gentxs |-> {}]

Ports == {ports(a, n) : a \in Args, n \in Nodes}

Peer == [node : Nodes, key : Runs, port : {memoPort(n) : n \in Nodes}]

\* config.toml; the peers tell the written one from the one that is missing.
Config == [peers : SUBSET Peer, rpc : Ports \cup {NoPort},
           p2p : {p2pPort(n) : n \in Nodes} \cup {NoPort}]

NoConfig == [peers |-> {}, rpc |-> NoPort, p2p |-> NoPort]

NodeDir == [key : 0 .. MaxRuns, account : 0 .. MaxRuns, gentxs : SUBSET Gentx,
            genesis : Genesis, config : Config]

NoDir == [key |-> 0, account |-> 0, gentxs |-> {}, genesis |-> NoGenesis,
          config |-> NoConfig]

VARIABLES
    dir,           \* [Nodes -> NodeDir], the output directory
    run,           \* number of runs started; names the run, its chain and time
    pc,            \* the step the command is at, "idle" between runs
    i,             \* the loop variable of that step
    args,          \* flags of the run
    nodeIDs,       \* [Nodes -> 0 .. MaxRuns], keys of the nodes, as loaded
    genAccounts,   \* accounts of the genesis to write
    gentxsFiles,   \* gentx files this run has written
    persistentPeers, \* peers of every node
    appState,      \* the canonical application state, set by the first node
    outcome        \* how the last run ended

memory == <<args, nodeIDs, genAccounts, gentxsFiles, persistentPeers, appState>>
vars   == <<dir, run, pc, i, memory, outcome>>

Steps    == {"idle", "files", "key", "gentx", "genesis", "copy", "collect",
             "canonical"}
Outcomes == {"none", "running", "ok", "removed", "refused", "failed"}

AppState == [accounts : SUBSET Account, gentxs : SUBSET Gentx]

\* Types; the loop never leaves the nodes.
MultiNodeTypeOK ==
    /\ dir \in [Nodes -> NodeDir]
    /\ run \in 0 .. MaxRuns /\ pc \in Steps /\ i \in Nodes
    /\ args \in Args /\ outcome \in Outcomes
    /\ nodeIDs \in [Nodes -> 0 .. MaxRuns]
    /\ genAccounts \subseteq Account /\ gentxsFiles \subseteq Gentx
    /\ persistentPeers \subseteq Peer
    /\ appState \in AppState \cup {NoState}

-----------------------------------------------------------------------------
(* A run *)

Fresh ==
    /\ nodeIDs' = [n \in Nodes |-> 0]
    /\ genAccounts' = {} /\ gentxsFiles' = {} /\ persistentPeers' = {}
    /\ appState' = NoState

Init ==
    /\ dir = [n \in Nodes |-> NoDir]
    /\ run = 0 /\ pc = "idle" /\ i = 0 /\ outcome = "none"
    /\ args \in Args
    /\ nodeIDs = [n \in Nodes |-> 0]
    /\ genAccounts = {} /\ gentxsFiles = {} /\ persistentPeers = {}
    /\ appState = NoState

\* The process is gone and its memory with it; args stays as the record of
\* the flags the last run had.
Ends(o) ==
    /\ pc' = "idle" /\ i' = 0 /\ outcome' = o
    /\ Fresh /\ UNCHANGED <<run, args>>

\* os.RemoveAll(args.outputDir)
RemoveAll == dir' = [n \in Nodes |-> NoDir]

\* Mutant: the loop runs once too often.
AdvancePastTheLast(next) ==
    IF i < args.numValidators
    THEN i' = i + 1 /\ UNCHANGED pc
    ELSE i' = 0 /\ pc' = next

\* The loop over the nodes of one step, and the step after it.
Advance(next) ==
    IF i + 1 < args.numValidators
    THEN i' = i + 1 /\ UNCHANGED pc
    ELSE i' = 0 /\ pc' = next

Start ==
    /\ pc = "idle" /\ run < MaxRuns
    /\ run' = run + 1 /\ args' \in Args
    /\ pc' = "files" /\ i' = 0 /\ outcome' = "running"
    /\ UNCHANGED <<dir, nodeIDs, genAccounts, gentxsFiles, persistentPeers, appState>>

\* InitializeNodeValidatorFiles loads the node key and the validator key the
\* directory has and generates those it lacks.
loadedKey(n) == IF dir[n].key = 0 THEN run ELSE dir[n].key

InitNodeFiles ==
    /\ pc = "files"
    /\ dir' = [dir EXCEPT ![i].key = loadedKey(i)]
    /\ nodeIDs' = [nodeIDs EXCEPT ![i] = loadedKey(i)]
    /\ persistentPeers' = persistentPeers \cup
           {[node |-> i, key |-> loadedKey(i), port |-> memoPort(i)]}
    /\ pc' = "key"
    /\ UNCHANGED <<run, i, args, genAccounts, gentxsFiles, appState, outcome>>

\* The account key is generated with overwrite: an earlier one is gone.
SaveCoinKey ==
    /\ pc = "key"
    /\ dir' = [dir EXCEPT ![i].account = run]
    /\ genAccounts' = genAccounts \cup {[node |-> i, run |-> run]}
    /\ pc' = "gentx"
    /\ UNCHANGED <<run, i, args, nodeIDs, gentxsFiles, persistentPeers, appState,
                   outcome>>

\* These two steps remove the whole output directory when they fail.
InitFails == pc \in {"files", "key"} /\ RemoveAll /\ Ends("removed")

\* Creating a file truncates the one of that name.
Written(files, g) == {h \in files : ~SameFile(h, g)} \cup {g}

WriteGentx ==
    /\ pc = "gentx"
    /\ LET g == [node |-> i, key |-> nodeIDs[i], account |-> run,
                 stake |-> valTokens(args, i)]
       IN  /\ gentxsFiles' = gentxsFiles \cup {g}
           /\ dir' = [dir EXCEPT ![i].gentxs = Written(@, g)]
    /\ IF i + 1 < args.numValidators
       THEN i' = i + 1 /\ pc' = "files"
       ELSE i' = 0 /\ pc' = "genesis"
    /\ UNCHANGED <<run, args, nodeIDs, genAccounts, persistentPeers, appState, outcome>>

\* initGenFiles: the same genesis, without validators, for every node.
InitGenFiles ==
    /\ pc = "genesis"
    /\ dir' = [dir EXCEPT ![i].genesis =
                 [chain |-> run, time |-> 0, accounts |-> genAccounts, gentxs |-> {}]]
    /\ Advance("copy")
    /\ UNCHANGED <<run, args, nodeIDs, genAccounts, gentxsFiles, persistentPeers,
                   appState, outcome>>

\* Mutant: no gentx counts as one of the directory's own.
isSubDirNever(g, n) == FALSE

isSubDir(g, n) == g.node = n

\* copyFile reads the source while it writes the destination: a file copied
\* onto itself is truncated before it is read.
copyFile(files, g, n) ==
    Written(files, IF g.node = n THEN [g EXCEPT !.account = 0] ELSE g)

\* The gentxs of directory n once those in `copied` have been copied to it.
Copied(n, copied) ==
    {h \in dir[n].gentxs : \A g \in copied : ~SameFile(g, h)}
    \cup UNION {copyFile({}, g, n) : g \in copied}

Foreign(n) == {g \in gentxsFiles : ~isSubDir(g, n)}

CopyGentxs ==
    /\ pc = "copy"
    /\ dir' = [dir EXCEPT ![i].gentxs = Copied(i, Foreign(i))]
    /\ Advance("collect")
    /\ UNCHANGED <<run, args, nodeIDs, genAccounts, gentxsFiles, persistentPeers,
                   appState, outcome>>

\* A copy fails, or the run is killed, after some of the files.
CopyFails ==
    /\ pc = "copy"
    /\ \E copied \in SUBSET Foreign(i) :
           dir' = [dir EXCEPT ![i].gentxs = Copied(i, copied)]
    /\ Ends("failed")

\* Mutant: a gentx of an account the genesis does not know is collected too.
CollectTxsOfAnyAccount(n) ==
    \A g \in dir[n].gentxs : g.account # 0 /\ g.stake <= Balance

\* Mutant: the balance need not cover the stake.
CollectTxsOfAnyStake(n) ==
    \A g \in dir[n].gentxs :
        /\ g.account # 0
        /\ [node |-> g.node, run |-> g.account] \in dir[n].genesis.accounts

\* What GenAppStateFromConfig checks: every gentx in the directory decodes,
\* its account has a genesis balance, and the balance covers the stake.
CollectTxs(n) ==
    \A g \in dir[n].gentxs :
        /\ g.account # 0
        /\ [node |-> g.node, run |-> g.account] \in dir[n].genesis.accounts
        /\ g.stake <= Balance

\* GenAppStateFromConfig also writes the genesis it collected, without a time.
CollectGenTxs ==
    /\ pc = "collect" /\ CollectTxs(i)
    /\ dir' = [dir EXCEPT ![i].genesis.gentxs = dir[i].gentxs]
    /\ pc' = "canonical"
    /\ UNCHANGED <<run, i, memory, outcome>>

\* Mutant: every node keeps the time at which it collected its own.
canonicalPerNode(n) ==
    [chain |-> run, time |-> run + n, accounts |-> dir[n].genesis.accounts,
     gentxs |-> dir[n].gentxs]

\* The genesis of node n: the state the first node collected, one time.
canonical(n) ==
    LET st == IF appState = NoState
              THEN [accounts |-> dir[n].genesis.accounts, gentxs |-> dir[n].genesis.gentxs]
              ELSE appState
    IN  [chain |-> run, time |-> run, accounts |-> st.accounts, gentxs |-> st.gentxs]

CollectGenFiles ==
    /\ pc = "canonical"
    /\ LET g == canonical(i)
           c == [peers |-> persistentPeers, rpc |-> ports(args, i), p2p |-> p2pPort(i)]
       IN  /\ dir' = [dir EXCEPT ![i].genesis = g, ![i].config = c]
           /\ IF i + 1 < args.numValidators
              THEN /\ appState' = [accounts |-> g.accounts, gentxs |-> g.gentxs]
                   /\ i' = i + 1 /\ pc' = "collect"
                   /\ UNCHANGED <<run, args, nodeIDs, genAccounts, gentxsFiles,
                                  persistentPeers, outcome>>
              ELSE Ends("ok")

CollectRefuses ==
    /\ pc = "collect" /\ ~CollectTxs(i)
    /\ Ends("refused") /\ UNCHANGED dir

\* Any other error returns, and a kill stops, with the files as they are.
Stops == pc # "idle" /\ Ends("failed") /\ UNCHANGED dir

Next ==
    \/ Start \/ InitNodeFiles \/ SaveCoinKey \/ InitFails \/ WriteGentx
    \/ InitGenFiles \/ CopyGentxs \/ CopyFails
    \/ CollectGenTxs \/ CollectGenFiles \/ CollectRefuses \/ Stops

Spec == Init /\ [][Next]_vars

-----------------------------------------------------------------------------
(* Properties *)

\* The nodes of the last run.
Members == 0 .. args.numValidators - 1

\* A run that reports success leaves one network, whatever earlier runs left
\* behind: every member has the same genesis, with the account each member
\* holds the key of and one gentx per member, signed by that account for the
\* validator key in that directory.
SuccessIsOneNetwork ==
    outcome = "ok" =>
        \A n \in Members :
            /\ dir[n].genesis = dir[0].genesis
            /\ dir[n].genesis.accounts =
                   {[node |-> m, run |-> dir[m].account] : m \in Members}
            /\ dir[n].genesis.gentxs =
                   {[node |-> m, key |-> dir[m].key, account |-> dir[m].account,
                     stake |-> valTokens(args, m)] : m \in Members}

\* At any time, however many runs were killed: two geneses of one run that
\* have validators hold the same state, though each node collects its own
\* ("they should not differ"), and those that are finished are the same file.
FinalGenesesAgree ==
    \A n, m \in Nodes :
        LET g == dir[n].genesis
            h == dir[m].genesis
        IN  g.gentxs # {} /\ h.gentxs # {} /\ g.chain = h.chain =>
                /\ g.accounts = h.accounts /\ g.gentxs = h.gentxs
                /\ g.time # 0 /\ h.time # 0 => g = h

\* No genesis ever holds the gentx of another run: its validators are funded
\* by its own accounts.
GenesisIsOfOneRun ==
    \A n \in Nodes : \A g \in dir[n].genesis.gentxs :
        /\ g.account = dir[n].genesis.chain
        /\ [node |-> g.node, run |-> g.account] \in dir[n].genesis.accounts
        /\ g.stake <= Balance

\* A run that meets no I/O error is refused in two cases only: a stake above
\* the balance of its account, or the gentx of a node this run does not have,
\* left by an earlier run with more validators.  Then every retry is refused.
RefusedForAReason ==
    outcome = "refused" =>
        \/ \E n \in Members : ~(valTokens(args, n) <= Balance)
        \/ \E n \in Members : \E g \in dir[n].gentxs : g.node \notin Members

\* After a success every member is told to find every member under its node id
\* and at the port it listens on.
PeersAreListening ==
    outcome = "ok" =>
        \A n \in Members :
            dir[n].config.peers =
                {[node |-> m, key |-> dir[m].key, port |-> dir[m].config.p2p] : m \in Members}

Listening(n) ==
    {dir[n].config.p2p, dir[n].config.rpc, proxyPort(n), prometheusPort(n),
     grpcPort(n), apiPort(n)}

\* With the default ports no two servers of the network share a port of the
\* machine they all run on.
PortsAreDistinct ==
    outcome = "ok" /\ args.ports = << >> =>
        \A n \in Members :
            /\ Cardinality(Listening(n)) = 6
            /\ \A m \in Members \ {n} : Listening(n) \cap Listening(m) = {}
=============================================================================
