--------------------------- MODULE MultiNodeProofs ---------------------------
(***************************************************************************)
(* Proofs about the multi-node testnet generator, for any number of nodes,  *)
(* any number of runs and any flags.                                        *)
(***************************************************************************)
EXTENDS MultiNodeTestnet, FiniteSetTheorems, TLAPS

-----------------------------------------------------------------------------
(* What this run has done so far *)

InRun == pc # "idle"

\* The loop over the nodes that makes the keys and the gentxs is over.
Built == pc \in {"genesis", "copy", "collect", "canonical"}

Collecting == pc \in {"collect", "canonical"}

\* How many nodes have their keys, an account, a gentx of this run.
Keys     == IF Built THEN args.numValidators
            ELSE IF pc \in {"key", "gentx"} THEN i + 1 ELSE i
Accounts == IF Built THEN args.numValidators ELSE IF pc = "gentx" THEN i + 1 ELSE i
Signed   == IF Built THEN args.numValidators ELSE i

PeerOf(n)    == [node |-> n, key |-> dir[n].key, port |-> memoPort(n)]
AccountOf(n) == [node |-> n, run |-> run]
GentxOf(n)   == [node |-> n, key |-> dir[n].key, account |-> run,
                 stake |-> valTokens(args, n)]

Initial   == [chain |-> run, time |-> 0, accounts |-> genAccounts, gentxs |-> {}]
Collected == [chain |-> run, time |-> 0, accounts |-> genAccounts, gentxs |-> gentxsFiles]
Final     == [chain |-> run, time |-> run, accounts |-> genAccounts, gentxs |-> gentxsFiles]

-----------------------------------------------------------------------------
(* The inductive invariant *)

\* Where the command is.
Control ==
    /\ InRun <=> outcome = "running"
    /\ InRun => i < args.numValidators /\ run > 0
    /\ ~InRun => i = 0

\* The memory of the command is what the directories say.
Memory ==
    /\ \A n \in Nodes : n < Keys => nodeIDs[n] = dir[n].key /\ dir[n].key # 0
    /\ \A n \in Nodes : n < Accounts => dir[n].account = run
    /\ persistentPeers = {PeerOf(n) : n \in {m \in Nodes : m < Keys}}
    /\ genAccounts = {AccountOf(n) : n \in {m \in Nodes : m < Accounts}}
    /\ gentxsFiles = {GentxOf(n) : n \in {m \in Nodes : m < Signed}}

\* Every gentx on disk is of the key its node still has; one of this run is the
\* gentx this run has written for the node.
Gentxs ==
    \A n \in Nodes : \A g \in dir[n].gentxs :
        /\ g.account # 0 /\ g.account <= run
        /\ g.key = dir[g.node].key
        /\ InRun /\ g.account = run => g \in gentxsFiles
        /\ \A h \in dir[n].gentxs : SameFile(g, h) => g = h

\* Which gentxs of this run a directory has.
Copies ==
    \A n \in Nodes :
        /\ n < Signed => GentxOf(n) \in dir[n].gentxs
        /\ n < args.numValidators /\ (Collecting \/ (pc = "copy" /\ n < i)) =>
               gentxsFiles \subseteq dir[n].gentxs

\* Which genesis of this run a directory has.
Geneses ==
    \A n \in Nodes :
        /\ dir[n].genesis.chain <= run
        /\ InRun /\ dir[n].genesis.chain = run =>
              Built /\ dir[n].genesis \in {Initial, Collected, Final}
        /\ Collecting /\ n < args.numValidators =>
              dir[n].genesis = IF n < i THEN Final
                               ELSE IF n = i /\ pc = "canonical" THEN Collected ELSE Initial
        /\ pc = "copy" /\ n < args.numValidators => dir[n].genesis = Initial
        /\ pc = "genesis" /\ n < i => dir[n].genesis = Initial

Canonical ==
    /\ ~(Collecting /\ i > 0) => appState = NoState
    /\ Collecting /\ i > 0 => appState = [accounts |-> genAccounts, gentxs |-> gentxsFiles]

Configured ==
    \A n \in Nodes : Collecting /\ n < i =>
        dir[n].config.peers = persistentPeers /\ dir[n].config.p2p = p2pPort(n)

IInv ==
    /\ MultiNodeTypeOK /\ Control /\ Memory /\ Gentxs /\ Copies /\ Geneses
    /\ Canonical /\ Configured
    /\ SuccessIsOneNetwork /\ FinalGenesesAgree /\ GenesisIsOfOneRun
    /\ RefusedForAReason /\ PeersAreListening

-----------------------------------------------------------------------------
(* Lemmas *)

LEMMA Numbers ==
    ASSUME MultiNodeTypeOK
    PROVE  /\ 0 \in Nodes /\ Nodes \subseteq Nat
           /\ args.numValidators \in 1 .. MaxNodes
           /\ i \in Nat /\ run \in Nat
           /\ i + 1 < args.numValidators => i + 1 \in Nodes
  BY MultiNodeAssumption DEF MultiNodeTypeOK, Nodes, Args

\* Files copied into a directory that is none of theirs arrive as they are.
LEMMA CopiedFiles ==
    ASSUME NEW n \in Nodes, NEW copied \in SUBSET Foreign(n)
    PROVE  Copied(n, copied) =
               {h \in dir[n].gentxs : \A g \in copied : ~SameFile(g, h)} \cup copied
  <1>1. \A g \in copied : copyFile({}, g, n) = {g}
    BY DEF Foreign, isSubDir, copyFile, Written
  <1>2. UNION {copyFile({}, g, n) : g \in copied} = copied
    BY <1>1
  <1>. QED BY <1>2 DEF Copied

LEMMA InitIInv == Init => IInv
  <1>. SUFFICES ASSUME Init PROVE IInv
    OBVIOUS
  <1>0. 0 \in Nodes /\ 0 \in Nat /\ MaxRuns \in Nat
    BY MultiNodeAssumption DEF Nodes
  <1>1. MultiNodeTypeOK
    <2>1. NoDir \in NodeDir
      BY <1>0 DEF NoDir, NodeDir, NoGenesis, Genesis, NoConfig, Config
    <2>. QED BY <1>0, <2>1 DEF Init, MultiNodeTypeOK, Steps, Outcomes
  <1>2. \A n \in Nodes : dir[n] = NoDir /\ n >= 0
    BY <1>0 DEF Init, Nodes
  <1>3. Keys = 0 /\ Accounts = 0 /\ Signed = 0 /\ ~InRun /\ ~Built /\ ~Collecting
    BY DEF Init, Keys, Accounts, Signed, InRun, Built, Collecting
  <1>4. Control /\ Canonical
    BY <1>3 DEF Init, Control, Canonical, InRun
  <1>5. Memory
    BY <1>2, <1>3 DEF Init, Memory, Nodes
  <1>6. Gentxs /\ Copies /\ Geneses /\ Configured
    BY <1>2, <1>3 DEF Init, Gentxs, Copies, Geneses, Configured, NoDir, NoGenesis, Nodes
  <1>7. SuccessIsOneNetwork /\ FinalGenesesAgree /\ GenesisIsOfOneRun
        /\ RefusedForAReason /\ PeersAreListening
    BY <1>2 DEF Init, SuccessIsOneNetwork, FinalGenesesAgree, GenesisIsOfOneRun,
                RefusedForAReason, PeersAreListening, NoDir, NoGenesis
  <1>. QED BY <1>1, <1>4, <1>5, <1>6, <1>7 DEF IInv

-----------------------------------------------------------------------------
(* The end of a run *)

\* What the directories must satisfy for any later run.
Disk ==
    /\ dir \in [Nodes -> NodeDir]
    /\ \A n \in Nodes : \A g \in dir[n].gentxs :
          /\ g.account # 0 /\ g.account <= run
          /\ g.key = dir[g.node].key
          /\ \A h \in dir[n].gentxs : SameFile(g, h) => g = h
    /\ \A n \in Nodes : dir[n].genesis.chain <= run
    /\ FinalGenesesAgree /\ GenesisIsOfOneRun

LEMMA IInvDisk == IInv => Disk
  BY DEF IInv, Disk, MultiNodeTypeOK, Gentxs, Geneses

\* A run that ends leaves the invariant behind if it leaves the directories
\* right and its verdict is.
LEMMA EndsKeeps ==
    ASSUME IInv, NEW o \in Outcomes \ {"running"}, Ends(o), Disk',
           SuccessIsOneNetwork', RefusedForAReason', PeersAreListening'
    PROVE  IInv'
  <1>1. MultiNodeTypeOK'
    BY MultiNodeAssumption DEF IInv, MultiNodeTypeOK, Ends, Fresh, Disk, Steps, Nodes
  <1>2. Keys' = 0 /\ Accounts' = 0 /\ Signed' = 0 /\ ~InRun' /\ ~Built' /\ ~Collecting'
    BY DEF Ends, Keys, Accounts, Signed, InRun, Built, Collecting
  <1>3. Control' /\ Canonical'
    BY <1>2 DEF Ends, Fresh, Control, Canonical
  <1>4. Memory'
    <2>1. \A n \in Nodes : ~(n < 0)
      BY DEF Nodes
    <2>. QED BY <1>2, <2>1 DEF Ends, Fresh, Memory
  <1>5. Gentxs'
    BY <1>2 DEF Disk, Gentxs
  <1>6. Copies'
    <2>1. \A n \in Nodes : ~(n < 0)
      BY DEF Nodes
    <2>. QED BY <1>2, <2>1 DEF Copies, InRun
  <1>7. Geneses' /\ Configured'
    BY <1>2 DEF Disk, Geneses, Configured, Ends
  <1>. QED BY <1>1, <1>3, <1>4, <1>5, <1>6, <1>7 DEF IInv, Disk

-----------------------------------------------------------------------------
(* One lemma per step of a run *)

LEMMA StartKeeps == IInv /\ Start => IInv'
  <1>. SUFFICES ASSUME IInv, Start PROVE IInv'
    OBVIOUS
  <1>. USE DEF Start
  <1>0. /\ 0 \in Nodes /\ run \in Nat /\ run' = run + 1 /\ MaxRuns \in Nat
        /\ args'.numValidators \in 1 .. MaxNodes /\ MaxNodes \in Nat \ {0}
        /\ \A n \in Nodes : ~(n < 0)
    BY MultiNodeAssumption DEF IInv, MultiNodeTypeOK, Nodes, Args
  <1>1. MultiNodeTypeOK'
    BY <1>0 DEF IInv, MultiNodeTypeOK, Steps, Outcomes
  <1>2. /\ Keys' = 0 /\ Accounts' = 0 /\ Signed' = 0 /\ InRun' /\ ~Built' /\ ~Collecting'
        /\ Keys = 0 /\ Accounts = 0 /\ Signed = 0 /\ ~InRun /\ ~Built /\ ~Collecting
    BY DEF IInv, Control, Keys, Accounts, Signed, InRun, Built, Collecting
  <1>3. Control'
    BY <1>0, <1>2 DEF Control
  <1>4. Memory' /\ Canonical'
    BY <1>0, <1>2 DEF IInv, Memory, Canonical
  <1>5. Gentxs'
    <2>. SUFFICES ASSUME NEW n \in Nodes, NEW g \in dir[n].gentxs
                  PROVE  /\ g.account # 0 /\ g.account <= run' /\ g.account # run'
                         /\ g.key = dir[g.node].key
                         /\ \A h \in dir[n].gentxs : SameFile(g, h) => g = h
      BY DEF Gentxs
    <2>1. g.account \in 0 .. MaxRuns /\ g.account <= run
      BY DEF IInv, MultiNodeTypeOK, NodeDir, Gentx, Gentxs
    <2>. QED BY <1>0, <2>1 DEF IInv, Gentxs
  <1>6. Copies' /\ Configured'
    BY <1>0, <1>2 DEF Copies, Configured
  <1>7. Geneses'
    <2>1. \A n \in Nodes : dir[n].genesis.chain \in 0 .. MaxRuns /\ dir[n].genesis.chain <= run
      BY DEF IInv, MultiNodeTypeOK, NodeDir, Genesis, Geneses
    <2>. QED BY <1>0, <1>2, <2>1 DEF Geneses
  <1>8. FinalGenesesAgree' /\ GenesisIsOfOneRun'
    BY DEF IInv, FinalGenesesAgree, GenesisIsOfOneRun
  <1>9. SuccessIsOneNetwork' /\ RefusedForAReason' /\ PeersAreListening'
    BY DEF SuccessIsOneNetwork, RefusedForAReason, PeersAreListening
  <1>. QED BY <1>1, <1>3, <1>4, <1>5, <1>6, <1>7, <1>8, <1>9 DEF IInv

\* What the steps that go on with the run have in common.
LEMMA Running ==
    ASSUME IInv, outcome' = "running"
    PROVE  SuccessIsOneNetwork' /\ RefusedForAReason' /\ PeersAreListening'
  BY DEF SuccessIsOneNetwork, RefusedForAReason, PeersAreListening

LEMMA SameGeneses ==
    ASSUME IInv, \A n \in Nodes : dir'[n].genesis = dir[n].genesis
    PROVE  FinalGenesesAgree' /\ GenesisIsOfOneRun'
  <1>1. FinalGenesesAgree'
    BY DEF IInv, FinalGenesesAgree
  <1>2. GenesisIsOfOneRun'
    BY DEF IInv, GenesisIsOfOneRun
  <1>. QED BY <1>1, <1>2

LEMMA InitNodeFilesKeeps == IInv /\ InitNodeFiles => IInv'
  <1>. SUFFICES ASSUME IInv, InitNodeFiles PROVE IInv'
    OBVIOUS
  <1>0. /\ i \in Nodes /\ i \in Nat /\ run \in Runs /\ run \in Nat /\ Nodes \subseteq Nat
        /\ i < args.numValidators /\ args.numValidators \in Nat /\ InRun
    BY MultiNodeAssumption
    DEF IInv, MultiNodeTypeOK, Control, InRun, InitNodeFiles, Args, Nodes, Runs
  <1>1. loadedKey(i) \in Runs /\ loadedKey(i) # 0 /\ loadedKey(i) \in 0 .. MaxRuns
    BY <1>0 DEF IInv, MultiNodeTypeOK, NodeDir, loadedKey, Runs
  <1>2. /\ \A n \in Nodes : /\ dir'[n].gentxs = dir[n].gentxs
                             /\ dir'[n].genesis = dir[n].genesis
                             /\ dir'[n].account = dir[n].account
                             /\ dir'[n].config = dir[n].config
                             /\ n # i => dir'[n].key = dir[n].key
        /\ dir'[i].key = loadedKey(i)
    BY <1>0 DEF InitNodeFiles, IInv, MultiNodeTypeOK, NodeDir
  <1>3. MultiNodeTypeOK'
    <2>1. dir' \in [Nodes -> NodeDir]
      BY <1>0, <1>1 DEF InitNodeFiles, IInv, MultiNodeTypeOK, NodeDir
    <2>2. [node |-> i, key |-> loadedKey(i), port |-> memoPort(i)] \in Peer
      BY <1>0, <1>1 DEF Peer
    <2>3. nodeIDs' \in [Nodes -> 0 .. MaxRuns] /\ persistentPeers' \subseteq Peer
      BY <1>1, <2>2 DEF InitNodeFiles, IInv, MultiNodeTypeOK
    <2>. QED BY <2>1, <2>3 DEF InitNodeFiles, IInv, MultiNodeTypeOK, Steps
  <1>4. /\ Keys = i /\ Keys' = i + 1 /\ Accounts = i /\ Accounts' = i
        /\ Signed = i /\ Signed' = i /\ InRun' /\ ~Collecting /\ ~Collecting'
        /\ ~Built /\ ~Built'
    BY DEF InitNodeFiles, Keys, Accounts, Signed, InRun, Built, Collecting
  <1>5. \A n \in Nodes : n < i + 1 <=> (n < i \/ n = i)
    BY <1>0
  <1>6. Control' /\ Canonical'
    BY <1>4 DEF IInv, Control, Canonical, InitNodeFiles, InRun
  <1>7. \A n \in Nodes : n < i => PeerOf(n)' = PeerOf(n) /\ GentxOf(n)' = GentxOf(n)
    <2>. SUFFICES ASSUME NEW n \in Nodes, n < i
                  PROVE PeerOf(n)' = PeerOf(n) /\ GentxOf(n)' = GentxOf(n)
      OBVIOUS
    <2>1. n # i
      BY <1>0
    <2>. QED BY <1>2, <2>1 DEF PeerOf, GentxOf, InitNodeFiles
  <1>8. Memory'
    <2>1. \A n \in Nodes : n < Keys' => nodeIDs'[n] = dir'[n].key /\ dir'[n].key # 0
      BY <1>0, <1>1, <1>2, <1>4, <1>5 DEF IInv, MultiNodeTypeOK, Memory, InitNodeFiles
    <2>2. \A n \in Nodes : n < Accounts' => dir'[n].account = run'
      BY <1>2, <1>4 DEF IInv, Memory, InitNodeFiles
    <2>3. persistentPeers' = {PeerOf(n)' : n \in {m \in Nodes : m < Keys'}}
      <3>1. PeerOf(i)' = [node |-> i, key |-> loadedKey(i), port |-> memoPort(i)]
        BY <1>2 DEF PeerOf, memoPort, InitNodeFiles
      <3>2. persistentPeers = {PeerOf(n) : n \in {m \in Nodes : m < i}}
        BY <1>4 DEF IInv, Memory
      <3>3. persistentPeers' = persistentPeers \cup {PeerOf(i)'}
        BY <3>1 DEF InitNodeFiles
      <3>4. i \in {m \in Nodes : m < i + 1} /\ i' = i
        BY <1>0 DEF InitNodeFiles
      <3>5. {PeerOf(n)' : n \in {m \in Nodes : m < i + 1}}
            = {PeerOf(n)' : n \in {m \in Nodes : m < i}} \cup {PeerOf(i)'}
        <4>. DEFINE P(n) == PeerOf(n)'
        <4>1. PeerOf(i)' = P(i)
          BY <3>4 DEF PeerOf, memoPort
        <4>. HIDE DEF P
        <4>2. {P(n) : n \in {m \in Nodes : m < i + 1}}
              = {P(n) : n \in {m \in Nodes : m < i}} \cup {P(i)}
          BY <1>0, <1>5
        <4>. QED BY <4>1, <4>2 DEF P
      <3>6. {PeerOf(n)' : n \in {m \in Nodes : m < i}}
            = {PeerOf(n) : n \in {m \in Nodes : m < i}}
        BY <1>7
      <3>. QED BY <1>4, <3>2, <3>3, <3>5, <3>6
    <2>4. genAccounts' = {AccountOf(n)' : n \in {m \in Nodes : m < Accounts'}}
      BY <1>4 DEF IInv, Memory, InitNodeFiles, AccountOf
    <2>5. gentxsFiles' = {GentxOf(n)' : n \in {m \in Nodes : m < Signed'}}
      BY <1>4, <1>7 DEF IInv, Memory, InitNodeFiles
    <2>. QED BY <2>1, <2>2, <2>3, <2>4, <2>5 DEF Memory
  <1>9. Gentxs'
    <2>. SUFFICES ASSUME NEW n \in Nodes, NEW g \in dir[n].gentxs
                  PROVE  /\ g.account # 0 /\ g.account <= run
                         /\ g.key = dir'[g.node].key
                         /\ g.account = run => g \in gentxsFiles
                         /\ \A h \in dir[n].gentxs : SameFile(g, h) => g = h
      BY <1>2 DEF Gentxs, InitNodeFiles
    <2>1. g.key # 0 /\ g.node \in Nodes
      BY DEF IInv, MultiNodeTypeOK, NodeDir, Gentx, Runs
    <2>2. g.key = dir[g.node].key
      BY DEF IInv, Gentxs
    <2>3. g.key = dir'[g.node].key
      <3>1. CASE g.node = i
        BY <1>2, <2>1, <2>2, <3>1 DEF loadedKey
      <3>2. CASE g.node # i
        <4>1. \A m \in Nodes : m # i => dir'[m].key = dir[m].key
          BY <1>0 DEF InitNodeFiles, IInv, MultiNodeTypeOK, NodeDir
        <4>. QED BY <2>1, <2>2, <3>2, <4>1
      <3>. QED BY <3>1, <3>2
    <2>. QED BY <1>0, <2>3 DEF IInv, Gentxs
  <1>10. Copies'
    BY <1>2, <1>4, <1>7 DEF IInv, Copies, InitNodeFiles
  <1>11. Geneses' /\ Configured'
    BY <1>0, <1>2, <1>4 DEF IInv, Geneses, Configured, InitNodeFiles
  <1>12. FinalGenesesAgree' /\ GenesisIsOfOneRun'
    <2>1. \A n \in Nodes : dir'[n].genesis = dir[n].genesis
      BY <1>0 DEF InitNodeFiles, IInv, MultiNodeTypeOK, NodeDir
    <2>. QED BY <2>1, SameGeneses
  <1>13. outcome' = "running"
    BY <1>0 DEF InitNodeFiles, IInv, Control
  <1>. QED BY <1>3, <1>6, <1>8, <1>9, <1>10, <1>11, <1>12, <1>13, Running DEF IInv

LEMMA SaveCoinKeyKeeps == IInv /\ SaveCoinKey => IInv'
  <1>. SUFFICES ASSUME IInv, SaveCoinKey PROVE IInv'
    OBVIOUS
  <1>0. /\ i \in Nodes /\ i \in Nat /\ run \in Runs /\ run \in 0 .. MaxRuns /\ Nodes \subseteq Nat
        /\ i < args.numValidators /\ args.numValidators \in Nat /\ InRun
    BY MultiNodeAssumption
    DEF IInv, MultiNodeTypeOK, Control, InRun, SaveCoinKey, Args, Nodes, Runs
  <1>1. \A n \in Nodes : dir'[n].gentxs = dir[n].gentxs /\ dir'[n].key = dir[n].key
    BY <1>0 DEF SaveCoinKey, IInv, MultiNodeTypeOK, NodeDir
  <1>2. \A n \in Nodes : dir'[n].genesis = dir[n].genesis /\ dir'[n].config = dir[n].config
    BY <1>0 DEF SaveCoinKey, IInv, MultiNodeTypeOK, NodeDir
  <1>3. /\ \A n \in Nodes : n # i => dir'[n].account = dir[n].account
        /\ dir'[i].account = run
    BY <1>0 DEF SaveCoinKey, IInv, MultiNodeTypeOK, NodeDir
  <1>4. MultiNodeTypeOK'
    <2>1. dir' \in [Nodes -> NodeDir]
      BY <1>0 DEF SaveCoinKey, IInv, MultiNodeTypeOK, NodeDir
    <2>2. genAccounts' \subseteq Account
      BY <1>0 DEF SaveCoinKey, IInv, MultiNodeTypeOK, Account
    <2>. QED BY <2>1, <2>2 DEF SaveCoinKey, IInv, MultiNodeTypeOK, Steps
  <1>5. /\ Keys = i + 1 /\ Keys' = i + 1 /\ Accounts = i /\ Accounts' = i + 1
        /\ Signed = i /\ Signed' = i /\ InRun' /\ ~Collecting /\ ~Collecting'
        /\ ~Built /\ ~Built'
    BY DEF SaveCoinKey, Keys, Accounts, Signed, InRun, Built, Collecting
  <1>6. \A n \in Nodes : n < i + 1 <=> (n < i \/ n = i)
    BY <1>0
  <1>7. Control' /\ Canonical'
    BY <1>5 DEF IInv, Control, Canonical, SaveCoinKey, InRun
  <1>8. \A n \in Nodes : PeerOf(n)' = PeerOf(n) /\ GentxOf(n)' = GentxOf(n)
                        /\ AccountOf(n)' = AccountOf(n)
    BY <1>1 DEF PeerOf, GentxOf, AccountOf, SaveCoinKey
  <1>9. Memory'
    <2>1. \A n \in Nodes : n < Keys' => nodeIDs'[n] = dir'[n].key /\ dir'[n].key # 0
      BY <1>1, <1>5 DEF IInv, Memory, SaveCoinKey
    <2>2. \A n \in Nodes : n < Accounts' => dir'[n].account = run'
      BY <1>0, <1>3, <1>5, <1>6 DEF IInv, Memory, SaveCoinKey
    <2>3. persistentPeers' = {PeerOf(n)' : n \in {m \in Nodes : m < Keys'}}
      BY <1>5, <1>8 DEF IInv, Memory, SaveCoinKey
    <2>4. genAccounts' = {AccountOf(n)' : n \in {m \in Nodes : m < Accounts'}}
      <3>1. genAccounts = {AccountOf(n) : n \in {m \in Nodes : m < i}}
        BY <1>5 DEF IInv, Memory
      <3>2. genAccounts' = genAccounts \cup {AccountOf(i)}
        BY DEF SaveCoinKey, AccountOf
      <3>3. {AccountOf(n) : n \in {m \in Nodes : m < i + 1}} = genAccounts \cup {AccountOf(i)}
        BY <1>0, <1>6, <3>1
      <3>. QED BY <1>5, <1>8, <3>2, <3>3
    <2>5. gentxsFiles' = {GentxOf(n)' : n \in {m \in Nodes : m < Signed'}}
      BY <1>5, <1>8 DEF IInv, Memory, SaveCoinKey
    <2>. QED BY <2>1, <2>2, <2>3, <2>4, <2>5 DEF Memory
  <1>10. Gentxs'
    <2>. SUFFICES ASSUME NEW n \in Nodes, NEW g \in dir[n].gentxs
                  PROVE  /\ g.account # 0 /\ g.account <= run
                         /\ g.key = dir'[g.node].key
                         /\ g.account = run => g \in gentxsFiles
                         /\ \A h \in dir[n].gentxs : SameFile(g, h) => g = h
      BY <1>1 DEF Gentxs, SaveCoinKey
    <2>1. g.node \in Nodes
      BY DEF IInv, MultiNodeTypeOK, NodeDir, Gentx
    <2>2. g.key = dir'[g.node].key
      BY <1>1, <2>1 DEF IInv, Gentxs
    <2>. QED BY <1>0, <2>2 DEF IInv, Gentxs
  <1>11. Copies'
    BY <1>1, <1>5, <1>8 DEF IInv, Copies, SaveCoinKey
  <1>12. Geneses' /\ Configured'
    BY <1>0, <1>2, <1>5 DEF IInv, Geneses, Configured, SaveCoinKey
  <1>13. FinalGenesesAgree' /\ GenesisIsOfOneRun'
    BY <1>2, SameGeneses
  <1>14. outcome' = "running"
    BY <1>0 DEF SaveCoinKey, IInv, Control
  <1>. QED BY <1>4, <1>7, <1>9, <1>10, <1>11, <1>12, <1>13, <1>14, Running DEF IInv

LEMMA SameDisk == IInv /\ UNCHANGED <<dir, run>> => Disk'
  <1>. SUFFICES ASSUME IInv, UNCHANGED <<dir, run>> PROVE Disk'
    OBVIOUS
  <1>. QED BY IInvDisk, SameGeneses DEF Disk

LEMMA StopsKeeps == IInv /\ Stops => IInv'
  <1>. SUFFICES ASSUME IInv, Stops PROVE IInv'
    OBVIOUS
  <1>1. Disk'
    BY SameDisk DEF Stops, Ends
  <1>2. outcome' = "failed" /\ Ends("failed") /\ "failed" \in Outcomes \ {"running"}
    BY DEF Stops, Ends, Outcomes
  <1>3. SuccessIsOneNetwork' /\ RefusedForAReason' /\ PeersAreListening'
    BY <1>2 DEF SuccessIsOneNetwork, RefusedForAReason, PeersAreListening
  <1>. QED BY <1>1, <1>2, <1>3, EndsKeeps

LEMMA InitFailsKeeps == IInv /\ InitFails => IInv'
  <1>. SUFFICES ASSUME IInv, InitFails PROVE IInv'
    OBVIOUS
  <1>0. run \in Nat /\ run' = run
    BY DEF IInv, MultiNodeTypeOK, InitFails, Ends
  <1>1. Disk'
    <2>1. NoDir \in NodeDir
      BY MultiNodeAssumption
      DEF NoDir, NodeDir, NoGenesis, Genesis, NoConfig, Config
    <2>2. \A n \in Nodes : dir'[n] = NoDir
      BY DEF InitFails, RemoveAll
    <2>3. FinalGenesesAgree' /\ GenesisIsOfOneRun'
      BY <2>2 DEF FinalGenesesAgree, GenesisIsOfOneRun, NoDir, NoGenesis
    <2>. QED BY <1>0, <2>1, <2>2, <2>3 DEF Disk, InitFails, RemoveAll, NoDir, NoGenesis
  <1>2. outcome' = "removed" /\ Ends("removed") /\ "removed" \in Outcomes \ {"running"}
    BY DEF InitFails, Ends, Outcomes
  <1>3. SuccessIsOneNetwork' /\ RefusedForAReason' /\ PeersAreListening'
    BY <1>2 DEF SuccessIsOneNetwork, RefusedForAReason, PeersAreListening
  <1>. QED BY <1>1, <1>2, <1>3, EndsKeeps

LEMMA WriteGentxKeeps == IInv /\ WriteGentx => IInv'
  <1>. SUFFICES ASSUME IInv, WriteGentx PROVE IInv'
    OBVIOUS
  <1>. DEFINE g0 == GentxOf(i)
  <1>0. /\ i \in Nodes /\ i \in Nat /\ run \in Runs /\ run \in Nat /\ Nodes \subseteq Nat
        /\ i < args.numValidators /\ args.numValidators \in Nat /\ InRun /\ args \in Args
        /\ i + 1 < args.numValidators => i + 1 \in Nodes
        /\ 0 \in Nodes
    BY MultiNodeAssumption
    DEF IInv, MultiNodeTypeOK, Control, InRun, WriteGentx, Args, Nodes, Runs
  <1>1. /\ Keys = i + 1 /\ Keys' = i + 1 /\ Accounts = i + 1 /\ Accounts' = i + 1
        /\ Signed = i /\ Signed' = i + 1 /\ InRun' /\ ~Collecting /\ ~Collecting'
        /\ ~Built /\ pc' # "copy" /\ (pc' = "genesis" => i' = 0)
        /\ (pc' = "genesis" \/ pc' = "files")
    BY <1>0 DEF WriteGentx, Keys, Accounts, Signed, InRun, Built, Collecting
  <1>2. \A n \in Nodes : n < i + 1 <=> (n < i \/ n = i)
    BY <1>0
  <1>3. g0 = [node |-> i, key |-> nodeIDs[i], account |-> run, stake |-> valTokens(args, i)]
        /\ dir[i].key # 0
    BY <1>0, <1>1, <1>2 DEF IInv, Memory, GentxOf
  <1>4. g0 \in Gentx
    <2>1. dir[i].key \in Runs
      BY <1>0, <1>3 DEF IInv, MultiNodeTypeOK, NodeDir, Runs
    <2>2. run \in 0 .. MaxRuns /\ valTokens(args, i) \in {valTokens(a, n) : a \in Args, n \in Nodes}
      BY <1>0 DEF IInv, MultiNodeTypeOK
    <2>. QED BY <1>0, <2>1, <2>2 DEF GentxOf, Gentx
  <1>. HIDE DEF g0
  <1>5. gentxsFiles' = gentxsFiles \cup {g0}
        /\ dir' = [dir EXCEPT ![i].gentxs = Written(@, g0)]
    BY <1>3 DEF WriteGentx
  <1>6. /\ \A n \in Nodes : n # i => dir'[n].gentxs = dir[n].gentxs
        /\ dir'[i].gentxs = {h \in dir[i].gentxs : ~SameFile(h, g0)} \cup {g0}
    BY <1>0, <1>5 DEF IInv, MultiNodeTypeOK, NodeDir, Written
  <1>7. \A n \in Nodes : dir'[n].genesis = dir[n].genesis /\ dir'[n].config = dir[n].config
    BY <1>0, <1>5 DEF IInv, MultiNodeTypeOK, NodeDir
  <1>8. \A n \in Nodes : dir'[n].key = dir[n].key /\ dir'[n].account = dir[n].account
    BY <1>0, <1>5 DEF IInv, MultiNodeTypeOK, NodeDir
  <1>9. MultiNodeTypeOK'
    <2>1. Written(dir[i].gentxs, g0) \subseteq Gentx
      BY <1>0, <1>4 DEF IInv, MultiNodeTypeOK, NodeDir, Written
    <2>2. dir' \in [Nodes -> NodeDir]
      BY <1>0, <1>5, <2>1 DEF IInv, MultiNodeTypeOK, NodeDir
    <2>3. gentxsFiles' \subseteq Gentx
      BY <1>4, <1>5 DEF IInv, MultiNodeTypeOK
    <2>4. i' \in Nodes /\ pc' \in Steps
      BY <1>0 DEF WriteGentx, Steps
    <2>. QED BY <2>2, <2>3, <2>4 DEF WriteGentx, IInv, MultiNodeTypeOK
  <1>10. Control' /\ Canonical'
    <2>1. i' < args.numValidators
      BY <1>0 DEF WriteGentx
    <2>. QED BY <1>0, <1>1, <2>1 DEF IInv, Control, Canonical, WriteGentx, InRun
  <1>11. \A n \in Nodes : PeerOf(n)' = PeerOf(n) /\ GentxOf(n)' = GentxOf(n)
                         /\ AccountOf(n)' = AccountOf(n)
    BY <1>8 DEF PeerOf, GentxOf, AccountOf, WriteGentx
  <1>12. Memory'
    <2>1. \A n \in Nodes : n < Keys' => nodeIDs'[n] = dir'[n].key /\ dir'[n].key # 0
      BY <1>1, <1>8 DEF IInv, Memory, WriteGentx
    <2>2. \A n \in Nodes : n < Accounts' => dir'[n].account = run'
      BY <1>1, <1>8 DEF IInv, Memory, WriteGentx
    <2>3. persistentPeers' = {PeerOf(n)' : n \in {m \in Nodes : m < Keys'}}
      BY <1>1, <1>11 DEF IInv, Memory, WriteGentx
    <2>4. genAccounts' = {AccountOf(n)' : n \in {m \in Nodes : m < Accounts'}}
      BY <1>1, <1>11 DEF IInv, Memory, WriteGentx
    <2>5. gentxsFiles' = {GentxOf(n)' : n \in {m \in Nodes : m < Signed'}}
      <3>1. gentxsFiles = {GentxOf(n) : n \in {m \in Nodes : m < i}}
        BY <1>1 DEF IInv, Memory
      <3>2. {GentxOf(n) : n \in {m \in Nodes : m < i + 1}} = gentxsFiles \cup {GentxOf(i)}
        BY <1>0, <1>2, <3>1
      <3>. QED BY <1>1, <1>5, <1>11, <3>2 DEF g0
    <2>. QED BY <2>1, <2>2, <2>3, <2>4, <2>5 DEF Memory
  <1>13. Gentxs'
    <2>. SUFFICES ASSUME NEW n \in Nodes, NEW g \in dir'[n].gentxs
                  PROVE  /\ g.account # 0 /\ g.account <= run
                         /\ g.key = dir'[g.node].key
                         /\ g.account = run => g \in gentxsFiles'
                         /\ \A h \in dir'[n].gentxs : SameFile(g, h) => g = h
      BY DEF Gentxs, WriteGentx
    <2>1. g0.account = run /\ g0.account # 0 /\ g0.node = i /\ g0.key = dir[i].key
      BY <1>0 DEF g0, GentxOf, Runs
    <2>2. CASE g = g0
      <3>1. g.key = dir'[g.node].key
        BY <1>0, <1>8, <2>1, <2>2
      <3>2. \A h \in dir'[n].gentxs : SameFile(g, h) => g = h
        <4>1. CASE n = i
          BY <1>6, <2>2, <4>1 DEF SameFile
        <4>2. CASE n # i
          BY <1>6, <2>2, <4>2 DEF IInv, Gentxs
        <4>. QED BY <4>1, <4>2
      <3>. QED BY <1>0, <1>5, <2>1, <2>2, <3>1, <3>2
    <2>3. CASE g # g0
      <3>1. g \in dir[n].gentxs /\ (n = i => ~SameFile(g, g0))
        BY <1>6, <2>3
      <3>2. g.node \in Nodes
        BY <3>1 DEF IInv, MultiNodeTypeOK, NodeDir, Gentx
      <3>3. g.key = dir'[g.node].key
        BY <1>8, <3>1, <3>2 DEF IInv, Gentxs
      <3>4. \A h \in dir'[n].gentxs : SameFile(g, h) => g = h
        BY <1>6, <3>1 DEF IInv, Gentxs
      <3>. QED BY <1>0, <1>5, <3>1, <3>3, <3>4 DEF IInv, Gentxs
    <2>. QED BY <2>2, <2>3
  <1>14. Copies'
    <2>. SUFFICES ASSUME NEW n \in Nodes, n < i + 1
                  PROVE GentxOf(n) \in dir'[n].gentxs
      BY <1>1, <1>11 DEF Copies
    <2>1. CASE n = i
      BY <1>6, <2>1 DEF g0
    <2>2. CASE n # i
      BY <1>1, <1>2, <1>6, <2>2 DEF IInv, Copies
    <2>. QED BY <2>1, <2>2
  <1>15. Geneses' /\ Configured'
    <2>1. \A n \in Nodes : ~(n < 0)
      BY <1>0
    <2>2. \A n \in Nodes : dir'[n].genesis.chain <= run /\ dir'[n].genesis.chain # run
      BY <1>0, <1>1, <1>7 DEF IInv, Geneses
    <2>. QED BY <1>1, <2>1, <2>2 DEF Geneses, Configured, WriteGentx
  <1>16. FinalGenesesAgree' /\ GenesisIsOfOneRun'
    BY <1>7, SameGeneses
  <1>17. outcome' = "running"
    BY <1>0 DEF WriteGentx, IInv, Control
  <1>. QED BY <1>9, <1>10, <1>12, <1>13, <1>14, <1>15, <1>16, <1>17, Running DEF IInv

-----------------------------------------------------------------------------
(* The steps after the keys and the gentxs are made *)

LEMMA BuiltNumbers ==
    ASSUME IInv, Built
    PROVE  /\ i \in Nodes /\ i \in Nat /\ run \in Runs /\ run \in Nat /\ Nodes \subseteq Nat
           /\ i < args.numValidators /\ args.numValidators \in Nat /\ InRun
           /\ i + 1 < args.numValidators => i + 1 \in Nodes
           /\ 0 \in Nodes /\ args \in Args /\ outcome = "running"
           /\ Keys = args.numValidators /\ Accounts = args.numValidators
           /\ Signed = args.numValidators
  BY MultiNodeAssumption
  DEF IInv, MultiNodeTypeOK, Control, InRun, Built, Args, Nodes, Runs, Keys, Accounts, Signed

LEMMA BuiltMemory ==
    ASSUME IInv, Built, Built',
           UNCHANGED <<run, args, nodeIDs, genAccounts, gentxsFiles, persistentPeers>>,
           \A n \in Nodes : dir'[n].key = dir[n].key,
           \A n \in Nodes : dir'[n].account = dir[n].account
    PROVE  /\ Memory'
           /\ \A n \in Nodes : GentxOf(n)' = GentxOf(n)
           /\ Initial' = Initial /\ Collected' = Collected /\ Final' = Final
           /\ Signed' = Signed
  <1>1. /\ Keys = args.numValidators /\ Keys' = args.numValidators
        /\ Accounts = args.numValidators /\ Accounts' = args.numValidators
        /\ Signed = args.numValidators /\ Signed' = args.numValidators
    BY DEF Keys, Accounts, Signed
  <1>2. \A n \in Nodes : PeerOf(n)' = PeerOf(n) /\ GentxOf(n)' = GentxOf(n)
                        /\ AccountOf(n)' = AccountOf(n)
    BY DEF PeerOf, GentxOf, AccountOf
  <1>3. Memory'
    <2>1. \A n \in Nodes : n < Keys' => nodeIDs'[n] = dir'[n].key /\ dir'[n].key # 0
      BY <1>1 DEF IInv, Memory
    <2>2. \A n \in Nodes : n < Accounts' => dir'[n].account = run'
      BY <1>1 DEF IInv, Memory
    <2>3. persistentPeers' = {PeerOf(n)' : n \in {m \in Nodes : m < Keys'}}
      BY <1>1, <1>2 DEF IInv, Memory
    <2>4. genAccounts' = {AccountOf(n)' : n \in {m \in Nodes : m < Accounts'}}
      BY <1>1, <1>2 DEF IInv, Memory
    <2>5. gentxsFiles' = {GentxOf(n)' : n \in {m \in Nodes : m < Signed'}}
      BY <1>1, <1>2 DEF IInv, Memory
    <2>. QED BY <2>1, <2>2, <2>3, <2>4, <2>5 DEF Memory
  <1>. QED BY <1>1, <1>2, <1>3 DEF Initial, Collected, Final

\* Steps that leave the gentxs alone.
LEMMA SameGentxs ==
    ASSUME IInv, Built, Built', UNCHANGED <<run, gentxsFiles>>,
           \A n \in Nodes : dir'[n].key = dir[n].key,
           \A n \in Nodes : dir'[n].gentxs = dir[n].gentxs
    PROVE  Gentxs'
  <1>. SUFFICES ASSUME NEW n \in Nodes, NEW g \in dir[n].gentxs
                PROVE  /\ g.account # 0 /\ g.account <= run
                       /\ g.key = dir'[g.node].key
                       /\ g.account = run => g \in gentxsFiles
                       /\ \A h \in dir[n].gentxs : SameFile(g, h) => g = h
    BY DEF Gentxs
  <1>1. g.node \in Nodes
    BY DEF IInv, MultiNodeTypeOK, NodeDir, Gentx
  <1>2. g.key = dir'[g.node].key
    BY <1>1 DEF IInv, Gentxs
  <1>. QED BY <1>2 DEF IInv, Gentxs, Built, InRun

LEMMA InitGenFilesKeeps == IInv /\ InitGenFiles => IInv'
  <1>. SUFFICES ASSUME IInv, InitGenFiles PROVE IInv'
    OBVIOUS
  <1>0. Built /\ Built' /\ ~Collecting /\ ~Collecting' /\ InRun'
    BY DEF InitGenFiles, Built, Collecting, Advance, InRun
  <1>1. /\ i \in Nodes /\ i \in Nat /\ run \in Runs /\ run \in Nat /\ Nodes \subseteq Nat
        /\ i < args.numValidators /\ args.numValidators \in Nat /\ InRun
        /\ i + 1 < args.numValidators => i + 1 \in Nodes
        /\ 0 \in Nodes /\ outcome = "running" /\ Signed = args.numValidators
    BY <1>0, BuiltNumbers
  <1>2. Initial \in Genesis
    BY <1>1, MultiNodeAssumption DEF IInv, MultiNodeTypeOK, Initial, Genesis, Runs
  <1>3. dir' = [dir EXCEPT ![i].genesis = Initial]
    BY DEF InitGenFiles, Initial
  <1>4. \A n \in Nodes : dir'[n].key = dir[n].key
    BY <1>1, <1>3 DEF IInv, MultiNodeTypeOK, NodeDir
  <1>5. \A n \in Nodes : dir'[n].account = dir[n].account
    BY <1>1, <1>3 DEF IInv, MultiNodeTypeOK, NodeDir
  <1>6. \A n \in Nodes : dir'[n].gentxs = dir[n].gentxs
    BY <1>1, <1>3 DEF IInv, MultiNodeTypeOK, NodeDir
  <1>7. /\ \A n \in Nodes : n # i => dir'[n].genesis = dir[n].genesis
        /\ dir'[i].genesis = Initial
    BY <1>1, <1>3 DEF IInv, MultiNodeTypeOK, NodeDir
  <1>8. MultiNodeTypeOK'
    <2>1. dir' \in [Nodes -> NodeDir]
      BY <1>1, <1>2, <1>3 DEF IInv, MultiNodeTypeOK, NodeDir
    <2>2. i' \in Nodes /\ pc' \in Steps
      BY <1>1 DEF InitGenFiles, Advance, Steps
    <2>. QED BY <2>1, <2>2 DEF InitGenFiles, IInv, MultiNodeTypeOK
  <1>9. Control' /\ Canonical' /\ Configured'
    <2>1. i' < args.numValidators
      BY <1>1 DEF InitGenFiles, Advance
    <2>2. Control'
      BY <1>0, <1>1, <2>1 DEF IInv, Control, InitGenFiles
    <2>3. Canonical' /\ Configured'
      BY <1>0 DEF IInv, Canonical, Configured, InitGenFiles
    <2>. QED BY <2>2, <2>3
  <1>10. /\ Memory' /\ \A n \in Nodes : GentxOf(n)' = GentxOf(n)
         /\ Initial' = Initial /\ Collected' = Collected /\ Final' = Final
         /\ Signed' = Signed
    BY <1>0, <1>4, <1>5, BuiltMemory DEF InitGenFiles
  <1>11. Gentxs'
    BY <1>0, <1>4, <1>6, SameGentxs DEF InitGenFiles
  <1>12. Copies'
    <2>1. \A n \in Nodes : n < Signed => GentxOf(n) \in dir[n].gentxs
      BY DEF IInv, Copies
    <2>2. ~(pc' = "copy" /\ i' # 0) /\ \A n \in Nodes : ~(n < 0)
      BY <1>1 DEF InitGenFiles, Advance
    <2>3. \A n \in Nodes : ~(pc' = "copy" /\ n < i')
      BY <2>2
    <2>. QED BY <1>0, <1>6, <1>10, <2>1, <2>3 DEF Copies
  <1>13. Geneses'
    <2>1. dir'[i].genesis.chain = run
      BY <1>7 DEF Initial
    <2>2. \A n \in Nodes : dir'[n].genesis.chain <= run
      BY <1>1, <1>7, <2>1 DEF IInv, Geneses
    <2>3. \A n \in Nodes : dir'[n].genesis.chain = run =>
                dir'[n].genesis \in {Initial, Collected, Final}
      BY <1>1, <1>7 DEF IInv, Geneses
    <2>4. \A n \in Nodes : n < i \/ n = i => dir'[n].genesis = Initial
      BY <1>1, <1>7 DEF IInv, Geneses, InitGenFiles
    <2>5. CASE i + 1 < args.numValidators
      <3>1. i' = i + 1 /\ pc' = "genesis"
        BY <2>5 DEF InitGenFiles, Advance
      <3>2. \A n \in Nodes : n < i' => n < i \/ n = i
        BY <1>1, <3>1
      <3>. QED BY <1>0, <1>10, <2>2, <2>3, <2>4, <3>1, <3>2 DEF Geneses, InitGenFiles
    <2>6. CASE ~(i + 1 < args.numValidators)
      <3>1. i' = 0 /\ pc' = "copy"
        BY <2>6 DEF InitGenFiles, Advance
      <3>2. \A n \in Nodes : n < args.numValidators => n < i \/ n = i
        BY <1>1, <2>6
      <3>. QED BY <1>0, <1>10, <2>2, <2>3, <2>4, <3>1, <3>2 DEF Geneses, InitGenFiles
    <2>. QED BY <2>5, <2>6
  <1>14. FinalGenesesAgree' /\ GenesisIsOfOneRun'
    <2>1. dir'[i].genesis.gentxs = {}
      BY <1>7 DEF Initial
    <2>2. FinalGenesesAgree'
      BY <1>7, <2>1 DEF IInv, FinalGenesesAgree
    <2>3. GenesisIsOfOneRun'
      BY <1>7, <2>1 DEF IInv, GenesisIsOfOneRun
    <2>. QED BY <2>2, <2>3
  <1>15. outcome' = "running"
    BY <1>1 DEF InitGenFiles
  <1>. QED BY <1>8, <1>9, <1>10, <1>11, <1>12, <1>13, <1>14, <1>15, Running DEF IInv

\* What a node's directory holds after some of the foreign gentxs were copied.
LEMMA Copying ==
    ASSUME IInv, Built, NEW copied \in SUBSET Foreign(i), run' = run,
           dir' = [dir EXCEPT ![i].gentxs = Copied(i, copied)]
    PROVE  /\ dir' \in [Nodes -> NodeDir]
           /\ \A n \in Nodes : dir'[n].key = dir[n].key
           /\ \A n \in Nodes : dir'[n].account = dir[n].account
           /\ \A n \in Nodes : dir'[n].genesis = dir[n].genesis
           /\ \A n \in Nodes : dir'[n].config = dir[n].config
           /\ \A n \in Nodes : n # i => dir'[n].gentxs = dir[n].gentxs
           /\ dir'[i].gentxs =
                {h \in dir[i].gentxs : \A g \in copied : ~SameFile(g, h)} \cup copied
           /\ \A n \in Nodes : \A g \in dir'[n].gentxs :
                /\ g.account # 0 /\ g.account <= run
                /\ g.key = dir'[g.node].key
                /\ g.account = run => g \in gentxsFiles
                /\ \A h \in dir'[n].gentxs : SameFile(g, h) => g = h
  <1>. DEFINE files == {h \in dir[i].gentxs : \A g \in copied : ~SameFile(g, h)} \cup copied
  <1>0. /\ i \in Nodes /\ run \in Nat /\ run \in Runs /\ InRun
        /\ Nodes \subseteq Nat /\ Signed = args.numValidators /\ args.numValidators \in Nat
    BY BuiltNumbers
  <1>1. dir' = [dir EXCEPT ![i].gentxs = files]
    BY <1>0, CopiedFiles
  <1>2. copied \subseteq gentxsFiles /\ \A g \in copied : g.node # i
    BY DEF Foreign, isSubDir
  <1>3. files \subseteq Gentx
    BY <1>0, <1>2 DEF IInv, MultiNodeTypeOK, NodeDir
  <1>. HIDE DEF files
  <1>4. dir' \in [Nodes -> NodeDir]
    BY <1>0, <1>1, <1>3 DEF IInv, MultiNodeTypeOK, NodeDir
  <1>5. \A n \in Nodes : dir'[n].key = dir[n].key
    BY <1>0, <1>1 DEF IInv, MultiNodeTypeOK, NodeDir
  <1>6. \A n \in Nodes : dir'[n].account = dir[n].account
    BY <1>0, <1>1 DEF IInv, MultiNodeTypeOK, NodeDir
  <1>7. \A n \in Nodes : dir'[n].genesis = dir[n].genesis
    BY <1>0, <1>1 DEF IInv, MultiNodeTypeOK, NodeDir
  <1>8. \A n \in Nodes : dir'[n].config = dir[n].config
    BY <1>0, <1>1 DEF IInv, MultiNodeTypeOK, NodeDir
  <1>9. /\ \A n \in Nodes : n # i => dir'[n].gentxs = dir[n].gentxs
        /\ dir'[i].gentxs = files
    BY <1>0, <1>1 DEF IInv, MultiNodeTypeOK, NodeDir
  <1>10. \A g \in gentxsFiles :
            \E m \in Nodes : m < Signed /\ g = GentxOf(m)
    BY DEF IInv, Memory
  <1>11. \A g \in gentxsFiles :
            /\ g.account = run /\ g.node \in Nodes /\ g.key = dir[g.node].key
            /\ g = GentxOf(g.node)
    BY <1>10 DEF GentxOf
  <1>12. ASSUME NEW n \in Nodes, NEW g \in dir'[n].gentxs
         PROVE  /\ g.account # 0 /\ g.account <= run
                /\ g.key = dir'[g.node].key
                /\ g.account = run => g \in gentxsFiles
                /\ \A h \in dir'[n].gentxs : SameFile(g, h) => g = h
    <2>1. CASE g \in copied
      <3>1. /\ g \in gentxsFiles /\ g.account = run /\ run # 0
            /\ g.key = dir'[g.node].key
        BY <1>0, <1>2, <1>5, <1>11, <2>1 DEF Runs
      <3>2. ASSUME NEW h \in dir'[n].gentxs, SameFile(g, h) PROVE g = h
        <4>1. CASE n = i
          <5>1. h \in copied
            BY <1>9, <2>1, <3>2, <4>1 DEF files
          <5>. QED BY <1>2, <1>11, <2>1, <3>2, <5>1 DEF SameFile
        <4>2. CASE n # i
          BY <1>9, <3>2, <4>2 DEF IInv, Gentxs
        <4>. QED BY <4>1, <4>2
      <3>. QED BY <1>0, <3>1, <3>2
    <2>2. CASE g \notin copied
      <3>1. g \in dir[n].gentxs /\ (n = i => \A c \in copied : ~SameFile(c, g))
        BY <1>9, <2>2 DEF files
      <3>2. g.node \in Nodes
        BY <3>1 DEF IInv, MultiNodeTypeOK, NodeDir, Gentx
      <3>3. g.key = dir'[g.node].key
        BY <1>5, <3>1, <3>2 DEF IInv, Gentxs
      <3>4. ASSUME NEW h \in dir'[n].gentxs, SameFile(g, h) PROVE g = h
        <4>1. h \in dir[n].gentxs
          <5>1. CASE n = i
            BY <1>9, <3>1, <3>4, <5>1 DEF files, SameFile
          <5>2. CASE n # i
            BY <1>9, <5>2
          <5>. QED BY <5>1, <5>2
        <4>. QED BY <3>1, <3>4, <4>1 DEF IInv, Gentxs
      <3>. QED BY <1>0, <3>1, <3>3, <3>4 DEF IInv, Gentxs
    <2>. QED BY <2>1, <2>2
  <1>. QED BY <1>4, <1>5, <1>6, <1>7, <1>8, <1>9, <1>12 DEF files

LEMMA CopyGentxsKeeps == IInv /\ CopyGentxs => IInv'
  <1>. SUFFICES ASSUME IInv, CopyGentxs PROVE IInv'
    OBVIOUS
  <1>0. Built /\ Built' /\ ~Collecting /\ InRun' /\ pc = "copy"
    BY DEF CopyGentxs, Built, Collecting, Advance, InRun
  <1>1. /\ i \in Nodes /\ i \in Nat /\ run \in Runs /\ run \in Nat /\ Nodes \subseteq Nat
        /\ i < args.numValidators /\ args.numValidators \in Nat /\ InRun
        /\ i + 1 < args.numValidators => i + 1 \in Nodes
        /\ 0 \in Nodes /\ outcome = "running" /\ Signed = args.numValidators
    BY <1>0, BuiltNumbers
  <1>2. /\ dir' \in [Nodes -> NodeDir]
        /\ \A n \in Nodes : dir'[n].key = dir[n].key
        /\ \A n \in Nodes : dir'[n].account = dir[n].account
        /\ \A n \in Nodes : dir'[n].genesis = dir[n].genesis
        /\ \A n \in Nodes : dir'[n].config = dir[n].config
        /\ \A n \in Nodes : n # i => dir'[n].gentxs = dir[n].gentxs
        /\ dir'[i].gentxs =
             {h \in dir[i].gentxs : \A g \in Foreign(i) : ~SameFile(g, h)} \cup Foreign(i)
        /\ \A n \in Nodes : \A g \in dir'[n].gentxs :
             /\ g.account # 0 /\ g.account <= run
             /\ g.key = dir'[g.node].key
             /\ g.account = run => g \in gentxsFiles
             /\ \A h \in dir'[n].gentxs : SameFile(g, h) => g = h
    <2>1. Foreign(i) \in SUBSET Foreign(i)
      OBVIOUS
    <2>2. run' = run /\ dir' = [dir EXCEPT ![i].gentxs = Copied(i, Foreign(i))]
      BY DEF CopyGentxs
    <2>. QED BY <1>0, <2>1, <2>2, Copying
  <1>3. \A n \in Nodes : dir'[n].key = dir[n].key
    BY <1>2
  <1>4. \A n \in Nodes : dir'[n].account = dir[n].account
    BY <1>2
  <1>5. \A n \in Nodes : dir'[n].genesis = dir[n].genesis
    BY <1>2
  <1>6. MultiNodeTypeOK'
    <2>1. i' \in Nodes /\ pc' \in Steps
      BY <1>1 DEF CopyGentxs, Advance, Steps
    <2>. QED BY <1>2, <2>1 DEF CopyGentxs, IInv, MultiNodeTypeOK
  <1>7. Control' /\ Canonical' /\ Configured'
    <2>1. i' < args.numValidators /\ (Collecting' => i' = 0)
      BY <1>0, <1>1 DEF CopyGentxs, Advance, Collecting
    <2>2. Control'
      BY <1>0, <1>1, <2>1 DEF IInv, Control, CopyGentxs
    <2>3. Canonical'
      BY <1>0, <2>1 DEF IInv, Canonical, CopyGentxs
    <2>4. Configured'
      <3>1. \A n \in Nodes : ~(n < 0)
        BY <1>1
      <3>. QED BY <2>1, <3>1 DEF Configured
    <2>. QED BY <2>2, <2>3, <2>4
  <1>8. /\ Memory' /\ \A n \in Nodes : GentxOf(n)' = GentxOf(n)
        /\ Initial' = Initial /\ Collected' = Collected /\ Final' = Final
        /\ Signed' = Signed
    BY <1>0, <1>3, <1>4, BuiltMemory DEF CopyGentxs
  <1>9. Gentxs'
    BY <1>2 DEF Gentxs, CopyGentxs
  <1>10. Copies'
    <2>1. \A n \in Nodes : n < Signed => GentxOf(n) \in dir[n].gentxs
      BY DEF IInv, Copies
    <2>2. \A g \in gentxsFiles : \E m \in Nodes : m < Signed /\ g = GentxOf(m)
      BY DEF IInv, Memory
    <2>3. \A n \in Nodes : n < Signed => GentxOf(n) \in dir'[n].gentxs
      <3>1. \A g \in Foreign(i) : g.node # i
        BY DEF Foreign, isSubDir
      <3>2. i < Signed => GentxOf(i) \in dir'[i].gentxs
        BY <1>1, <1>2, <2>1, <3>1 DEF SameFile, GentxOf
      <3>. QED BY <1>2, <2>1, <3>2
    <2>4. gentxsFiles \subseteq dir'[i].gentxs
      <3>. SUFFICES ASSUME NEW g \in gentxsFiles PROVE g \in dir'[i].gentxs
        OBVIOUS
      <3>1. CASE g.node = i
        <4>1. PICK m \in Nodes : m < Signed /\ g = GentxOf(m)
          BY <2>2
        <4>2. m = i
          BY <3>1, <4>1 DEF GentxOf
        <4>. QED BY <2>3, <4>1, <4>2
      <3>2. CASE g.node # i
        BY <1>2, <3>2 DEF Foreign, isSubDir
      <3>. QED BY <3>1, <3>2
    <2>5. \A n \in Nodes : n < i \/ n = i => gentxsFiles \subseteq dir'[n].gentxs
      <3>1. \A n \in Nodes : n < i => gentxsFiles \subseteq dir[n].gentxs /\ n # i
        BY <1>0, <1>1 DEF IInv, Copies
      <3>. QED BY <1>2, <2>4, <3>1
    <2>6. \A n \in Nodes : (Collecting' \/ (pc' = "copy" /\ n < i')) /\ n < args.numValidators
                             => n < i \/ n = i
      BY <1>0, <1>1 DEF CopyGentxs, Advance, Collecting
    <2>7. gentxsFiles' = gentxsFiles /\ args' = args
      BY DEF CopyGentxs
    <2>. QED BY <1>8, <2>3, <2>5, <2>6, <2>7 DEF Copies
  <1>11. Geneses'
    <2>1. /\ \A n \in Nodes : dir[n].genesis.chain <= run
          /\ \A n \in Nodes : dir[n].genesis.chain = run =>
                dir[n].genesis \in {Initial, Collected, Final}
          /\ \A n \in Nodes : n < args.numValidators => dir[n].genesis = Initial
      BY <1>0, <1>1 DEF IInv, Geneses
    <2>2. Collecting' => i' = 0 /\ pc' = "collect"
      BY <1>0, <1>1 DEF CopyGentxs, Advance, Collecting
    <2>3. pc' # "genesis" /\ \A n \in Nodes : ~(n < 0)
      BY <1>1 DEF CopyGentxs, Advance
    <2>. QED BY <1>0, <1>5, <1>8, <2>1, <2>2, <2>3 DEF Geneses, CopyGentxs
  <1>12. FinalGenesesAgree' /\ GenesisIsOfOneRun'
    BY <1>5, SameGeneses
  <1>13. outcome' = "running"
    BY <1>1 DEF CopyGentxs
  <1>. QED BY <1>6, <1>7, <1>8, <1>9, <1>10, <1>11, <1>12, <1>13, Running DEF IInv

LEMMA CopyFailsKeeps == IInv /\ CopyFails => IInv'
  <1>. SUFFICES ASSUME IInv, CopyFails PROVE IInv'
    OBVIOUS
  <1>0. Built /\ run' = run
    BY DEF CopyFails, Built, Ends
  <1>1. PICK copied \in SUBSET Foreign(i) :
            dir' = [dir EXCEPT ![i].gentxs = Copied(i, copied)]
    BY DEF CopyFails
  <1>2. /\ dir' \in [Nodes -> NodeDir]
        /\ \A n \in Nodes : dir'[n].genesis = dir[n].genesis
        /\ \A n \in Nodes : \A g \in dir'[n].gentxs :
             /\ g.account # 0 /\ g.account <= run
             /\ g.key = dir'[g.node].key
             /\ \A h \in dir'[n].gentxs : SameFile(g, h) => g = h
    <2>1. dir' \in [Nodes -> NodeDir]
      BY <1>0, <1>1, Copying
    <2>2. \A n \in Nodes : dir'[n].genesis = dir[n].genesis
      BY <1>0, <1>1, Copying
    <2>3. \A n \in Nodes : \A g \in dir'[n].gentxs :
            /\ g.account # 0 /\ g.account <= run
            /\ g.key = dir'[g.node].key
            /\ g.account = run => g \in gentxsFiles
            /\ \A h \in dir'[n].gentxs : SameFile(g, h) => g = h
      BY <1>0, <1>1, Copying
    <2>. QED BY <2>1, <2>2, <2>3
  <1>3. \A n \in Nodes : dir'[n].genesis = dir[n].genesis
    BY <1>2
  <1>4. FinalGenesesAgree' /\ GenesisIsOfOneRun'
    BY <1>3, SameGeneses
  <1>5. Disk'
    BY <1>0, <1>2, <1>3, <1>4 DEF IInv, Geneses, Disk
  <1>6. outcome' = "failed" /\ Ends("failed") /\ "failed" \in Outcomes \ {"running"}
    BY DEF CopyFails, Ends, Outcomes
  <1>7. SuccessIsOneNetwork' /\ RefusedForAReason' /\ PeersAreListening'
    BY <1>6 DEF SuccessIsOneNetwork, RefusedForAReason, PeersAreListening
  <1>. QED BY <1>5, <1>6, <1>7, EndsKeeps

-----------------------------------------------------------------------------
(* Collecting the gentxs *)

\* What the node whose gentxs are collected has of this run.
LEMMA AtCollection ==
    ASSUME IInv, pc = "collect"
    PROVE  /\ Built /\ Collecting
           /\ dir[i].genesis = Initial
           /\ gentxsFiles \subseteq dir[i].gentxs
           /\ \A g \in gentxsFiles : g.account = run
           /\ \A n \in Members : GentxOf(n) \in dir[i].gentxs
           /\ CollectTxs(i) => dir[i].gentxs = gentxsFiles
  <1>1. Built /\ Collecting
    BY DEF Built, Collecting
  <1>2. /\ i \in Nodes /\ i \in Nat /\ i < args.numValidators /\ InRun
        /\ args.numValidators \in Nat /\ Nodes \subseteq Nat
        /\ Accounts = args.numValidators /\ Signed = args.numValidators
    BY <1>1, BuiltNumbers
  <1>3. dir[i].genesis = Initial
    BY <1>1, <1>2 DEF IInv, Geneses
  <1>4. gentxsFiles \subseteq dir[i].gentxs
    BY <1>1, <1>2 DEF IInv, Copies
  <1>5. \A g \in gentxsFiles : g.account = run
    BY DEF IInv, Memory, GentxOf
  <1>6. \A n \in Members : GentxOf(n) \in dir[i].gentxs
    <2>1. \A n \in Members : n \in Nodes /\ n < Signed
      BY <1>2, MultiNodeAssumption DEF Members, IInv, MultiNodeTypeOK, Args, Nodes
    <2>2. \A n \in Members : GentxOf(n) \in gentxsFiles
      BY <2>1 DEF IInv, Memory
    <2>. QED BY <1>4, <2>2
  <1>7. ASSUME CollectTxs(i), NEW g \in dir[i].gentxs PROVE g \in gentxsFiles
    <2>1. [node |-> g.node, run |-> g.account] \in genAccounts
      BY <1>3, <1>7 DEF CollectTxs, Initial
    <2>2. \A a \in genAccounts : a.run = run
      BY DEF IInv, Memory, AccountOf
    <2>3. g.account = run
      BY <2>1, <2>2
    <2>. QED BY <1>2, <2>3 DEF IInv, Gentxs
  <1>. QED BY <1>1, <1>3, <1>4, <1>5, <1>6, <1>7

LEMMA CollectRefusesKeeps == IInv /\ CollectRefuses => IInv'
  <1>. SUFFICES ASSUME IInv, CollectRefuses PROVE IInv'
    OBVIOUS
  <1>0. pc = "collect" /\ ~CollectTxs(i) /\ UNCHANGED <<dir, run, args>>
    BY DEF CollectRefuses, Ends
  <1>1. Disk'
    BY <1>0, SameDisk
  <1>2. outcome' = "refused" /\ Ends("refused") /\ "refused" \in Outcomes \ {"running"}
    BY DEF CollectRefuses, Ends, Outcomes
  <1>3. RefusedForAReason'
    <2>0. /\ Built /\ Collecting
          /\ dir[i].genesis = Initial
          /\ \A n \in Members : GentxOf(n) \in dir[i].gentxs
      BY <1>0, AtCollection
    <2>1. /\ i \in Nodes /\ i \in Nat /\ i < args.numValidators /\ InRun
          /\ args.numValidators \in Nat /\ Nodes \subseteq Nat
          /\ Accounts = args.numValidators /\ i \in Members
      BY <2>0, BuiltNumbers DEF Members
    <2>2. PICK g \in dir[i].gentxs :
             \/ g.account = 0
             \/ [node |-> g.node, run |-> g.account] \notin genAccounts
             \/ ~(g.stake <= Balance)
      BY <1>0, <2>0 DEF CollectTxs, Initial
    <2>3. g.account # 0 /\ g.key = dir[g.node].key
      BY <2>1 DEF IInv, Gentxs
    <2>4. CASE g.node \notin Members
      BY <1>0, <2>1, <2>4 DEF RefusedForAReason, Members
    <2>5. CASE g.node \in Members
      <3>1. GentxOf(g.node) \in dir[i].gentxs /\ SameFile(g, GentxOf(g.node))
        BY <2>0, <2>3, <2>5 DEF SameFile, GentxOf
      <3>2. g = GentxOf(g.node)
        BY <2>1, <3>1 DEF IInv, Gentxs
      <3>3. g.account = run /\ g.stake = valTokens(args, g.node)
        BY <3>2 DEF GentxOf
      <3>4. AccountOf(g.node) \in genAccounts
        <4>1. g.node \in Nodes /\ g.node < Accounts
          BY <2>1, <2>5 DEF Members, IInv, MultiNodeTypeOK, NodeDir, Gentx
        <4>. QED BY <4>1 DEF IInv, Memory
      <3>5. ~(valTokens(args, g.node) <= Balance)
        BY <2>2, <2>3, <3>3, <3>4 DEF AccountOf
      <3>6. g.node \in Members'
        BY <1>0, <2>5 DEF Members
      <3>. QED BY <1>0, <3>5, <3>6 DEF RefusedForAReason, valTokens
    <2>. QED BY <2>4, <2>5
  <1>4. SuccessIsOneNetwork' /\ PeersAreListening'
    BY <1>2 DEF SuccessIsOneNetwork, PeersAreListening
  <1>. QED BY <1>1, <1>2, <1>3, <1>4, EndsKeeps

LEMMA CollectGenTxsKeeps == IInv /\ CollectGenTxs => IInv'
  <1>. SUFFICES ASSUME IInv, CollectGenTxs PROVE IInv'
    OBVIOUS
  <1>0. /\ Built /\ Collecting
        /\ dir[i].genesis = Initial
        /\ gentxsFiles \subseteq dir[i].gentxs
        /\ \A g \in gentxsFiles : g.account = run
        /\ dir[i].gentxs = gentxsFiles
    BY AtCollection DEF CollectGenTxs
  <1>1. /\ i \in Nodes /\ i \in Nat /\ run \in Nat /\ Nodes \subseteq Nat
        /\ i < args.numValidators /\ args.numValidators \in Nat /\ InRun
        /\ outcome = "running" /\ Signed = args.numValidators
    BY <1>0, BuiltNumbers
  <1>2. /\ Built' /\ Collecting' /\ InRun' /\ pc = "collect" /\ pc' = "canonical" /\ i' = i
        /\ UNCHANGED <<run, args, nodeIDs, genAccounts, gentxsFiles, persistentPeers>>
        /\ UNCHANGED <<appState, outcome>>
    BY DEF CollectGenTxs, Built, Collecting, InRun, memory
  <1>3. dir' = [dir EXCEPT ![i].genesis.gentxs = gentxsFiles]
    BY <1>0 DEF CollectGenTxs
  <1>4. \A n \in Nodes : dir'[n].key = dir[n].key
    BY <1>1, <1>3 DEF IInv, MultiNodeTypeOK, NodeDir
  <1>5. \A n \in Nodes : dir'[n].account = dir[n].account
    BY <1>1, <1>3 DEF IInv, MultiNodeTypeOK, NodeDir
  <1>6. \A n \in Nodes : dir'[n].gentxs = dir[n].gentxs
    BY <1>1, <1>3 DEF IInv, MultiNodeTypeOK, NodeDir
  <1>7. \A n \in Nodes : dir'[n].config = dir[n].config
    BY <1>1, <1>3 DEF IInv, MultiNodeTypeOK, NodeDir
  <1>8. /\ \A n \in Nodes : n # i => dir'[n].genesis = dir[n].genesis
        /\ dir'[i].genesis = [dir[i].genesis EXCEPT !.gentxs = gentxsFiles]
    BY <1>1, <1>3 DEF IInv, MultiNodeTypeOK, NodeDir
  <1>9. dir'[i].genesis = Collected
    BY <1>0, <1>8 DEF Initial, Collected
  <1>10. Collected \in Genesis /\ Collected.chain = run /\ Collected.gentxs = gentxsFiles
         /\ Collected.accounts = genAccounts /\ Collected.time = 0
    <2>1. Initial \in Genesis
      BY <1>0, <1>1 DEF IInv, MultiNodeTypeOK, NodeDir
    <2>. QED BY <2>1 DEF IInv, MultiNodeTypeOK, Collected, Initial, Genesis
  <1>11. MultiNodeTypeOK'
    <2>1. [dir[i] EXCEPT !.genesis = Collected] \in NodeDir
      BY <1>1, <1>10 DEF IInv, MultiNodeTypeOK, NodeDir
    <2>2. dir' = [dir EXCEPT ![i] = [dir[i] EXCEPT !.genesis = Collected]]
      <3>1. [dir[i].genesis EXCEPT !.gentxs = gentxsFiles] = Collected
        BY <1>0 DEF Initial, Collected
      <3>. QED BY <1>1, <1>3, <3>1 DEF IInv, MultiNodeTypeOK
    <2>3. dir' \in [Nodes -> NodeDir]
      BY <1>1, <2>1, <2>2 DEF IInv, MultiNodeTypeOK
    <2>. QED BY <1>2, <2>3 DEF IInv, MultiNodeTypeOK, Steps
  <1>12. Control'
    BY <1>1, <1>2 DEF IInv, Control
  <1>13. Canonical' /\ Configured'
    BY <1>0, <1>2, <1>7 DEF IInv, Canonical, Configured
  <1>14. /\ Memory' /\ \A n \in Nodes : GentxOf(n)' = GentxOf(n)
         /\ Initial' = Initial /\ Collected' = Collected /\ Final' = Final
         /\ Signed' = Signed
    BY <1>0, <1>2, <1>4, <1>5, BuiltMemory
  <1>15. Gentxs'
    BY <1>0, <1>2, <1>4, <1>6, SameGentxs
  <1>16. Copies'
    BY <1>0, <1>2, <1>6, <1>14 DEF IInv, Copies
  <1>17. Geneses'
    <2>1. \A n \in Nodes : dir'[n].genesis.chain <= run
      BY <1>1, <1>8, <1>9, <1>10 DEF IInv, Geneses
    <2>2. \A n \in Nodes : dir'[n].genesis.chain = run =>
              dir'[n].genesis \in {Initial, Collected, Final}
      BY <1>0, <1>1, <1>8, <1>9 DEF IInv, Geneses
    <2>3. \A n \in Nodes : n < args.numValidators =>
              dir'[n].genesis = IF n < i THEN Final ELSE IF n = i THEN Collected ELSE Initial
      BY <1>0, <1>1, <1>2, <1>8, <1>9 DEF IInv, Geneses
    <2>. QED BY <1>2, <1>14, <2>1, <2>2, <2>3 DEF Geneses
  <1>18. FinalGenesesAgree'
    <2>1. \A n \in Nodes : n # i /\ dir[n].genesis.chain = run =>
              dir[n].genesis \in {Initial, Collected, Final}
      BY <1>1 DEF IInv, Geneses
    <2>2. \A n \in Nodes : n # i /\ dir'[n].genesis.chain = run /\ dir'[n].genesis.gentxs # {} =>
              /\ dir'[n].genesis.accounts = genAccounts
              /\ dir'[n].genesis.gentxs = gentxsFiles
      <3>1. Initial.gentxs = {} /\ Final.accounts = genAccounts /\ Final.gentxs = gentxsFiles
        BY DEF Initial, Collected, Final
      <3>2. \A n \in Nodes : n # i => dir'[n].genesis = dir[n].genesis
        BY <1>8
      <3>. QED BY <1>10, <2>1, <3>1, <3>2
    <2>3. \A n, m \in Nodes : n # i /\ m # i =>
              LET g == dir'[n].genesis
                  h == dir'[m].genesis
              IN  g.gentxs # {} /\ h.gentxs # {} /\ g.chain = h.chain =>
                      /\ g.accounts = h.accounts /\ g.gentxs = h.gentxs
                      /\ g.time # 0 /\ h.time # 0 => g = h
      <3>1. \A n \in Nodes : n # i => dir'[n].genesis = dir[n].genesis
        BY <1>8
      <3>. QED BY <3>1 DEF IInv, FinalGenesesAgree
    <2>. SUFFICES ASSUME NEW n \in Nodes, NEW m \in Nodes,
                         dir'[n].genesis.gentxs # {}, dir'[m].genesis.gentxs # {},
                         dir'[n].genesis.chain = dir'[m].genesis.chain
                  PROVE  /\ dir'[n].genesis.accounts = dir'[m].genesis.accounts
                         /\ dir'[n].genesis.gentxs = dir'[m].genesis.gentxs
                         /\ dir'[n].genesis.time # 0 /\ dir'[m].genesis.time # 0 =>
                                dir'[n].genesis = dir'[m].genesis
      BY DEF FinalGenesesAgree
    <2>4. CASE n = i
      BY <1>9, <1>10, <2>2, <2>4
    <2>5. CASE m = i
      BY <1>9, <1>10, <2>2, <2>5
    <2>6. CASE n # i /\ m # i
      BY <2>3, <2>6
    <2>. QED BY <2>4, <2>5, <2>6
  <1>19. GenesisIsOfOneRun'
    <2>1. \A g \in gentxsFiles :
             /\ [node |-> g.node, run |-> g.account] \in genAccounts
             /\ g.stake <= Balance /\ g.account = run
      <3>1. CollectTxs(i)
        BY DEF CollectGenTxs
      <3>2. Initial.accounts = genAccounts
        BY DEF Initial
      <3>3. \A g \in gentxsFiles :
               [node |-> g.node, run |-> g.account] \in genAccounts /\ g.stake <= Balance
        BY <1>0, <3>1, <3>2 DEF CollectTxs
      <3>. QED BY <1>0, <3>3
    <2>. SUFFICES ASSUME NEW n \in Nodes, NEW g \in dir'[n].genesis.gentxs
                  PROVE  /\ g.account = dir'[n].genesis.chain
                         /\ [node |-> g.node, run |-> g.account] \in dir'[n].genesis.accounts
                         /\ g.stake <= Balance
      BY DEF GenesisIsOfOneRun
    <2>2. CASE n = i
      BY <1>9, <1>10, <2>1, <2>2
    <2>3. CASE n # i
      <3>1. dir'[n].genesis = dir[n].genesis
        BY <1>8, <2>3
      <3>. QED BY <3>1 DEF IInv, GenesisIsOfOneRun
    <2>. QED BY <2>2, <2>3
  <1>. QED BY <1>1, <1>2, <1>11, <1>12, <1>13, <1>14, <1>15, <1>16, <1>17, <1>18, <1>19,
              Running DEF IInv

\* The genesis a node ends with is the same for every node.
LEMMA CanonicalIsFinal ==
    ASSUME IInv, pc = "canonical"
    PROVE  /\ Built /\ Collecting /\ canonical(i) = Final
           /\ dir[i].genesis = Collected
  <1>1. Built /\ Collecting
    BY DEF Built, Collecting
  <1>2. /\ i \in Nodes /\ i \in Nat /\ i < args.numValidators
    BY <1>1, BuiltNumbers
  <1>3. dir[i].genesis = Collected
    BY <1>1, <1>2 DEF IInv, Geneses
  <1>4. dir[i].genesis.accounts = genAccounts /\ dir[i].genesis.gentxs = gentxsFiles
    BY <1>3 DEF Collected, Initial
  <1>5. Final = [chain |-> run, time |-> run, accounts |-> genAccounts, gentxs |-> gentxsFiles]
    BY DEF Final
  <1>6. CASE i = 0
    <2>1. appState = NoState
      BY <1>6 DEF IInv, Canonical
    <2>. QED BY <1>1, <1>3, <1>4, <1>5, <2>1 DEF canonical
  <1>7. CASE i > 0
    <2>1. appState = [accounts |-> genAccounts, gentxs |-> gentxsFiles]
      BY <1>1, <1>7 DEF IInv, Canonical
    <2>. QED BY <1>1, <1>3, <1>4, <1>5, <2>1 DEF canonical
  <1>. QED BY <1>2, <1>6, <1>7

LEMMA CollectGenFilesKeeps == IInv /\ CollectGenFiles => IInv'
  <1>. SUFFICES ASSUME IInv, CollectGenFiles PROVE IInv'
    OBVIOUS
  <1>. DEFINE c == [peers |-> persistentPeers, rpc |-> ports(args, i), p2p |-> p2pPort(i)]
  <1>0. Built /\ Collecting /\ canonical(i) = Final /\ dir[i].genesis = Collected
        /\ pc = "canonical"
    BY CanonicalIsFinal DEF CollectGenFiles
  <1>1. /\ i \in Nodes /\ i \in Nat /\ run \in Runs /\ run \in Nat /\ Nodes \subseteq Nat
        /\ i < args.numValidators /\ args.numValidators \in Nat /\ InRun /\ args \in Args
        /\ i + 1 < args.numValidators => i + 1 \in Nodes
        /\ outcome = "running" /\ Signed = args.numValidators
        /\ Keys = args.numValidators /\ Accounts = args.numValidators
    BY <1>0, BuiltNumbers
  <1>2. /\ Final.chain = run /\ Final.time = run /\ Final.accounts = genAccounts
        /\ Final.gentxs = gentxsFiles
    BY DEF Final
  <1>3. Final \in Genesis
    BY <1>1 DEF IInv, MultiNodeTypeOK, Final, Collected, Initial, Genesis, Runs
  <1>4. c.peers = persistentPeers /\ c.p2p = p2pPort(i) /\ c \in Config
    BY <1>1 DEF Config, Ports, IInv, MultiNodeTypeOK
  <1>. HIDE DEF c
  <1>5. dir' = [dir EXCEPT ![i].genesis = Final, ![i].config = c]
    BY <1>0 DEF CollectGenFiles, c
  <1>6. \A n \in Nodes : dir'[n].key = dir[n].key
    BY <1>1, <1>5 DEF IInv, MultiNodeTypeOK, NodeDir
  <1>7. \A n \in Nodes : dir'[n].account = dir[n].account
    BY <1>1, <1>5 DEF IInv, MultiNodeTypeOK, NodeDir
  <1>8. \A n \in Nodes : dir'[n].gentxs = dir[n].gentxs
    BY <1>1, <1>5 DEF IInv, MultiNodeTypeOK, NodeDir
  <1>9. /\ \A n \in Nodes : n # i => dir'[n].config = dir[n].config
        /\ dir'[i].config = c
    BY <1>1, <1>5 DEF IInv, MultiNodeTypeOK, NodeDir
  <1>10. \A n \in Nodes : n # i => dir'[n].genesis = dir[n].genesis
    BY <1>1, <1>5 DEF IInv, MultiNodeTypeOK, NodeDir
  <1>11. dir'[i].genesis = Final
    BY <1>1, <1>5 DEF IInv, MultiNodeTypeOK, NodeDir
  <1>12. dir' \in [Nodes -> NodeDir]
    BY <1>1, <1>3, <1>4, <1>5 DEF IInv, MultiNodeTypeOK, NodeDir
  <1>13. FinalGenesesAgree'
    <2>1. \A n \in Nodes : n # i /\ dir'[n].genesis.chain = run /\ dir'[n].genesis.gentxs # {} =>
              /\ dir'[n].genesis.accounts = genAccounts
              /\ dir'[n].genesis.gentxs = gentxsFiles
              /\ dir'[n].genesis.time # 0 => dir'[n].genesis = Final
      <3>1. \A n \in Nodes : n # i /\ dir[n].genesis.chain = run =>
                dir[n].genesis \in {Initial, Collected, Final}
        BY <1>1 DEF IInv, Geneses
      <3>2. /\ Initial.gentxs = {} /\ Collected.accounts = genAccounts
            /\ Collected.gentxs = gentxsFiles /\ Collected.time = 0
        BY DEF Initial, Collected
      <3>. QED BY <1>2, <1>10, <3>1, <3>2
    <2>2. \A n, m \in Nodes : n # i /\ m # i =>
              LET g == dir'[n].genesis
                  h == dir'[m].genesis
              IN  g.gentxs # {} /\ h.gentxs # {} /\ g.chain = h.chain =>
                      /\ g.accounts = h.accounts /\ g.gentxs = h.gentxs
                      /\ g.time # 0 /\ h.time # 0 => g = h
      BY <1>10 DEF IInv, FinalGenesesAgree
    <2>. SUFFICES ASSUME NEW n \in Nodes, NEW m \in Nodes,
                         dir'[n].genesis.gentxs # {}, dir'[m].genesis.gentxs # {},
                         dir'[n].genesis.chain = dir'[m].genesis.chain
                  PROVE  /\ dir'[n].genesis.accounts = dir'[m].genesis.accounts
                         /\ dir'[n].genesis.gentxs = dir'[m].genesis.gentxs
                         /\ dir'[n].genesis.time # 0 /\ dir'[m].genesis.time # 0 =>
                                dir'[n].genesis = dir'[m].genesis
      BY DEF FinalGenesesAgree
    <2>3. CASE n = i
      BY <1>2, <1>11, <2>1, <2>3
    <2>4. CASE m = i
      BY <1>2, <1>11, <2>1, <2>4
    <2>5. CASE n # i /\ m # i
      BY <2>2, <2>5
    <2>. QED BY <2>3, <2>4, <2>5
  <1>14. GenesisIsOfOneRun'
    <2>1. /\ Collected.chain = run /\ Collected.accounts = genAccounts
          /\ Collected.gentxs = gentxsFiles
      BY DEF Collected, Initial
    <2>2. \A g \in gentxsFiles :
             /\ g.account = run /\ g.stake <= Balance
             /\ [node |-> g.node, run |-> g.account] \in genAccounts
      BY <1>0, <1>1, <2>1 DEF IInv, GenesisIsOfOneRun
    <2>. SUFFICES ASSUME NEW n \in Nodes, NEW g \in dir'[n].genesis.gentxs
                  PROVE  /\ g.account = dir'[n].genesis.chain
                         /\ [node |-> g.node, run |-> g.account] \in dir'[n].genesis.accounts
                         /\ g.stake <= Balance
      BY DEF GenesisIsOfOneRun
    <2>3. CASE n = i
      BY <1>2, <1>11, <2>2, <2>3
    <2>4. CASE n # i
      <3>1. dir'[n].genesis = dir[n].genesis
        BY <1>10, <2>4
      <3>. QED BY <3>1 DEF IInv, GenesisIsOfOneRun
    <2>. QED BY <2>3, <2>4
  <1>15. \A n \in Nodes : n < i \/ n = i =>
             /\ dir'[n].genesis = Final
             /\ dir'[n].config.peers = persistentPeers
             /\ dir'[n].config.p2p = p2pPort(n)
    <2>1. \A n \in Nodes : n < i =>
             /\ n # i /\ dir[n].genesis = Final
             /\ dir[n].config.peers = persistentPeers
             /\ dir[n].config.p2p = p2pPort(n)
      BY <1>0, <1>1 DEF IInv, Geneses, Configured
    <2>. QED BY <1>4, <1>9, <1>10, <1>11, <2>1
  <1>16. \A n \in Nodes : dir'[n].genesis.chain <= run
    <2>. SUFFICES ASSUME NEW n \in Nodes PROVE dir'[n].genesis.chain <= run
      OBVIOUS
    <2>1. CASE n = i
      BY <1>1, <1>2, <1>11, <2>1
    <2>2. CASE n # i
      <3>1. dir'[n].genesis = dir[n].genesis
        BY <1>10, <2>2
      <3>. QED BY <3>1 DEF IInv, Geneses
    <2>. QED BY <2>1, <2>2
  <1>17. CASE i + 1 < args.numValidators
    <2>1. /\ i' = i + 1 /\ pc' = "collect"
          /\ appState' = [accounts |-> genAccounts, gentxs |-> gentxsFiles]
          /\ UNCHANGED <<run, args, nodeIDs, genAccounts, gentxsFiles, persistentPeers, outcome>>
      BY <1>0, <1>2, <1>17 DEF CollectGenFiles
    <2>2. Built' /\ Collecting' /\ InRun'
      BY <2>1 DEF Built, Collecting, InRun
    <2>3. MultiNodeTypeOK'
      <3>1. appState' \in AppState
        BY <2>1 DEF IInv, MultiNodeTypeOK, AppState
      <3>. QED BY <1>1, <1>12, <1>17, <2>1, <3>1 DEF IInv, MultiNodeTypeOK, Steps
    <2>4. Control'
      BY <1>1, <1>17, <2>1, <2>2 DEF IInv, Control
    <2>5. /\ Memory' /\ \A n \in Nodes : GentxOf(n)' = GentxOf(n)
          /\ Initial' = Initial /\ Collected' = Collected /\ Final' = Final
          /\ Signed' = Signed
      BY <1>0, <1>6, <1>7, <2>1, <2>2, BuiltMemory
    <2>6. Gentxs'
      BY <1>0, <1>6, <1>8, <2>1, <2>2, SameGentxs
    <2>7. Copies'
      BY <1>0, <1>8, <2>1, <2>2, <2>5 DEF IInv, Copies
    <2>8. \A n \in Nodes : n < i + 1 <=> (n < i \/ n = i)
      BY <1>1
    <2>9. Canonical' /\ Configured'
      BY <1>1, <1>15, <2>1, <2>2, <2>8 DEF Canonical, Configured, p2pPort
    <2>10. Geneses'
      <3>1. \A n \in Nodes : dir'[n].genesis.chain <= run
        BY <1>16
      <3>2. \A n \in Nodes : dir'[n].genesis.chain = run =>
                dir'[n].genesis \in {Initial, Collected, Final}
        BY <1>0, <1>1, <1>10, <1>11 DEF IInv, Geneses
      <3>3. \A n \in Nodes : n < args.numValidators =>
                dir'[n].genesis = IF n < i + 1 THEN Final ELSE Initial
        BY <1>0, <1>1, <1>10, <1>15, <2>8 DEF IInv, Geneses
      <3>. QED BY <2>1, <2>2, <2>5, <3>1, <3>2, <3>3 DEF Geneses
    <2>11. outcome' = "running"
      BY <1>1, <2>1
    <2>. QED BY <1>13, <1>14, <2>3, <2>4, <2>5, <2>6, <2>7, <2>9, <2>10, <2>11, Running
             DEF IInv
  <1>18. CASE ~(i + 1 < args.numValidators)
    <2>1. Ends("ok") /\ UNCHANGED <<run, args>> /\ outcome' = "ok"
          /\ "ok" \in Outcomes \ {"running"}
      BY <1>0, <1>18 DEF CollectGenFiles, Ends, Outcomes
    <2>2. Members' = Members /\ Members = {n \in Nodes : n < args.numValidators}
      BY <1>1, <2>1, MultiNodeAssumption DEF Members, Nodes, Args
    <2>3. \A n \in Members : n \in Nodes /\ (n < i \/ n = i)
      BY <1>1, <1>18, <2>2
    <2>4. Disk'
      <3>1. \A n \in Nodes : dir'[n].genesis.chain <= run
        BY <1>16
      <3>2. ASSUME NEW n \in Nodes, NEW g \in dir'[n].gentxs
            PROVE  /\ g.account # 0 /\ g.account <= run
                   /\ g.key = dir'[g.node].key
                   /\ \A h \in dir'[n].gentxs : SameFile(g, h) => g = h
        <4>1. g \in dir[n].gentxs
          BY <1>8
        <4>2. g.node \in Nodes
          BY <4>1 DEF IInv, MultiNodeTypeOK, NodeDir, Gentx
        <4>3. g.key = dir'[g.node].key
          BY <1>6, <4>1, <4>2 DEF IInv, Gentxs
        <4>4. \A h \in dir'[n].gentxs : SameFile(g, h) => g = h
          BY <1>8, <4>1 DEF IInv, Gentxs
        <4>. QED BY <4>1, <4>3, <4>4 DEF IInv, Gentxs
      <3>. QED BY <1>12, <1>13, <1>14, <2>1, <3>1, <3>2 DEF Disk
    <2>5. SuccessIsOneNetwork'
      <3>1. 0 \in Members
        BY <1>1, <2>2, MultiNodeAssumption DEF Nodes
      <3>2. genAccounts = {[node |-> m, run |-> dir'[m].account] : m \in Members'}
        <4>1. \A m \in Members : dir'[m].account = run
          BY <1>1, <1>7, <2>2 DEF IInv, Memory
        <4>2. genAccounts = {[node |-> m, run |-> run] : m \in Members}
          BY <1>1, <2>2 DEF IInv, Memory, AccountOf
        <4>. QED BY <2>2, <4>1, <4>2
      <3>3. gentxsFiles = {[node |-> m, key |-> dir'[m].key, account |-> dir'[m].account,
                            stake |-> valTokens(args, m)] : m \in Members'}
        <4>1. \A m \in Members : dir'[m].account = run /\ dir'[m].key = dir[m].key
          BY <1>1, <1>6, <1>7, <2>2 DEF IInv, Memory
        <4>2. gentxsFiles = {[node |-> m, key |-> dir[m].key, account |-> run,
                              stake |-> valTokens(args, m)] : m \in Members}
          BY <1>1, <2>2 DEF IInv, Memory, GentxOf
        <4>. QED BY <2>2, <4>1, <4>2
      <3>4. \A n \in Members : dir'[n].genesis = Final
        BY <1>15, <2>3
      <3>. QED BY <1>2, <2>1, <2>2, <3>1, <3>2, <3>3, <3>4
           DEF SuccessIsOneNetwork, valTokens
    <2>6. PeersAreListening'
      <3>1. \A m \in Members : dir'[m].config.p2p = memoPort(m) /\ dir'[m].key = dir[m].key
        BY <1>6, <1>15, <2>3 DEF p2pPort, memoPort
      <3>2. persistentPeers = {[node |-> m, key |-> dir[m].key, port |-> memoPort(m)] : m \in Members}
        BY <1>1, <2>2 DEF IInv, Memory, PeerOf
      <3>3. persistentPeers =
               {[node |-> m, key |-> dir'[m].key, port |-> dir'[m].config.p2p] : m \in Members}
        BY <3>1, <3>2
      <3>. QED BY <1>15, <2>2, <2>3, <3>3 DEF PeersAreListening
    <2>7. RefusedForAReason'
      BY <2>1 DEF RefusedForAReason
    <2>. QED BY <2>1, <2>4, <2>5, <2>6, <2>7, EndsKeeps
  <1>. QED BY <1>17, <1>18

-----------------------------------------------------------------------------
(* Theorems *)

\* However often the generator is run, refused or killed, every state satisfies
\* the inductive invariant.
THEOREM MultiNodeInvariant == Spec => []IInv
  <1>1. Init => IInv
    BY InitIInv
  <1>2. IInv /\ [Next]_vars => IInv'
    <2>. SUFFICES ASSUME IInv, [Next]_vars PROVE IInv'
      OBVIOUS
    <2>1. CASE Next
      BY <2>1, StartKeeps, InitNodeFilesKeeps, SaveCoinKeyKeeps, InitFailsKeeps,
         WriteGentxKeeps, InitGenFilesKeeps, CopyGentxsKeeps, CopyFailsKeeps,
         CollectGenTxsKeeps, CollectGenFilesKeeps, CollectRefusesKeeps, StopsKeeps DEF Next
    <2>2. CASE UNCHANGED vars
      <3>1. UNCHANGED <<dir, run, pc, i, args, nodeIDs, genAccounts, gentxsFiles,
                        persistentPeers, appState, outcome>>
        BY <2>2 DEF vars, memory
      <3>2. MultiNodeTypeOK' /\ Control'
        BY <3>1 DEF IInv, MultiNodeTypeOK, Control, InRun
      <3>3. Memory' /\ Gentxs' /\ Copies'
        BY <3>1 DEF IInv, Memory, Gentxs, Copies, PeerOf, AccountOf, GentxOf, Keys,
                    Accounts, Signed, Built, Collecting, InRun
      <3>4. Geneses' /\ Canonical' /\ Configured'
        BY <3>1 DEF IInv, Geneses, Canonical, Configured, Initial, Collected, Final,
                    Built, Collecting, InRun
      <3>5. SuccessIsOneNetwork' /\ PeersAreListening' /\ RefusedForAReason'
        BY <3>1 DEF IInv, SuccessIsOneNetwork, PeersAreListening, RefusedForAReason,
                    Members
      <3>6. FinalGenesesAgree' /\ GenesisIsOfOneRun'
        BY <3>1, SameGeneses
      <3>. QED BY <3>2, <3>3, <3>4, <3>5, <3>6 DEF IInv
    <2>. QED BY <2>1, <2>2
  <1>. QED BY <1>1, <1>2, PTL DEF Spec

\* Types, for any number of nodes and runs and any flags.
THEOREM MultiNodeTyping == Spec => []MultiNodeTypeOK
  <1>1. IInv => MultiNodeTypeOK
    BY DEF IInv
  <1>. QED BY <1>1, MultiNodeInvariant, PTL

\* A run that reports success leaves one network, whatever was on disk before.
THEOREM OneNetwork == Spec => []SuccessIsOneNetwork
  <1>1. IInv => SuccessIsOneNetwork
    BY DEF IInv
  <1>. QED BY <1>1, MultiNodeInvariant, PTL

\* The geneses of one run agree at any time, the run's death included.
THEOREM GenesesAgree == Spec => []FinalGenesesAgree
  <1>1. IInv => FinalGenesesAgree
    BY DEF IInv
  <1>. QED BY <1>1, MultiNodeInvariant, PTL

\* No genesis mixes the gentxs and accounts of two runs.
THEOREM OneRun == Spec => []GenesisIsOfOneRun
  <1>1. IInv => GenesisIsOfOneRun
    BY DEF IInv
  <1>. QED BY <1>1, MultiNodeInvariant, PTL

\* A run is refused only for a stake above the balance or a gentx of a node the
\* run does not have.
THEOREM Refusals == Spec => []RefusedForAReason
  <1>1. IInv => RefusedForAReason
    BY DEF IInv
  <1>. QED BY <1>1, MultiNodeInvariant, PTL

\* After a success every node is told where every node listens.
THEOREM PeersListen == Spec => []PeersAreListening
  <1>1. IInv => PeersAreListening
    BY DEF IInv
  <1>. QED BY <1>1, MultiNodeInvariant, PTL

-----------------------------------------------------------------------------
(* The servers of a network *)

\* The nodes configured so far, and after a success all of them, listen where the
\* flags and the offsets say.
ServersAt(nodes) ==
    \A n \in nodes : dir[n].config.rpc = ports(args, n) /\ dir[n].config.p2p = p2pPort(n)

Servers ==
    /\ Collecting => ServersAt({n \in Nodes : n < i})
    /\ outcome = "ok" => ServersAt(Members)

\* A step that configures no node, within a run.
LEMMA OtherStepsKeepServers ==
    ASSUME IInv, Servers, outcome' # "ok",
           Collecting' => Collecting /\ i' = i /\ args' = args
                          /\ \A n \in Nodes : dir'[n].config = dir[n].config
    PROVE  Servers'
  BY DEF Servers, ServersAt, ports, p2pPort

LEMMA CollectGenFilesKeepsServers ==
    ASSUME IInv, Servers, CollectGenFiles
    PROVE  Servers'
  <1>1. /\ dir \in [Nodes -> NodeDir] /\ i \in Nodes /\ i < args.numValidators
        /\ Collecting /\ args' = args /\ outcome = "running"
    BY DEF IInv, MultiNodeTypeOK, Control, InRun, Collecting, CollectGenFiles, Ends
  <1>2. Nodes \subseteq Nat /\ args.numValidators \in 1 .. MaxNodes
    BY Numbers DEF IInv
  <1>3. /\ dir'[i].config.rpc = ports(args, i) /\ dir'[i].config.p2p = p2pPort(i)
        /\ \A n \in Nodes \ {i} : dir'[n].config = dir[n].config
    BY <1>1 DEF CollectGenFiles, NodeDir
  <1>4. \A n \in Nodes : n <= i =>
            dir'[n].config.rpc = ports(args, n) /\ dir'[n].config.p2p = p2pPort(n)
    BY <1>1, <1>2, <1>3 DEF Servers, ServersAt
  <1>5. CASE i + 1 < args.numValidators
    <2>1. i' = i + 1 /\ outcome' # "ok"
      BY <1>1, <1>5 DEF CollectGenFiles
    <2>2. \A n \in Nodes : n < i' => n <= i
      BY <1>1, <1>2, <2>1
    <2>. QED BY <1>1, <1>4, <2>1, <2>2 DEF Servers, ServersAt, ports, p2pPort
  <1>6. CASE ~(i + 1 < args.numValidators)
    <2>1. pc' = "idle"
      BY <1>6 DEF CollectGenFiles, Ends
    <2>2. \A n \in Members : n \in Nodes /\ n <= i
      BY <1>1, <1>2, <1>6, MultiNodeAssumption DEF Members, Nodes
    <2>. QED BY <1>1, <1>4, <2>1, <2>2 DEF Servers, ServersAt, Members, Collecting, ports, p2pPort
  <1>. QED BY <1>5, <1>6

LEMMA StepKeepsServers == IInv /\ Servers /\ [Next]_vars => Servers'
  <1>. SUFFICES ASSUME IInv, Servers, [Next]_vars PROVE Servers'
    OBVIOUS
  <1>1. dir \in [Nodes -> NodeDir] /\ i \in Nodes /\ (InRun <=> outcome = "running")
    BY DEF IInv, MultiNodeTypeOK, Control
  <1>2. CASE Start \/ InitNodeFiles \/ SaveCoinKey \/ WriteGentx \/ InitGenFiles
    BY <1>1, <1>2, OtherStepsKeepServers
    DEF Start, InitNodeFiles, SaveCoinKey, WriteGentx, InitGenFiles, Advance, Collecting, InRun
  <1>3. CASE CopyGentxs
    <2>1. outcome' # "ok" /\ args' = args
      BY <1>1, <1>3 DEF CopyGentxs, InRun
    <2>2. ~(i + 1 < args.numValidators) => i' = 0
      BY <1>3 DEF CopyGentxs, Advance
    <2>3. Collecting' => ~(i + 1 < args.numValidators)
      BY <1>3 DEF CopyGentxs, Advance, Collecting
    <2>4. {n \in Nodes : n < 0} = {}
      BY DEF Nodes
    <2>. QED BY <2>1, <2>2, <2>3, <2>4 DEF Servers, ServersAt
  <1>4. CASE CollectGenTxs
    <2>1. UNCHANGED <<i, args, outcome>> /\ Collecting /\ outcome # "ok"
      BY <1>1, <1>4 DEF CollectGenTxs, memory, Collecting, InRun
    <2>2. \A n \in Nodes : dir'[n].config = dir[n].config
      BY <1>1, <1>4 DEF CollectGenTxs, NodeDir
    <2>. QED BY <2>1, <2>2, OtherStepsKeepServers
  <1>5. CASE CollectGenFiles
    BY <1>5, CollectGenFilesKeepsServers
  <1>6. CASE InitFails \/ CopyFails \/ CollectRefuses \/ Stops
    BY <1>6, OtherStepsKeepServers
    DEF InitFails, CopyFails, CollectRefuses, Stops, Ends, Collecting
  <1>7. CASE UNCHANGED vars
    BY <1>7 DEF vars, memory, Servers, ServersAt, Collecting, Members, ports, p2pPort
  <1>. QED BY <1>2, <1>3, <1>4, <1>5, <1>6, <1>7 DEF Next

\* Up to that many nodes the ports that fall with the number of the node stay
\* above those below them; those that rise start above the highest.
MostNodes == 3887

LEMMA SixPorts ==
    ASSUME NEW n \in Int, 0 <= n, n < MostNodes
    PROVE  Cardinality({26656 - 3 * n, 26657 - 3 * n, 26658 - 3 * n, 26660 + n,
                        9090 - 2 * n, 1317 - n}) = 6
  <1>. DEFINE a == 26656 - 3 * n
              b == 26657 - 3 * n
              c == 26658 - 3 * n
              d == 26660 + n
              e == 9090 - 2 * n
              f == 1317 - n
  <1>. n <= 3886
    BY DEF MostNodes
  <1>a. a # b /\ a # c /\ a # d /\ a # e /\ a # f
    OBVIOUS
  <1>b. b # c /\ b # d /\ b # e /\ b # f
    OBVIOUS
  <1>c. c # d /\ c # e /\ c # f /\ d # e /\ d # f /\ e # f
    OBVIOUS
  <1>. SUFFICES Cardinality({a, b, c, d, e, f}) = 6
    OBVIOUS
  <1>. HIDE DEF a, b, c, d, e, f
  <1>1. IsFiniteSet({}) /\ Cardinality({}) = 0
    BY FS_EmptySet
  <1>2. IsFiniteSet({a}) /\ Cardinality({a}) = 1
    <2>1. {a} = {} \cup {a} /\ a \notin {}
      OBVIOUS
    <2>. QED BY <1>1, <2>1, FS_AddElement
  <1>3. {a, b} = {a} \cup {b} /\ b \notin {a}
    BY <1>a
  <1>4. IsFiniteSet({a, b}) /\ Cardinality({a, b}) = 2
    BY <1>2, <1>3, FS_AddElement
  <1>5. {a, b, c} = {a, b} \cup {c} /\ c \notin {a, b}
    BY <1>a, <1>b
  <1>6. IsFiniteSet({a, b, c}) /\ Cardinality({a, b, c}) = 3
    BY <1>4, <1>5, FS_AddElement
  <1>7. {a, b, c, d} = {a, b, c} \cup {d} /\ d \notin {a, b, c}
    BY <1>a, <1>b, <1>c
  <1>8. IsFiniteSet({a, b, c, d}) /\ Cardinality({a, b, c, d}) = 4
    BY <1>6, <1>7, FS_AddElement
  <1>9. {a, b, c, d, e} = {a, b, c, d} \cup {e} /\ e \notin {a, b, c, d}
    BY <1>a, <1>b, <1>c
  <1>10. IsFiniteSet({a, b, c, d, e}) /\ Cardinality({a, b, c, d, e}) = 5
    BY <1>8, <1>9, FS_AddElement
  <1>11. {a, b, c, d, e, f} = {a, b, c, d, e} \cup {f} /\ f \notin {a, b, c, d, e}
    BY <1>a, <1>b, <1>c
  <1>. QED BY <1>10, <1>11, FS_AddElement

LEMMA DefaultPorts ==
    ASSUME MaxNodes <= MostNodes, IInv, Servers, outcome = "ok", args.ports = << >>,
           NEW n \in Members
    PROVE  /\ n \in 0 .. MostNodes - 1
           /\ Listening(n) = {26656 - 3 * n, 26657 - 3 * n, 26658 - 3 * n, 26660 + n,
                              9090 - 2 * n, 1317 - n}
  <1>1. n \in 0 .. MostNodes - 1
    <2>1. args.numValidators \in Int /\ args.numValidators <= MaxNodes
      BY Numbers, MultiNodeAssumption DEF IInv
    <2>. QED BY <2>1, MultiNodeAssumption DEF Members, MostNodes
  <1>2. dir[n].config.p2p = 26656 - 3 * n /\ dir[n].config.rpc = 26657 - 3 * n
    BY DEF Servers, ServersAt, ports, p2pPort
  <1>. QED BY <1>1, <1>2 DEF Listening, proxyPort, prometheusPort, grpcPort, apiPort

\* testnet_multi_node.go:309-311, 441-456: with the default ports every server of a
\* network of up to 3887 nodes has a port of its own on the machine; with one node more
\* the last gRPC port is the API port of the second node.
THEOREM DefaultPortsAreDistinct == MaxNodes <= MostNodes => (Spec => []PortsAreDistinct)
  <1>. SUFFICES ASSUME MaxNodes <= MostNodes PROVE Spec => []PortsAreDistinct
    OBVIOUS
  <1>1. IInv /\ Servers => PortsAreDistinct
    <2>. SUFFICES ASSUME IInv, Servers, outcome = "ok", args.ports = << >>, NEW n \in Members
                  PROVE  /\ Cardinality(Listening(n)) = 6
                         /\ \A m \in Members \ {n} : Listening(n) \cap Listening(m) = {}
      BY DEF PortsAreDistinct
    <2>1. /\ n \in 0 .. MostNodes - 1
          /\ Listening(n) = {26656 - 3 * n, 26657 - 3 * n, 26658 - 3 * n, 26660 + n,
                             9090 - 2 * n, 1317 - n}
      BY DefaultPorts
    <2>2. Cardinality(Listening(n)) = 6
      <3>1. n \in Int /\ 0 <= n /\ n < MostNodes
        BY <2>1 DEF MostNodes
      <3>. QED BY <2>1, <3>1, SixPorts
    <2>3. ASSUME NEW m \in Members, m # n
          PROVE  Listening(n) \cap Listening(m) = {}
      <3>1. /\ m \in 0 .. MostNodes - 1
            /\ Listening(m) = {26656 - 3 * m, 26657 - 3 * m, 26658 - 3 * m, 26660 + m,
                               9090 - 2 * m, 1317 - m}
        BY DefaultPorts
      <3>2. n \in 0 .. 3886 /\ m \in 0 .. 3886
        BY <2>1, <3>1 DEF MostNodes
      <3>3. /\ 26656 - 3 * n \notin Listening(m)
            /\ 26657 - 3 * n \notin Listening(m)
            /\ 26658 - 3 * n \notin Listening(m)
        BY <2>3, <3>1, <3>2
      <3>4. 26660 + n \notin Listening(m)
        BY <2>3, <3>1, <3>2
      <3>5. 9090 - 2 * n \notin Listening(m)
        BY <2>3, <3>1, <3>2
      <3>6. 1317 - n \notin Listening(m)
        BY <2>3, <3>1, <3>2
      <3>. QED BY <2>1, <3>3, <3>4, <3>5, <3>6
    <2>. QED BY <2>2, <2>3
  <1>2. Init => Servers
    BY DEF Init, Servers, Collecting
  <1>. QED BY <1>1, <1>2, StepKeepsServers, MultiNodeInvariant, PTL DEF Spec
=============================================================================
