------------------------------ MODULE MCWrite -------------------------------
(***************************************************************************)
(* An EventStore on one of two chains, both served by an RPC endpoint.      *)
(***************************************************************************)
EXTENDS ConsoleWrite, TLC

CONSTANTS local, sepolia, store, tx1, tx2

MCDeployed == {<<local, store>>}

MCConfigs ==
    [rpcUrl : {local}, address : {store}, fromBlock : {0},
     subgraphUrl : {TRUE}]

MCSymmetry == Permutations(Hashes)
=============================================================================
