----------------------------- MODULE MCReaders ------------------------------
(***************************************************************************)
(* Small chains for TLC: an EventStore on Sepolia, indexed by the subgraph, *)
(* and a local chain where the same address holds no code; settings that    *)
(* agree with the manifest and settings that do not, and pages of three     *)
(* rows.                                                                    *)
(***************************************************************************)
EXTENDS Readers, TLC

CONSTANTS sepolia, local, store, tx1, tx2

MCDeployed == {<<sepolia, store>>}

MCConfigs ==
    [rpcUrl : {sepolia}, address : {store}, fromBlock : {1, 2},
     subgraphUrl : {TRUE}]

MCSymmetry == Permutations(Hashes)
=============================================================================
