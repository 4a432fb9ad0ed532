----------------------------- MODULE MCConsole ------------------------------
(***************************************************************************)
(* One chain with an EventStore.  The user can empty or misspell the        *)
(* address and clear the subgraph endpoint; pages of two rows.              *)
(***************************************************************************)
EXTENDS EventConsole, TLC

CONSTANTS chain, store, misspelt, tx1, tx2, tx3

MCDeployed == {<<chain, store>>}

Settings(address, graph) ==
    [rpcUrl |-> chain, address |-> address, fromBlock |-> 0, subgraphUrl |-> graph]

\* The settings of somebody who runs no subgraph and retypes the address.
AddressConfigs == {Settings(a, FALSE) : a \in {store, misspelt, NoAddress}}

\* The settings of somebody who has filled in everything.
GraphConfigs == {Settings(store, TRUE)}

MCSymmetry == Permutations(Hashes)
=============================================================================
