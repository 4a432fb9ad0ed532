----------------------------- MODULE MCChainTools -----------------------------
(***************************************************************************)
(* Two validators of the first genesis, a third operator only the in-place  *)
(* testnet brings, two delegators.  The accounts to fund: none given, a     *)
(* person and a module account that may receive coins, and a person next to *)
(* an address that does not parse.                                          *)
(***************************************************************************)
EXTENDS ChainTools

CONSTANTS alice, bob, malformed

MCFlags == {<< >>, <<alice, "gov">>, <<alice, malformed>>}

MCAllowLists == {{}, {1}}
=============================================================================
