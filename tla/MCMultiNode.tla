----------------------------- MODULE MCMultiNode -----------------------------
(***************************************************************************)
(* Two nodes, a balance of 5: stakes by default, a list whose first entry   *)
(* does not parse, and one above the balance; default ports and a list that *)
(* is too short.                                                            *)
(***************************************************************************)
EXTENDS MultiNodeTestnet

CONSTANTS none

MCStakeLists == {<< >>, <<none, 2>>, <<1, 6>>}

MCPortLists == {<< >>, <<47222>>}
=============================================================================
