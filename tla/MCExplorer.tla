------------------------------ MODULE MCExplorer ------------------------------
(***************************************************************************)
(* Two holders, one of whom has no account before the first transfer, three *)
(* blocks at uneven times, and two requests for the latest block at a time. *)
(***************************************************************************)
EXTENDS Explorer

CONSTANTS alice, bob

MCCoins == [a \in Holders |-> IF a = alice THEN 1 ELSE 0]

MCTimes == <<1, 2, 5>>
=============================================================================
