-------------------------- MODULE MaterializedView --------------------------
(***************************************************************************)
(* What a log indexer promises, whatever it is built from: the source grows *)
(* block by block, and the view is at every moment exactly the items of     *)
(* some prefix of the blocks, never a block cut in half, never an item lost  *)
(* or repeated, and it does catch up.                                       *)
(***************************************************************************)
EXTENDS Naturals, Sequences

CONSTANT Item

VARIABLES blocks, view

viewVars == <<blocks, view>>

UpTo(n) == UNION {blocks[i] : i \in 1..n}

Init == blocks = <<>> /\ view = {}

Extend ==
    /\ \E new \in SUBSET (Item \ UpTo(Len(blocks))) : blocks' = Append(blocks, new)
    /\ UNCHANGED view

Apply ==
    /\ \E n \in 1..Len(blocks) : view = UpTo(n - 1) /\ view' = UpTo(n)
    /\ UNCHANGED blocks

Next == Extend \/ Apply

SafeSpec == Init /\ [][Next]_viewVars

\* Every item of the source reaches the view.
CatchesUp == \A i \in Item : i \in UpTo(Len(blocks)) ~> i \in view

Spec == SafeSpec /\ CatchesUp
=============================================================================
