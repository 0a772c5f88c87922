------------------------------ MODULE MCPairLeg ------------------------------
(* PairLeg on small instances.  Controllers are interchangeable, and so are ids. *)
EXTENDS PairLeg, TLC

CONSTANTS x, y    \* the two sessions of the pair

Symmetry == Permutations(Controller) \cup Permutations(InId)
=============================================================================
