----------------------------- MODULE MCPairQueue -----------------------------
(* PairQueue on small instances: a mixed pair, a Codex pair. *)
EXTENDS PairQueue

CONSTANTS x, y    \* the two sessions of the pair
=============================================================================
