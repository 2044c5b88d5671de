-------------------------- MODULE MCPauseCheckpoint --------------------------
(* The instance on which TLC checks PauseCheckpoint: one agent, two of whose *)
(* processes can live one after the other.                                   *)
EXTENDS PauseCheckpoint, TLC

CONSTANTS A, h1, h2

Symmetry == Permutations(Handlers)
=============================================================================
