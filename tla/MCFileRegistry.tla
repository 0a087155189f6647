--------------------------- MODULE MCFileRegistry ---------------------------
(* FileRegistry, instantiated for TLC: two files, two peers. *)
EXTENDS FileRegistry, TLC

CONSTANTS report, movie, alice, bob

MCFiles == {report, movie}
MCPeers == {alice, bob}
MCIndices == 0..2
Symmetry == Permutations(MCFiles) \cup Permutations(MCPeers)
=============================================================================
