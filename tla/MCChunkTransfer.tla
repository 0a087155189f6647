--------------------------- MODULE MCChunkTransfer ---------------------------
(* ChunkTransfer, instantiated for TLC: files of three bytes, in chunks of two (the *)
(* default) and of minus one. *)
EXTENDS ChunkTransfer

CONSTANTS p1, p2

MCPeers == {p1, p2}
MCSizes == {3}
MCChunkSizes == {0, -1}
=============================================================================
