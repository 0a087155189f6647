------------------------------ MODULE MCStream ------------------------------
(* Stream, and OutBuffer with it, instantiated for TLC. *)
EXTENDS Stream

MCLengths == {1, 2, 5}
=============================================================================
