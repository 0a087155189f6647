----------------------------- MODULE MCSessions -----------------------------
(* Sessions, instantiated for TLC: two users and two connections. *)
EXTENDS Sessions, TLC

CONSTANTS alice, bob

MCUsers == {alice, bob}

\* The users are interchangeable, and so is no other constant: connections are
\* ordered by descriptor.
Symmetry == Permutations(MCUsers)
=============================================================================
