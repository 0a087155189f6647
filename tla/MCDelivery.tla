----------------------------- MODULE MCDelivery -----------------------------
(* Delivery, instantiated for TLC: two users. *)
EXTENDS Delivery, TLC

CONSTANTS alice, bob

MCUsers == {alice, bob}
Symmetry == Permutations(MCUsers)
=============================================================================
