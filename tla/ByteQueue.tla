----------------------------- MODULE ByteQueue ------------------------------
(***************************************************************************)
(* What an output buffer promises: bytes leave it in the order in which    *)
(* they came, none is lost, invented, repeated or altered.  Bytes are      *)
(* numbered in the order they are put in.                                  *)
(***************************************************************************)
EXTENDS Naturals, Sequences

CONSTANT Lengths    \* of the messages put in

VARIABLES
    queue,     \* the bytes that wait
    accepted   \* number of bytes put in so far

vars == <<queue, accepted>>

Init == queue = <<>> /\ accepted = 0

Put(n) == /\ queue' = queue \o [i \in 1..n |-> accepted + i]
          /\ accepted' = accepted + n

Take(n) == /\ n <= Len(queue)
           /\ queue' = SubSeq(queue, n + 1, Len(queue))
           /\ UNCHANGED accepted

Next == (\E n \in Lengths : Put(n)) \/ (\E n \in 1..Len(queue) : Take(n))

Spec == Init /\ [][Next]_vars
=============================================================================
