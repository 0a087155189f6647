----------------------------- MODULE ChunkShare -----------------------------
(***************************************************************************)
(* What the file registry of the chat server promises: every chunk that an *)
(* online peer has announced is found, and no other.  There are no chunk   *)
(* identifiers here: a share is simply a set of pairs <<file, index>>.     *)
(* FileRegistry is shown to implement this module.                         *)
(***************************************************************************)
EXTENDS Naturals

CONSTANTS Files, Peers, MaxChunks, Indices, NoAnswer

VARIABLES
    size,    \* size[f]: number of chunks of f, 0 until it is registered
    online,  \* the peers who are logged in
    share,   \* share[p]: the <<file, index>> pairs p announced
    answer   \* the last answer to a search

vars == <<size, online, share, answer>>

Chunks(f) == {k \in Indices : k < size[f]}
Offers(p, f, wanted) == \E k \in wanted : <<f, k>> \in share[p]

\* A search for some chunks of f, or for any chunk when asked is empty: is every
\* chunk of f available, and who has the ones that were asked for?
Answer(f, asked) ==
    [file   |-> f,
     all    |-> \A k \in Chunks(f) : \E p \in online : <<f, k>> \in share[p],
     listed |-> {p \in online : Offers(p, f, IF asked = {} THEN Chunks(f)
                                             ELSE asked \cap Chunks(f))}]

Init == /\ size = [f \in Files |-> 0]
        /\ online = {}
        /\ share = [p \in Peers |-> {}]
        /\ answer = NoAnswer

\* A name is registered once; its first announcer has all of it.
Register(p, f, n) ==
    /\ p \in online /\ size[f] = 0
    /\ size' = [size EXCEPT ![f] = n]
    /\ share' = [share EXCEPT ![p] = @ \cup {<<f, k>> : k \in {i \in Indices : i < n}}]
    /\ UNCHANGED <<online, answer>>

Announce(p, f, S) ==
    /\ p \in online /\ size[f] > 0
    /\ share' = [share EXCEPT ![p] = @ \cup {<<f, k>> : k \in S}]
    /\ UNCHANGED <<size, online, answer>>

Search(p, f, asked) ==
    /\ p \in online /\ size[f] > 0
    /\ answer' = Answer(f, asked)
    /\ UNCHANGED <<size, online, share>>

Login(p) == /\ online' = online \cup {p}
            /\ UNCHANGED <<size, share, answer>>

Logout(p) == /\ online' = online \ {p}
             /\ UNCHANGED <<size, share, answer>>

\* A new connection starts with nothing announced.
Connect(p) == /\ online' = online \ {p}
              /\ share' = [share EXCEPT ![p] = {}]
              /\ UNCHANGED <<size, answer>>

Next == \E p \in Peers :
            \/ Login(p) \/ Logout(p) \/ Connect(p)
            \/ \E f \in Files :
                  \/ \E n \in 0..MaxChunks : Register(p, f, n)
                  \/ \E S \in SUBSET Indices : Announce(p, f, S) \/ Search(p, f, S)

Spec == Init /\ [][Next]_vars
=============================================================================
