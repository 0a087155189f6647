---------------------------- MODULE FileRegistry ----------------------------
(***************************************************************************)
(* The registry of shared files (lib/file.c) with the three commands that  *)
(* use it: register, the chunk announcement a client sends after every     *)
(* download, and search.                                                   *)
(*                                                                         *)
(* The server numbers the chunks of all files in one 32-bit sequence,      *)
(* global_chunk_id.  A file owns the identifiers sid .. sid+chunks-1; a    *)
(* connection keeps the list of the identifiers it announced, and a search *)
(* looks in that list for identifiers in the range of the file.  So the    *)
(* registry is right only as long as ranges of different files are         *)
(* disjoint, no identifier falls outside the range of the file it was      *)
(* announced for, and the 32-bit sums do not wrap.                         *)
(***************************************************************************)
EXTENDS Integers, FiniteSets

CONSTANTS
    Files,      \* file names
    Peers,      \* connections of logged-in users
    Modulus,    \* 2^32 in the code
    MaxChunks,  \* bound: chunks of one registration
    Indices,    \* the chunk indices that announcements and searches mention
    IdBudget,   \* bound: identifiers given out while the server runs
    InRange,    \* TRUE: peers announce only chunks that the file has
    NoAnswer

ASSUME SizesAssumption ==
    /\ Modulus \in Nat \ {0} /\ MaxChunks \in Nat /\ IdBudget \in Nat
    /\ Indices \subseteq Nat /\ 0..(MaxChunks - 1) \subseteq Indices
    /\ \A i \in Indices : i < Modulus
ASSUME InRangeAssumption == InRange \in BOOLEAN

VARIABLES
    gid,     \* global_chunk_id
    sid,     \* sid[f]: trie_file.chunk_sid
    chunks,  \* chunks[f]: trie_file.chunks, 0 when findFile does not find f
    held,    \* held[p]: the identifiers in client->chunkids
    online,  \* the peers whose user isUserLoggedIn
    answer,  \* the last answer to a search
    shared   \* history: shared[p], the <<file, index>> pairs that p announced

vars == <<gid, sid, chunks, held, online, answer, shared>>

\* uint32_t arithmetic.
Plus(a, b) == (a + b) % Modulus

-----------------------------------------------------------------------------
(* clientHasFileChunks and what search makes of it.                        *)

\* Faulty: the range of a file ends one identifier late.
EidOneLate(f) == Plus(sid[f], chunks[f] + 1)

Eid(f) == Plus(sid[f], chunks[f])
InFile(f, id) == sid[f] <= id /\ id < Eid(f)

\* haschunkmask: the indices of f that p's identifiers stand for.
Mask(p, f) == {id - sid[f] : id \in {i \in held[p] : InFile(f, i)}}

\* 0: doesn't have file; 1: has file but not desired chunks; 2: has desired chunks
Level(p, f, wanted) == IF Mask(p, f) = {} THEN 0
                       ELSE IF Mask(p, f) \cap wanted = {} THEN 1 ELSE 2

\* cmd_searchfile: an empty request asks for users with any chunk.
SearchAnswer(f, asked) ==
    LET wanted == {k \in asked : k < chunks[f]}
        target == IF asked = {} THEN 1 ELSE 2
        has    == UNION {Mask(p, f) : p \in online}
    IN  [file   |-> f,
         all    |-> \A k \in 0..(chunks[f] - 1) : k \in has,
         listed |-> {p \in online : Level(p, f, wanted) = target}]

-----------------------------------------------------------------------------
Init ==
    /\ gid = 0
    /\ sid = [f \in Files |-> 0]
    /\ chunks = [f \in Files |-> 0]
    /\ held = [p \in Peers |-> {}]
    /\ online = {}
    /\ answer = NoAnswer
    /\ shared = [p \in Peers |-> {}]

\* cmd_regfile: addFile, then regAllFileChunk.  With n = 0 the name is still free
\* afterwards, though the peer is told that it is registered.
RegFile(p, f, n) ==
    /\ p \in online
    /\ chunks[f] = 0
    /\ gid + n <= IdBudget
    /\ sid' = [sid EXCEPT ![f] = gid]
    /\ chunks' = [chunks EXCEPT ![f] = n]
    /\ gid' = Plus(gid, n)
    /\ held' = [held EXCEPT ![p] = @ \cup {Plus(gid, k) : k \in {i \in Indices : i < n}}]
    /\ shared' = [shared EXCEPT ![p] = @ \cup {<<f, k>> : k \in {i \in Indices : i < n}}]
    /\ UNCHANGED <<online, answer>>

\* cmd_regchunk: regFileChunk adds the indices to sid without looking at chunks.
RegChunk(p, f, S) ==
    /\ p \in online
    /\ chunks[f] > 0
    /\ InRange => \A k \in S : k < chunks[f]
    /\ held' = [held EXCEPT ![p] = @ \cup {Plus(sid[f], k) : k \in S}]
    /\ shared' = [shared EXCEPT ![p] = @ \cup {<<f, k>> : k \in S}]
    /\ UNCHANGED <<gid, sid, chunks, online, answer>>

\* cmd_searchfile
SearchFile(p, f, asked) ==
    /\ p \in online
    /\ chunks[f] > 0
    /\ answer' = SearchAnswer(f, asked)
    /\ UNCHANGED <<gid, sid, chunks, held, online, shared>>

\* cmd_login: the list of identifiers belongs to the connection, not the user.
Login(p) ==
    /\ p \notin online
    /\ online' = online \cup {p}
    /\ UNCHANGED <<gid, sid, chunks, held, answer, shared>>

\* The user is idle or logged off; the connection and its list stay.
Expire(p) ==
    /\ p \in online
    /\ online' = online \ {p}
    /\ UNCHANGED <<gid, sid, chunks, held, answer, shared>>

\* Faulty: the list of the reused slot is not emptied.
ReconnectKeepingList(p) ==
    /\ shared' = [shared EXCEPT ![p] = {}]
    /\ online' = online \ {p}
    /\ UNCHANGED <<gid, sid, chunks, held, answer>>

\* The peer hangs up and comes back: im_connection_accept starts an empty list.
Reconnect(p) ==
    /\ held' = [held EXCEPT ![p] = {}]
    /\ shared' = [shared EXCEPT ![p] = {}]
    /\ online' = online \ {p}
    /\ UNCHANGED <<gid, sid, chunks, answer>>

Next == \E p \in Peers :
            \/ Login(p) \/ Expire(p) \/ Reconnect(p)
            \/ \E f \in Files :
                  \/ \E n \in 0..MaxChunks : RegFile(p, f, n)
                  \/ \E S \in SUBSET Indices : RegChunk(p, f, S) \/ SearchFile(p, f, S)

Spec == Init /\ [][Next]_vars

-----------------------------------------------------------------------------
(* Properties.                                                             *)

TypeOK ==
    /\ gid \in 0..(Modulus - 1)
    /\ sid \in [Files -> 0..(Modulus - 1)]
    /\ chunks \in [Files -> 0..MaxChunks]
    /\ held \in [Peers -> SUBSET (0..(Modulus - 1))]
    /\ online \subseteq Peers
    /\ shared \in [Peers -> SUBSET (Files \X Indices)]

Range(f) == {Plus(sid[f], k) : k \in 0..(chunks[f] - 1)}

\* Two files never share a chunk identifier.
DisjointFiles ==
    \A f, g \in Files : f # g => Range(f) \cap Range(g) = {}

\* file.c: "0: doesn't have file; 1: has file but not desired chunks; 2: has
\* desired chunks" - of the chunks the connection announced for that file.
LevelsAreTrue ==
    \A p \in Peers, f \in Files : chunks[f] > 0 =>
        \A wanted \in SUBSET (0..(chunks[f] - 1)) :
            Level(p, f, wanted) =
                IF \E k \in wanted : <<f, k>> \in shared[p] THEN 2
                ELSE IF \E k \in 0..(chunks[f] - 1) : <<f, k>> \in shared[p] THEN 1
                ELSE 0

\* The identifiers are an implementation of sharing chunks by name and index:
\* every search is answered as if announcements were remembered as they came.
Share == INSTANCE ChunkShare WITH size <- chunks, share <- shared
ImplementsShare == Share!Spec
=============================================================================
