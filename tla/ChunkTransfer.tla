---------------------------- MODULE ChunkTransfer ----------------------------
(***************************************************************************)
(* Files between the clients: the register command splits a file into      *)
(* chunks on the client's own disk and announces it to the server, the     *)
(* download command asks a peer for a chunk over their private session,    *)
(* and whoever has stored a chunk announces it.                            *)
(*                                                                         *)
(* A client has two threads here.  The input thread splits, one fopen and  *)
(* one fclose at a time; the network thread serves and stores chunks in    *)
(* between.  Of the registry only what it counts is kept: FileRegistry is  *)
(* about its identifiers.                                                  *)
(***************************************************************************)
EXTENDS Messages, FiniteSets, SequencesExt

CONSTANTS
    Peers,
    Files,        \* file names
    Sizes,        \* sizes in bytes of the files that are registered
    ChunkSizes,   \* what is typed as the size of a chunk
    Default,      \* 1024
    Wanted,       \* bound: the numbers of the chunks that are asked for
    None,
    MaxAsks       \* bound: chunks asked for

ASSUME SizesAssumption ==
    Sizes \subseteq Nat \ {0} /\ ChunkSizes \subseteq Int /\ Default \in Nat \ {0} /\ Wanted \subseteq Int
\* A negative size beyond that of the file makes fread write through the null
\* pointer that malloc has returned; what happens then is not modelled.
ASSUME NoWildRead == \A n \in Sizes, c \in ChunkSizes : c >= 0 \/ -c <= n
ASSUME AsksAssumption == MaxAsks \in Nat
ASSUME NoneAssumption ==
    None \notin Peers \cup [bytes : Sizes, size : Int]
                     \cup [file : Files, bytes : Sizes, size : Int, next : Nat, open : BOOLEAN]

VARIABLES
    disk,      \* disk[p][f]: the chunks in p's directory of f, by number
    dir,       \* dir[p]: the names with a directory
    split,     \* split[p]: where the splitting loop of p is, or None
    up,        \* up[p]: requests to the server on their way
    link,      \* link[p][q]: chunk messages from p to q on their way
    count,     \* count[f]: trie_file.chunks
    claims,    \* the announcements <<p, f, k>> that the server keeps
    asks,      \* chunks asked for so far
    owner,     \* history: who registered f
    made,      \* history: made[p][f], the file that p split: its size and chunk size
    early,     \* history: names of which a piece was read while it was split
    refused    \* history: <<p, f>>, the server has turned p's announcement down

diskVars   == <<disk, dir, split>>
serverVars == <<count, claims, owner, refused>>
vars == <<diskVars, up, link, serverVars, asks, made, early>>

Init ==
    /\ disk = [p \in Peers |-> [f \in Files |-> <<>>]]
    /\ dir = [p \in Peers |-> {}] /\ split = [p \in Peers |-> None]
    /\ up = [p \in Peers |-> <<>>] /\ link = [p \in Peers |-> [q \in Peers |-> <<>>]]
    /\ count = [f \in Files |-> 0] /\ claims = {} /\ asks = 0
    /\ owner = [f \in Files |-> None] /\ refused = {} /\ early = {}
    /\ made = [p \in Peers |-> [f \in Files |-> None]]

-----------------------------------------------------------------------------
(* Splitting.                                                              *)

\* The bytes of a file of p.
Content(p, n) == [i \in 1..n |-> <<p, i>>]

\* C divides towards zero.
Quotient(a, b) == IF b > 0 THEN a \div b ELSE -(a \div (-b))

\* Faulty: the incomplete last chunk is not counted.
NChunksFloor(bytes, size) == Quotient(bytes, size)

NChunks(bytes, size) ==
    LET n == Quotient(bytes, size) IN IF n * size < bytes THEN n + 1 ELSE n

\* The dialogue; mkdir is the only test for a name that is taken, here or there.
RegFile(p, f, bytes, typed) ==
    /\ split[p] = None /\ f \notin dir[p]
    /\ dir' = [dir EXCEPT ![p] = @ \cup {f}]
    /\ LET size == IF typed = 0 THEN Default ELSE typed
       IN  /\ split' = [split EXCEPT ![p] = [file |-> f, bytes |-> bytes, size |-> size,
                                             next |-> 0, open |-> FALSE]]
           /\ made' = [made EXCEPT ![p][f] = [bytes |-> bytes, size |-> size]]
    /\ UNCHANGED <<disk, up, link, serverVars, asks, early>>

With(chunks, k, data) == [j \in DOMAIN chunks \cup {k} |-> IF j = k THEN data ELSE chunks[j]]

Total(s) == NChunks(s.bytes, s.size)

\* fopen(split_filepath, "wb")
OpenPiece(p) ==
    /\ split[p] # None
    /\ LET s == split[p]
       IN  /\ ~s.open /\ s.next < Total(s)
           /\ disk' = [disk EXCEPT ![p][s.file] = With(@, s.next, <<>>)]
    /\ split' = [split EXCEPT ![p].open = TRUE]
    /\ UNCHANGED <<dir, up, link, serverVars, asks, made, early>>

\* fread, fwrite and fclose, over what the network thread may have stored meanwhile.
ClosePiece(p) ==
    /\ split[p] # None /\ split[p].open
    /\ LET s    == split[p]
           from == s.next * s.size
           to   == IF from + s.size < s.bytes THEN from + s.size ELSE s.bytes
           data == SubSeq(Content(p, s.bytes), from + 1, to)
           old  == disk[p][s.file][s.next]
       IN  disk' = [disk EXCEPT ![p][s.file] =
                        With(@, s.next, data \o SubSeq(old, Len(data) + 1, Len(old)))]
    /\ split' = [split EXCEPT ![p].open = FALSE, ![p].next = @ + 1]
    /\ UNCHANGED <<dir, up, link, serverVars, asks, made, early>>

\* Faulty: the loop ends one piece early.
AnnounceShort(p) ==
    /\ split[p] # None /\ ~split[p].open /\ split[p].next >= Total(split[p]) - 1
    /\ up' = [up EXCEPT ![p] = Append(@, [file |-> split[p].file, n |-> U32(Total(split[p]))])]
    /\ split' = [split EXCEPT ![p] = None]
    /\ UNCHANGED <<disk, dir, link, serverVars, asks, made, early>>

\* The loop is over: a RegisterFileRequest.
Announce(p) ==
    /\ split[p] # None /\ ~split[p].open /\ split[p].next >= Total(split[p])
    /\ up' = [up EXCEPT ![p] = Append(@, [file |-> split[p].file, n |-> U32(Total(split[p]))])]
    /\ split' = [split EXCEPT ![p] = None]
    /\ UNCHANGED <<disk, dir, link, serverVars, asks, made, early>>

-----------------------------------------------------------------------------
(* The server.                                                             *)

\* cmd_regfile: a name is taken when it has chunks.
ServeRegFile(p) ==
    /\ up[p] # <<>> /\ "n" \in DOMAIN Head(up[p])
    /\ LET f == Head(up[p]).file
           n == Head(up[p]).n
       IN  IF count[f] > 0
           THEN refused' = refused \cup {<<p, f>>} /\ UNCHANGED <<count, claims, owner>>
           ELSE /\ count' = [count EXCEPT ![f] = n]
                /\ owner' = [owner EXCEPT ![f] = p]
                /\ claims' = claims \cup {<<p, f, k>> : k \in 0..(n - 1)}
                /\ UNCHANGED refused
    /\ up' = [up EXCEPT ![p] = Tail(@)]
    /\ UNCHANGED <<diskVars, link, asks, made, early>>

\* cmd_regchunk: "does not exist on server", or one more announcement.
ServeRegChunk(p) ==
    /\ up[p] # <<>> /\ "chunk" \in DOMAIN Head(up[p])
    /\ LET f == Head(up[p]).file
       IN  IF count[f] = 0
           THEN refused' = refused \cup {<<p, f>>} /\ UNCHANGED claims
           ELSE claims' = claims \cup {<<p, f, Head(up[p]).chunk>>} /\ UNCHANGED refused
    /\ up' = [up EXCEPT ![p] = Tail(@)]
    /\ UNCHANGED <<diskVars, link, count, owner, asks, made, early>>

-----------------------------------------------------------------------------
(* Between peers.                                                          *)

Ask(p, q, f, k) ==
    /\ p # q /\ split[p] = None /\ asks < MaxAsks /\ asks' = asks + 1
    /\ link' = [link EXCEPT ![p][q] =
                    Append(@, [type |-> 5, body |-> Encode(ChunkDataRequest, <<f, k>>)])]
    /\ UNCHANGED <<diskVars, up, serverVars, made, early>>

Field(m, schema, i) == FieldOf(schema[i], m.body[i])

\* getChunkDataResponse: what the file holds at this moment, or a text that says
\* that there is none.
Serve(p, q) ==
    /\ link[q][p] # <<>> /\ Head(link[q][p]).type = 5
    /\ LET f == Field(Head(link[q][p]), ChunkDataRequest, 1)
           k == Field(Head(link[q][p]), ChunkDataRequest, 2)
           has == k \in DOMAIN disk[p][f]
       IN  /\ link' = [link EXCEPT ![q][p] = Tail(@), ![p][q] = IF has
                THEN Append(@, [type |-> 6, body |-> Encode(ChunkDataResponse, <<f, k, disk[p][f][k]>>)])
                ELSE @]
           /\ early' = IF has /\ split[p] # None /\ split[p].file = f THEN early \cup {f} ELSE early
    /\ UNCHANGED <<diskVars, up, serverVars, asks, made>>

\* Faulty: the chunk is stored and not announced.
StoreSilently(p, q) ==
    /\ link[q][p] # <<>> /\ Head(link[q][p]).type = 6
    /\ LET f == Field(Head(link[q][p]), ChunkDataResponse, 1)
           k == Field(Head(link[q][p]), ChunkDataResponse, 2)
       IN  /\ dir' = [dir EXCEPT ![p] = @ \cup {f}]
           /\ disk' = [disk EXCEPT ![p][f] = With(@, k, Field(Head(link[q][p]), ChunkDataResponse, 3))]
    /\ link' = [link EXCEPT ![q][p] = Tail(@)]
    /\ UNCHANGED <<split, up, serverVars, asks, made, early>>

\* writeFile: mkdir, the chunk, and a RegisterChunkRequest.
Store(p, q) ==
    /\ link[q][p] # <<>> /\ Head(link[q][p]).type = 6
    /\ LET f == Field(Head(link[q][p]), ChunkDataResponse, 1)
           k == Field(Head(link[q][p]), ChunkDataResponse, 2)
       IN  /\ dir' = [dir EXCEPT ![p] = @ \cup {f}]
           /\ disk' = [disk EXCEPT ![p][f] = With(@, k, Field(Head(link[q][p]), ChunkDataResponse, 3))]
           /\ up' = [up EXCEPT ![p] = Append(@, [file |-> f, chunk |-> k])]
    /\ link' = [link EXCEPT ![q][p] = Tail(@)]
    /\ UNCHANGED <<split, serverVars, asks, made, early>>

\* The private session ends: what is on its way is lost.
HangUp(p, q) ==
    /\ link[p][q] \o link[q][p] # <<>>
    /\ link' = [link EXCEPT ![p][q] = <<>>, ![q][p] = <<>>]
    /\ UNCHANGED <<diskVars, up, serverVars, asks, made, early>>

Splitting(p) == OpenPiece(p) \/ ClosePiece(p) \/ Announce(p)
Network(p)   == \E q \in Peers : Serve(p, q) \/ Store(p, q)
Server(p)    == ServeRegFile(p) \/ ServeRegChunk(p)

Chunks == 0..(Word - 1)

Next ==
    \E p \in Peers :
        \/ Splitting(p) \/ Network(p) \/ Server(p)
        \/ \E f \in Files, n \in Sizes, c \in ChunkSizes : RegFile(p, f, n, c)
        \/ \E q \in Peers, f \in Files, k \in Wanted : Ask(p, q, f, k)
        \/ \E q \in Peers : HangUp(p, q)

Spec == Init /\ [][Next]_vars

\* Threads run; users need not ask for anything and sessions may always end.
FairSpec == Spec /\ \A p \in Peers : WF_vars(Splitting(p)) /\ WF_vars(Network(p))
                                     /\ WF_vars(Server(p))

-----------------------------------------------------------------------------
(* Properties.                                                             *)

TypeOK ==
    /\ \A p \in Peers, f \in Files : DOMAIN disk[p][f] \subseteq Nat     \* a piece has a long as its name
    /\ dir \in [Peers -> SUBSET Files]
    /\ \A p \in Peers : split[p] = None \/ split[p].file \in dir[p]
    /\ count \in [Files -> 0..(Word - 1)] /\ claims \subseteq Peers \X Files \X Chunks
    /\ owner \in [Files -> Peers \cup {None}] /\ early \subseteq Files
    /\ refused \subseteq Peers \X Files /\ asks \in 0..MaxAsks

\* p has split f with a negative chunk size.
Negative(p, f) == made[p][f] # None /\ made[p][f].size < 0

\* What search lists can be had: a chunk that a client has announced is on its disk.
\* The exception is a negative chunk size, which makes a negative number of chunks:
\* none is written and almost 2^32 are announced.
AnnouncedIsStored ==
    TypeOK /\ \A c \in claims : c[3] \in DOMAIN disk[c[1]][c[2]] \/ Negative(c[1], c[2])

\* Somebody else has split a file of the same name; the server refuses to register
\* it, but the pieces stay and are served to whoever asks.
Rival(f) == \E q \in Peers \ {owner[f]} : made[q][f] # None

\* Whoever is listed with all chunks of a file has, end to end, the bytes of the one
\* who registered it, back and forth between peers, with lost sessions and the last
\* chunk shorter than the others.  The exceptions: a rival, and a piece that was asked
\* for while it was written.
CompleteIsWhole ==
    \A p \in Peers, f \in Files :
        (/\ count[f] > 0 /\ \A k \in 0..(count[f] - 1) : <<p, f, k>> \in claims
         /\ ~Rival(f) /\ f \notin early /\ ~Negative(owner[f], f))
        => FlattenSeq([i \in 1..count[f] |-> disk[p][f][i - 1]])
             = Content(owner[f], made[owner[f]][f].bytes)

\* What a client has stored is announced in the end, unless the server turns down an
\* announcement of that file.
StoredIsAnnounced ==
    \A p \in Peers, f \in Files, k \in Wanted :
        k \in DOMAIN disk[p][f] ~> <<p, f, k>> \in claims \/ <<p, f>> \in refused
=============================================================================
