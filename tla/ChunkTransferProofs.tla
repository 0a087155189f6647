------------------------- MODULE ChunkTransferProofs -------------------------
(***************************************************************************)
(* What a client announces it has, and whoever has all of a file has the   *)
(* file, whatever the files, their sizes, the sizes of the chunks and the  *)
(* number of peers.                                                        *)
(***************************************************************************)
EXTENDS ChunkTransfer, WellFoundedInduction, TLAPS

\* What is sent to the server, what the splitting loop keeps.
Requests == [file : Files, n : Chunks] \cup [file : Files, chunk : Chunks]
Loops    == [file : Files, bytes : Sizes, size : Int \ {0}, next : Nat, open : BOOLEAN]

\* A chunk message names a file and a number, wherever it comes from.
WellFormed(m) ==
    /\ m.type = 5 => /\ Field(m, ChunkDataRequest, 1) \in Files
                     /\ Field(m, ChunkDataRequest, 2) \in Chunks
    /\ m.type = 6 => /\ Field(m, ChunkDataResponse, 1) \in Files
                     /\ Field(m, ChunkDataResponse, 2) \in Chunks

\* What p tells the server with m is so.
Announced(p, m) ==
    /\ "n" \in DOMAIN m => Negative(p, m.file) \/ 0..(m.n - 1) \subseteq DOMAIN disk[p][m.file]
    /\ "chunk" \in DOMAIN m => m.chunk \in DOMAIN disk[p][m.file]

(***************************************************************************)
(* The inductive invariant.  The pieces below the place of the splitting   *)
(* loop are on the disk; so is whatever a request on its way announces,    *)
(* since no chunk is ever removed; and a name that was split has a         *)
(* directory, so it is split once.                                         *)
(***************************************************************************)
Shape == /\ disk = [p \in Peers |-> [f \in Files |-> disk[p][f]]]
         /\ made = [p \in Peers |-> [f \in Files |-> made[p][f]]]
         /\ split \in [Peers -> {None} \cup Loops]
         /\ up \in [Peers -> Seq(Requests)]

MadeHasDir == \A p \in Peers, f \in Files : Negative(p, f) => f \in dir[p]

Split(p) == split[p] # None =>
    /\ split[p].size > 0 \/ Negative(p, split[p].file)
    /\ 0..(split[p].next - 1) \subseteq DOMAIN disk[p][split[p].file]

OnTheWay == \A p \in Peers : \A i \in 1..Len(up[p]) : Announced(p, up[p][i])

\* Every message on a link is one of S; nobody talks to himself.
OnLinks(S) == /\ link \in [Peers -> [Peers -> Seq(S)]]
              /\ \A p \in Peers : link[p][p] = <<>>

Links == \E S : OnLinks(S) /\ \A m \in S : WellFormed(m)

Kept == \A c \in claims : c[3] \in DOMAIN disk[c[1]][c[2]] \/ Negative(c[1], c[2])

TransferInv == TypeOK /\ Shape /\ MadeHasDir /\ (\A p \in Peers : Split(p)) /\ OnTheWay /\ Links /\ Kept

-----------------------------------------------------------------------------
(* Numbers and messages.                                                   *)

\* A number that is sent is a uint32_t, and never more than it was.
LEMMA SentNumber ==
    ASSUME NEW v \in Int
    PROVE  U32(v) \in Chunks /\ (v >= 0 => U32(v) <= v)
  <1>1. Word \in Nat \ {0}
    BY WordAssumption
  <1>2. v % Word \in 0..(Word - 1)
    BY <1>1
  <1>3. ASSUME v >= 0 PROVE v % Word <= v
    BY <1>1, <1>3
  <1> QED
    BY <1>2, <1>3 DEF U32, Chunks

\* A chunk size above zero makes no negative number of chunks.
LEMMA ChunksAreCounted ==
    ASSUME NEW b \in Nat, NEW s \in Int \ {0}
    PROVE  NChunks(b, s) \in Int /\ (s > 0 => NChunks(b, s) >= 0)
  <1>1. ASSUME s > 0 PROVE b \div s \in Nat
    BY <1>1
  <1>2. ASSUME ~(s > 0) PROVE b \div (-s) \in Int
    BY <1>2
  <1>3. Quotient(b, s) \in Int /\ (s > 0 => Quotient(b, s) >= 0)
    BY <1>1, <1>2 DEF Quotient
  <1> QED
    BY <1>3 DEF NChunks

\* What is put into a chunk message can be read from it.
LEMMA RequestIsWellFormed ==
    ASSUME NEW f \in Files, NEW k \in Int
    PROVE  WellFormed([type |-> 5, body |-> Encode(ChunkDataRequest, <<f, k>>)])
  <1> DEFINE b == Encode(ChunkDataRequest, <<f, k>>)
             m == [type |-> 5, body |-> b]
  <1>1. b[1] = Unit("string", f) /\ b[2] = Unit("uint32", k)
    BY DEF Encode, ChunkDataRequest
  <1>2. Field(m, ChunkDataRequest, 1) = f /\ Field(m, ChunkDataRequest, 2) = U32(k)
    BY <1>1 DEF Field, FieldOf, ChunkDataRequest, Unit
  <1> QED
    BY <1>2, SentNumber DEF WellFormed

LEMMA ResponseIsWellFormed ==
    ASSUME NEW f \in Files, NEW k \in Int, NEW data
    PROVE  WellFormed([type |-> 6, body |-> Encode(ChunkDataResponse, <<f, k, data>>)])
  <1> DEFINE b == Encode(ChunkDataResponse, <<f, k, data>>)
             m == [type |-> 6, body |-> b]
  <1>1. b[1] = Unit("string", f) /\ b[2] = Unit("uint32", k)
    BY DEF Encode, ChunkDataResponse
  <1>2. Field(m, ChunkDataResponse, 1) = f /\ Field(m, ChunkDataResponse, 2) = U32(k)
    BY <1>1 DEF Field, FieldOf, ChunkDataResponse, Unit
  <1> QED
    BY <1>2, SentNumber DEF WellFormed

\* Nothing is lost of a number below 2^32 and of what goes with it.
LEMMA ResponseCarries ==
    ASSUME NEW f, NEW k \in Chunks, NEW data, NEW m,
           m.body = Encode(ChunkDataResponse, <<f, k, data>>)
    PROVE  /\ Field(m, ChunkDataResponse, 1) = f /\ Field(m, ChunkDataResponse, 2) = k
           /\ Field(m, ChunkDataResponse, 3) = data
  <1>1. U32(k) = k
    BY WordAssumption DEF U32, Chunks
  <1>2. /\ m.body[1] = Unit("string", f) /\ m.body[2] = Unit("uint32", k)
        /\ m.body[3] = Unit("bytes", data)
    BY DEF Encode, ChunkDataResponse
  <1> QED
    BY <1>1, <1>2 DEF Field, FieldOf, ChunkDataResponse, Unit

-----------------------------------------------------------------------------
(* What the steps have in common.                                          *)

\* The disks only grow, and what was split stays so.
Grows == \A p \in Peers, f \in Files :
            /\ DOMAIN disk[p][f] \subseteq DOMAIN disk'[p][f]
            /\ Negative(p, f) => Negative(p, f)'

LEMMA SameDisk ==
    ASSUME disk' = disk, made' = made
    PROVE  Grows
  BY DEF Grows, Negative

\* One piece is written, by the splitting loop or by the network thread.
LEMMA OnePiece ==
    ASSUME Shape, NEW p \in Peers, NEW f \in Files, NEW k \in Nat, NEW data,
           disk' = [disk EXCEPT ![p][f] = With(@, k, data)]
    PROVE  /\ disk' = [x \in Peers |-> [g \in Files |-> disk'[x][g]]]
           /\ \A x \in Peers, g \in Files : DOMAIN disk[x][g] \subseteq DOMAIN disk'[x][g]
           /\ \A x \in Peers, g \in Files : DOMAIN disk'[x][g] \subseteq DOMAIN disk[x][g] \cup {k}
           /\ k \in DOMAIN disk'[p][f]
  <1>1. disk = [x \in Peers |-> [g \in Files |-> disk[x][g]]]
    BY DEF Shape
  <1> DEFINE new == With(disk[p][f], k, data)
  <1>2. DOMAIN new = DOMAIN disk[p][f] \cup {k}
    BY DEF With
  <1> HIDE DEF new
  <1>3. disk' = [disk EXCEPT ![p][f] = new]
    BY DEF new
  <1>4. disk'[p][f] = new
    BY <1>1, <1>3
  <1>5. ASSUME NEW x \in Peers, NEW g \in Files, x # p \/ g # f PROVE disk'[x][g] = disk[x][g]
    BY <1>1, <1>3, <1>5
  <1>6. disk' = [x \in Peers |-> [g \in Files |-> disk'[x][g]]]
    BY <1>1, <1>3
  <1> QED
    BY <1>2, <1>4, <1>5, <1>6

\* What was announced stays true.
LEMMA StaysAnnounced ==
    ASSUME Grows, NEW p \in Peers, NEW m \in Requests, Announced(p, m)
    PROVE  Announced(p, m)'
  <1>1. m.file \in Files
    BY DEF Requests
  <1>2. DOMAIN disk[p][m.file] \subseteq DOMAIN disk'[p][m.file]
    BY <1>1 DEF Grows
  <1>3. Negative(p, m.file) => Negative(p, m.file)'
    BY <1>1 DEF Grows
  <1> QED
    BY <1>2, <1>3 DEF Announced

\* One request after the other.
LEMMA EachAnnounced ==
    ASSUME \A q \in Peers : \A i \in 1..Len(up'[q]) :
               \E r \in Requests : r = up'[q][i] /\ Announced(q, r)'
    PROVE  OnTheWay'
  <1> SUFFICES ASSUME NEW q \in Peers, NEW i \in 1..Len(up'[q]) PROVE Announced(q, up[q][i])'
    BY DEF OnTheWay
  <1>1. PICK r \in Requests : r = up'[q][i] /\ Announced(q, r)'
    OBVIOUS
  <1> QED
    BY <1>1 DEF Announced

LEMMA SameRequests ==
    ASSUME Shape, OnTheWay, Grows, up' = up
    PROVE  OnTheWay'
  <1> SUFFICES ASSUME NEW p \in Peers, NEW i \in 1..Len(up[p]) PROVE Announced(p, up[p][i])'
    BY DEF OnTheWay
  <1>1. up[p] \in Seq(Requests)
    BY DEF Shape
  <1>2. PICK m \in Requests : m = up[p][i]
    BY <1>1
  <1>3. Announced(p, m)
    BY <1>2 DEF OnTheWay
  <1>4. Announced(p, m)'
    BY <1>3, StaysAnnounced
  <1> QED
    BY <1>2, <1>4

LEMMA OneMoreRequest ==
    ASSUME Shape, OnTheWay, Grows, NEW p \in Peers, NEW m \in Requests, Announced(p, m)',
           up' = [up EXCEPT ![p] = Append(@, m)]
    PROVE  up' \in [Peers -> Seq(Requests)] /\ OnTheWay'
  <1>1. up \in [Peers -> Seq(Requests)]
    BY DEF Shape
  <1>2. up' \in [Peers -> Seq(Requests)]
    BY <1>1
  <1> SUFFICES ASSUME NEW q \in Peers, NEW i \in 1..Len(up'[q])
               PROVE  \E r \in Requests : r = up'[q][i] /\ Announced(q, r)'
    BY <1>2, EachAnnounced
  <1>3. CASE q = p /\ i = Len(up[p]) + 1
    <2>1. up'[q][i] = m
      BY <1>1, <1>3
    <2> QED
      BY <2>1, <1>3, Zenon
  <1>4. CASE ~(q = p /\ i = Len(up[p]) + 1)
    <2>1. i \in 1..Len(up[q]) /\ up'[q][i] = up[q][i]
      BY <1>1, <1>4
    <2>2. PICK r \in Requests : r = up[q][i]
      BY <1>1, <2>1
    <2>3. Announced(q, r)
      BY <2>1, <2>2 DEF OnTheWay
    <2>4. Announced(q, r)'
      BY <2>3, StaysAnnounced
    <2> QED
      BY <2>1, <2>2, <2>4
  <1> QED
    BY <1>3, <1>4

LEMMA OneRequestLess ==
    ASSUME Shape, OnTheWay, Grows, NEW p \in Peers, up[p] # <<>>,
           up' = [up EXCEPT ![p] = Tail(@)]
    PROVE  /\ up' \in [Peers -> Seq(Requests)] /\ OnTheWay'
           /\ Head(up[p]) \in Requests /\ Announced(p, Head(up[p]))
  <1>1. up \in [Peers -> Seq(Requests)]
    BY DEF Shape
  <1>2. up' \in [Peers -> Seq(Requests)]
    BY <1>1
  <1>3. Head(up[p]) \in Requests /\ 1 \in 1..Len(up[p]) /\ Head(up[p]) = up[p][1]
    BY <1>1
  <1>4. Announced(p, Head(up[p]))
    BY <1>3 DEF OnTheWay
  <1>5. ASSUME NEW q \in Peers, NEW i \in 1..Len(up'[q])
        PROVE  \E r \in Requests : r = up'[q][i] /\ Announced(q, r)'
    <2>1. PICK j \in 1..Len(up[q]) : up'[q][i] = up[q][j]
      <3>1. CASE q = p
        <4>1. i + 1 \in 1..Len(up[q]) /\ up'[q][i] = up[q][i + 1]
          BY <1>1, <3>1
        <4> QED
          BY <4>1
      <3>2. CASE q # p
        BY <1>1, <3>2
      <3> QED
        BY <3>1, <3>2
    <2>2. PICK r \in Requests : r = up[q][j]
      BY <1>1, <2>1
    <2>3. Announced(q, r)
      BY <2>1, <2>2 DEF OnTheWay
    <2>4. Announced(q, r)'
      BY <2>3, StaysAnnounced
    <2> QED
      BY <2>1, <2>2, <2>4
  <1>6. OnTheWay'
    BY <1>5, EachAnnounced
  <1> QED
    BY <1>2, <1>3, <1>4, <1>6

\* The splitting loops, the announcements and the directories of a step that leaves them alone.
LEMMA SameLoops ==
    ASSUME Shape, Grows, split' = split, \A p \in Peers : Split(p)
    PROVE  \A p \in Peers : Split(p)'
  <1> SUFFICES ASSUME NEW p \in Peers, split[p] # None PROVE Split(p)'
    BY DEF Split
  <1>1. Split(p) /\ split[p] \in Loops
    BY DEF Shape
  <1>2. PICK f \in Files : f = split[p].file
    BY <1>1 DEF Loops
  <1>3. DOMAIN disk[p][f] \subseteq DOMAIN disk'[p][f]
    BY DEF Grows
  <1>4. Negative(p, f) => Negative(p, f)'
    BY DEF Grows
  <1> QED
    BY <1>1, <1>2, <1>3, <1>4 DEF Split

LEMMA SameClaims ==
    ASSUME TypeOK, Grows, claims' = claims, Kept
    PROVE  Kept'
  <1> SUFFICES ASSUME NEW c \in claims
               PROVE  c[3] \in DOMAIN disk'[c[1]][c[2]] \/ Negative(c[1], c[2])'
    BY DEF Kept
  <1>1. c[1] \in Peers /\ c[2] \in Files
    BY DEF TypeOK
  <1>2. DOMAIN disk[c[1]][c[2]] \subseteq DOMAIN disk'[c[1]][c[2]]
    BY <1>1 DEF Grows
  <1>3. Negative(c[1], c[2]) => Negative(c[1], c[2])'
    BY <1>1 DEF Grows
  <1> QED
    BY <1>2, <1>3 DEF Kept

\* What the four steps between peers do to the links.
LEMMA AskLinks ==
    ASSUME NEW S, OnLinks(S), NEW p \in Peers, NEW q \in Peers, p # q, NEW m,
           link' = [link EXCEPT ![p][q] = Append(@, m)]
    PROVE  OnLinks(S \cup {m})'
  <1>1. link \in [Peers -> [Peers -> Seq(S)]]
    BY DEF OnLinks
  <1> DEFINE T == S \cup {m}
  <1>2. \A a \in Peers, b \in Peers : link[a][b] \in Seq(T)
    BY <1>1
  <1>3. Append(link[p][q], m) \in Seq(T)
    BY <1>2
  <1>4. link' \in [Peers -> [Peers -> Seq(T)]]
    <2> HIDE DEF T
    <2> QED
      BY <1>1, <1>2, <1>3
  <1>5. \A a \in Peers : link'[a][a] = link[a][a]
    BY <1>1
  <1> QED
    BY <1>4, <1>5 DEF OnLinks

LEMMA StoreLinks ==
    ASSUME NEW S, OnLinks(S), NEW p \in Peers, NEW q \in Peers, link[q][p] # <<>>,
           link' = [link EXCEPT ![q][p] = Tail(link[q][p])]
    PROVE  OnLinks(S)' /\ Head(link[q][p]) \in S /\ p # q
  <1>1. link \in [Peers -> [Peers -> Seq(S)]]
    BY DEF OnLinks
  <1>2. Head(link[q][p]) \in S /\ Tail(link[q][p]) \in Seq(S)
    BY <1>1
  <1>3. link' \in [Peers -> [Peers -> Seq(S)]]
    BY <1>1, <1>2
  <1>4. p # q
    BY DEF OnLinks
  <1>5. \A a \in Peers : link'[a][a] = link[a][a]
    BY <1>1, <1>4
  <1> QED
    BY <1>2, <1>3, <1>4, <1>5 DEF OnLinks

LEMMA ServeLinks ==
    ASSUME NEW S, OnLinks(S), NEW p \in Peers, NEW q \in Peers, p # q, NEW m, link[q][p] # <<>>,
           link' = [link EXCEPT ![q][p] = Tail(link[q][p]), ![p][q] = Append(link[p][q], m)]
    PROVE  OnLinks(S \cup {m})'
  <1>1. link \in [Peers -> [Peers -> Seq(S)]]
    BY DEF OnLinks
  <1> DEFINE T == S \cup {m}
  <1>2. \A a \in Peers, b \in Peers : link[a][b] \in Seq(T)
    BY <1>1
  <1>3. Tail(link[q][p]) \in Seq(T) /\ Append(link[p][q], m) \in Seq(T)
    BY <1>2
  <1> HIDE DEF T
  <1>4. link' \in [Peers -> [Peers -> Seq(T)]]
    <2>1. PICK t, a : t = Tail(link[q][p]) /\ a = Append(link[p][q], m)
      OBVIOUS
    <2>2. t \in Seq(T) /\ a \in Seq(T) /\ link' = [link EXCEPT ![q][p] = t, ![p][q] = a]
      BY <1>3, <2>1
    <2>3. PICK there, back : there = [link[q] EXCEPT ![p] = t] /\ back = [link[p] EXCEPT ![q] = a]
      OBVIOUS
    <2>4. there \in [Peers -> Seq(T)] /\ back \in [Peers -> Seq(T)]
      BY <1>1, <1>2, <2>2, <2>3
    <2>5. link' = [link EXCEPT ![q] = there, ![p] = back]
      BY <1>1, <2>2, <2>3
    <2>6. \A x \in Peers : link[x] \in [Peers -> Seq(T)]
      BY <1>1, <1>2
    <2> QED
      BY <1>1, <2>4, <2>5, <2>6
  <1>5. \A a \in Peers : link'[a][a] = link[a][a]
    BY <1>1
  <1>6. OnLinks(T)'
    BY <1>4, <1>5 DEF OnLinks
  <1> QED
    BY <1>6 DEF T

LEMMA OneEntry ==
    ASSUME NEW T, NEW F \in [Peers -> [Peers -> T]], NEW p \in Peers, NEW q \in Peers, NEW v \in T,
           NEW G, G = [F EXCEPT ![p][q] = v]
    PROVE  G \in [Peers -> [Peers -> T]] /\ \A a \in Peers : G[a][a] \in {v, F[a][a]}
  OBVIOUS

LEMMA HangUpLinks ==
    ASSUME NEW S, OnLinks(S), NEW p \in Peers, NEW q \in Peers,
           link' = [link EXCEPT ![p][q] = <<>>, ![q][p] = <<>>]
    PROVE  OnLinks(S)'
  <1>1. link \in [Peers -> [Peers -> Seq(S)]]
    BY DEF OnLinks
  <1>2. PICK e : e = <<>>
    OBVIOUS
  <1>3. link' = [link EXCEPT ![p][q] = e, ![q][p] = e] /\ e \in Seq(S)
    BY <1>2
  <1>4. link' \in [Peers -> [Peers -> Seq(S)]] /\ \A a \in Peers : link'[a][a] \in {e, link[a][a]}
    <2>1. PICK mid : mid = [link EXCEPT ![p][q] = e]
      OBVIOUS
    <2>2. mid \in [Peers -> [Peers -> Seq(S)]] /\ \A a \in Peers : mid[a][a] \in {e, link[a][a]}
      BY <1>1, <1>3, <2>1, OneEntry
    <2>3. PICK last : last = link'
      OBVIOUS
    <2>4. e \in Seq(S) /\ mid \in [Peers -> [Peers -> Seq(S)]] /\ last = [mid EXCEPT ![q][p] = e]
      BY <1>3, <2>1, <2>2, <2>3
    <2>5. last \in [Peers -> [Peers -> Seq(S)]] /\ \A a \in Peers : last[a][a] \in {e, mid[a][a]}
      BY <2>4, OneEntry
    <2> QED
      BY <2>2, <2>3, <2>5
  <1> QED
    BY <1>2, <1>4 DEF OnLinks

\* A chunk is asked for and served only between two.
Served(S, p, q, f, k, m) ==
    /\ Head(link[q][p]) \in S /\ Head(link[q][p]).type = 5
    /\ k \in DOMAIN disk[p][f] => OnLinks(S \cup {m})'
    /\ k \notin DOMAIN disk[p][f] => OnLinks(S)'
    /\ early' = IF k \in DOMAIN disk[p][f] /\ split[p] # None /\ split[p].file = f
                THEN early \cup {f} ELSE early
    /\ UNCHANGED <<diskVars, up, serverVars, asks, made>>

LEMMA ServeStep ==
    ASSUME NEW S, OnLinks(S), NEW p \in Peers, NEW q \in Peers, Serve(p, q), NEW f, NEW k, NEW m,
           f = Field(Head(link[q][p]), ChunkDataRequest, 1),
           k = Field(Head(link[q][p]), ChunkDataRequest, 2),
           m = [type |-> 6, body |-> Encode(ChunkDataResponse, <<f, k, disk[p][f][k]>>)]
    PROVE  Served(S, p, q, f, k, m)
  <1> DEFINE has == k \in DOMAIN disk[p][f]
  <1>1. /\ link[q][p] # <<>> /\ Head(link[q][p]).type = 5
        /\ link' = [link EXCEPT ![q][p] = Tail(@), ![p][q] = IF has THEN Append(@, m) ELSE @]
        /\ early' = IF has /\ split[p] # None /\ split[p].file = f THEN early \cup {f} ELSE early
        /\ UNCHANGED <<diskVars, up, serverVars, asks, made>>
    BY DEF Serve
  <1>2. link \in [Peers -> [Peers -> Seq(S)]] /\ p # q
    BY <1>1 DEF OnLinks
  <1>3. Head(link[q][p]) \in S
    BY <1>1, <1>2
  <1>4. ASSUME has PROVE OnLinks(S \cup {m})'
    <2>1. link' = [link EXCEPT ![q][p] = Tail(link[q][p]), ![p][q] = Append(link[p][q], m)]
      BY <1>1, <1>2, <1>4
    <2> QED
      BY <1>1, <1>2, <2>1, ServeLinks
  <1>5. ASSUME ~has PROVE OnLinks(S)'
    <2>1. link' = [link EXCEPT ![q][p] = Tail(link[q][p]), ![p][q] = link[p][q]]
      BY <1>1, <1>2, <1>5
    <2>2. [link EXCEPT ![q][p] = Tail(link[q][p])][p][q] = link[p][q]
      BY <1>2
    <2>3. link' = [link EXCEPT ![q][p] = Tail(link[q][p])]
      BY <1>2, <2>1, <2>2
    <2> QED
      BY <1>1, <2>3, StoreLinks
  <1> QED
    BY <1>1, <1>3, <1>4, <1>5 DEF Served

\* A step that leaves disks, directories and splitting loops alone.
LEMMA QuietDisk ==
    ASSUME Shape, MadeHasDir, \A p \in Peers : Split(p), UNCHANGED <<diskVars, made>>
    PROVE  /\ Grows
           /\ disk' = [p \in Peers |-> [f \in Files |-> disk'[p][f]]]
           /\ made' = [p \in Peers |-> [f \in Files |-> made'[p][f]]]
           /\ split' \in [Peers -> {None} \cup Loops]
           /\ MadeHasDir' /\ \A p \in Peers : Split(p)'
  <1>1. disk' = disk /\ dir' = dir /\ split' = split /\ made' = made
    BY DEF diskVars
  <1>2. Grows
    BY <1>1, SameDisk
  <1>3. \A p \in Peers : Split(p)'
    BY <1>1, <1>2, SameLoops
  <1>4. MadeHasDir'
    BY <1>1 DEF MadeHasDir, Negative
  <1> QED
    BY <1>1, <1>2, <1>3, <1>4 DEF Shape

-----------------------------------------------------------------------------
(* The steps, one after the other.                                         *)

LEMMA RegFileKeeps ==
    ASSUME TransferInv, NEW p \in Peers, NEW f \in Files, NEW n \in Sizes, NEW c \in ChunkSizes,
           RegFile(p, f, n, c)
    PROVE  TransferInv'
  <1> DEFINE size == IF c = 0 THEN Default ELSE c
             loop == [file |-> f, bytes |-> n, size |-> size, next |-> 0, open |-> FALSE]
             file == [bytes |-> n, size |-> size]
  <1>1. size \in Int \ {0}
    BY SizesAssumption
  <1>2. /\ f \notin dir[p] /\ dir' = [dir EXCEPT ![p] = @ \cup {f}]
        /\ split' = [split EXCEPT ![p] = loop] /\ made' = [made EXCEPT ![p][f] = file]
        /\ UNCHANGED <<disk, up, link, serverVars, asks, early>>
    BY DEF RegFile
  <1>3. loop \in Loops /\ loop.file = f /\ loop.size = size /\ loop.next = 0
    BY <1>1 DEF Loops
  <1>4. file # None /\ file.size = size
    BY <1>1, SizesAssumption, NoneAssumption
  <1> HIDE DEF loop, file, size
  <1>5. /\ made' = [x \in Peers |-> [g \in Files |-> made'[x][g]]] /\ made'[p][f] = file
        /\ \A x \in Peers, g \in Files : x # p \/ g # f => made'[x][g] = made[x][g]
    <2>1. made = [x \in Peers |-> [g \in Files |-> made[x][g]]]
      BY DEF TransferInv, Shape
    <2> QED
      BY <1>2, <2>1
  <1>6. ~Negative(p, f)
    BY <1>2 DEF TransferInv, MadeHasDir
  <1>7. Grows
    <2> SUFFICES ASSUME NEW x \in Peers, NEW g \in Files, Negative(x, g) PROVE Negative(x, g)'
      BY <1>2 DEF Grows
    <2>1. x # p \/ g # f
      BY <1>6
    <2> QED
      BY <1>5, <2>1 DEF Negative
  <1>8. Shape'
    BY <1>2, <1>3, <1>5 DEF TransferInv, Shape
  <1>9. OnTheWay' /\ Kept' /\ Links'
    <2>1. OnTheWay'
      BY <1>2, <1>7, SameRequests DEF TransferInv
    <2>2. Kept'
      BY <1>2, <1>7, SameClaims DEF TransferInv, serverVars
    <2>3. Links'
      BY <1>2 DEF TransferInv, Links, OnLinks
    <2> QED
      BY <2>1, <2>2, <2>3
  <1>10. dir' \in [Peers -> SUBSET Files] /\ f \in dir'[p] /\ \A x \in Peers : dir[x] \subseteq dir'[x]
    BY <1>2 DEF TransferInv, TypeOK
  <1>11. MadeHasDir'
    <2> SUFFICES ASSUME NEW x \in Peers, NEW g \in Files, Negative(x, g)' PROVE g \in dir'[x]
      BY DEF MadeHasDir
    <2>1. CASE x = p /\ g = f
      BY <2>1, <1>10
    <2>2. CASE x # p \/ g # f
      <3>1. Negative(x, g)
        BY <2>2, <1>5 DEF Negative
      <3> QED
        BY <3>1, <1>10 DEF TransferInv, MadeHasDir
    <2> QED
      BY <2>1, <2>2
  <1>12. split' \in [Peers -> {None} \cup Loops] /\ split'[p] = loop
         /\ \A x \in Peers : x # p => split'[x] = split[x]
    BY <1>2, <1>3 DEF TransferInv, Shape
  <1>13. ASSUME NEW x \in Peers PROVE Split(x)'
    <2>1. CASE x = p
      <3>1. size > 0 \/ Negative(p, f)'
        BY <1>1, <1>4, <1>5 DEF Negative
      <3> QED
        BY <2>1, <3>1, <1>3, <1>12 DEF Split
    <2>2. CASE x # p
      <3>1. Split(x) /\ split'[x] = split[x] /\ disk' = disk
        BY <2>2, <1>2, <1>12 DEF TransferInv
      <3>2. \A g \in Files : Negative(x, g) => Negative(x, g)'
        BY <1>7 DEF Grows
      <3>3. split[x] # None => split[x].file \in Files
        BY DEF TransferInv, Shape, Loops
      <3> QED
        BY <3>1, <3>2, <3>3 DEF Split
    <2> QED
      BY <2>1, <2>2
  <1>14. TypeOK'
    <2>1. \A x \in Peers : split'[x] = None \/ split'[x].file \in dir'[x]
      BY <1>3, <1>10, <1>12 DEF TransferInv, TypeOK
    <2> QED
      BY <1>2, <1>10, <2>1 DEF TransferInv, TypeOK, serverVars
  <1> QED
    BY <1>8, <1>9, <1>11, <1>13, <1>14 DEF TransferInv

\* A piece is opened, or written and closed: the place moves on, or not yet.
LEMMA PieceKeeps ==
    ASSUME TransferInv, NEW p \in Peers, split[p] # None, NEW data,
           NEW n \in {split[p].next, split[p].next + 1}, NEW now \in BOOLEAN,
           disk' = [disk EXCEPT ![p][split[p].file] = With(@, split[p].next, data)],
           split' = [split EXCEPT ![p] = [split[p] EXCEPT !.open = now, !.next = n]],
           UNCHANGED <<dir, up, link, serverVars, asks, made, early>>
    PROVE  TransferInv'
  <1>1. split[p] \in Loops /\ split[p].file \in Files /\ split[p].next \in Nat
    BY DEF TransferInv, Shape, Loops
  <1>2. PICK f, k : f = split[p].file /\ k = split[p].next
    OBVIOUS
  <1> DEFINE loop == [split[p] EXCEPT !.open = now, !.next = n]
  <1>3. loop \in Loops /\ loop.file = f /\ loop.size = split[p].size /\ loop.next = n
    <2>1. n \in Nat
      BY <1>1
    <2> QED
      BY <1>1, <1>2, <2>1 DEF Loops
  <1> HIDE DEF loop
  <1>4. split' = [split EXCEPT ![p] = loop]
    BY DEF loop
  <1>5. f \in Files /\ k \in Nat /\ disk' = [disk EXCEPT ![p][f] = With(@, k, data)]
    BY <1>1, <1>2
  <1>6. /\ disk' = [x \in Peers |-> [g \in Files |-> disk'[x][g]]]
        /\ \A x \in Peers, g \in Files : DOMAIN disk[x][g] \subseteq DOMAIN disk'[x][g]
        /\ \A x \in Peers, g \in Files : DOMAIN disk'[x][g] \subseteq DOMAIN disk[x][g] \cup {k}
        /\ k \in DOMAIN disk'[p][f]
    BY <1>5, OnePiece DEF TransferInv
  <1>7. /\ split' \in [Peers -> {None} \cup Loops] /\ split'[p] = loop
        /\ \A x \in Peers : x # p => split'[x] = split[x]
    BY <1>3, <1>4 DEF TransferInv, Shape
  <1>8. \A x \in Peers, g \in Files : Negative(x, g)' <=> Negative(x, g)
    BY DEF Negative
  <1>9. Grows
    BY <1>6, <1>8 DEF Grows
  <1>10. Shape'
    BY <1>6, <1>7 DEF TransferInv, Shape
  <1>11. MadeHasDir' /\ OnTheWay' /\ Kept' /\ Links'
    <2>1. OnTheWay'
      BY <1>9, SameRequests DEF TransferInv
    <2>2. Kept'
      BY <1>9, SameClaims DEF TransferInv, serverVars
    <2>3. Links'
      BY DEF TransferInv, Links, OnLinks
    <2>4. MadeHasDir'
      BY DEF TransferInv, MadeHasDir, Negative
    <2> QED
      BY <2>1, <2>2, <2>3, <2>4
  <1>12. ASSUME NEW x \in Peers PROVE Split(x)'
    <2>1. CASE x = p
      <3>1. 0..(k - 1) \subseteq DOMAIN disk[p][f] /\ (loop.size > 0 \/ Negative(p, f))
        BY <1>2, <1>3 DEF TransferInv, Split
      <3>2. 0..(loop.next - 1) \subseteq DOMAIN disk'[p][f]
        <4>1. \A i \in 0..(loop.next - 1) : i \in 0..(k - 1) \/ i = k
          BY <1>2, <1>3, <1>5
        <4> QED
          BY <3>1, <4>1, <1>5, <1>6
      <3>3. loop.size > 0 \/ Negative(p, f)'
        BY <3>1, <1>5, <1>8
      <3> QED
        BY <2>1, <3>2, <3>3, <1>3, <1>7 DEF Split
    <2>2. CASE x # p
      <3>1. Split(x) /\ split'[x] = split[x]
        BY <2>2, <1>7 DEF TransferInv
      <3>2. split[x] # None => split[x].file \in Files
        BY DEF TransferInv, Shape, Loops
      <3>3. \A g \in Files : Negative(x, g) => Negative(x, g)'
        BY <1>8
      <3>4. \A g \in Files : DOMAIN disk[x][g] \subseteq DOMAIN disk'[x][g]
        BY <1>6
      <3> QED
        BY <3>1, <3>2, <3>3, <3>4 DEF Split
    <2> QED
      BY <2>1, <2>2
  <1>13. TypeOK'
    <2>1. \A x \in Peers : split'[x] = None \/ split'[x].file \in dir'[x]
      BY <1>2, <1>3, <1>7 DEF TransferInv, TypeOK
    <2>2. \A x \in Peers, g \in Files : DOMAIN disk'[x][g] \subseteq Nat
      BY <1>5, <1>6 DEF TransferInv, TypeOK
    <2> QED
      BY <2>1, <2>2 DEF TransferInv, TypeOK, serverVars
  <1> QED
    BY <1>10, <1>11, <1>12, <1>13 DEF TransferInv

LEMMA OpenPieceKeeps ==
    ASSUME TransferInv, NEW p \in Peers, OpenPiece(p)
    PROVE  TransferInv'
  <1>1. split[p] \in Loops /\ split \in [Peers -> {None} \cup Loops]
    BY DEF TransferInv, Shape, OpenPiece
  <1>2. split[p] # None /\ disk' = [disk EXCEPT ![p][split[p].file] = With(@, split[p].next, <<>>)]
    BY DEF OpenPiece
  <1>3. split' = [split EXCEPT ![p] = [split[p] EXCEPT !.open = TRUE, !.next = split[p].next]]
    <2>1. [split[p] EXCEPT !.open = TRUE] = [split[p] EXCEPT !.open = TRUE, !.next = split[p].next]
      BY <1>1 DEF Loops
    <2>2. split' = [split EXCEPT ![p] = [split[p] EXCEPT !.open = TRUE]]
      BY <1>1 DEF OpenPiece
    <2> QED
      BY <2>1, <2>2
  <1>4. UNCHANGED <<dir, up, link, serverVars, asks, made, early>>
    BY DEF OpenPiece
  <1> QED
    BY <1>2, <1>3, <1>4, PieceKeeps

LEMMA ClosePieceKeeps ==
    ASSUME TransferInv, NEW p \in Peers, ClosePiece(p)
    PROVE  TransferInv'
  <1>1. split[p] \in Loops /\ split \in [Peers -> {None} \cup Loops]
    BY DEF TransferInv, Shape, ClosePiece
  <1>2. split[p] # None
    BY DEF ClosePiece
  <1>3. PICK data : disk' = [disk EXCEPT ![p][split[p].file] = With(@, split[p].next, data)]
    BY Zenon DEF ClosePiece
  <1>4. split' = [split EXCEPT ![p] = [split[p] EXCEPT !.open = FALSE, !.next = split[p].next + 1]]
    BY <1>1 DEF ClosePiece
  <1>5. UNCHANGED <<dir, up, link, serverVars, asks, made, early>>
    BY DEF ClosePiece
  <1> QED
    BY <1>2, <1>3, <1>4, <1>5, PieceKeeps

\* What the loop has written is what is announced.
LEMMA AnnounceKeeps ==
    ASSUME TransferInv, NEW p \in Peers, Announce(p)
    PROVE  TransferInv'
  <1>1. split[p] \in Loops
    BY DEF TransferInv, Shape, Announce
  <1>2. PICK f \in Files : f = split[p].file
    BY <1>1 DEF Loops
  <1>3. PICK t \in Int : t = Total(split[p]) /\ (split[p].size > 0 => t >= 0)
    BY <1>1, ChunksAreCounted, SizesAssumption DEF Loops, Total
  <1> DEFINE m == [file |-> f, n |-> U32(t)]
  <1>4. U32(t) \in Chunks /\ (t >= 0 => U32(t) <= t)
    BY <1>3, SentNumber
  <1>5. /\ split[p].next >= t /\ split' = [split EXCEPT ![p] = None]
        /\ up' = [up EXCEPT ![p] = Append(@, m)]
        /\ UNCHANGED <<disk, dir, link, serverVars, asks, made, early>>
    BY <1>2, <1>3 DEF Announce
  <1>6. m \in Requests
    BY <1>4 DEF Requests
  <1>7. Grows
    BY <1>5, SameDisk
  <1>8. Negative(p, f) \/ 0..(U32(t) - 1) \subseteq DOMAIN disk[p][f]
    <2>1. CASE split[p].size > 0
      <3>1. 0..(split[p].next - 1) \subseteq DOMAIN disk[p][f] /\ split[p].next \in Nat
        BY <1>1, <1>2 DEF TransferInv, Split, Announce, Loops
      <3>2. U32(t) <= split[p].next /\ U32(t) \in Int
        BY <2>1, <3>1, <1>3, <1>4, <1>5 DEF Chunks
      <3>3. \A i \in 0..(U32(t) - 1) : i \in 0..(split[p].next - 1)
        BY <3>1, <3>2
      <3> QED
        BY <3>1, <3>3
    <2>2. CASE ~(split[p].size > 0)
      BY <2>2, <1>2 DEF TransferInv, Split, Announce
    <2> QED
      BY <2>1, <2>2
  <1>9. Announced(p, m)'
    <2>1. m.file = f /\ m.n = U32(t) /\ DOMAIN m = {"file", "n"}
      OBVIOUS
    <2>2. disk' = disk /\ (Negative(p, f)' <=> Negative(p, f))
      BY <1>5 DEF Negative
    <2> HIDE DEF m
    <2> QED
      BY <2>1, <2>2, <1>8 DEF Announced
  <1> HIDE DEF m
  <1>10. up' \in [Peers -> Seq(Requests)] /\ OnTheWay'
    BY <1>5, <1>6, <1>7, <1>9, OneMoreRequest DEF TransferInv
  <1>11. split' \in [Peers -> {None} \cup Loops] /\ split'[p] = None
         /\ \A x \in Peers : x # p => split'[x] = split[x]
    BY <1>5 DEF TransferInv, Shape
  <1>12. Shape' /\ MadeHasDir' /\ Kept' /\ Links'
    <2>1. Shape'
      BY <1>5, <1>10, <1>11 DEF TransferInv, Shape
    <2>2. Kept'
      BY <1>5, <1>7, SameClaims DEF TransferInv, serverVars
    <2>3. Links'
      BY <1>5 DEF TransferInv, Links, OnLinks
    <2>4. MadeHasDir'
      BY <1>5 DEF TransferInv, MadeHasDir, Negative
    <2> QED
      BY <2>1, <2>2, <2>3, <2>4
  <1>13. ASSUME NEW x \in Peers PROVE Split(x)'
    <2>1. CASE x = p
      BY <2>1, <1>11 DEF Split
    <2>2. CASE x # p
      <3>1. Split(x) /\ split'[x] = split[x] /\ disk' = disk
        BY <2>2, <1>5, <1>11 DEF TransferInv
      <3>2. \A g : Negative(x, g)' <=> Negative(x, g)
        BY <1>5 DEF Negative
      <3> QED
        BY <3>1, <3>2 DEF Split
    <2> QED
      BY <2>1, <2>2
  <1>14. TypeOK'
    <2>1. \A x \in Peers : split'[x] = None \/ split'[x].file \in dir'[x]
      BY <1>5, <1>11 DEF TransferInv, TypeOK
    <2> QED
      BY <1>5, <2>1 DEF TransferInv, TypeOK, serverVars
  <1> QED
    BY <1>10, <1>12, <1>13, <1>14 DEF TransferInv

\* The server takes a request of p off its connection.
LEMMA ServerKeeps ==
    ASSUME TransferInv, NEW p \in Peers, up[p] # <<>>, UNCHANGED <<diskVars, link, asks, made, early>>,
           up' = [up EXCEPT ![p] = Tail(@)], Kept',
           count' \in [Files -> 0..(Word - 1)], claims' \subseteq Peers \X Files \X Chunks,
           owner' \in [Files -> Peers \cup {None}], refused' \subseteq Peers \X Files
    PROVE  TransferInv'
  <1>1. /\ Grows /\ disk' = [x \in Peers |-> [f \in Files |-> disk'[x][f]]]
        /\ made' = [x \in Peers |-> [f \in Files |-> made'[x][f]]]
        /\ split' \in [Peers -> {None} \cup Loops]
        /\ MadeHasDir' /\ \A x \in Peers : Split(x)'
    BY QuietDisk DEF TransferInv
  <1>2. up' \in [Peers -> Seq(Requests)] /\ OnTheWay'
    BY <1>1, OneRequestLess DEF TransferInv
  <1>3. Links'
    BY DEF TransferInv, Links, OnLinks
  <1>4. Shape'
    BY <1>1, <1>2 DEF Shape
  <1>5. TypeOK'
    BY DEF TransferInv, TypeOK, diskVars
  <1> QED
    BY <1>1, <1>2, <1>3, <1>4, <1>5 DEF TransferInv

\* What the server takes is a request, and true.
LEMMA HeadIsTrue ==
    ASSUME TransferInv, NEW p \in Peers, up[p] # <<>>
    PROVE  Head(up[p]) \in Requests /\ Announced(p, Head(up[p]))
  <1>1. up[p] \in Seq(Requests)
    BY DEF TransferInv, Shape
  <1>2. Head(up[p]) \in Requests /\ 1 \in 1..Len(up[p]) /\ Head(up[p]) = up[p][1]
    BY <1>1
  <1> QED
    BY <1>2 DEF TransferInv, OnTheWay

LEMMA ServeRegFileKeeps ==
    ASSUME TransferInv, NEW p \in Peers, ServeRegFile(p)
    PROVE  TransferInv'
  <1>1. /\ up[p] # <<>> /\ "n" \in DOMAIN Head(up[p]) /\ up' = [up EXCEPT ![p] = Tail(@)]
        /\ UNCHANGED <<diskVars, link, asks, made, early>>
    BY DEF ServeRegFile
  <1>2. PICK m \in Requests : m = Head(up[p]) /\ Announced(p, m)
    BY <1>1, HeadIsTrue
  <1>3. PICK f \in Files, n \in Chunks : f = m.file /\ n = m.n
    <2>1. m \in [file : Files, n : Chunks]
      BY <1>1, <1>2 DEF Requests
    <2> QED
      BY <2>1
  <1>4. Negative(p, f) \/ 0..(n - 1) \subseteq DOMAIN disk[p][f]
    BY <1>1, <1>2, <1>3 DEF Announced
  <1>5. disk' = disk /\ made' = made
    BY <1>1 DEF diskVars
  <1>6. \/ /\ refused' = refused \cup {<<p, f>>} /\ UNCHANGED <<count, claims, owner>>
        \/ /\ count' = [count EXCEPT ![f] = n] /\ owner' = [owner EXCEPT ![f] = p]
           /\ claims' = claims \cup {<<p, f, k>> : k \in 0..(n - 1)} /\ refused' = refused
    BY <1>2, <1>3 DEF ServeRegFile
  <1>7. \A k \in 0..(n - 1) : k \in Chunks
    BY WordAssumption DEF Chunks
  <1>8. /\ count' \in [Files -> 0..(Word - 1)] /\ owner' \in [Files -> Peers \cup {None}]
        /\ claims' \subseteq Peers \X Files \X Chunks /\ refused' \subseteq Peers \X Files
    BY <1>6, <1>7 DEF TransferInv, TypeOK, Chunks
  <1>9. Kept'
    <2> SUFFICES ASSUME NEW c \in claims'
                 PROVE  c[3] \in DOMAIN disk[c[1]][c[2]] \/ Negative(c[1], c[2])
      BY <1>5 DEF Kept, Negative
    <2>1. CASE c \in claims
      BY <2>1 DEF TransferInv, Kept
    <2>2. CASE c \notin claims
      <3>1. PICK k \in 0..(n - 1) : c = <<p, f, k>>
        BY <2>2, <1>6
      <3> QED
        BY <3>1, <1>4
    <2> QED
      BY <2>1, <2>2
  <1> QED
    BY <1>1, <1>8, <1>9, ServerKeeps

LEMMA ServeRegChunkKeeps ==
    ASSUME TransferInv, NEW p \in Peers, ServeRegChunk(p)
    PROVE  TransferInv'
  <1>1. /\ up[p] # <<>> /\ "chunk" \in DOMAIN Head(up[p]) /\ up' = [up EXCEPT ![p] = Tail(@)]
        /\ UNCHANGED <<diskVars, link, count, owner, asks, made, early>>
    BY DEF ServeRegChunk
  <1>2. PICK m \in Requests : m = Head(up[p]) /\ Announced(p, m)
    BY <1>1, HeadIsTrue
  <1>3. PICK f \in Files, k \in Chunks : f = m.file /\ k = m.chunk
    <2>1. m \in [file : Files, chunk : Chunks]
      BY <1>1, <1>2 DEF Requests
    <2> QED
      BY <2>1
  <1>4. k \in DOMAIN disk[p][f]
    BY <1>1, <1>2, <1>3 DEF Announced
  <1>5. disk' = disk /\ made' = made
    BY <1>1 DEF diskVars
  <1>6. \/ refused' = refused \cup {<<p, f>>} /\ claims' = claims
        \/ claims' = claims \cup {<<p, f, k>>} /\ refused' = refused
    BY <1>2, <1>3 DEF ServeRegChunk
  <1>7. /\ count' \in [Files -> 0..(Word - 1)] /\ owner' \in [Files -> Peers \cup {None}]
        /\ claims' \subseteq Peers \X Files \X Chunks /\ refused' \subseteq Peers \X Files
    BY <1>1, <1>6 DEF TransferInv, TypeOK
  <1>8. Kept'
    <2> SUFFICES ASSUME NEW c \in claims'
                 PROVE  c[3] \in DOMAIN disk[c[1]][c[2]] \/ Negative(c[1], c[2])
      BY <1>5 DEF Kept, Negative
    <2>1. CASE c \in claims
      BY <2>1 DEF TransferInv, Kept
    <2>2. CASE c \notin claims
      <3>1. c = <<p, f, k>>
        BY <2>2, <1>6
      <3> QED
        BY <3>1, <1>4
    <2> QED
      BY <2>1, <2>2
  <1> QED
    BY <1>1, <1>7, <1>8, ServerKeeps

\* A step between two peers that leaves the disks alone.
LEMMA TalkKeeps ==
    ASSUME TransferInv, Links', UNCHANGED <<diskVars, up, serverVars, made>>,
           asks' \in 0..MaxAsks, early' \subseteq Files
    PROVE  TransferInv'
  <1>1. /\ Grows /\ disk' = [x \in Peers |-> [f \in Files |-> disk'[x][f]]]
        /\ made' = [x \in Peers |-> [f \in Files |-> made'[x][f]]]
        /\ split' \in [Peers -> {None} \cup Loops]
        /\ MadeHasDir' /\ \A x \in Peers : Split(x)'
    BY QuietDisk DEF TransferInv
  <1>2. Shape'
    BY <1>1 DEF TransferInv, Shape
  <1>3. OnTheWay'
    BY <1>1, SameRequests DEF TransferInv
  <1>4. Kept'
    BY <1>1, SameClaims DEF TransferInv, serverVars
  <1>5. TypeOK'
    BY DEF TransferInv, TypeOK, diskVars, serverVars
  <1> QED
    BY <1>1, <1>2, <1>3, <1>4, <1>5 DEF TransferInv

LEMMA AskKeeps ==
    ASSUME TransferInv, NEW p \in Peers, NEW q \in Peers, NEW f \in Files, NEW k \in Wanted,
           Ask(p, q, f, k)
    PROVE  TransferInv'
  <1> DEFINE m == [type |-> 5, body |-> Encode(ChunkDataRequest, <<f, k>>)]
  <1>1. /\ link' = [link EXCEPT ![p][q] = Append(@, m)] /\ asks < MaxAsks /\ asks' = asks + 1
        /\ UNCHANGED <<diskVars, up, serverVars, made, early>> /\ p # q
    BY DEF Ask
  <1>2. WellFormed(m)
    BY RequestIsWellFormed, SizesAssumption
  <1> HIDE DEF m
  <1>3. Links'
    <2>1. PICK S : OnLinks(S) /\ \A x \in S : WellFormed(x)
      BY DEF TransferInv, Links
    <2>2. OnLinks(S \cup {m})'
      BY <1>1, <2>1, AskLinks
    <2> QED
      BY <1>2, <2>1, <2>2 DEF Links
  <1>4. asks' \in 0..MaxAsks /\ early' \subseteq Files
    BY <1>1, AsksAssumption DEF TransferInv, TypeOK
  <1> QED
    BY <1>1, <1>3, <1>4, TalkKeeps

LEMMA ServeKeeps ==
    ASSUME TransferInv, NEW p \in Peers, NEW q \in Peers, Serve(p, q)
    PROVE  TransferInv'
  <1>1. PICK f, k, m : /\ f = Field(Head(link[q][p]), ChunkDataRequest, 1)
                       /\ k = Field(Head(link[q][p]), ChunkDataRequest, 2)
                       /\ m = [type |-> 6, body |-> Encode(ChunkDataResponse, <<f, k, disk[p][f][k]>>)]
    OBVIOUS
  <1>2. PICK S : OnLinks(S) /\ \A x \in S : WellFormed(x)
    BY DEF TransferInv, Links
  <1>3. /\ Head(link[q][p]) \in S /\ Head(link[q][p]).type = 5
        /\ OnLinks(S \cup {m})' \/ OnLinks(S)'
        /\ early' \in {early, early \cup {f}}
        /\ UNCHANGED <<diskVars, up, serverVars, asks, made>>
    <2>1. Served(S, p, q, f, k, m)
      BY <1>1, <1>2, ServeStep
    <2> QED
      BY <2>1 DEF Served
  <1>4. f \in Files /\ k \in Chunks
    BY <1>1, <1>2, <1>3 DEF WellFormed
  <1>5. WellFormed(m)
    BY <1>1, <1>4, ResponseIsWellFormed DEF Chunks
  <1>6. Links'
    BY <1>2, <1>3, <1>5 DEF Links
  <1>7. asks' \in 0..MaxAsks /\ early' \subseteq Files
    BY <1>3, <1>4 DEF TransferInv, TypeOK
  <1> QED
    BY <1>3, <1>6, <1>7, TalkKeeps

LEMMA HangUpKeeps ==
    ASSUME TransferInv, NEW p \in Peers, NEW q \in Peers, HangUp(p, q)
    PROVE  TransferInv'
  <1>1. /\ link' = [link EXCEPT ![p][q] = <<>>, ![q][p] = <<>>]
        /\ UNCHANGED <<diskVars, up, serverVars, asks, made, early>>
    BY DEF HangUp
  <1>2. PICK S : OnLinks(S) /\ \A x \in S : WellFormed(x)
    BY DEF TransferInv, Links
  <1>3. OnLinks(S)'
    BY <1>1, <1>2, HangUpLinks
  <1>4. Links'
    BY <1>2, <1>3 DEF Links
  <1>5. asks' \in 0..MaxAsks /\ early' \subseteq Files
    BY <1>1 DEF TransferInv, TypeOK
  <1> QED
    BY <1>1, <1>4, <1>5, TalkKeeps

\* A chunk that arrives is written before it is announced.
LEMMA StoreKeeps ==
    ASSUME TransferInv, NEW p \in Peers, NEW q \in Peers, Store(p, q)
    PROVE  TransferInv'
  <1>1. link[q][p] # <<>> /\ Head(link[q][p]).type = 6
    BY DEF Store
  <1>2. link' = [link EXCEPT ![q][p] = Tail(link[q][p])]
    BY DEF Store
  <1>3. Links' /\ WellFormed(Head(link[q][p]))
    <2>1. PICK S : OnLinks(S) /\ \A x \in S : WellFormed(x)
      BY DEF TransferInv, Links
    <2>2. OnLinks(S)' /\ Head(link[q][p]) \in S
      BY <1>1, <1>2, <2>1, StoreLinks
    <2> QED
      BY <2>1, <2>2 DEF Links
  <1>4. PICK f \in Files, k \in Chunks : /\ f = Field(Head(link[q][p]), ChunkDataResponse, 1)
                                         /\ k = Field(Head(link[q][p]), ChunkDataResponse, 2)
    BY <1>1, <1>3 DEF WellFormed
  <1>5. k \in Nat
    BY DEF Chunks
  <1> DEFINE m == [file |-> f, chunk |-> k]
             data == Field(Head(link[q][p]), ChunkDataResponse, 3)
  <1>6. /\ dir' = [dir EXCEPT ![p] = @ \cup {f}]
        /\ disk' = [disk EXCEPT ![p][f] = With(@, k, data)]
        /\ up' = [up EXCEPT ![p] = Append(@, m)]
        /\ UNCHANGED <<split, serverVars, asks, made, early>>
    BY <1>4 DEF Store
  <1>7. m \in Requests /\ m.file = f /\ m.chunk = k /\ DOMAIN m = {"file", "chunk"}
    BY DEF Requests
  <1> HIDE DEF m, data
  <1>8. /\ disk' = [x \in Peers |-> [g \in Files |-> disk'[x][g]]]
        /\ \A x \in Peers, g \in Files : DOMAIN disk[x][g] \subseteq DOMAIN disk'[x][g]
        /\ \A x \in Peers, g \in Files : DOMAIN disk'[x][g] \subseteq DOMAIN disk[x][g] \cup {k}
        /\ k \in DOMAIN disk'[p][f]
    BY <1>5, <1>6, OnePiece DEF TransferInv
  <1>9. \A x \in Peers, g \in Files : Negative(x, g)' <=> Negative(x, g)
    BY <1>6 DEF Negative
  <1>10. Grows
    BY <1>8, <1>9 DEF Grows
  <1>11. Announced(p, m)'
    BY <1>7, <1>8 DEF Announced
  <1>12. up' \in [Peers -> Seq(Requests)] /\ OnTheWay'
    BY <1>6, <1>7, <1>10, <1>11, OneMoreRequest DEF TransferInv
  <1>13. dir' \in [Peers -> SUBSET Files] /\ \A x \in Peers : dir[x] \subseteq dir'[x]
    BY <1>6 DEF TransferInv, TypeOK
  <1>14. Shape' /\ Kept' /\ MadeHasDir' /\ \A x \in Peers : Split(x)'
    <2>1. Shape'
      BY <1>6, <1>8, <1>12 DEF TransferInv, Shape
    <2>2. Kept'
      BY <1>6, <1>10, SameClaims DEF TransferInv, serverVars
    <2>3. \A x \in Peers : Split(x)'
      BY <1>6, <1>10, SameLoops DEF TransferInv
    <2>4. MadeHasDir'
      BY <1>9, <1>13 DEF TransferInv, MadeHasDir
    <2> QED
      BY <2>1, <2>2, <2>3, <2>4
  <1>15. TypeOK'
    <2>1. \A x \in Peers, g \in Files : DOMAIN disk'[x][g] \subseteq Nat
      BY <1>5, <1>8 DEF TransferInv, TypeOK
    <2>2. \A x \in Peers : split'[x] = None \/ split'[x].file \in dir'[x]
      BY <1>6, <1>13 DEF TransferInv, TypeOK
    <2> QED
      BY <1>6, <1>13, <2>1, <2>2 DEF TransferInv, TypeOK, serverVars
  <1> QED
    BY <1>3, <1>12, <1>14, <1>15 DEF TransferInv

-----------------------------------------------------------------------------
(* All together.                                                           *)

LEMMA Begins ==
    ASSUME Init
    PROVE  TransferInv
  <1>1. Shape /\ OnTheWay
    BY DEF Init, Shape, OnTheWay
  <1>2. link \in [Peers -> [Peers -> Seq({})]]
    BY DEF Init
  <1>3. Links
    <2>1. \A p \in Peers : link[p][p] = <<>>
      BY DEF Init
    <2>2. OnLinks({})
      BY <1>2, <2>1 DEF OnLinks
    <2> QED
      BY <2>2 DEF Links
  <1>4. MadeHasDir /\ Kept /\ \A p \in Peers : Split(p)
    BY DEF Init, MadeHasDir, Negative, Kept, Split
  <1>5. TypeOK
    <2>1. \A p \in Peers, f \in Files : DOMAIN disk[p][f] = {}
      BY DEF Init
    <2>2. 0 \in 0..(Word - 1)
      BY WordAssumption
    <2> QED
      BY <2>1, <2>2, AsksAssumption DEF Init, TypeOK
  <1> QED
    BY <1>1, <1>3, <1>4, <1>5 DEF TransferInv

LEMMA StepKeeps ==
    ASSUME TransferInv, [Next]_vars
    PROVE  TransferInv'
  <1>1. CASE UNCHANGED vars
    <2>1. UNCHANGED <<diskVars, up, link, serverVars, asks, made, early>>
      BY <1>1 DEF vars
    <2>2. Links'
      BY <2>1 DEF TransferInv, Links, OnLinks
    <2>3. asks' \in 0..MaxAsks /\ early' \subseteq Files
      BY <2>1 DEF TransferInv, TypeOK
    <2> QED
      BY <2>1, <2>2, <2>3, TalkKeeps
  <1>2. ASSUME NEW p \in Peers, Splitting(p) PROVE TransferInv'
    BY <1>2, OpenPieceKeeps, ClosePieceKeeps, AnnounceKeeps DEF Splitting
  <1>3. ASSUME NEW p \in Peers, Network(p) PROVE TransferInv'
    BY <1>3, ServeKeeps, StoreKeeps DEF Network
  <1>4. ASSUME NEW p \in Peers, Server(p) PROVE TransferInv'
    BY <1>4, ServeRegFileKeeps, ServeRegChunkKeeps DEF Server
  <1>5. ASSUME NEW p \in Peers, NEW f \in Files, NEW n \in Sizes, NEW c \in ChunkSizes,
               RegFile(p, f, n, c)
        PROVE  TransferInv'
    BY <1>5, RegFileKeeps
  <1>6. ASSUME NEW p \in Peers, NEW q \in Peers, NEW f \in Files, NEW k \in Wanted, Ask(p, q, f, k)
        PROVE  TransferInv'
    BY <1>6, AskKeeps
  <1>7. ASSUME NEW p \in Peers, NEW q \in Peers, HangUp(p, q) PROVE TransferInv'
    BY <1>7, HangUpKeeps
  <1> QED
    BY <1>1, <1>2, <1>3, <1>4, <1>5, <1>6, <1>7, Zenon DEF Next

\* Whatever is split, asked for, stored and lost on the way: the server lists a client
\* with a chunk only when the chunk is on the disk of that client, or the client has split
\* that file with a negative chunk size.
THEOREM AnnouncementsAreTrue == Spec => []AnnouncedIsStored
  <1>1. TransferInv => AnnouncedIsStored
    BY DEF TransferInv, Kept, AnnouncedIsStored
  <1> QED
    BY Begins, StepKeeps, <1>1, PTL DEF Spec

-----------------------------------------------------------------------------
(* The pieces of a file, one after the other, are the file.                *)

PieceAt(q, b, s, k) ==
    SubSeq(Content(q, b), k * s + 1, IF k * s + s < b THEN k * s + s ELSE b)

\* A set of natural numbers that is not empty has a least one.
LEMMA LeastOne ==
    ASSUME NEW S \in SUBSET Nat, S # {}
    PROVE  \E x \in S : \A y \in S : x <= y
  <1> DEFINE R == {t \in Nat \X Nat : t[1] < t[2]}
  <1>1. IsWellFoundedOn(R, Nat)
    BY NatLessThanWellFounded DEF OpToRel
  <1>2. PICK x \in S : \A y \in S : ~(<<y, x>> \in R)
    BY <1>1, WFMin
  <1>3. ASSUME NEW y \in S PROVE x <= y
    <2>1. <<y, x>> \notin R
      BY <1>2
    <2> QED
      BY <2>1
  <1> QED
    BY <1>2, <1>3

\* G has the first i parts, put together, at i.
Joins(G, parts, n) == G = [i \in 1..n |-> IF i = 1 THEN parts[i] ELSE G[i - 1] \o parts[i]]

\* What FlattenSeq computes, for whoever can say what it is.
LEMMA FlattenIs ==
    ASSUME NEW parts, NEW n \in Nat \ {0}, Len(parts) = n, NEW G, Joins(G, parts, n)
    PROVE  FlattenSeq(parts) = G[n]
  <1> DEFINE flat == CHOOSE h : h = [i \in 1..n |-> IF i = 1 THEN parts[i] ELSE h[i - 1] \o parts[i]]
  <1>1. Joins(flat, parts, n)
    BY DEF Joins
  <1>2. FlattenSeq(parts) = flat[n]
    BY DEF FlattenSeq
  <1> HIDE DEF flat
  <1>3. PICK h : h = flat
    OBVIOUS
  <1>4. /\ \A i \in 1..n : h[i] = IF i = 1 THEN parts[i] ELSE h[i - 1] \o parts[i]
        /\ \A i \in 1..n : G[i] = IF i = 1 THEN parts[i] ELSE G[i - 1] \o parts[i]
    BY <1>1, <1>3 DEF Joins
  <1>5. \A i \in 1..n : h[i] = G[i]
    <2> SUFFICES ASSUME NEW i \in 1..n, h[i] # G[i] PROVE FALSE
      OBVIOUS
    <2> DEFINE D == {j \in Nat : j \in 1..n /\ h[j] # G[j]}
    <2>1. PICK j \in D : \A x \in D : j <= x
      <3>1. D \subseteq Nat /\ i \in D
        OBVIOUS
      <3> HIDE DEF D
      <3> QED
        BY <3>1, LeastOne
    <2>2. j # 1
      BY <1>4, <2>1
    <2>3. j - 1 \in 1..n /\ j - 1 \notin D
      BY <2>1, <2>2
    <2>4. h[j - 1] = G[j - 1]
      BY <2>3
    <2>5. j \in 1..n /\ h[j] # G[j]
      BY <2>1
    <2>6. h[j] = h[j - 1] \o parts[j]
      BY <1>4, <2>2, <2>5
    <2>7. G[j] = G[j - 1] \o parts[j]
      BY <1>4, <2>2, <2>5
    <2> QED
      BY <2>4, <2>5, <2>6, <2>7
  <1> QED
    BY <1>2, <1>3, <1>5

\* The number of chunks is the least one that has room for the file.
LEMMA ChunksCover ==
    ASSUME NEW b \in Nat \ {0}, NEW s \in Nat \ {0}
    PROVE  /\ NChunks(b, s) \in Nat \ {0} /\ NChunks(b, s) <= b
           /\ b <= NChunks(b, s) * s /\ (NChunks(b, s) - 1) * s < b
  <1>1. PICK d : d = b \div s
    OBVIOUS
  <1>2. d \in Nat /\ d * s <= b /\ b < d * s + s
    BY <1>1
  <1>3. NChunks(b, s) = IF d * s < b THEN d + 1 ELSE d
    BY <1>1 DEF NChunks, Quotient
  <1>4. (d + 1) * s = d * s + s /\ (d - 1) * s = d * s - s /\ d <= d * s
    BY <1>2
  <1>5. d * s \in Nat
    BY <1>2
  <1>6. d = 0 => d * s = 0
    BY <1>2
  <1>7. CASE d * s < b
    <2>1. NChunks(b, s) = d + 1
      BY <1>3, <1>7
    <2> QED
      BY <2>1, <1>2, <1>4, <1>5, <1>7
  <1>8. CASE ~(d * s < b)
    <2>1. NChunks(b, s) = d /\ d * s = b
      BY <1>2, <1>3, <1>5, <1>8
    <2> QED
      BY <2>1, <1>2, <1>4, <1>5, <1>6
  <1> QED
    BY <1>7, <1>8

LEMMA PiecesMakeFile ==
    ASSUME NEW q, NEW b \in Nat \ {0}, NEW s \in Nat \ {0}, NEW n, n = NChunks(b, s), NEW parts,
           parts = [i \in 1..n |-> PieceAt(q, b, s, i - 1)]
    PROVE  FlattenSeq(parts) = Content(q, b)
  <1> DEFINE End(i) == IF i * s < b THEN i * s ELSE b
  <1>1. n \in Nat \ {0} /\ b <= n * s /\ (n - 1) * s < b
    BY ChunksCover
  <1>2. ASSUME NEW i \in 1..n
        PROVE  /\ (i - 1) * s \in Nat /\ (i - 1) * s < b /\ i * s = (i - 1) * s + s
               /\ End(i - 1) = (i - 1) * s /\ End(i) \in Nat /\ (i - 1) * s < End(i) /\ End(i) <= b
               /\ PieceAt(q, b, s, i - 1) = [j \in 1..(End(i) - (i - 1) * s) |-> <<q, (i - 1) * s + j>>]
    <2>1. PICK a, c : a = i - 1 /\ c = a * s
      BY <1>1
    <2>2. a \in Nat /\ c \in Nat /\ i * s = c + s
      BY <1>1, <2>1
    <2>3. c < b
      <3>1. a <= n - 1 /\ n - 1 \in Nat
        BY <1>1, <2>1, <2>2
      <3>2. a * s <= (n - 1) * s
        BY <2>2, <3>1
      <3> QED
        BY <1>1, <2>1, <2>2, <3>1, <3>2
    <2>4. PICK e : e = IF c + s < b THEN c + s ELSE b
      OBVIOUS
    <2>5. e \in Nat /\ c < e /\ e <= b
      BY <2>2, <2>3, <2>4
    <2>6. PieceAt(q, b, s, a) = SubSeq(Content(q, b), c + 1, e)
      BY <2>1, <2>4 DEF PieceAt
    <2>7. SubSeq(Content(q, b), c + 1, e) = [j \in 1..(e - c) |-> <<q, c + j>>]
      BY <2>2, <2>5 DEF Content
    <2> QED
      BY <2>1, <2>2, <2>3, <2>4, <2>5, <2>6, <2>7
  <1>3. PICK G : G = [i \in 1..n |-> Content(q, End(i))]
    OBVIOUS
  <1> HIDE DEF End
  <1>4. ASSUME NEW i \in 1..n PROVE G[i] = IF i = 1 THEN parts[i] ELSE G[i - 1] \o parts[i]
    <2>1. PICK c, e, d : c = (i - 1) * s /\ e = End(i) /\ d = [j \in 1..(e - c) |-> <<q, c + j>>]
      OBVIOUS
    <2>2. c \in Nat /\ e \in Nat /\ c < e /\ parts[i] = d /\ G[i] = Content(q, e)
      BY <1>2, <1>3, <2>1
    <2>3. CASE i = 1
      <3>1. c = 0
        BY <2>1, <2>3
      <3> QED
        BY <2>1, <2>2, <2>3, <3>1 DEF Content
    <2>4. CASE i # 1
      <3>1. i - 1 \in 1..n /\ End(i - 1) = c
        BY <1>1, <1>2, <2>1, <2>4
      <3>2. G[i - 1] = Content(q, c)
        BY <1>3, <3>1
      <3>3. Content(q, c) \o d = Content(q, e)
        BY <2>1, <2>2 DEF Content
      <3> QED
        BY <2>2, <2>4, <3>2, <3>3
    <2> QED
      BY <2>3, <2>4
  <1>5. Joins(G, parts, n)
    BY <1>3, <1>4 DEF Joins
  <1>6. Len(parts) = n
    BY <1>1
  <1>7. FlattenSeq(parts) = G[n]
    <2>1. n \in Nat \ {0}
      BY <1>1
    <2> QED
      BY <2>1, <1>5, <1>6, FlattenIs
  <1>8. End(n) = b
    BY <1>1 DEF End
  <1> QED
    BY <1>1, <1>3, <1>7, <1>8

-----------------------------------------------------------------------------
(* What is in the pieces.                                                  *)

Maker(q, f) == made[q][f] # None
Busy(q, f)  == split[q] # None /\ split[q].file = f

\* Nobody but q has split f, and nothing of it was read meanwhile.
Sole(q, f) == /\ Maker(q, f) /\ made[q][f].size > 0 /\ f \notin early
              /\ \A x \in Peers : Maker(x, f) => x = q

Piece(q, f, k) == PieceAt(q, made[q][f].bytes, made[q][f].size, k)

\* The data goes round as piece k of f, so if one client only has split f, it has done so
\* and this is what it wrote.
Genuine(f, k, data) ==
    /\ \E q \in Peers : Maker(q, f)
    /\ \A q \in Peers : Sole(q, f) => ~Busy(q, f) /\ data = Piece(q, f, k)

\* x is at it: the piece is written or has just been opened.
InWork(x, f, k, data) ==
    /\ Busy(x, f)
    /\ Sole(x, f) => \/ k < split[x].next /\ data = Piece(x, f, k)
                     \/ k = split[x].next /\ split[x].open /\ data = <<>>

GenuineMessage(m) ==
    m.type = 6 => Genuine(Field(m, ChunkDataResponse, 1), Field(m, ChunkDataResponse, 2),
                          Field(m, ChunkDataResponse, 3))

\* p has split f and made this many chunks, as the server is told.
Finished(p, f, n) ==
    Maker(p, f) /\ ~Busy(p, f) /\ n = U32(NChunks(made[p][f].bytes, made[p][f].size))

Disks == \A x \in Peers, f \in Files : \A k \in DOMAIN disk[x][f] :
            Genuine(f, k, disk[x][f][k]) \/ InWork(x, f, k, disk[x][f][k])

Mail == \E S : OnLinks(S) /\ \A m \in S : WellFormed(m) /\ GenuineMessage(m)

MadeOK == \A p \in Peers, f \in Files : Maker(p, f) =>
            made[p][f] \in [bytes : Sizes, size : Int \ {0}] /\ f \in dir[p]

SplitsMade == \A p \in Peers : split[p] # None =>
    /\ made[p][split[p].file] = [bytes |-> split[p].bytes, size |-> split[p].size]
    /\ split[p].open => split[p].next \in DOMAIN disk[p][split[p].file]

Counts == \A p \in Peers : \A i \in 1..Len(up[p]) :
            "n" \in DOMAIN up[p][i] => Finished(p, up[p][i].file, up[p][i].n)

Owned == \A f \in Files : /\ owner[f] # None => Finished(owner[f], f, count[f])
                          /\ count[f] # 0 => owner[f] # None

WholeInv == TransferInv /\ Disks /\ Mail /\ MadeOK /\ SplitsMade /\ Counts /\ Owned

\* What was split stays so, and nothing is split twice.
Calm == /\ early \subseteq early'
        /\ \A q \in Peers, f \in Files : Maker(q, f) =>
              made'[q][f] = made[q][f] /\ (Busy(q, f)' => Busy(q, f))

\* Once somebody has split f, nobody else becomes the only one.
LEMMA SoleBefore ==
    ASSUME Calm, NEW f \in Files, NEW z \in Peers, Maker(z, f), NEW q \in Peers, Sole(q, f)'
    PROVE  q = z /\ Sole(q, f) /\ \A k : Piece(q, f, k)' = Piece(q, f, k)
  <1>1. \A x \in Peers : Maker(x, f) => made'[x][f] = made[x][f] /\ Maker(x, f)'
    BY DEF Calm, Maker
  <1>2. \A x \in Peers : Maker(x, f)' => x = q
    BY DEF Sole
  <1>3. q = z /\ made'[q][f] = made[q][f]
    BY <1>1, <1>2
  <1>4. Sole(q, f)
    <2>1. f \notin early' /\ made'[q][f].size > 0
      BY DEF Sole
    <2>2. f \notin early
      BY <2>1 DEF Calm
    <2> QED
      BY <1>1, <1>2, <1>3, <2>1, <2>2 DEF Sole
  <1>5. \A k : Piece(q, f, k)' = Piece(q, f, k)
    BY <1>3 DEF Piece
  <1> QED
    BY <1>3, <1>4, <1>5

LEMMA GenuineStays ==
    ASSUME Calm, NEW f \in Files, NEW k, NEW data, Genuine(f, k, data)
    PROVE  Genuine(f, k, data)'
  <1>1. PICK z \in Peers : Maker(z, f)
    BY DEF Genuine
  <1>2. Maker(z, f)'
    BY <1>1 DEF Calm, Maker
  <1>3. ASSUME NEW q \in Peers, Sole(q, f)' PROVE ~Busy(q, f)' /\ data = Piece(q, f, k)'
    <2>1. q = z /\ Sole(q, f) /\ Piece(q, f, k)' = Piece(q, f, k)
      BY <1>1, <1>3, SoleBefore
    <2>2. ~Busy(q, f) /\ data = Piece(q, f, k)
      BY <2>1 DEF Genuine
    <2>3. Busy(q, f)' => Busy(q, f)
      BY <1>1, <2>1 DEF Calm
    <2> QED
      BY <2>1, <2>2, <2>3
  <1> QED
    BY <1>2, <1>3 DEF Genuine

\* Whoever is at it has split the file.
LEMMA BusyIsMaker ==
    ASSUME Shape, SplitsMade, NEW x \in Peers, NEW f, Busy(x, f)
    PROVE  /\ split[x] \in Loops /\ f \in Files /\ Maker(x, f)
           /\ made[x][f] = [bytes |-> split[x].bytes, size |-> split[x].size]
  <1>1. split[x] \in Loops /\ f = split[x].file /\ f \in Files
    BY DEF Shape, Busy, Loops
  <1>2. made[x][f] = [bytes |-> split[x].bytes, size |-> split[x].size]
    BY <1>1 DEF SplitsMade, Busy
  <1>3. [bytes |-> split[x].bytes, size |-> split[x].size] \in [bytes : Sizes, size : Int]
    BY <1>1 DEF Loops
  <1> QED
    BY <1>1, <1>2, <1>3, NoneAssumption DEF Maker

LEMMA InWorkStays ==
    ASSUME Calm, Shape, SplitsMade, NEW x \in Peers, NEW f, NEW k, NEW data, InWork(x, f, k, data),
           split'[x] = split[x]
    PROVE  InWork(x, f, k, data)'
  <1>1. Busy(x, f) /\ Busy(x, f)'
    BY DEF InWork, Busy
  <1>2. f \in Files /\ Maker(x, f)
    BY <1>1, BusyIsMaker
  <1>3. ASSUME Sole(x, f)'
        PROVE  (\/ k < split[x].next /\ data = Piece(x, f, k)
                \/ k = split[x].next /\ split[x].open /\ data = <<>>)'
    <2>1. Sole(x, f) /\ Piece(x, f, k)' = Piece(x, f, k)
      BY <1>2, <1>3, SoleBefore
    <2> QED
      BY <2>1 DEF InWork
  <1> QED
    BY <1>1, <1>3 DEF InWork

\* A message that is on its way is as genuine as before.
LEMMA MessageStays ==
    ASSUME Calm, NEW m, WellFormed(m), GenuineMessage(m)
    PROVE  GenuineMessage(m)'
  BY GenuineStays DEF WellFormed, GenuineMessage

LEMMA SameMail ==
    ASSUME Calm, Mail, link' = link
    PROVE  Mail'
  <1>1. PICK S : OnLinks(S) /\ \A m \in S : WellFormed(m) /\ GenuineMessage(m)
    BY DEF Mail
  <1>2. OnLinks(S)'
    BY <1>1 DEF OnLinks
  <1> QED
    BY <1>1, <1>2, MessageStays DEF Mail

\* The counts that the server is told, and those that it keeps.
Counted(p, m) == "n" \in DOMAIN m => Finished(p, m.file, m.n)

LEMMA FinishedStays ==
    ASSUME Calm, NEW p \in Peers, NEW f \in Files, NEW n, Finished(p, f, n)
    PROVE  Finished(p, f, n)'
  <1>1. Maker(p, f) /\ ~Busy(p, f) /\ made'[p][f] = made[p][f] /\ (Busy(p, f)' => Busy(p, f))
    BY DEF Finished, Calm
  <1> QED
    BY <1>1 DEF Finished, Maker

LEMMA CountedStays ==
    ASSUME Calm, NEW p \in Peers, NEW m \in Requests, Counted(p, m)
    PROVE  Counted(p, m)'
  <1>1. m.file \in Files
    BY DEF Requests
  <1> QED
    BY <1>1, FinishedStays DEF Counted

LEMMA EachCounted ==
    ASSUME \A q \in Peers : \A i \in 1..Len(up'[q]) :
               \E r \in Requests : r = up'[q][i] /\ Counted(q, r)'
    PROVE  Counts'
  <1> SUFFICES ASSUME NEW q \in Peers, NEW i \in 1..Len(up'[q]) PROVE Counted(q, up[q][i])'
    BY DEF Counts, Counted
  <1>1. PICK r \in Requests : r = up'[q][i] /\ Counted(q, r)'
    OBVIOUS
  <1> QED
    BY <1>1 DEF Counted

LEMMA OldCounted ==
    ASSUME Shape, Calm, Counts, NEW q \in Peers, NEW j \in 1..Len(up[q])
    PROVE  \E r \in Requests : r = up[q][j] /\ Counted(q, r)'
  <1>1. up[q] \in Seq(Requests)
    BY DEF Shape
  <1>2. PICK r \in Requests : r = up[q][j]
    BY <1>1
  <1>3. Counted(q, r)
    BY <1>2 DEF Counts, Counted
  <1>4. Counted(q, r)'
    BY <1>3, CountedStays
  <1> QED
    BY <1>2, <1>4

LEMMA SameCounts ==
    ASSUME Shape, Calm, Counts, up' = up
    PROVE  Counts'
  BY OldCounted, EachCounted

LEMMA MoreCounts ==
    ASSUME Shape, Calm, Counts, NEW p \in Peers, NEW m \in Requests, Counted(p, m)',
           up' = [up EXCEPT ![p] = Append(@, m)]
    PROVE  Counts'
  <1>1. up \in [Peers -> Seq(Requests)]
    BY DEF Shape
  <1>2. ASSUME NEW q \in Peers, NEW i \in 1..Len(up'[q])
        PROVE  \E r \in Requests : r = up'[q][i] /\ Counted(q, r)'
    <2>1. CASE q = p /\ i = Len(up[p]) + 1
      <3>1. up'[q][i] = m
        BY <1>1, <2>1
      <3> QED
        BY <3>1, <2>1, Zenon
    <2>2. CASE ~(q = p /\ i = Len(up[p]) + 1)
      <3>1. i \in 1..Len(up[q]) /\ up'[q][i] = up[q][i]
        BY <1>1, <2>2
      <3> QED
        BY <3>1, OldCounted
    <2> QED
      BY <2>1, <2>2
  <1> QED
    BY <1>2, EachCounted

LEMMA LessCounts ==
    ASSUME Shape, Calm, Counts, NEW p \in Peers, up[p] # <<>>, up' = [up EXCEPT ![p] = Tail(@)]
    PROVE  Counts' /\ Counted(p, Head(up[p]))
  <1>1. up \in [Peers -> Seq(Requests)]
    BY DEF Shape
  <1>2. ASSUME NEW q \in Peers, NEW i \in 1..Len(up'[q])
        PROVE  \E r \in Requests : r = up'[q][i] /\ Counted(q, r)'
    <2>1. PICK j \in 1..Len(up[q]) : up'[q][i] = up[q][j]
      <3>1. CASE q = p
        <4>1. i + 1 \in 1..Len(up[q]) /\ up'[q][i] = up[q][i + 1]
          BY <1>1, <3>1
        <4> QED
          BY <4>1
      <3>2. CASE q # p
        BY <1>1, <3>2
      <3> QED
        BY <3>1, <3>2
    <2> QED
      BY <2>1, OldCounted
  <1>3. 1 \in 1..Len(up[p]) /\ Head(up[p]) = up[p][1]
    BY <1>1
  <1>4. Counted(p, Head(up[p]))
    BY <1>3 DEF Counts, Counted
  <1> QED
    BY <1>2, <1>4, EachCounted

LEMMA SameOwners ==
    ASSUME Calm, TypeOK, Owned, UNCHANGED <<count, owner>>
    PROVE  Owned'
  <1> SUFFICES ASSUME NEW f \in Files
               PROVE  (owner[f] # None => Finished(owner[f], f, count[f])')
                      /\ (count[f] # 0 => owner[f] # None)
    BY DEF Owned, Finished, Maker, Busy
  <1>1. ASSUME owner[f] # None PROVE Finished(owner[f], f, count[f])'
    <2>1. PICK q \in Peers, n \in Nat : q = owner[f] /\ n = count[f]
      BY <1>1 DEF TypeOK
    <2>2. Finished(q, f, n)
      BY <1>1, <2>1 DEF Owned
    <2>3. Finished(q, f, n)'
      BY <2>2, FinishedStays
    <2> QED
      BY <2>1, <2>3 DEF Finished, Maker, Busy
  <1> QED
    BY <1>1 DEF Owned

\* A step that leaves disks and splitting loops alone.
LEMMA QuietData ==
    ASSUME WholeInv, UNCHANGED <<diskVars, made>>, early \subseteq early'
    PROVE  Calm /\ Disks' /\ MadeOK' /\ SplitsMade'
  <1>1. disk' = disk /\ dir' = dir /\ split' = split /\ made' = made
    BY DEF diskVars
  <1>2. Calm
    BY <1>1 DEF Calm, Busy
  <1>3. MadeOK' /\ SplitsMade'
    BY <1>1 DEF WholeInv, MadeOK, SplitsMade, Maker
  <1>4. ASSUME NEW x \in Peers, NEW f \in Files, NEW k \in DOMAIN disk[x][f]
        PROVE  (Genuine(f, k, disk[x][f][k]) \/ InWork(x, f, k, disk[x][f][k]))'
    <2>1. PICK data : data = disk[x][f][k]
      OBVIOUS
    <2>2. CASE Genuine(f, k, data)
      <3>1. Genuine(f, k, data)'
        BY <1>2, <2>2, GenuineStays
      <3> QED
        BY <1>1, <2>1, <3>1 DEF Genuine
    <2>3. CASE InWork(x, f, k, data)
      <3>1. InWork(x, f, k, data)'
        BY <1>1, <1>2, <2>3, InWorkStays DEF WholeInv, TransferInv
      <3> QED
        BY <1>1, <2>1, <3>1 DEF InWork
    <2> QED
      BY <2>1, <2>2, <2>3 DEF WholeInv, Disks
  <1>5. Disks'
    BY <1>1, <1>4 DEF Disks
  <1> QED
    BY <1>2, <1>3, <1>5

LEMMA AskData ==
    ASSUME WholeInv, TransferInv', NEW p \in Peers, NEW q \in Peers, NEW f \in Files,
           NEW k \in Wanted, Ask(p, q, f, k)
    PROVE  WholeInv'
  <1> DEFINE m == [type |-> 5, body |-> Encode(ChunkDataRequest, <<f, k>>)]
  <1>1. /\ link' = [link EXCEPT ![p][q] = Append(@, m)] /\ p # q
        /\ UNCHANGED <<diskVars, up, serverVars, made, early>>
    BY DEF Ask
  <1>2. WellFormed(m) /\ m.type # 6
    BY RequestIsWellFormed, SizesAssumption
  <1> HIDE DEF m
  <1>3. Calm /\ Disks' /\ MadeOK' /\ SplitsMade'
    BY <1>1, QuietData
  <1>4. Mail'
    <2>1. PICK S : OnLinks(S) /\ \A x \in S : WellFormed(x) /\ GenuineMessage(x)
      BY DEF WholeInv, Mail
    <2>2. PICK n : n = m
      OBVIOUS
    <2>3. OnLinks(S \cup {n})'
      BY <1>1, <2>1, <2>2, AskLinks
    <2>4. WellFormed(n) /\ GenuineMessage(n)'
      BY <1>2, <2>2 DEF GenuineMessage
    <2>5. \A x \in S : GenuineMessage(x)'
      BY <1>3, <2>1, MessageStays
    <2> QED
      BY <2>1, <2>3, <2>4, <2>5 DEF Mail
  <1>5. Counts' /\ Owned'
    <2>1. Counts'
      BY <1>1, <1>3, SameCounts DEF WholeInv, TransferInv
    <2>2. Owned'
      BY <1>1, <1>3, SameOwners DEF WholeInv, TransferInv, serverVars
    <2> QED
      BY <2>1, <2>2
  <1> QED
    BY <1>3, <1>4, <1>5 DEF WholeInv

\* What is served while it is split is noted, the rest is genuine.
LEMMA ServeData ==
    ASSUME WholeInv, TransferInv', NEW p \in Peers, NEW q \in Peers, Serve(p, q)
    PROVE  WholeInv'
  <1>1. PICK f, k, m : /\ f = Field(Head(link[q][p]), ChunkDataRequest, 1)
                       /\ k = Field(Head(link[q][p]), ChunkDataRequest, 2)
                       /\ m = [type |-> 6, body |-> Encode(ChunkDataResponse, <<f, k, disk[p][f][k]>>)]
    OBVIOUS
  <1>2. PICK S : OnLinks(S) /\ \A x \in S : WellFormed(x) /\ GenuineMessage(x)
    BY DEF WholeInv, Mail
  <1>3. /\ Head(link[q][p]) \in S /\ Head(link[q][p]).type = 5
        /\ k \in DOMAIN disk[p][f] => OnLinks(S \cup {m})'
        /\ k \notin DOMAIN disk[p][f] => OnLinks(S)'
        /\ early' = IF k \in DOMAIN disk[p][f] /\ split[p] # None /\ split[p].file = f
                    THEN early \cup {f} ELSE early
        /\ UNCHANGED <<diskVars, up, serverVars, asks, made>>
    <2>1. Served(S, p, q, f, k, m)
      BY <1>1, <1>2, ServeStep
    <2> QED
      BY <2>1 DEF Served
  <1>4. f \in Files /\ k \in Chunks
    BY <1>1, <1>2, <1>3 DEF WellFormed
  <1>5. WellFormed(m)
    BY <1>1, <1>4, ResponseIsWellFormed DEF Chunks
  <1>6. Calm /\ Disks' /\ MadeOK' /\ SplitsMade'
    BY <1>3, QuietData
  <1>7. ASSUME k \in DOMAIN disk[p][f] PROVE GenuineMessage(m)'
    <2>1. PICK data : data = disk[p][f][k]
      OBVIOUS
    <2>2. Genuine(f, k, data)'
      <3>1. CASE Genuine(f, k, data)
        BY <1>4, <1>6, <3>1, GenuineStays
      <3>2. CASE InWork(p, f, k, data)
        <4>1. Busy(p, f) /\ f \in early'
          BY <1>3, <1>7, <3>2 DEF InWork, Busy
        <4>2. Maker(p, f)'
          BY <1>3, <4>1, BusyIsMaker DEF WholeInv, TransferInv, Maker
        <4> QED
          BY <4>1, <4>2 DEF Genuine, Sole
      <3> QED
        BY <1>4, <1>7, <2>1, <3>1, <3>2 DEF WholeInv, Disks
    <2>3. m.type = 6 /\ m.body = Encode(ChunkDataResponse, <<f, k, data>>)
      BY <1>1, <2>1
    <2>4. /\ Field(m, ChunkDataResponse, 1) = f /\ Field(m, ChunkDataResponse, 2) = k
          /\ Field(m, ChunkDataResponse, 3) = data
      BY <1>4, <2>3, ResponseCarries
    <2> QED
      BY <2>2, <2>4 DEF GenuineMessage
  <1>8. Mail'
    <2>1. \A x \in S : GenuineMessage(x)'
      BY <1>2, <1>6, MessageStays
    <2>2. CASE k \in DOMAIN disk[p][f]
      BY <1>2, <1>3, <1>5, <1>7, <2>1, <2>2 DEF Mail
    <2>3. CASE k \notin DOMAIN disk[p][f]
      BY <1>2, <1>3, <2>1, <2>3 DEF Mail
    <2> QED
      BY <2>2, <2>3
  <1>9. Counts' /\ Owned'
    <2>1. Counts'
      BY <1>3, <1>6, SameCounts DEF WholeInv, TransferInv
    <2>2. Owned'
      BY <1>3, <1>6, SameOwners DEF WholeInv, TransferInv, serverVars
    <2> QED
      BY <2>1, <2>2
  <1> QED
    BY <1>6, <1>8, <1>9 DEF WholeInv

LEMMA HangUpData ==
    ASSUME WholeInv, TransferInv', NEW p \in Peers, NEW q \in Peers, HangUp(p, q)
    PROVE  WholeInv'
  <1>1. /\ link' = [link EXCEPT ![p][q] = <<>>, ![q][p] = <<>>]
        /\ UNCHANGED <<diskVars, up, serverVars, asks, made, early>>
    BY DEF HangUp
  <1>2. Calm /\ Disks' /\ MadeOK' /\ SplitsMade'
    BY <1>1, QuietData
  <1>3. Mail'
    <2>1. PICK S : OnLinks(S) /\ \A x \in S : WellFormed(x) /\ GenuineMessage(x)
      BY DEF WholeInv, Mail
    <2>2. OnLinks(S)'
      BY <1>1, <2>1, HangUpLinks
    <2>3. \A x \in S : GenuineMessage(x)'
      BY <1>2, <2>1, MessageStays
    <2> QED
      BY <2>1, <2>2, <2>3 DEF Mail
  <1>4. Counts' /\ Owned'
    <2>1. Counts'
      BY <1>1, <1>2, SameCounts DEF WholeInv, TransferInv
    <2>2. Owned'
      BY <1>1, <1>2, SameOwners DEF WholeInv, TransferInv, serverVars
    <2> QED
      BY <2>1, <2>2
  <1> QED
    BY <1>2, <1>3, <1>4 DEF WholeInv

\* The server counts what was finished.
LEMMA ServeRegFileData ==
    ASSUME WholeInv, TransferInv', NEW p \in Peers, ServeRegFile(p)
    PROVE  WholeInv'
  <1>1. /\ up[p] # <<>> /\ "n" \in DOMAIN Head(up[p]) /\ up' = [up EXCEPT ![p] = Tail(@)]
        /\ UNCHANGED <<diskVars, link, asks, made, early>>
    BY DEF ServeRegFile
  <1>2. Calm /\ Disks' /\ MadeOK' /\ SplitsMade'
    BY <1>1, QuietData
  <1>3. Mail'
    BY <1>1, <1>2, SameMail DEF WholeInv
  <1>4. Counts' /\ Counted(p, Head(up[p]))
    BY <1>1, <1>2, LessCounts DEF WholeInv, TransferInv
  <1>5. PICK m \in Requests : m = Head(up[p])
    BY <1>1, HeadIsTrue DEF WholeInv
  <1>6. PICK f \in Files, n \in Chunks : f = m.file /\ n = m.n
    <2>1. m \in [file : Files, n : Chunks]
      BY <1>1, <1>5 DEF Requests
    <2> QED
      BY <2>1
  <1>7. Finished(p, f, n)'
    <2>1. Finished(p, f, n)
      BY <1>1, <1>4, <1>5, <1>6 DEF Counted
    <2> QED
      BY <1>2, <2>1, FinishedStays
  <1>8. \/ UNCHANGED <<count, owner>>
        \/ count' = [count EXCEPT ![f] = n] /\ owner' = [owner EXCEPT ![f] = p]
    BY <1>5, <1>6 DEF ServeRegFile
  <1>9. Owned'
    <2>1. CASE UNCHANGED <<count, owner>>
      BY <1>2, <2>1, SameOwners DEF WholeInv, TransferInv
    <2>2. CASE count' = [count EXCEPT ![f] = n] /\ owner' = [owner EXCEPT ![f] = p]
      <3>1. count \in [Files -> 0..(Word - 1)] /\ owner \in [Files -> Peers \cup {None}]
        BY DEF WholeInv, TransferInv, TypeOK
      <3>2. ASSUME NEW g \in Files
            PROVE  (owner[g] # None => Finished(owner[g], g, count[g]))'
                   /\ (count'[g] # 0 => owner'[g] # None)
        <4>1. CASE g = f
          <5>1. owner'[g] = p /\ count'[g] = n /\ p # None
            BY <2>2, <3>1, <4>1, NoneAssumption
          <5> QED
            BY <1>7, <4>1, <5>1 DEF Finished, Maker, Busy
        <4>2. CASE g # f
          <5>1. owner'[g] = owner[g] /\ count'[g] = count[g]
            BY <2>2, <3>1, <4>2
          <5>2. owner[g] # None => owner[g] \in Peers
            BY <3>1
          <5>3. owner[g] # None => Finished(owner[g], g, count[g])
            BY DEF WholeInv, Owned
          <5>4. disk' = disk /\ split' = split /\ made' = made
            BY <1>1 DEF diskVars
          <5> QED
            BY <5>1, <5>3, <5>4 DEF Finished, Maker, Busy, WholeInv, Owned
        <4> QED
          BY <4>1, <4>2
      <3> QED
        BY <3>2 DEF Owned
    <2> QED
      BY <1>8, <2>1, <2>2
  <1> QED
    BY <1>2, <1>3, <1>4, <1>9 DEF WholeInv

LEMMA ServeRegChunkData ==
    ASSUME WholeInv, TransferInv', NEW p \in Peers, ServeRegChunk(p)
    PROVE  WholeInv'
  <1>1. /\ up[p] # <<>> /\ up' = [up EXCEPT ![p] = Tail(@)]
        /\ UNCHANGED <<diskVars, link, count, owner, asks, made, early>>
    BY DEF ServeRegChunk
  <1>2. Calm /\ Disks' /\ MadeOK' /\ SplitsMade'
    BY <1>1, QuietData
  <1>3. Mail'
    BY <1>1, <1>2, SameMail DEF WholeInv
  <1>4. Counts'
    BY <1>1, <1>2, LessCounts DEF WholeInv, TransferInv
  <1>5. Owned'
    BY <1>1, <1>2, SameOwners DEF WholeInv, TransferInv
  <1> QED
    BY <1>2, <1>3, <1>4, <1>5 DEF WholeInv

\* What is on the disks after one piece has been written.
Written(p, f, k, data) ==
    /\ \A x \in Peers, g \in Files : \A j \in DOMAIN disk'[x][g] :
          \/ x = p /\ g = f /\ j = k /\ disk'[x][g][j] = data
          \/ /\ ~(x = p /\ g = f /\ j = k)
             /\ j \in DOMAIN disk[x][g] /\ disk'[x][g][j] = disk[x][g][j]
    /\ \A x \in Peers, g \in Files : DOMAIN disk[x][g] \subseteq DOMAIN disk'[x][g]
    /\ k \in DOMAIN disk'[p][f]

LEMMA PieceData ==
    ASSUME Shape, NEW p \in Peers, NEW f \in Files, NEW k \in Nat, NEW data,
           disk' = [disk EXCEPT ![p][f] = With(@, k, data)]
    PROVE  Written(p, f, k, data)
  <1>1. disk = [x \in Peers |-> [g \in Files |-> disk[x][g]]]
    BY DEF Shape
  <1>2. PICK new : new = With(disk[p][f], k, data)
    OBVIOUS
  <1>3. /\ DOMAIN new = DOMAIN disk[p][f] \cup {k} /\ new[k] = data
        /\ \A j \in DOMAIN disk[p][f] : j # k => new[j] = disk[p][f][j]
    BY <1>2 DEF With
  <1>4. disk' = [disk EXCEPT ![p][f] = new]
    BY <1>2
  <1>5. disk'[p][f] = new
    BY <1>1, <1>4
  <1>6. ASSUME NEW x \in Peers, NEW g \in Files, x # p \/ g # f PROVE disk'[x][g] = disk[x][g]
    BY <1>1, <1>4, <1>6
  <1>7. ASSUME NEW x \in Peers, NEW g \in Files, NEW j \in DOMAIN disk'[x][g]
        PROVE  \/ x = p /\ g = f /\ j = k /\ disk'[x][g][j] = data
               \/ /\ ~(x = p /\ g = f /\ j = k)
                  /\ j \in DOMAIN disk[x][g] /\ disk'[x][g][j] = disk[x][g][j]
    <2>1. CASE x = p /\ g = f
      BY <2>1, <1>3, <1>5
    <2>2. CASE x # p \/ g # f
      BY <2>2, <1>6
    <2> QED
      BY <2>1, <2>2
  <1>8. ASSUME NEW x \in Peers, NEW g \in Files PROVE DOMAIN disk[x][g] \subseteq DOMAIN disk'[x][g]
    <2>1. CASE x = p /\ g = f
      BY <2>1, <1>3, <1>5
    <2>2. CASE x # p \/ g # f
      BY <2>2, <1>6
    <2> QED
      BY <2>1, <2>2
  <1>9. k \in DOMAIN disk'[p][f]
    BY <1>3, <1>5
  <1> QED
    BY <1>7, <1>8, <1>9 DEF Written

LEMMA RegFileData ==
    ASSUME WholeInv, TransferInv', NEW p \in Peers, NEW f \in Files, NEW n \in Sizes,
           NEW c \in ChunkSizes, RegFile(p, f, n, c)
    PROVE  WholeInv'
  <1> DEFINE size == IF c = 0 THEN Default ELSE c
             loop == [file |-> f, bytes |-> n, size |-> size, next |-> 0, open |-> FALSE]
             file == [bytes |-> n, size |-> size]
  <1>1. size \in Int \ {0}
    BY SizesAssumption
  <1>2. /\ f \notin dir[p] /\ dir' = [dir EXCEPT ![p] = @ \cup {f}] /\ split[p] = None
        /\ split' = [split EXCEPT ![p] = loop] /\ made' = [made EXCEPT ![p][f] = file]
        /\ UNCHANGED <<disk, up, link, serverVars, asks, early>>
    BY DEF RegFile
  <1>3. loop.file = f /\ loop.bytes = n /\ loop.size = size /\ loop.open = FALSE
    OBVIOUS
  <1>4. file \in [bytes : Sizes, size : Int \ {0}] /\ file = [bytes |-> n, size |-> size]
    BY <1>1
  <1> HIDE DEF loop, file, size
  <1>5. /\ made'[p][f] = file
        /\ \A x \in Peers, g \in Files : x # p \/ g # f => made'[x][g] = made[x][g]
    <2>1. made = [x \in Peers |-> [g \in Files |-> made[x][g]]]
      BY DEF WholeInv, TransferInv, Shape
    <2> QED
      BY <1>2, <2>1
  <1>6. split'[p] = loop /\ \A x \in Peers : x # p => split'[x] = split[x]
    BY <1>2 DEF WholeInv, TransferInv, Shape
  <1>7. ~Maker(p, f)
    BY <1>2 DEF WholeInv, MadeOK
  <1>8. Calm
    <2>1. ASSUME NEW q \in Peers, NEW g \in Files, Maker(q, g)
          PROVE  made'[q][g] = made[q][g] /\ (Busy(q, g)' => Busy(q, g))
      <3>1. q # p \/ g # f
        BY <1>7, <2>1
      <3>2. made'[q][g] = made[q][g]
        BY <1>5, <3>1
      <3>3. CASE q = p
        BY <1>3, <1>6, <3>1, <3>2, <3>3 DEF Busy
      <3>4. CASE q # p
        BY <1>6, <3>2, <3>4 DEF Busy
      <3> QED
        BY <3>3, <3>4
    <2> QED
      BY <1>2, <2>1 DEF Calm
  <1>9. Disks'
    <2> SUFFICES ASSUME NEW x \in Peers, NEW g \in Files, NEW k \in DOMAIN disk[x][g]
                 PROVE  (Genuine(g, k, disk[x][g][k]) \/ InWork(x, g, k, disk[x][g][k]))'
      BY <1>2 DEF Disks
    <2>1. PICK data : data = disk[x][g][k]
      OBVIOUS
    <2>2. CASE Genuine(g, k, data)
      <3>1. Genuine(g, k, data)'
        BY <1>8, <2>2, GenuineStays
      <3> QED
        BY <1>2, <2>1, <3>1 DEF Genuine
    <2>3. CASE InWork(x, g, k, data)
      <3>1. x # p
        BY <1>2, <2>3 DEF InWork, Busy
      <3>2. InWork(x, g, k, data)'
        BY <1>6, <1>8, <2>3, <3>1, InWorkStays DEF WholeInv, TransferInv
      <3> QED
        BY <1>2, <2>1, <3>2 DEF InWork
    <2> QED
      BY <2>1, <2>2, <2>3 DEF WholeInv, Disks
  <1>10. MadeOK'
    <2>1. f \in dir'[p] /\ \A x \in Peers : dir[x] \subseteq dir'[x]
      BY <1>2 DEF WholeInv, TransferInv, TypeOK
    <2> SUFFICES ASSUME NEW x \in Peers, NEW g \in Files, Maker(x, g)'
                 PROVE  made'[x][g] \in [bytes : Sizes, size : Int \ {0}] /\ g \in dir'[x]
      BY DEF MadeOK
    <2>2. CASE x = p /\ g = f
      BY <1>4, <1>5, <2>1, <2>2
    <2>3. CASE x # p \/ g # f
      <3>1. made'[x][g] = made[x][g] /\ Maker(x, g)
        BY <1>5, <2>3 DEF Maker
      <3> QED
        BY <2>1, <3>1 DEF WholeInv, MadeOK
    <2> QED
      BY <2>2, <2>3
  <1>11. SplitsMade'
    <2> SUFFICES ASSUME NEW x \in Peers, split'[x] # None
                 PROVE  /\ made'[x][split'[x].file] = [bytes |-> split'[x].bytes, size |-> split'[x].size]
                        /\ split'[x].open => split'[x].next \in DOMAIN disk'[x][split'[x].file]
      BY DEF SplitsMade
    <2>1. CASE x = p
      BY <1>3, <1>4, <1>5, <1>6, <2>1
    <2>2. CASE x # p
      <3>1. split'[x] = split[x] /\ split[x].file \in Files
        BY <1>6, <2>2 DEF WholeInv, TransferInv, Shape, Loops
      <3>2. made'[x][split[x].file] = made[x][split[x].file]
        BY <1>5, <2>2, <3>1
      <3> QED
        BY <1>2, <3>1, <3>2 DEF WholeInv, SplitsMade
    <2> QED
      BY <2>1, <2>2
  <1>12. Mail' /\ Counts' /\ Owned'
    <2>1. Mail'
      BY <1>2, <1>8, SameMail DEF WholeInv
    <2>2. Counts'
      BY <1>2, <1>8, SameCounts DEF WholeInv, TransferInv
    <2>3. Owned'
      BY <1>2, <1>8, SameOwners DEF WholeInv, TransferInv, serverVars
    <2> QED
      BY <2>1, <2>2, <2>3
  <1> QED
    BY <1>9, <1>10, <1>11, <1>12 DEF WholeInv

\* The splitting loop opens or closes a piece: it is in work, or done.
LEMMA OwnPieceData ==
    ASSUME WholeInv, TransferInv', NEW p \in Peers, split[p] # None, NEW data,
           NEW n \in {split[p].next, split[p].next + 1}, NEW now \in BOOLEAN,
           disk' = [disk EXCEPT ![p][split[p].file] = With(@, split[p].next, data)],
           split' = [split EXCEPT ![p] = [split[p] EXCEPT !.open = now, !.next = n]],
           UNCHANGED <<dir, up, link, serverVars, asks, made, early>>,
           n = split[p].next => ~split[p].open /\ now /\ data = <<>>,
           n # split[p].next => ~now /\ (Sole(p, split[p].file) =>
                                           data = Piece(p, split[p].file, split[p].next))
    PROVE  WholeInv'
  <1>1. split[p] \in Loops /\ split[p].file \in Files /\ split[p].next \in Nat
    BY DEF WholeInv, TransferInv, Shape, Loops
  <1>2. PICK f, k : f = split[p].file /\ k = split[p].next
    OBVIOUS
  <1> DEFINE loop == [split[p] EXCEPT !.open = now, !.next = n]
  <1>3. /\ loop \in Loops /\ loop.file = f /\ loop.size = split[p].size /\ loop.next = n
        /\ loop.bytes = split[p].bytes /\ loop.open = now
    <2>1. n \in Nat
      BY <1>1
    <2> QED
      BY <1>1, <1>2, <2>1 DEF Loops
  <1> HIDE DEF loop
  <1>4. split' = [split EXCEPT ![p] = loop]
    BY DEF loop
  <1>5. f \in Files /\ k \in Nat /\ disk' = [disk EXCEPT ![p][f] = With(@, k, data)]
    BY <1>1, <1>2
  <1>6. Written(p, f, k, data)
    <2>1. Shape
      BY DEF WholeInv, TransferInv
    <2> QED
      BY <1>5, <2>1, PieceData
  <1>7. split'[p] = loop /\ \A x \in Peers : x # p => split'[x] = split[x]
    BY <1>4 DEF WholeInv, TransferInv, Shape
  <1>8. loop # None
    <2>1. loop \in [file : Files, bytes : Sizes, size : Int, next : Nat, open : BOOLEAN]
      BY <1>3 DEF Loops
    <2> QED
      BY <2>1, NoneAssumption
  <1>9. \A x \in Peers, g \in Files : Busy(x, g)' => Busy(x, g)
    BY <1>2, <1>3, <1>7 DEF Busy
  <1>10. Calm
    BY <1>9 DEF Calm
  <1>11. Busy(p, f) /\ Busy(p, f)' /\ split'[p].next = n /\ split'[p].open = now
    BY <1>2, <1>3, <1>7, <1>8 DEF Busy
  <1>12. Maker(p, f)
    BY <1>11, BusyIsMaker DEF WholeInv, TransferInv
  <1>13. n = k \/ n = k + 1
    BY <1>2
  <1>14. InWork(p, f, k, data)'
    <2> SUFFICES ASSUME Sole(p, f)'
                 PROVE  \/ k < split'[p].next /\ data = Piece(p, f, k)'
                        \/ k = split'[p].next /\ split'[p].open /\ data = <<>>
      BY <1>11 DEF InWork
    <2>1. Sole(p, f) /\ Piece(p, f, k)' = Piece(p, f, k)
      BY <1>5, <1>10, <1>12, SoleBefore
    <2>2. CASE n = k
      BY <1>2, <1>11, <2>2
    <2>3. CASE n = k + 1
      <3>1. n # k /\ k < n
        BY <1>5, <2>3
      <3> QED
        BY <1>2, <1>11, <2>1, <3>1
    <2> QED
      BY <1>13, <2>2, <2>3
  <1>15. ASSUME NEW j \in Nat, NEW d, InWork(p, f, j, d), j # k PROVE InWork(p, f, j, d)'
    <2> SUFFICES ASSUME Sole(p, f)' PROVE j < split'[p].next /\ d = Piece(p, f, j)'
      BY <1>11 DEF InWork
    <2>1. Sole(p, f) /\ Piece(p, f, j)' = Piece(p, f, j)
      BY <1>5, <1>10, <1>12, SoleBefore
    <2>2. j < k /\ d = Piece(p, f, j)
      BY <1>2, <1>15, <2>1 DEF InWork
    <2>3. j < n
      BY <1>5, <1>13, <2>2, <1>15
    <2> QED
      BY <1>11, <2>1, <2>2, <2>3
  <1>16. Disks'
    <2> SUFFICES ASSUME NEW x \in Peers, NEW g \in Files, NEW j \in DOMAIN disk'[x][g]
                 PROVE  (Genuine(g, j, disk[x][g][j]) \/ InWork(x, g, j, disk[x][g][j]))'
      BY DEF Disks
    <2>1. PICK d : d = disk'[x][g][j]
      OBVIOUS
    <2>2. Genuine(g, j, d)' \/ InWork(x, g, j, d)'
      <3>1. CASE x = p /\ g = f /\ j = k /\ d = data
        BY <1>14, <3>1
      <3>2. CASE ~(x = p /\ g = f /\ j = k) /\ j \in DOMAIN disk[x][g] /\ d = disk[x][g][j]
        <4>1. Genuine(g, j, d) \/ InWork(x, g, j, d)
          BY <3>2 DEF WholeInv, Disks
        <4>2. CASE Genuine(g, j, d)
          BY <1>10, <4>2, GenuineStays
        <4>3. CASE InWork(x, g, j, d) /\ x # p
          BY <1>7, <1>10, <4>3, InWorkStays DEF WholeInv, TransferInv
        <4>4. CASE InWork(x, g, j, d) /\ x = p
          <5>1. g = f /\ j # k /\ j \in Nat
            BY <1>2, <3>2, <4>4 DEF InWork, Busy, WholeInv, TransferInv, TypeOK
          <5> QED
            BY <1>15, <4>4, <5>1
        <4> QED
          BY <4>1, <4>2, <4>3, <4>4
      <3> QED
        BY <1>6, <2>1, <3>1, <3>2 DEF Written
    <2> QED
      BY <2>1, <2>2 DEF Genuine, InWork
  <1>17. MadeOK'
    BY DEF WholeInv, MadeOK, Maker
  <1>18. SplitsMade'
    <2> SUFFICES ASSUME NEW x \in Peers, split'[x] # None
                 PROVE  /\ made'[x][split'[x].file] = [bytes |-> split'[x].bytes, size |-> split'[x].size]
                        /\ split'[x].open => split'[x].next \in DOMAIN disk'[x][split'[x].file]
      BY DEF SplitsMade
    <2>1. CASE x = p
      <3>1. made[p][f] = [bytes |-> split[p].bytes, size |-> split[p].size]
        BY <1>2 DEF WholeInv, SplitsMade
      <3>2. now => n = k
        BY <1>2
      <3> QED
        <4>1. k \in DOMAIN disk'[p][f] /\ made' = made
          BY <1>6 DEF Written
        <4>2. /\ split'[p].file = f /\ split'[p].bytes = split[p].bytes /\ split'[p].next = n
              /\ split'[p].size = split[p].size /\ split'[p].open = now
          BY <1>3, <1>7
        <4> QED
          BY <2>1, <3>1, <3>2, <4>1, <4>2
    <2>2. CASE x # p
      <3>1. split'[x] = split[x] /\ split[x].file \in Files
        BY <1>7, <2>2 DEF WholeInv, TransferInv, Shape, Loops
      <3>2. DOMAIN disk[x][split[x].file] \subseteq DOMAIN disk'[x][split[x].file]
        BY <1>6, <3>1 DEF Written
      <3> QED
        BY <3>1, <3>2 DEF WholeInv, SplitsMade
    <2> QED
      BY <2>1, <2>2
  <1>19. Mail' /\ Counts' /\ Owned'
    <2>1. Mail'
      BY <1>10, SameMail DEF WholeInv
    <2>2. Counts'
      BY <1>10, SameCounts DEF WholeInv, TransferInv
    <2>3. Owned'
      BY <1>10, SameOwners DEF WholeInv, TransferInv, serverVars
    <2> QED
      BY <2>1, <2>2, <2>3
  <1> QED
    BY <1>16, <1>17, <1>18, <1>19 DEF WholeInv

LEMMA OpenPieceData ==
    ASSUME WholeInv, TransferInv', NEW p \in Peers, OpenPiece(p)
    PROVE  WholeInv'
  <1>1. split[p] \in Loops /\ split \in [Peers -> {None} \cup Loops]
    BY DEF WholeInv, TransferInv, Shape, OpenPiece
  <1>2. PICK n, data : n = split[p].next /\ data = <<>>
    OBVIOUS
  <1>3. split[p] # None /\ disk' = [disk EXCEPT ![p][split[p].file] = With(@, split[p].next, data)]
    BY <1>2 DEF OpenPiece
  <1>4. split' = [split EXCEPT ![p] = [split[p] EXCEPT !.open = TRUE, !.next = n]]
    <2>1. [split[p] EXCEPT !.open = TRUE] = [split[p] EXCEPT !.open = TRUE, !.next = split[p].next]
      BY <1>1 DEF Loops
    <2>2. split' = [split EXCEPT ![p] = [split[p] EXCEPT !.open = TRUE]]
      BY <1>1 DEF OpenPiece
    <2> QED
      BY <1>2, <2>1, <2>2
  <1>5. ~split[p].open /\ UNCHANGED <<dir, up, link, serverVars, asks, made, early>>
    BY DEF OpenPiece
  <1> QED
    BY <1>2, <1>3, <1>4, <1>5, OwnPieceData

\* What is written into a piece that nobody else has touched is the piece.
LEMMA ClosePieceData ==
    ASSUME WholeInv, TransferInv', NEW p \in Peers, ClosePiece(p)
    PROVE  WholeInv'
  <1>1. split[p] \in Loops /\ split \in [Peers -> {None} \cup Loops] /\ split[p] # None
    BY DEF WholeInv, TransferInv, Shape, ClosePiece
  <1>2. PICK f, k, b, s, n : /\ f = split[p].file /\ k = split[p].next /\ n = split[p].next + 1
                             /\ b = split[p].bytes /\ s = split[p].size
    OBVIOUS
  <1>3. PICK read : read = PieceAt(p, b, s, k)
    OBVIOUS
  <1>4. PICK old, data : old = disk[p][f][k] /\ data = read \o SubSeq(old, Len(read) + 1, Len(old))
    OBVIOUS
  <1>5. disk' = [disk EXCEPT ![p][split[p].file] = With(@, split[p].next, data)]
    BY <1>2, <1>3, <1>4, Zenon DEF ClosePiece, PieceAt
  <1>6. split' = [split EXCEPT ![p] = [split[p] EXCEPT !.open = FALSE, !.next = n]]
    BY <1>1, <1>2 DEF ClosePiece
  <1>7. split[p].open /\ UNCHANGED <<dir, up, link, serverVars, asks, made, early>>
    BY DEF ClosePiece
  <1>8. k \in Nat /\ n # k /\ f \in Files
    BY <1>1, <1>2 DEF Loops
  <1>9. ASSUME Sole(p, f) PROVE data = Piece(p, f, k)
    <2>1. Busy(p, f)
      BY <1>1, <1>2 DEF Busy
    <2>2. k \in DOMAIN disk[p][f] /\ made[p][f] = [bytes |-> b, size |-> s]
      BY <1>1, <1>2, <1>7 DEF WholeInv, SplitsMade
    <2>3. Genuine(f, k, old) \/ InWork(p, f, k, old)
      BY <1>4, <1>8, <2>2 DEF WholeInv, Disks
    <2>4. ~Genuine(f, k, old)
      BY <1>9, <2>1 DEF Genuine
    <2>5. old = <<>>
      BY <1>2, <1>8, <1>9, <2>3, <2>4 DEF InWork
    <2>6. data = read
      <3>1. PICK m, to : m = k * s + 1 /\ to = IF k * s + s < b THEN k * s + s ELSE b
        OBVIOUS
      <3>2. m \in Int /\ to \in Int /\ read = SubSeq(Content(p, b), m, to)
        BY <1>1, <1>2, <1>3, <1>8, <3>1, SizesAssumption DEF Loops, PieceAt
      <3>3. read = [i \in 1..(1 + to - m) |-> Content(p, b)[i + m - 1]]
        BY <3>2
      <3>4. PICK w \in Nat : \E T : read \in [1..w -> T]
        <4>1. PICK w \in Int : w = 1 + to - m
          BY <3>2
        <4>2. read \in [1..w -> {read[i] : i \in 1..w}]
          BY <3>3, <4>1
        <4>3. PICK T : T = {read[i] : i \in 1..w}
          OBVIOUS
        <4>4. PICK v \in Nat : 1..v = 1..w
          <5>1. w < 0 => 1..w = 1..0
            OBVIOUS
          <5>2. w >= 0 => w \in Nat
            OBVIOUS
          <5> QED
            BY <5>1, <5>2
        <4>5. read \in [1..v -> T]
          BY <4>2, <4>3, <4>4
        <4> QED
          BY <4>5
      <3>5. PICK T : read \in Seq(T) /\ Len(read) = w
        BY <3>4
      <3>6. SubSeq(old, w + 1, Len(old)) = <<>>
        BY <2>5, <3>4
      <3>7. read \o <<>> = read
        BY <3>5
      <3> QED
        BY <1>4, <3>5, <3>6, <3>7
    <2>7. Piece(p, f, k) = PieceAt(p, b, s, k)
      BY <2>2 DEF Piece
    <2> QED
      BY <1>3, <2>6, <2>7
  <1>10. n # split[p].next /\ (Sole(p, split[p].file) => data = Piece(p, split[p].file, split[p].next))
    BY <1>2, <1>8, <1>9
  <1>11. n \in {split[p].next, split[p].next + 1}
    BY <1>2
  <1> QED
    BY <1>1, <1>5, <1>6, <1>7, <1>10, <1>11, OwnPieceData

\* The loop is over: what was in work is genuine.
LEMMA AnnounceData ==
    ASSUME WholeInv, TransferInv', NEW p \in Peers, Announce(p)
    PROVE  WholeInv'
  <1>1. split[p] \in Loops /\ split[p] # None
    BY DEF WholeInv, TransferInv, Shape, Announce
  <1>2. PICK f \in Files, n \in Chunks : f = split[p].file /\ n = U32(Total(split[p]))
    <2>1. Total(split[p]) \in Int
      BY <1>1, ChunksAreCounted, SizesAssumption DEF Loops, Total
    <2>2. U32(Total(split[p])) \in Chunks
      BY <2>1, SentNumber
    <2> QED
      BY <1>1, <2>2 DEF Loops
  <1> DEFINE m == [file |-> f, n |-> n]
  <1>3. /\ ~split[p].open /\ split' = [split EXCEPT ![p] = None]
        /\ up' = [up EXCEPT ![p] = Append(@, m)]
        /\ UNCHANGED <<disk, dir, link, serverVars, asks, made, early>>
    BY <1>2 DEF Announce
  <1>4. m \in Requests /\ m.file = f /\ m.n = n
    BY DEF Requests
  <1> HIDE DEF m
  <1>5. split'[p] = None /\ \A x \in Peers : x # p => split'[x] = split[x]
    BY <1>3 DEF WholeInv, TransferInv, Shape
  <1>6. Calm
    <2>1. \A x \in Peers, g \in Files : Busy(x, g)' => Busy(x, g)
      BY <1>5 DEF Busy
    <2> QED
      BY <1>3, <2>1 DEF Calm
  <1>7. Busy(p, f) /\ ~Busy(p, f)'
    BY <1>1, <1>2, <1>5 DEF Busy
  <1>8. Maker(p, f) /\ made[p][f] = [bytes |-> split[p].bytes, size |-> split[p].size]
    BY <1>7, BusyIsMaker DEF WholeInv, TransferInv
  <1>9. ASSUME NEW k, NEW data, InWork(p, f, k, data) PROVE Genuine(f, k, data)'
    <2>1. Maker(p, f)'
      BY <1>3, <1>8 DEF Maker
    <2>2. ASSUME NEW q \in Peers, Sole(q, f)' PROVE ~Busy(q, f)' /\ data = Piece(q, f, k)'
      <3>1. q = p /\ Sole(q, f) /\ Piece(q, f, k)' = Piece(q, f, k)
        BY <1>6, <1>8, <2>2, SoleBefore
      <3> QED
        BY <1>3, <1>7, <1>9, <3>1 DEF InWork
    <2> QED
      BY <2>1, <2>2 DEF Genuine
  <1>10. Disks'
    <2> SUFFICES ASSUME NEW x \in Peers, NEW g \in Files, NEW j \in DOMAIN disk[x][g]
                 PROVE  (Genuine(g, j, disk[x][g][j]) \/ InWork(x, g, j, disk[x][g][j]))'
      BY <1>3 DEF Disks
    <2>1. PICK d : d = disk[x][g][j]
      OBVIOUS
    <2>2. Genuine(g, j, d)' \/ InWork(x, g, j, d)'
      <3>1. Genuine(g, j, d) \/ InWork(x, g, j, d)
        BY <2>1 DEF WholeInv, Disks
      <3>2. CASE Genuine(g, j, d)
        BY <1>6, <3>2, GenuineStays
      <3>3. CASE InWork(x, g, j, d) /\ x # p
        BY <1>5, <1>6, <3>3, InWorkStays DEF WholeInv, TransferInv
      <3>4. CASE InWork(x, g, j, d) /\ x = p
        <4>1. g = f
          BY <1>2, <3>4 DEF InWork, Busy
        <4> QED
          BY <1>9, <3>4, <4>1
      <3> QED
        BY <3>1, <3>2, <3>3, <3>4
    <2> QED
      BY <1>3, <2>1, <2>2 DEF Genuine, InWork
  <1>11. MadeOK' /\ SplitsMade'
    <2>1. MadeOK'
      BY <1>3 DEF WholeInv, MadeOK, Maker
    <2>2. SplitsMade'
      BY <1>3, <1>5 DEF WholeInv, SplitsMade
    <2> QED
      BY <2>1, <2>2
  <1>12. Counted(p, m)'
    <2>1. n = U32(NChunks(made[p][f].bytes, made[p][f].size))
      BY <1>2, <1>8 DEF Total
    <2>2. Finished(p, f, n)'
      BY <1>3, <1>7, <1>8, <2>1 DEF Finished, Maker
    <2> QED
      BY <1>4, <2>2 DEF Counted
  <1>13. Mail' /\ Counts' /\ Owned'
    <2>1. Mail'
      BY <1>3, <1>6, SameMail DEF WholeInv
    <2>2. Counts'
      BY <1>3, <1>4, <1>6, <1>12, MoreCounts DEF WholeInv, TransferInv
    <2>3. Owned'
      BY <1>3, <1>6, SameOwners DEF WholeInv, TransferInv, serverVars
    <2> QED
      BY <2>1, <2>2, <2>3
  <1> QED
    BY <1>10, <1>11, <1>13 DEF WholeInv

LEMMA StoreData ==
    ASSUME WholeInv, TransferInv', NEW p \in Peers, NEW q \in Peers, Store(p, q)
    PROVE  WholeInv'
  <1>1. /\ link[q][p] # <<>> /\ Head(link[q][p]).type = 6
        /\ link' = [link EXCEPT ![q][p] = Tail(link[q][p])]
    BY DEF Store
  <1>2. PICK S : OnLinks(S) /\ \A x \in S : WellFormed(x) /\ GenuineMessage(x)
    BY DEF WholeInv, Mail
  <1>3. OnLinks(S)' /\ Head(link[q][p]) \in S
    BY <1>1, <1>2, StoreLinks
  <1>4. PICK f, k, data : /\ f = Field(Head(link[q][p]), ChunkDataResponse, 1)
                          /\ k = Field(Head(link[q][p]), ChunkDataResponse, 2)
                          /\ data = Field(Head(link[q][p]), ChunkDataResponse, 3)
    OBVIOUS
  <1>5. f \in Files /\ k \in Chunks /\ Genuine(f, k, data)
    BY <1>1, <1>2, <1>3, <1>4 DEF WellFormed, GenuineMessage
  <1>6. k \in Nat
    BY <1>5 DEF Chunks
  <1> DEFINE m == [file |-> f, chunk |-> k]
  <1>7. /\ dir' = [dir EXCEPT ![p] = @ \cup {f}]
        /\ disk' = [disk EXCEPT ![p][f] = With(@, k, data)]
        /\ up' = [up EXCEPT ![p] = Append(@, m)]
        /\ UNCHANGED <<split, serverVars, asks, made, early>>
    BY <1>4 DEF Store
  <1>8. m \in Requests /\ DOMAIN m = {"file", "chunk"}
    BY <1>5 DEF Requests
  <1> HIDE DEF m
  <1>9. Written(p, f, k, data)
    <2>1. Shape
      BY DEF WholeInv, TransferInv
    <2> QED
      BY <1>5, <1>6, <1>7, <2>1, PieceData
  <1>10. Calm
    BY <1>7 DEF Calm, Busy
  <1>11. Genuine(f, k, data)'
    BY <1>5, <1>10, GenuineStays
  <1>12. Disks'
    <2> SUFFICES ASSUME NEW x \in Peers, NEW g \in Files, NEW j \in DOMAIN disk'[x][g]
                 PROVE  (Genuine(g, j, disk[x][g][j]) \/ InWork(x, g, j, disk[x][g][j]))'
      BY DEF Disks
    <2>1. PICK d : d = disk'[x][g][j]
      OBVIOUS
    <2>2. Genuine(g, j, d)' \/ InWork(x, g, j, d)'
      <3>1. CASE x = p /\ g = f /\ j = k /\ d = data
        BY <1>11, <3>1
      <3>2. CASE j \in DOMAIN disk[x][g] /\ d = disk[x][g][j]
        <4>1. Genuine(g, j, d) \/ InWork(x, g, j, d)
          BY <3>2 DEF WholeInv, Disks
        <4>2. CASE Genuine(g, j, d)
          BY <1>10, <4>2, GenuineStays
        <4>3. CASE InWork(x, g, j, d)
          BY <1>7, <1>10, <4>3, InWorkStays DEF WholeInv, TransferInv
        <4> QED
          BY <4>1, <4>2, <4>3
      <3> QED
        BY <1>9, <2>1, <3>1, <3>2 DEF Written
    <2> QED
      BY <2>1, <2>2 DEF Genuine, InWork
  <1>13. MadeOK'
    <2>1. \A x \in Peers : dir[x] \subseteq dir'[x]
      BY <1>7 DEF WholeInv, TransferInv, TypeOK
    <2> QED
      BY <1>7, <2>1 DEF WholeInv, MadeOK, Maker
  <1>14. SplitsMade'
    <2> SUFFICES ASSUME NEW x \in Peers, split[x] # None
                 PROVE  /\ made[x][split[x].file] = [bytes |-> split[x].bytes, size |-> split[x].size]
                        /\ split[x].open => split[x].next \in DOMAIN disk'[x][split[x].file]
      BY <1>7 DEF SplitsMade
    <2>1. split[x].file \in Files
      BY DEF WholeInv, TransferInv, Shape, Loops
    <2>2. DOMAIN disk[x][split[x].file] \subseteq DOMAIN disk'[x][split[x].file]
      BY <1>9, <2>1 DEF Written
    <2> QED
      BY <2>2 DEF WholeInv, SplitsMade
  <1>15. Mail' /\ Counts' /\ Owned'
    <2>1. Mail'
      <3>1. \A x \in S : GenuineMessage(x)'
        BY <1>2, <1>10, MessageStays
      <3> QED
        BY <1>2, <1>3, <3>1 DEF Mail
    <2>2. Counted(p, m)'
      BY <1>8 DEF Counted
    <2>3. Counts'
      BY <1>7, <1>8, <1>10, <2>2, MoreCounts DEF WholeInv, TransferInv
    <2>4. Owned'
      BY <1>7, <1>10, SameOwners DEF WholeInv, TransferInv, serverVars
    <2> QED
      BY <2>1, <2>3, <2>4
  <1> QED
    BY <1>12, <1>13, <1>14, <1>15 DEF WholeInv

LEMMA DataBegins ==
    ASSUME Init
    PROVE  WholeInv
  <1>1. TransferInv
    BY Begins
  <1>2. \A p \in Peers, f \in Files : ~Maker(p, f) /\ DOMAIN disk[p][f] = {}
    BY DEF Init, Maker
  <1>3. Disks /\ MadeOK
    BY <1>2 DEF Disks, MadeOK
  <1>4. OnLinks({})
    <2>1. link \in [Peers -> [Peers -> Seq({})]] /\ \A p \in Peers : link[p][p] = <<>>
      BY DEF Init
    <2> QED
      BY <2>1 DEF OnLinks
  <1>5. Mail
    BY <1>4 DEF Mail
  <1>6. SplitsMade /\ Counts /\ Owned
    BY DEF Init, SplitsMade, Counts, Owned
  <1> QED
    BY <1>1, <1>3, <1>5, <1>6 DEF WholeInv

LEMMA DataStep ==
    ASSUME WholeInv, [Next]_vars
    PROVE  WholeInv'
  <1>1. TransferInv'
    BY StepKeeps DEF WholeInv
  <1>2. CASE UNCHANGED vars
    <2>1. UNCHANGED <<diskVars, up, link, serverVars, asks, made, early>>
      BY <1>2 DEF vars
    <2>2. Calm /\ Disks' /\ MadeOK' /\ SplitsMade'
      BY <2>1, QuietData
    <2>3. Mail'
      BY <2>1, <2>2, SameMail DEF WholeInv
    <2>4. Counts'
      BY <2>1, <2>2, SameCounts DEF WholeInv, TransferInv
    <2>5. Owned'
      BY <2>1, <2>2, SameOwners DEF WholeInv, TransferInv, serverVars
    <2> QED
      BY <1>1, <2>2, <2>3, <2>4, <2>5 DEF WholeInv
  <1>3. ASSUME NEW p \in Peers, Splitting(p) PROVE WholeInv'
    BY <1>1, <1>3, OpenPieceData, ClosePieceData, AnnounceData DEF Splitting
  <1>4. ASSUME NEW p \in Peers, Network(p) PROVE WholeInv'
    BY <1>1, <1>4, ServeData, StoreData DEF Network
  <1>5. ASSUME NEW p \in Peers, Server(p) PROVE WholeInv'
    BY <1>1, <1>5, ServeRegFileData, ServeRegChunkData DEF Server
  <1>6. ASSUME NEW p \in Peers, NEW f \in Files, NEW n \in Sizes, NEW c \in ChunkSizes,
               RegFile(p, f, n, c)
        PROVE  WholeInv'
    BY <1>1, <1>6, RegFileData
  <1>7. ASSUME NEW p \in Peers, NEW q \in Peers, NEW f \in Files, NEW k \in Wanted, Ask(p, q, f, k)
        PROVE  WholeInv'
    BY <1>1, <1>7, AskData
  <1>8. ASSUME NEW p \in Peers, NEW q \in Peers, HangUp(p, q) PROVE WholeInv'
    BY <1>1, <1>8, HangUpData
  <1> QED
    BY <1>2, <1>3, <1>4, <1>5, <1>6, <1>7, <1>8, Zenon DEF Next

\* Pieces that are genuine, one after the other, are the file.
LEMMA WholeMeansWhole ==
    ASSUME \A n \in Sizes : n < Word, WholeInv
    PROVE  CompleteIsWhole
  <1> SUFFICES ASSUME NEW p \in Peers, NEW f \in Files, count[f] > 0,
                      \A k \in 0..(count[f] - 1) : <<p, f, k>> \in claims,
                      ~Rival(f), f \notin early, ~Negative(owner[f], f)
               PROVE  FlattenSeq([i \in 1..count[f] |-> disk[p][f][i - 1]])
                        = Content(owner[f], made[owner[f]][f].bytes)
    BY DEF CompleteIsWhole
  <1>1. PICK q, n : q = owner[f] /\ n = count[f]
    OBVIOUS
  <1>2. n \in Nat \ {0} /\ q \in Peers /\ Finished(q, f, n)
    <2>1. count \in [Files -> 0..(Word - 1)] /\ owner \in [Files -> Peers \cup {None}]
      BY DEF WholeInv, TransferInv, TypeOK
    <2>2. owner[f] # None /\ Finished(owner[f], f, count[f])
      BY <2>1 DEF WholeInv, Owned
    <2> QED
      BY <1>1, <2>1, <2>2, WordAssumption
  <1>3. Maker(q, f) /\ ~Busy(q, f) /\ made[q][f] \in [bytes : Sizes, size : Int \ {0}]
    BY <1>2 DEF Finished, WholeInv, MadeOK
  <1>4. PICK b \in Nat \ {0}, s \in Nat \ {0} : b = made[q][f].bytes /\ s = made[q][f].size /\ b \in Sizes
    <2>1. made[q][f].size > 0
      BY <1>1, <1>3 DEF Negative, Maker
    <2>2. made[q][f].bytes \in Sizes /\ made[q][f].size \in Int
      BY <1>3
    <2>3. made[q][f].bytes \in Nat \ {0} /\ made[q][f].size \in Nat \ {0}
      <3>1. PICK b, s : b = made[q][f].bytes /\ s = made[q][f].size
        OBVIOUS
      <3>2. b \in Nat \ {0}
        BY <2>2, <3>1, SizesAssumption
      <3>3. s > 0 /\ s \in Int
        BY <2>1, <2>2, <3>1
      <3> QED
        BY <3>1, <3>2, <3>3
    <2> QED
      BY <2>2, <2>3
  <1>5. Sole(q, f)
    BY <1>1, <1>3, <1>4 DEF Sole, Rival, Maker
  <1>6. n = NChunks(b, s)
    <2>1. n = U32(NChunks(b, s))
      BY <1>2, <1>4 DEF Finished
    <2>2. NChunks(b, s) \in Nat /\ NChunks(b, s) <= b /\ b < Word
      BY <1>4, ChunksCover
    <2>3. NChunks(b, s) < Word
      BY <1>4, <2>2, WordAssumption
    <2> QED
      BY <2>1, <2>2, <2>3, WordAssumption DEF U32
  <1>7. ASSUME NEW k \in 0..(n - 1) PROVE disk[p][f][k] = PieceAt(q, b, s, k)
    <2>1. k \in DOMAIN disk[p][f] \/ Negative(p, f)
      <3>1. <<p, f, k>> \in claims
        BY <1>1, <1>7
      <3> QED
        BY <3>1 DEF WholeInv, TransferInv, Kept
    <2>2. ~Negative(p, f)
      BY <1>1, <1>5 DEF Negative, Sole, Maker
    <2>3. PICK data : data = disk[p][f][k]
      OBVIOUS
    <2>4. Genuine(f, k, data) \/ InWork(p, f, k, data)
      BY <2>1, <2>2, <2>3 DEF WholeInv, Disks
    <2>5. ~InWork(p, f, k, data)
      <3>1. ASSUME Busy(p, f) PROVE FALSE
        <4>1. Maker(p, f)
          BY <3>1, BusyIsMaker DEF WholeInv, TransferInv
        <4>2. p = q
          BY <1>5, <4>1 DEF Sole
        <4> QED
          BY <1>3, <3>1, <4>2
      <3> QED
        BY <3>1 DEF InWork
    <2>6. data = Piece(q, f, k)
      BY <1>2, <1>5, <2>4, <2>5 DEF Genuine
    <2> QED
      BY <1>4, <2>3, <2>6 DEF Piece
  <1>8. PICK parts : parts = [i \in 1..n |-> disk[p][f][i - 1]]
    OBVIOUS
  <1>9. parts = [i \in 1..n |-> PieceAt(q, b, s, i - 1)]
    <2>1. \A i \in 1..n : i - 1 \in 0..(n - 1)
      BY <1>2
    <2>2. \A i \in 1..n : disk[p][f][i - 1] = PieceAt(q, b, s, i - 1)
      BY <1>7, <2>1
    <2> QED
      BY <1>8, <2>2
  <1>10. FlattenSeq(parts) = Content(q, b)
    BY <1>6, <1>9, PiecesMakeFile
  <1> QED
    BY <1>1, <1>4, <1>8, <1>10

\* Whoever is listed with all chunks of a file has, end to end, the bytes that its owner
\* registered, whatever the files, the sizes of the chunks, the number of peers, the order in
\* which chunks are asked for and what is lost; unless a rival has split a file of that
\* name, a piece was read while it was written, or the size was negative.  Files are
\* shorter than 2^32 bytes, so that the number of chunks is what the server is told.
THEOREM CompleteFilesAreWhole ==
    ASSUME \A n \in Sizes : n < Word
    PROVE  Spec => []CompleteIsWhole
  <1>1. WholeInv => CompleteIsWhole
    BY WholeMeansWhole
  <1> QED
    BY DataBegins, DataStep, <1>1, PTL DEF Spec
=============================================================================
