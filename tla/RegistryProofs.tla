--------------------------- MODULE RegistryProofs ---------------------------
(***************************************************************************)
(* FileRegistry answers every search correctly, whatever the files, the    *)
(* peers and the numbers of chunks, as long as peers announce chunks that  *)
(* exist and fewer than 2^32 identifiers are given out.                    *)
(***************************************************************************)
EXTENDS FileRegistry, TLAPS

\* Sums that stay below the modulus do not wrap.
LEMMA PlusIsSum ==
    ASSUME NEW a \in Nat, NEW b \in Nat, a + b < Modulus
    PROVE  Plus(a, b) = a + b
  BY SizesAssumption DEF Plus

(***************************************************************************)
(* The inductive invariant.  Ranges are laid out one after the other below *)
(* gid, nothing at or above gid has been announced, announcements are of   *)
(* existing chunks, and an identifier is held exactly when the chunk it    *)
(* stands for was announced.                                               *)
(***************************************************************************)
Laid == /\ gid <= IdBudget
        /\ \A f \in Files : chunks[f] > 0 => sid[f] + chunks[f] <= gid
        /\ \A f, g \in Files : f # g /\ chunks[f] > 0 /\ chunks[g] > 0 =>
              sid[f] + chunks[f] <= sid[g] \/ sid[g] + chunks[g] <= sid[f]

HeldBelow == \A p \in Peers : \A id \in held[p] : id < gid

SharedExist == \A p \in Peers, f \in Files, k \in Indices :
                  <<f, k>> \in shared[p] => k < chunks[f]

Decodes == \A p \in Peers, f \in Files, k \in Indices :
              k < chunks[f] => (sid[f] + k \in held[p] <=> <<f, k>> \in shared[p])

RegInv == TypeOK /\ Laid /\ HeldBelow /\ SharedExist /\ Decodes

USE SizesAssumption

\* What is registered last starts where everything before it ends.
LEMMA RegFileInv ==
    ASSUME IdBudget < Modulus, RegInv, NEW p \in Peers, NEW f \in Files,
           NEW n \in 0..MaxChunks, RegFile(p, f, n)
    PROVE  RegInv'
  <1> DEFINE New == {i \in Indices : i < n}
  <1>1. /\ p \in online /\ chunks[f] = 0 /\ gid + n <= IdBudget
        /\ sid' = [sid EXCEPT ![f] = gid] /\ chunks' = [chunks EXCEPT ![f] = n]
        /\ held' = [held EXCEPT ![p] = @ \cup {Plus(gid, k) : k \in New}]
        /\ shared' = [shared EXCEPT ![p] = @ \cup {<<f, k>> : k \in New}]
        /\ online' = online
    BY DEF RegFile
  <1>2. /\ gid \in Nat /\ n \in Nat /\ gid' = gid + n /\ gid + n < Modulus
        /\ \A k \in New : k \in Nat /\ k < n /\ Plus(gid, k) = gid + k
    <2>1. gid \in Nat /\ n \in Nat /\ gid + n < Modulus
      BY <1>1 DEF RegInv, TypeOK
    <2>2. gid' = Plus(gid, n)
      BY DEF RegFile
    <2>3. ASSUME NEW k \in New PROVE k \in Nat /\ k < n /\ Plus(gid, k) = gid + k
      <3>1. k \in Nat /\ k < n
        OBVIOUS
      <3> QED
        BY <2>1, <3>1, PlusIsSum
    <2> QED
      BY <2>1, <2>2, <2>3, PlusIsSum
  <1>3. held' = [held EXCEPT ![p] = @ \cup {gid + k : k \in New}]
    BY <1>1, <1>2
  <1>4. TypeOK'
    <2>1. \A k \in New : gid + k \in 0..(Modulus - 1)
      BY <1>2
    <2> QED
      BY <1>1, <1>2, <1>3, <2>1 DEF RegInv, TypeOK
  <1>5. Laid'
    BY <1>1, <1>2 DEF RegInv, TypeOK, Laid
  <1>6. HeldBelow'
    BY <1>1, <1>2, <1>3 DEF RegInv, TypeOK, HeldBelow
  <1>7. SharedExist'
    <2> SUFFICES ASSUME NEW q \in Peers, NEW g \in Files, NEW k \in Indices,
                        <<g, k>> \in shared'[q]
                 PROVE  k < chunks'[g]
      BY DEF SharedExist
    <2>1. CASE <<g, k>> \in shared[q]
      BY <1>1, <1>2, <2>1 DEF RegInv, TypeOK, SharedExist
    <2>2. CASE <<g, k>> \notin shared[q]
      <3>1. g = f /\ k \in New
        BY <1>1, <2>2 DEF RegInv, TypeOK
      <3> QED
        BY <1>1, <1>2, <3>1 DEF RegInv, TypeOK
    <2> QED
      BY <2>1, <2>2
  <1>8. Decodes'
    <2> SUFFICES ASSUME NEW q \in Peers, NEW g \in Files, NEW k \in Indices, k < chunks'[g]
                 PROVE  sid'[g] + k \in held'[q] <=> <<g, k>> \in shared'[q]
      BY DEF Decodes
    <2>1. CASE g = f
      <3>1. k \in New /\ sid'[g] + k = gid + k
        BY <1>1, <2>1 DEF RegInv, TypeOK
      <3>2. gid + k \notin held[q] /\ <<g, k>> \notin shared[q]
        BY <1>1, <1>2, <2>1, <3>1 DEF RegInv, TypeOK, HeldBelow, SharedExist
      <3>3. CASE q = p
        <4>1. gid + k \in {gid + i : i \in New} /\ <<g, k>> \in {<<f, i>> : i \in New}
          BY <2>1, <3>1
        <4>2. /\ held'[q] = held[q] \cup {gid + i : i \in New}
              /\ shared'[q] = shared[q] \cup {<<f, i>> : i \in New}
          BY <1>1, <1>3, <3>3 DEF RegInv, TypeOK
        <4> QED
          BY <3>1, <4>1, <4>2
      <3>4. CASE q # p
        BY <1>1, <1>3, <3>1, <3>2, <3>4 DEF RegInv, TypeOK
      <3> QED
        BY <3>3, <3>4
    <2>2. CASE g # f
      <3>1. k < chunks[g] /\ sid'[g] = sid[g] /\ sid[g] + k < gid
        BY <1>1, <1>2, <2>2 DEF RegInv, TypeOK, Laid
      <3>2. sid[g] + k \in held'[q] <=> sid[g] + k \in held[q]
        <4>1. \A i \in New : gid + i # sid[g] + k
          BY <1>2, <3>1 DEF RegInv, TypeOK
        <4> QED
          BY <1>3, <4>1 DEF RegInv, TypeOK
      <3>3. <<g, k>> \in shared'[q] <=> <<g, k>> \in shared[q]
        BY <1>1, <2>2 DEF RegInv, TypeOK
      <3> QED
        BY <3>1, <3>2, <3>3 DEF RegInv, Decodes
    <2> QED
      BY <2>1, <2>2
  <1> QED
    BY <1>4, <1>5, <1>6, <1>7, <1>8 DEF RegInv

\* An announcement stays inside the range of its file, so it cannot touch another.
LEMMA RegChunkInv ==
    ASSUME IdBudget < Modulus, InRange, RegInv, NEW p \in Peers, NEW f \in Files,
           NEW S \in SUBSET Indices, RegChunk(p, f, S)
    PROVE  RegInv'
  <1>1. /\ chunks[f] > 0 /\ \A k \in S : k < chunks[f]
        /\ shared' = [shared EXCEPT ![p] = @ \cup {<<f, k>> : k \in S}]
        /\ UNCHANGED <<gid, sid, chunks, online>>
    BY DEF RegChunk
  <1>2. /\ sid[f] \in Nat /\ sid[f] + chunks[f] <= gid /\ gid < Modulus
        /\ \A k \in S : k \in Nat /\ Plus(sid[f], k) = sid[f] + k
    <2>1. sid[f] \in Nat /\ sid[f] + chunks[f] <= gid /\ gid < Modulus /\ chunks[f] \in Nat
      BY <1>1 DEF RegInv, TypeOK, Laid
    <2>2. ASSUME NEW k \in S PROVE k \in Nat /\ Plus(sid[f], k) = sid[f] + k
      <3>1. k \in Nat
        OBVIOUS
      <3>2. k < chunks[f] /\ gid \in Nat
        BY <1>1 DEF RegInv, TypeOK
      <3> QED
        BY <2>1, <3>1, <3>2, PlusIsSum
    <2> QED
      BY <2>1, <2>2
  <1>3. held' = [held EXCEPT ![p] = @ \cup {sid[f] + k : k \in S}]
    BY <1>2 DEF RegChunk
  <1>4. TypeOK'
    <2>1. \A k \in S : sid[f] + k \in 0..(Modulus - 1)
      BY <1>1, <1>2 DEF RegInv, TypeOK
    <2> QED
      BY <1>1, <1>3, <2>1 DEF RegInv, TypeOK
  <1>5. Laid'
    BY <1>1 DEF RegInv, Laid
  <1>6. HeldBelow'
    BY <1>1, <1>2, <1>3 DEF RegInv, TypeOK, HeldBelow
  <1>7. SharedExist'
    BY <1>1 DEF RegInv, TypeOK, SharedExist
  <1>8. Decodes'
    <2> SUFFICES ASSUME NEW q \in Peers, NEW g \in Files, NEW k \in Indices, k < chunks[g]
                 PROVE  sid[g] + k \in held'[q] <=> <<g, k>> \in shared'[q]
      BY <1>1 DEF Decodes
    <2>1. sid[g] + k \in held[q] <=> <<g, k>> \in shared[q]
      BY DEF RegInv, Decodes
    <2>2. CASE q # p
      BY <1>1, <1>3, <2>1, <2>2 DEF RegInv, TypeOK
    <2>3. CASE q = p /\ g = f
      <3>1. sid[g] + k \in {sid[f] + i : i \in S} <=> k \in S
        <4>1. \A i \in S : i \in Nat /\ (sid[f] + i = sid[f] + k => i = k)
          BY <1>2
        <4> QED
          BY <2>3, <4>1
      <3>2. <<g, k>> \in {<<f, i>> : i \in S} <=> k \in S
        BY <2>3
      <3>3. /\ held'[q] = held[q] \cup {sid[f] + i : i \in S}
            /\ shared'[q] = shared[q] \cup {<<f, i>> : i \in S}
        BY <1>1, <1>3, <2>3 DEF RegInv, TypeOK
      <3> QED
        BY <2>1, <3>1, <3>2, <3>3
    <2>4. CASE q = p /\ g # f
      <3>1. /\ chunks[g] \in Nat /\ chunks[f] \in Nat /\ sid[g] \in Nat /\ k \in Nat
            /\ chunks[g] > 0
        BY DEF RegInv, TypeOK
      <3>2. sid[f] + chunks[f] <= sid[g] \/ sid[g] + chunks[g] <= sid[f]
        BY <1>1, <2>4, <3>1 DEF RegInv, Laid
      <3>3. \A i \in S : sid[f] + i # sid[g] + k
        BY <1>1, <1>2, <3>1, <3>2
      <3> QED
        BY <1>1, <1>3, <2>1, <2>4, <3>3 DEF RegInv, TypeOK
    <2> QED
      BY <2>2, <2>3, <2>4
  <1> QED
    BY <1>4, <1>5, <1>6, <1>7, <1>8 DEF RegInv

\* The invariant is inductive.
LEMMA RegInvInductive ==
    ASSUME IdBudget < Modulus, InRange, RegInv, [Next]_vars
    PROVE  RegInv'
  <1> USE DEF RegInv, TypeOK, Laid, HeldBelow, SharedExist, Decodes
  <1>1. ASSUME NEW p \in Peers, Login(p) \/ Expire(p) PROVE RegInv'
    BY <1>1 DEF Login, Expire
  <1>2. ASSUME NEW p \in Peers, Reconnect(p) PROVE RegInv'
    BY <1>2 DEF Reconnect
  <1>3. ASSUME NEW p \in Peers, NEW f \in Files, NEW S \in SUBSET Indices,
               SearchFile(p, f, S)
        PROVE  RegInv'
    BY <1>3 DEF SearchFile
  <1>4. CASE UNCHANGED vars
    BY <1>4 DEF vars
  <1> QED
    BY <1>1, <1>2, <1>3, <1>4, RegFileInv, RegChunkInv DEF Next

\* Type correctness, with no bound on the identifiers: uint32_t sums wrap, and so
\* stay 32-bit numbers, whatever is registered and announced.
THEOREM RegistryTypes == Spec => []TypeOK
  <1>1. \A a, b \in Nat : Plus(a, b) \in 0..(Modulus - 1)
    BY DEF Plus
  <1>2. Init => TypeOK
    BY DEF Init, TypeOK
  <1>3. TypeOK /\ [Next]_vars => TypeOK'
    <2> SUFFICES ASSUME TypeOK, [Next]_vars PROVE TypeOK'
      OBVIOUS
    <2>1. ASSUME NEW p \in Peers, Login(p) \/ Expire(p) \/ Reconnect(p) PROVE TypeOK'
      BY <2>1 DEF TypeOK, Login, Expire, Reconnect
    <2>2. ASSUME NEW p \in Peers, NEW f \in Files, NEW n \in 0..MaxChunks, RegFile(p, f, n)
          PROVE  TypeOK'
      <3>1. gid \in Nat /\ n \in Nat /\ gid' = Plus(gid, n)
        BY <2>2 DEF TypeOK, RegFile
      <3>2. {Plus(gid, k) : k \in {i \in Indices : i < n}} \subseteq 0..(Modulus - 1)
        BY <1>1, <3>1
      <3>3. {<<f, k>> : k \in {i \in Indices : i < n}} \subseteq Files \X Indices
        OBVIOUS
      <3>4. gid' \in 0..(Modulus - 1) /\ gid \in 0..(Modulus - 1)
        BY <1>1, <3>1 DEF TypeOK
      <3>5. /\ sid' = [sid EXCEPT ![f] = gid] /\ chunks' = [chunks EXCEPT ![f] = n]
            /\ held' = [held EXCEPT ![p] = @ \cup {Plus(gid, k) : k \in {i \in Indices : i < n}}]
            /\ shared' = [shared EXCEPT ![p] = @ \cup {<<f, k>> : k \in {i \in Indices : i < n}}]
            /\ online' = online
        BY <2>2 DEF RegFile
      <3>6. /\ sid' \in [Files -> 0..(Modulus - 1)] /\ chunks' \in [Files -> 0..MaxChunks]
            /\ online' \subseteq Peers
        BY <3>4, <3>5 DEF TypeOK
      <3>7. held' \in [Peers -> SUBSET (0..(Modulus - 1))]
        BY <3>2, <3>5 DEF TypeOK
      <3>8. shared' \in [Peers -> SUBSET (Files \X Indices)]
        BY <3>3, <3>5 DEF TypeOK
      <3> QED
        BY <3>4, <3>6, <3>7, <3>8 DEF TypeOK
    <2>3. ASSUME NEW p \in Peers, NEW f \in Files, NEW S \in SUBSET Indices, RegChunk(p, f, S)
          PROVE  TypeOK'
      <3>1. {Plus(sid[f], k) : k \in S} \subseteq 0..(Modulus - 1)
        <4>1. sid[f] \in Nat /\ \A k \in S : k \in Nat
          BY DEF TypeOK
        <4> QED
          BY <1>1, <4>1
      <3>2. {<<f, k>> : k \in S} \subseteq Files \X Indices
        OBVIOUS
      <3> QED
        BY <2>3, <3>1, <3>2 DEF TypeOK, RegChunk
    <2>4. ASSUME NEW p \in Peers, NEW f \in Files, NEW S \in SUBSET Indices, SearchFile(p, f, S)
          PROVE  TypeOK'
      BY <2>4 DEF TypeOK, SearchFile
    <2>5. ASSUME UNCHANGED vars PROVE TypeOK'
      BY <2>5 DEF vars, TypeOK
    <2> QED
      BY <2>1, <2>2, <2>3, <2>4, <2>5 DEF Next
  <1> QED
    BY <1>2, <1>3, PTL DEF Spec

\* It holds initially.
LEMMA InitRegInv == Init => RegInv
  BY DEF Init, RegInv, TypeOK, Laid, HeldBelow, SharedExist, Decodes

-----------------------------------------------------------------------------
\* The invariants hold on every behaviour of well-behaved peers.
LEMMA RegInvariance ==
    ASSUME IdBudget < Modulus, InRange
    PROVE  Spec => []RegInv
  BY InitRegInv, RegInvInductive, PTL DEF Spec

\* Two files never share an identifier.
THEOREM FilesAreDisjoint ==
    ASSUME IdBudget < Modulus, InRange
    PROVE  Spec => []DisjointFiles
  <1>1. ASSUME RegInv PROVE DisjointFiles
    <2> SUFFICES ASSUME NEW f \in Files, NEW g \in Files, f # g,
                        NEW k \in 0..(chunks[f] - 1), NEW i \in 0..(chunks[g] - 1)
                 PROVE  Plus(sid[f], k) # Plus(sid[g], i)
      BY DEF DisjointFiles, Range
    <2>1. /\ sid[f] \in Nat /\ sid[g] \in Nat /\ chunks[f] \in Nat /\ chunks[g] \in Nat
          /\ gid \in Nat /\ k \in Nat /\ i \in Nat /\ k < chunks[f] /\ i < chunks[g]
      BY <1>1 DEF RegInv, TypeOK
    <2>2. sid[f] + k < gid /\ sid[g] + i < gid /\ gid < Modulus
      BY <1>1, <2>1 DEF RegInv, TypeOK, Laid
    <2>3. Plus(sid[f], k) = sid[f] + k /\ Plus(sid[g], i) = sid[g] + i
      BY <2>1, <2>2, PlusIsSum
    <2>4. sid[f] + chunks[f] <= sid[g] \/ sid[g] + chunks[g] <= sid[f]
      BY <1>1, <2>1 DEF RegInv, Laid
    <2> QED
      BY <2>1, <2>3, <2>4
  <1> QED
    BY <1>1, RegInvariance, PTL

\* The bitmap that a search fills in for a connection is what was announced on it.
LEMMA MaskIsShared ==
    ASSUME IdBudget < Modulus, RegInv, NEW p \in Peers, NEW f \in Files, chunks[f] > 0
    PROVE  Mask(p, f) = {k \in 0..(chunks[f] - 1) : <<f, k>> \in shared[p]}
  <1>1. /\ sid[f] \in Nat /\ chunks[f] \in Nat /\ chunks[f] <= MaxChunks /\ gid \in Nat
        /\ sid[f] + chunks[f] <= gid /\ gid < Modulus
    BY DEF RegInv, TypeOK, Laid
  <1>2. Eid(f) = sid[f] + chunks[f]
    BY <1>1, PlusIsSum DEF Eid
  <1>3. held[p] \subseteq Nat
    BY DEF RegInv, TypeOK
  <1>4. ASSUME NEW k \in 0..(chunks[f] - 1)
        PROVE  k \in Mask(p, f) <=> sid[f] + k \in held[p]
    <2>1. InFile(f, sid[f] + k) /\ (sid[f] + k) - sid[f] = k
      BY <1>1, <1>2 DEF InFile
    <2>2. \A id \in held[p] : id - sid[f] = k => id = sid[f] + k
      BY <1>1, <1>3
    <2> QED
      BY <2>1, <2>2 DEF Mask
  <1>5. Mask(p, f) \subseteq 0..(chunks[f] - 1)
    BY <1>1, <1>2, <1>3 DEF Mask, InFile
  <1>6. ASSUME NEW k \in 0..(chunks[f] - 1)
        PROVE  sid[f] + k \in held[p] <=> <<f, k>> \in shared[p]
    <2>1. k \in Indices /\ k < chunks[f]
      BY <1>1
    <2> QED
      BY <2>1 DEF RegInv, Decodes
  <1> QED
    BY <1>4, <1>5, <1>6

\* The three answers of clientHasFileChunks mean what its comment says.
THEOREM LevelsCorrect ==
    ASSUME IdBudget < Modulus, InRange
    PROVE  Spec => []LevelsAreTrue
  <1>1. ASSUME RegInv PROVE LevelsAreTrue
    <2> SUFFICES ASSUME NEW p \in Peers, NEW f \in Files, chunks[f] > 0,
                        NEW wanted \in SUBSET (0..(chunks[f] - 1))
                 PROVE  Level(p, f, wanted) =
                            IF \E k \in wanted : <<f, k>> \in shared[p] THEN 2
                            ELSE IF \E k \in 0..(chunks[f] - 1) : <<f, k>> \in shared[p]
                                 THEN 1 ELSE 0
      BY DEF LevelsAreTrue
    <2>1. Mask(p, f) = {k \in 0..(chunks[f] - 1) : <<f, k>> \in shared[p]}
      BY <1>1, MaskIsShared
    <2> QED
      BY <2>1 DEF Level
  <1> QED
    BY <1>1, RegInvariance, PTL

-----------------------------------------------------------------------------
(***************************************************************************)
(* The registry implements ChunkShare: every step is one of ChunkShare, or *)
(* changes nothing that ChunkShare sees.                                   *)
(***************************************************************************)

\* A search is answered from the identifiers as ChunkShare answers it from the
\* announcements.
LEMMA SearchIsAnswer ==
    ASSUME IdBudget < Modulus, RegInv, NEW f \in Files, chunks[f] > 0,
           NEW asked \in SUBSET Indices
    PROVE  SearchAnswer(f, asked) = Share!Answer(f, asked)
  <1> DEFINE wanted == {k \in asked : k < chunks[f]}
             target == IF asked = {} THEN 1 ELSE 2
             has    == UNION {Mask(p, f) : p \in online}
             sought == IF asked = {} THEN Share!Chunks(f) ELSE asked \cap Share!Chunks(f)
  <1>1. online \subseteq Peers /\ chunks[f] \in Nat /\ chunks[f] <= MaxChunks
    BY DEF RegInv, TypeOK
  <1>2. Share!Chunks(f) = 0..(chunks[f] - 1)
    <2>1. \A k \in 0..(chunks[f] - 1) : k \in 0..(MaxChunks - 1) /\ k < chunks[f]
      BY <1>1
    <2>2. \A k \in Indices : k \in Nat /\ (k < chunks[f] => k \in 0..(chunks[f] - 1))
      BY <1>1
    <2> QED
      BY <2>1, <2>2 DEF Share!Chunks
  <1>3. \A p \in online : Mask(p, f) = {k \in Share!Chunks(f) : <<f, k>> \in shared[p]}
    BY <1>1, <1>2, MaskIsShared
  <1>4. (\A k \in 0..(chunks[f] - 1) : k \in has)
            <=> (\A k \in Share!Chunks(f) : \E p \in online : <<f, k>> \in shared[p])
    <2>1. \A k : k \in has <=> \E p \in online : k \in Mask(p, f)
      OBVIOUS
    <2>2. \A k \in Share!Chunks(f) : k \in has <=> \E p \in online : <<f, k>> \in shared[p]
      BY <1>3, <2>1
    <2> QED
      BY <1>2, <2>2
  <1>5. ASSUME NEW p \in online
        PROVE  Level(p, f, wanted) = target <=> Share!Offers(p, f, sought)
    <2>1. wanted = asked \cap Share!Chunks(f)
      BY DEF Share!Chunks
    <2>2. CASE asked = {}
      <3>1. target = 1 /\ wanted = {} /\ sought = Share!Chunks(f)
        BY <2>1, <2>2
      <3>2. Level(p, f, wanted) = 1 <=> Mask(p, f) # {}
        BY <3>1 DEF Level
      <3>3. Mask(p, f) # {} <=> Share!Offers(p, f, sought)
        BY <1>3, <3>1 DEF Share!Offers
      <3> QED
        BY <3>1, <3>2, <3>3
    <2>3. CASE asked # {}
      <3>1. target = 2 /\ sought = wanted
        BY <2>1, <2>3
      <3>2. Level(p, f, wanted) = 2 <=> Mask(p, f) \cap wanted # {}
        BY DEF Level
      <3>3. \A k \in wanted : k \in Mask(p, f) <=> <<f, k>> \in shared[p]
        BY <1>3, <2>1
      <3>4. Mask(p, f) \cap wanted # {} <=> Share!Offers(p, f, sought)
        BY <3>1, <3>3 DEF Share!Offers
      <3> HIDE DEF wanted, target, sought
      <3> QED
        BY <3>1, <3>2, <3>4
    <2> QED
      BY <2>2, <2>3
  <1>6. {p \in online : Level(p, f, wanted) = target}
            = {p \in online : Share!Offers(p, f, sought)}
    BY <1>5
  <1>7. SearchAnswer(f, asked) =
            [file |-> f, all |-> \A k \in 0..(chunks[f] - 1) : k \in has,
             listed |-> {p \in online : Level(p, f, wanted) = target}]
    BY DEF SearchAnswer
  <1>8. Share!Answer(f, asked) =
            [file |-> f,
             all |-> \A k \in Share!Chunks(f) : \E p \in online : <<f, k>> \in shared[p],
             listed |-> {p \in online : Share!Offers(p, f, sought)}]
    BY DEF Share!Answer
  <1> QED
    BY <1>4, <1>6, <1>7, <1>8

\* The registry answers every search as if the announcements themselves were kept.
THEOREM RegistryImplementsShare ==
    ASSUME IdBudget < Modulus, InRange
    PROVE  Spec => ImplementsShare
  <1>1. Init => Share!Init
    BY DEF Init, Share!Init
  <1>2. ASSUME RegInv, [Next]_vars PROVE [Share!Next]_Share!vars
    <2>1. ASSUME NEW p \in Peers, Login(p) \/ Expire(p) \/ Reconnect(p) PROVE Share!Next
      BY <2>1 DEF Login, Expire, Reconnect, Share!Next, Share!Login, Share!Logout,
                  Share!Connect
    <2>2. ASSUME NEW p \in Peers, NEW f \in Files, NEW n \in 0..MaxChunks, RegFile(p, f, n)
          PROVE  Share!Next
      BY <2>2 DEF RegFile, Share!Next, Share!Register
    <2>3. ASSUME NEW p \in Peers, NEW f \in Files, NEW S \in SUBSET Indices,
                 RegChunk(p, f, S)
          PROVE  Share!Next
      BY <2>3 DEF RegChunk, Share!Next, Share!Announce
    <2>4. ASSUME NEW p \in Peers, NEW f \in Files, NEW S \in SUBSET Indices,
                 SearchFile(p, f, S)
          PROVE  Share!Next
      BY <1>2, <2>4, SearchIsAnswer DEF SearchFile, Share!Next, Share!Search
    <2>5. CASE UNCHANGED vars
      BY <2>5 DEF vars, Share!vars
    <2> QED
      BY <1>2, <2>1, <2>2, <2>3, <2>4, <2>5 DEF Next
  <1> QED
    BY <1>1, <1>2, RegInvariance, PTL DEF Spec, ImplementsShare, Share!Spec
=============================================================================
