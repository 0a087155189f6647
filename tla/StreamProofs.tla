---------------------------- MODULE StreamProofs ----------------------------
(***************************************************************************)
(* A connection byte by byte, for any capacities, any lengths of messages  *)
(* and any way to cut the stream.                                          *)
(***************************************************************************)
EXTENDS Stream, Integers, SequenceTheorems, WellFoundedInduction, TLAPS

-----------------------------------------------------------------------------
(* Numbers.                                                                *)

\* A set of natural numbers that is not empty has a least one.
LEMMA LeastOne ==
    ASSUME NEW S \in SUBSET Nat, S # {}
    PROVE  \E x \in S : \A y \in S : x <= y
<1> DEFINE R == {ss \in Nat \X Nat : ss[1] < ss[2]}
<1>1. IsWellFoundedOn(R, Nat)
  BY NatLessThanWellFounded DEF OpToRel
<1>2. PICK x \in S : \A y \in S : ~ (<<y, x>> \in R)
  BY <1>1, WFMin
<1>3. ASSUME NEW y \in S PROVE x <= y
  <2>1. <<y, x>> \notin R
    BY <1>2
  <2>2. ~(y < x)
    BY <2>1
  <2> QED BY <2>2
<1> QED BY <1>2, <1>3

\* And a greatest one if it is bounded.
LEMMA GreatestOne ==
    ASSUME NEW b \in Nat, NEW S \in SUBSET (0..b), S # {}
    PROVE  \E x \in S : \A y \in S : y <= x
<1> DEFINE D == {b - x : x \in S}
<1>1. D \in SUBSET Nat /\ D # {}
  <2>1. \A x \in S : b - x \in Nat
    OBVIOUS
  <2>2. \E x \in S : b - x \in D
    OBVIOUS
  <2> QED BY <2>1, <2>2
<1>2. PICK d \in D : \A y \in D : d <= y
  <2> HIDE DEF D
  <2> QED BY <1>1, LeastOne
<1>3. PICK x \in S : d = b - x
  OBVIOUS
<1>4. \A y \in S : y <= x
  BY <1>2, <1>3
<1> QED BY <1>4

\* Shifted is the function its definition says it is.
LEMMA ShiftedDef ==
    Shifted[0] = 1 /\ \A k \in Nat \ {0} : Shifted[k] = 2 * Shifted[k - 1]
<1> DEFINE Upto(n, g) == /\ g \in [0..n -> Nat] /\ g[0] = 1
                         /\ \A k \in 1..n : g[k] = 2 * g[k - 1]
<1>1. \A n \in Nat : \E g : Upto(n, g)
  <2> DEFINE S == {n \in Nat : ~ \E g : Upto(n, g)}
  <2> SUFFICES ASSUME S # {} PROVE FALSE
    BY Zenon
  <2>1. PICK n \in S : \A m \in S : n <= m
    <3>1. S \in SUBSET Nat
      OBVIOUS
    <3> HIDE DEF S
    <3> QED BY <3>1, LeastOne
  <2>2. CASE n = 0
    <3>1. Upto(0, [k \in 0..0 |-> 1])
      OBVIOUS
    <3> HIDE DEF Upto
    <3> QED BY <2>1, <2>2, <3>1, Zenon
  <2>3. CASE n # 0
    <3>0. n \in Nat
      OBVIOUS
    <3>1. n - 1 \in Nat /\ n - 1 \notin S
      <4> HIDE DEF S
      <4> QED BY <2>1, <2>3, <3>0
    <3>2. PICK g : Upto(n - 1, g)
      <4> HIDE DEF Upto
      <4> QED BY <3>1
    <3>3. Upto(n, [k \in 0..n |-> IF k = n THEN 2 * g[n - 1] ELSE g[k]])
      BY <2>3, <3>1, <3>2
    <3> HIDE DEF Upto
    <3> QED BY <2>1, <3>3, Zenon
  <2> QED BY <2>2, <2>3
<1>2. ASSUME NEW m \in Nat, NEW n \in Nat, m <= n, NEW g, NEW h, Upto(m, g), Upto(n, h)
      PROVE  g[m] = h[m]
  <2> DEFINE S == {k \in 0..m : g[k] # h[k]}
  <2>1. ASSUME S # {} PROVE FALSE
    <3>1. PICK k \in S : \A j \in S : k <= j
      <4>1. S \in SUBSET Nat
        OBVIOUS
      <4> HIDE DEF S
      <4> QED BY <2>1, <4>1, LeastOne
    <3>2. k \in 1..m /\ k \in 1..n /\ k - 1 \in 0..m
      BY <1>2
    <3>3. g[k - 1] = h[k - 1]
      BY <3>1, <3>2
    <3> QED BY <1>2, <3>1, <3>2, <3>3
  <2>2. m \notin S
    BY <2>1, Zenon
  <2> QED BY <2>2
<1> DEFINE F == [n \in Nat |-> (CHOOSE g : Upto(n, g))[n]]
<1>3. F[0] = 1
  BY <1>1
<1>4. ASSUME NEW k \in Nat \ {0} PROVE F[k] = 2 * F[k - 1]
  <2>1. PICK g : Upto(k, g) /\ F[k] = g[k]
    BY <1>1
  <2>2. PICK h : Upto(k - 1, h) /\ F[k - 1] = h[k - 1]
    <3>1. k - 1 \in Nat
      OBVIOUS
    <3> HIDE DEF Upto
    <3> QED BY <1>1, <3>1
  <2>3. g[k] = 2 * g[k - 1]
    BY <2>1
  <2>4. Upto(k - 1, [i \in 0..(k - 1) |-> g[i]])
    BY <2>1
  <2>5. h[k - 1] = [i \in 0..(k - 1) |-> g[i]][k - 1]
    <3> HIDE DEF Upto, F
    <3> QED BY <1>2, <2>2, <2>4
  <2> QED BY <2>1, <2>2, <2>3, <2>5
<1>5. F = [k \in Nat |-> IF k = 0 THEN 1 ELSE 2 * F[k - 1]]
  <2>1. \A k \in Nat : F[k] = IF k = 0 THEN 1 ELSE 2 * F[k - 1]
    <3> HIDE DEF F
    <3> QED BY <1>3, <1>4
  <2>2. F = [k \in Nat |-> F[k]]
    OBVIOUS
  <2> HIDE DEF F
  <2> QED BY <2>1, <2>2, Zenon
<1>6. Shifted = CHOOSE f : f = [k \in Nat |-> IF k = 0 THEN 1 ELSE 2 * f[k - 1]]
  BY DEF Shifted
<1>7. Shifted = [k \in Nat |-> IF k = 0 THEN 1 ELSE 2 * Shifted[k - 1]]
  <2> HIDE DEF F
  <2> QED BY <1>5, <1>6
<1> QED BY <1>7

\* It grows faster than its argument.
LEMMA ShiftedGrows == \A k \in Nat : Shifted[k] \in Nat /\ k < Shifted[k]
<1> DEFINE S == {k \in Nat : ~(Shifted[k] \in Nat /\ k < Shifted[k])}
<1>1. S = {}
  <2> SUFFICES ASSUME S # {} PROVE FALSE
    OBVIOUS
  <2>1. PICK k \in S : \A j \in S : k <= j
    <3>1. S \in SUBSET Nat
      OBVIOUS
    <3> HIDE DEF S
    <3> QED BY <3>1, LeastOne
  <2>2. k \in Nat /\ k # 0
    BY ShiftedDef
  <2>3. k - 1 \in Nat /\ k - 1 \notin S
    <3> HIDE DEF S
    <3> QED BY <2>1, <2>2
  <2>4. Shifted[k - 1] \in Nat /\ k - 1 < Shifted[k - 1]
    BY <2>3
  <2>5. Shifted[k] = 2 * Shifted[k - 1]
    BY <2>2, ShiftedDef
  <2> QED BY <2>2, <2>4, <2>5
<1> QED BY <1>1

\* The loop that doubles a capacity ends above the need, and has lost nothing.
LEMMA DoubledFact ==
    ASSUME NEW c \in Nat \ {0}, NEW need \in Nat
    PROVE  Doubled(c, need) \in Nat /\ Doubled(c, need) > need /\ Doubled(c, need) >= c
<1> DEFINE S == {k \in Nat : c * Shifted[k] > need}
           Good(d) == d > need /\ (d = c \/ d <= 2 * need)
<1>1. need \in S
  <2>1. Shifted[need] \in Nat /\ need < Shifted[need]
    BY ShiftedGrows
  <2>2. \A x \in Nat : c * x >= x
    OBVIOUS
  <2> QED BY <2>1, <2>2
<1>2. PICK k \in S : \A j \in S : k <= j
  <2>1. S \in SUBSET Nat /\ S # {}
    BY <1>1
  <2> HIDE DEF S
  <2> QED BY <2>1, LeastOne
<1>3. k \in 0..need
  BY <1>1, <1>2
<1>4. Good(c * Shifted[k])
  <2>1. c * Shifted[k] > need
    OBVIOUS
  <2>2. CASE k = 0
    BY <2>1, <2>2, ShiftedDef
  <2>3. CASE k # 0
    <3>1. k - 1 \in Nat /\ k - 1 \notin S
      <4>1. k \in Nat
        BY <1>3
      <4> HIDE DEF S
      <4> QED BY <1>2, <2>3, <4>1
    <3>2. Shifted[k - 1] \in Nat /\ ~(c * Shifted[k - 1] > need)
      BY <3>1, ShiftedGrows
    <3>3. Shifted[k] = 2 * Shifted[k - 1]
      BY <2>3, <1>3, ShiftedDef
    <3>4. c * Shifted[k] = 2 * (c * Shifted[k - 1]) /\ c * Shifted[k - 1] \in Nat
      BY <3>2, <3>3
    <3> QED BY <2>1, <3>2, <3>4
  <2> QED BY <2>2, <2>3
<1>5. PICK j \in 0..need : Doubled(c, need) = c * Shifted[j] /\ Good(Doubled(c, need))
  <2>1. c * Shifted[k] \in {c * Shifted[i] : i \in 0..need}
    BY <1>3
  <2>2. Doubled(c, need) = CHOOSE d \in {c * Shifted[i] : i \in 0..need} : Good(d)
    BY DEF Doubled
  <2> HIDE DEF Good
  <2> QED BY <1>4, <2>1, <2>2
<1>6. Shifted[j] \in Nat /\ Shifted[j] >= 1
  BY ShiftedGrows
<1>7. \A x \in Nat : x >= 1 => c * x >= c /\ c * x \in Nat
  OBVIOUS
<1> QED BY <1>5, <1>6, <1>7

\* A copy that goes down reads within the bytes it copies.
LEMMA DownwardFact ==
    ASSUME NEW len \in Nat, NEW s \in Nat \ {0}, NEW i \in 0..(len - 1)
    PROVE  i + s * ((len - 1 - i) \div s + 1) \in s..(s + len - 1)
<1>1. \A a \in Nat : a \div s \in Nat /\ s * (a \div s) <= a /\ s * (a \div s) \in Nat
  OBVIOUS
<1>2. PICK q \in Nat : q = (len - 1 - i) \div s /\ s * q <= len - 1 - i /\ s * q \in Nat
  BY <1>1
<1>3. s * (q + 1) = s * q + s
  OBVIOUS
<1> QED BY <1>2, <1>3

-----------------------------------------------------------------------------
(* The output buffer.                                                      *)

USE InitCapAssumption, LengthsAssumption

\* Moving the bytes that wait stays within the memory, in either direction.
LEMMA MovedTyped ==
    ASSUME TypeOK, NEW m \in Moved
    PROVE  m \in [0..(cap - 1) -> 0..MaxBytes]
<1>1. /\ start \in Nat /\ end \in Nat /\ cap \in Nat /\ start <= end /\ end <= cap - 1
      /\ mem \in [0..(cap - 1) -> 0..MaxBytes] /\ Live = end - start /\ Live \in Nat
  BY DEF TypeOK, Live
<1>2. Upward \in [0..(cap - 1) -> 0..MaxBytes]
  <2>1. \A i \in 0..(cap - 1) : i < Live => i + start \in 0..(cap - 1)
    BY <1>1
  <2> QED BY <1>1, <2>1 DEF Upward
<1>3. ASSUME Overlaps PROVE Clobbered \in [0..(cap - 1) -> 0..MaxBytes]
  <2> DEFINE from(i) == i + start * ((Live - 1 - i) \div start + 1)
  <2>1. start \in Nat \ {0}
    BY <1>1, <1>3 DEF Overlaps
  <2>2. ASSUME NEW i \in 0..(cap - 1), i < Live PROVE from(i) \in 0..(cap - 1)
    <3>1. from(i) \in start..(start + Live - 1)
      <4>1. i \in 0..(Live - 1) /\ Live \in Nat
        BY <1>1, <2>2
      <4> QED BY <2>1, <4>1, DownwardFact, Zenon
    <3> HIDE DEF from
    <3> QED BY <1>1, <3>1
  <2>3. Clobbered = [i \in 0..(cap - 1) |-> IF i < Live THEN mem[from(i)] ELSE mem[i]]
    BY <1>1 DEF Clobbered
  <2> HIDE DEF from
  <2> QED BY <1>1, <2>2, <2>3
<1> QED BY <1>2, <1>3 DEF Moved

\* A memory of which the first c bytes are copied and n bytes are written behind the
\* first e ones.
Written(m, c, e, n, a, size) ==
    [i \in 0..(size - 1) |-> IF i \in e..(e + n - 1) THEN a + 1 + (i - e)
                             ELSE IF i < c THEN m[i] ELSE 0]

LEMMA WrittenTyped ==
    ASSUME NEW c \in Nat, NEW m \in [0..(c - 1) -> 0..MaxBytes],
           NEW e \in Nat, NEW n \in Nat, NEW a \in Nat, a + n <= MaxBytes, NEW size \in Nat
    PROVE  Written(m, c, e, n, a, size) \in [0..(size - 1) -> 0..MaxBytes]
<1>1. ASSUME NEW i \in 0..(size - 1), i \in e..(e + n - 1) PROVE a + 1 + (i - e) \in 0..MaxBytes
  BY <1>1
<1>2. ASSUME NEW i \in 0..(size - 1), i < c PROVE m[i] \in 0..MaxBytes
  BY <1>2
<1>3. 0 \in 0..MaxBytes
  OBVIOUS
<1> QED BY <1>1, <1>2, <1>3 DEF Written

\* What an append does to the memory: the bytes that wait, moved or not, then the new
\* ones.
LEMMA PutFact ==
    ASSUME TypeOK, NEW n \in Lengths, SendResponse(n)
    PROVE  /\ TypeOK'
           /\ Live' = Live + n /\ accepted' = accepted + n
           /\ \A i \in 1..n : mem'[start' + Live + i - 1] = accepted + i
           /\ \/ \A i \in 1..Live : mem'[start' + i - 1] = mem[start + i - 1]
              \/ Overlaps /\ start' = 0
<1>1. /\ start \in Nat /\ end \in Nat /\ cap \in Nat /\ start <= end /\ end <= cap - 1
      /\ Live = end - start /\ Live \in Nat
      /\ accepted \in Nat /\ n \in Nat /\ n >= 1 /\ accepted + n <= MaxBytes /\ MaxBytes \in Nat
  BY DEF TypeOK, Live, SendResponse
<1>2. mem \in [0..(cap - 1) -> 0..MaxBytes]
  BY DEF TypeOK
<1>3. PICK e \in Nat, s \in Nat, m \in [0..(cap - 1) -> 0..MaxBytes] :
          /\ start' = s /\ end' = e + n /\ cap' = Doubled(cap, e + n)
          /\ e = s + Live /\ e < cap
          /\ mem' = Written(m, cap, e, n, accepted, cap')
          /\ \/ \A i \in 1..Live : m[s + i - 1] = mem[start + i - 1]
             \/ Overlaps /\ s = 0
  <2>1. CASE end + n >= cap
    <3>1. start' = 0 /\ end' = Live + n /\ cap' = Doubled(cap, Live + n)
      BY <2>1 DEF SendResponse
    <3>2. PICK m \in Moved : mem' = Written(m, cap, Live, n, accepted, cap')
      BY <2>1 DEF SendResponse, Written
    <3>3. m \in [0..(cap - 1) -> 0..MaxBytes]
      BY <3>2, MovedTyped
    <3>4. ASSUME ~Overlaps, NEW i \in 1..Live PROVE m[0 + i - 1] = mem[start + i - 1]
      <4>1. m = [k \in 0..(cap - 1) |-> IF k < Live THEN mem[k + start] ELSE mem[k]]
        BY <1>2, <3>4 DEF Moved, Upward
      <4>2. i - 1 \in 0..(cap - 1) /\ i - 1 < Live /\ (i - 1) + start = start + i - 1
        BY <1>1
      <4> QED BY <4>1, <4>2
    <3>5. Live = 0 + Live /\ Live < cap /\ Live \in Nat /\ 0 \in Nat
      BY <1>1
    <3>6. (\A i \in 1..Live : m[0 + i - 1] = mem[start + i - 1]) \/ (Overlaps /\ 0 = 0)
      BY <3>4
    <3> QED BY <3>1, <3>2, <3>3, <3>5, <3>6, Zenon
  <2>2. CASE ~(end + n >= cap)
    <3>1. start' = start /\ end' = end + n /\ cap' = Doubled(cap, end + n)
      BY <2>2 DEF SendResponse
    <3>2. mem' = Written(mem, cap, end, n, accepted, cap')
      BY <2>2 DEF SendResponse, Written
    <3>3. end = start + Live /\ end < cap
      BY <1>1
    <3> QED BY <1>1, <1>2, <3>1, <3>2, <3>3
  <2> QED BY <2>1, <2>2
<1>4. e + n \in Nat /\ cap \in Nat \ {0}
  BY <1>1
<1>5. PICK size \in Nat : cap' = size /\ size > e + n /\ size >= cap
  BY <1>3, <1>4, DoubledFact
<1>6. /\ mem' \in [0..(size - 1) -> 0..MaxBytes]
      /\ \A i \in 1..n : mem'[e + i - 1] = accepted + i
      /\ \A i \in 0..(e - 1) : mem'[i] = m[i]
  <2> DEFINE w == Written(m, cap, e, n, accepted, size)
  <2>1. /\ e + n <= size /\ cap <= size /\ e < cap /\ accepted + n <= MaxBytes
        /\ cap \in Nat /\ n \in Nat /\ accepted \in Nat
    BY <1>1, <1>3, <1>5
  <2>2. /\ w \in [0..(size - 1) -> 0..MaxBytes]
        /\ \A i \in 1..n : w[e + i - 1] = accepted + i
        /\ \A i \in 0..(e - 1) : w[i] = m[i]
    <3>1. w \in [0..(size - 1) -> 0..MaxBytes]
      BY <2>1, WrittenTyped
    <3>2. ASSUME NEW i \in 1..n PROVE w[e + i - 1] = accepted + i
      <4>1. e + i - 1 \in 0..(size - 1) /\ e + i - 1 \in e..(e + n - 1)
        BY <2>1
      <4>2. w[e + i - 1] = accepted + 1 + (e + i - 1 - e)
        BY <4>1 DEF Written
      <4> HIDE DEF w
      <4> QED BY <2>1, <4>2
    <3>3. ASSUME NEW i \in 0..(e - 1) PROVE w[i] = m[i]
      <4>1. i \in 0..(size - 1) /\ i \notin e..(e + n - 1) /\ i < cap
        BY <2>1
      <4> QED BY <4>1 DEF Written
    <3> HIDE DEF w
    <3> QED BY <3>1, <3>2, <3>3
  <2>3. mem' = w
    BY <1>3, <1>5, Zenon
  <2> HIDE DEF w
  <2> QED BY <2>2, <2>3, Zenon
<1>7. accepted' = accepted + n
  BY DEF SendResponse
<1>8. Live' = Live + n
  BY <1>1, <1>3 DEF Live
<1>9. TypeOK'
  <2>1. s \in 0..(e + n) /\ e + n \in 0..(size - 1) /\ accepted + n \in 0..MaxBytes
    BY <1>1, <1>3, <1>5
  <2>2. size \in Nat \ {0}
    BY <1>5, <2>1
  <2> QED BY <1>3, <1>5, <1>6, <1>7, <2>1, <2>2 DEF TypeOK
<1>10. \A i \in 1..n : mem'[start' + Live + i - 1] = accepted + i
  BY <1>3, <1>6
<1>11. \A i \in 1..Live : mem'[s + i - 1] = m[s + i - 1]
  <2>1. \A i \in 1..Live : s + i - 1 \in 0..(e - 1)
    BY <1>1, <1>3
  <2> QED BY <1>6, <2>1
<1> QED BY <1>3, <1>7, <1>8, <1>9, <1>10, <1>11

\* What a send does: the bytes that stay keep their order, and moving them is safe.
LEMMA SendFact ==
    ASSUME TypeOK, NEW n \in 1..Live, Send(n)
    PROVE  /\ TypeOK'
           /\ Live' = Live - n /\ accepted' = accepted
           /\ \A i \in 1..(Live - n) : mem'[start' + i - 1] = mem[start + n + i - 1]
           /\ SentApart
<1>1. /\ start \in Nat /\ end \in Nat /\ cap \in Nat /\ start <= end /\ end <= cap - 1
      /\ mem \in [0..(cap - 1) -> 0..MaxBytes] /\ Live = end - start /\ Live \in Nat
      /\ n \in Nat /\ n >= 1 /\ n <= Live
  BY DEF TypeOK, Live
<1>2. cap' = cap /\ accepted' = accepted
  BY DEF Send
<1>3. CASE 2 * (start + n) >= cap
  <2>1. /\ start' = 0 /\ end' = Live - n
        /\ mem' = [i \in 0..(cap - 1) |-> IF i < Live - n THEN mem[i + start + n] ELSE mem[i]]
    BY <1>1, <1>3 DEF Send
  <2>2. mem' \in [0..(cap - 1) -> 0..MaxBytes]
    BY <1>1, <2>1
  <2>3. TypeOK'
    BY <1>1, <1>2, <2>1, <2>2 DEF TypeOK
  <2>4. \A i \in 1..(Live - n) : mem'[start' + i - 1] = mem[start + n + i - 1]
    BY <1>1, <2>1
  <2>5. Live' = Live - n
    BY <1>1, <2>1 DEF Live
  <2>6. SentApart
    BY <1>1, <1>3, <2>1 DEF SentApart
  <2> QED BY <1>2, <2>3, <2>4, <2>5, <2>6
<1>4. CASE 2 * (start + n) < cap
  <2>1. start' = start + n /\ end' = end /\ mem' = mem
    BY <1>1, <1>4 DEF Send
  <2>2. TypeOK'
    BY <1>1, <1>2, <2>1 DEF TypeOK
  <2>3. Live' = Live - n
    BY <1>1, <2>1 DEF Live
  <2>4. SentApart
    BY <1>1, <2>1 DEF SentApart
  <2> QED BY <1>1, <1>2, <2>1, <2>2, <2>3, <2>4
<1> QED BY <1>1, <1>3, <1>4

\* The bytes that wait, as a sequence.
OutQ == [i \in 1..Live |-> mem[start + i - 1]]

LEMMA OutQTyped == TypeOK => OutQ \in Seq(0..MaxBytes) /\ Len(OutQ) = Live /\ Live \in Nat
<1> SUFFICES ASSUME TypeOK PROVE OutQ \in Seq(0..MaxBytes) /\ Len(OutQ) = Live /\ Live \in Nat
  OBVIOUS
<1>1. Live \in Nat
  BY DEF TypeOK, Live
<1>2. OutQ \in [1..Live -> 0..MaxBytes]
  BY <1>1 DEF OutQ, TypeOK, Live
<1>3. OutQ \in Seq(0..MaxBytes)
  BY <1>1, <1>2, SeqDef
<1> QED BY <1>1, <1>2, <1>3

\* An output buffer is a queue of bytes, but for an append that moves overlapping
\* regions.
LEMMA QueueStep ==
    ASSUME TypeOK, [Next]_vars
    PROVE  /\ TypeOK'
           /\ [SentApart /\ (Queue!Next \/ (Overlaps /\ start' = 0 /\ accepted' > accepted))]_vars
<1>1. ASSUME NEW n \in Lengths, SendResponse(n)
      PROVE  /\ TypeOK' /\ SentApart
             /\ Queue!Next \/ (Overlaps /\ start' = 0 /\ accepted' > accepted)
  <2>0. accepted \in Nat /\ Live \in Nat /\ n \in Nat /\ n >= 1
    BY DEF TypeOK, Live
  <2>1. /\ TypeOK' /\ Live' = Live + n /\ accepted' = accepted + n /\ n \in Nat /\ n >= 1
        /\ accepted \in Nat /\ Live \in Nat
        /\ \A i \in 1..n : mem'[start' + Live + i - 1] = accepted + i
        /\ \/ \A i \in 1..Live : mem'[start' + i - 1] = mem[start + i - 1]
           \/ Overlaps /\ start' = 0
    BY <1>1, <2>0, PutFact
  <2>2. SentApart
    BY <2>1 DEF SentApart
  <2>3. CASE \A i \in 1..Live : mem'[start' + i - 1] = mem[start + i - 1]
    <3> DEFINE new == [i \in 1..n |-> accepted + i]
    <3>1. new \in Seq(Nat) /\ Len(new) = n /\ \A i \in 1..n : new[i] = accepted + i
      BY <2>1
    <3> HIDE DEF new
    <3>2. /\ OutQ \in Seq(Nat) /\ Len(OutQ) = Live /\ OutQ' \in Seq(Nat) /\ Len(OutQ') = Live + n
      <4>1. 0..MaxBytes \subseteq Nat
        OBVIOUS
      <4>2. OutQ \in Seq(0..MaxBytes) /\ Len(OutQ) = Live
        BY OutQTyped
      <4>3. OutQ' \in Seq(0..MaxBytes) /\ Len(OutQ') = Live'
        <5>1. (TypeOK => OutQ \in Seq(0..MaxBytes) /\ Len(OutQ) = Live)'
          BY OutQTyped, PTL
        <5> QED BY <2>1, <5>1
      <4> QED BY <2>1, <4>1, <4>2, <4>3, SeqMonotonic
    <3>3. /\ OutQ \o new \in Seq(Nat) /\ Len(OutQ \o new) = Live + n
          /\ \A i \in 1..(Live + n) : (OutQ \o new)[i] = IF i <= Live THEN OutQ[i] ELSE new[i - Live]
      BY <3>1, <3>2, ConcatProperties
    <3>4. \A i \in 1..(Live + n) : OutQ'[i] = (OutQ \o new)[i]
      <4> SUFFICES ASSUME NEW i \in 1..(Live + n) PROVE OutQ'[i] = (OutQ \o new)[i]
        OBVIOUS
      <4>1. OutQ'[i] = mem'[start' + i - 1]
        BY <2>1 DEF OutQ
      <4>2. CASE i <= Live
        <5>1. i \in 1..Live
          BY <2>1, <4>2
        <5>2. OutQ[i] = mem[start + i - 1]
          BY <5>1 DEF OutQ
        <5> QED BY <2>3, <3>3, <4>1, <4>2, <5>1, <5>2
      <4>3. CASE i > Live
        <5>1. i - Live \in 1..n /\ start' + Live + (i - Live) - 1 = start' + i - 1
          BY <2>1, <4>3 DEF TypeOK
        <5>2. OutQ'[i] = accepted + (i - Live)
          BY <2>1, <4>1, <5>1
        <5>3. ~(i <= Live)
          BY <2>1, <4>3
        <5>4. (OutQ \o new)[i] = new[i - Live]
          BY <3>3, <5>3, Zenon
        <5> QED BY <3>1, <5>1, <5>2, <5>4
      <4>4. i <= Live \/ i > Live
        BY <2>1
      <4> QED BY <4>2, <4>3, <4>4
    <3>5. OutQ' = OutQ \o new
      BY <3>2, <3>3, <3>4, SeqEqual
    <3>6. Queue!Put(n)
      BY <2>1, <3>5 DEF Queue!Put, OutQ, new
    <3> QED BY <1>1, <2>1, <2>2, <3>6 DEF Queue!Next
  <2> QED BY <2>1, <2>2, <2>3
<1>2. ASSUME NEW n \in 1..Live, Send(n)
      PROVE  TypeOK' /\ SentApart /\ Queue!Next
  <2>1. /\ TypeOK' /\ Live' = Live - n /\ accepted' = accepted /\ SentApart
        /\ \A i \in 1..(Live - n) : mem'[start' + i - 1] = mem[start + n + i - 1]
    BY <1>2, SendFact
  <2>2. /\ OutQ \in Seq(0..MaxBytes) /\ Len(OutQ) = Live /\ Live \in Nat /\ n \in 1..Live
        /\ OutQ' \in Seq(0..MaxBytes) /\ Len(OutQ') = Live - n
    <3>1. (TypeOK => OutQ \in Seq(0..MaxBytes) /\ Len(OutQ) = Live)'
      BY OutQTyped, PTL
    <3> QED BY <2>1, <3>1, OutQTyped
  <2>3. /\ SubSeq(OutQ, n + 1, Live) \in Seq(0..MaxBytes)
        /\ Len(SubSeq(OutQ, n + 1, Live)) = Live - n
        /\ \A i \in 1..(Live - n) : SubSeq(OutQ, n + 1, Live)[i] = OutQ[n + i]
    <3>1. SubSeq(OutQ, n + 1, Live) = [i \in 1..(Live - n) |-> OutQ[n + i]]
      BY <2>2
    <3>2. \A i \in 1..(Live - n) : OutQ[n + i] \in 0..MaxBytes
      <4>1. \A i \in 1..(Live - n) : n + i \in 1..Live
        BY <2>2
      <4> QED BY <2>2, <4>1, ElementOfSeq
    <3>3. Live - n \in Nat
      BY <2>2
    <3> DEFINE q == [i \in 1..(Live - n) |-> OutQ[n + i]]
    <3>4. q \in Seq(0..MaxBytes) /\ Len(q) = Live - n
      BY <3>2, <3>3
    <3> QED BY <3>1, <3>4
  <2>4. \A i \in 1..(Live - n) : OutQ'[i] = OutQ[n + i]
    <3> SUFFICES ASSUME NEW i \in 1..(Live - n) PROVE OutQ'[i] = OutQ[n + i]
      OBVIOUS
    <3>1. OutQ'[i] = mem'[start' + i - 1]
      BY <2>1 DEF OutQ
    <3>2. n + i \in 1..Live /\ start + (n + i) - 1 = start + n + i - 1
      BY <2>2 DEF TypeOK
    <3>3. OutQ[n + i] = mem[start + (n + i) - 1]
      BY <3>2 DEF OutQ
    <3> QED BY <2>1, <3>1, <3>2, <3>3
  <2>5. OutQ' = SubSeq(OutQ, n + 1, Len(OutQ))
    BY <2>2, <2>3, <2>4, SeqEqual
  <2>6. n \in 1..Len(OutQ) /\ n <= Len(OutQ) /\ UNCHANGED accepted
    BY <2>1, <2>2
  <2>7. Queue!Take(n)
    BY <2>5, <2>6, Zenon DEF Queue!Take, OutQ
  <2> QED BY <2>1, <2>6, <2>7, Zenon DEF Queue!Next, OutQ
<1>3. ASSUME UNCHANGED vars PROVE TypeOK'
  BY <1>3 DEF vars, TypeOK
<1> QED BY <1>1, <1>2, <1>3 DEF Next

\* A connection's steps are steps of its output buffer, or leave that alone.
LEMMA StreamSteps == [StreamNext]_allVars => [Next]_vars
BY DEF StreamNext, allVars, vars, Next, Put, Flow, Receive, ReceiveFails

\* No byte is lost, repeated, altered or overtaken in an output buffer, and the copy
\* after a send is one of disjoint regions (send_response, im_send_buffer).
THEOREM OutBufferIsQueue == StreamSpec => IsQueue
<1>1. StreamInit => TypeOK /\ Queue!Init
  <2> SUFFICES ASSUME StreamInit PROVE TypeOK /\ Queue!Init
    OBVIOUS
  <2>1. cap = InitCap /\ start = 0 /\ end = 0 /\ mem = [i \in 0..(InitCap - 1) |-> 0] /\ accepted = 0
    BY DEF StreamInit, Init
  <2>2. TypeOK
    BY <2>1 DEF TypeOK
  <2>3. OutQ \in Seq(0..MaxBytes) /\ Len(OutQ) = 0
    BY <2>1, <2>2, OutQTyped DEF Live
  <2>4. OutQ = <<>>
    BY <2>3
  <2> QED BY <2>1, <2>2, <2>4 DEF Queue!Init, OutQ
<1>2. TypeOK /\ [StreamNext]_allVars =>
          /\ TypeOK'
          /\ [SentApart /\ (Queue!Next \/ (Overlaps /\ start' = 0 /\ accepted' > accepted))]_vars
  BY StreamSteps, QueueStep
<1> QED BY <1>1, <1>2, PTL DEF StreamSpec, IsQueue

-----------------------------------------------------------------------------
(* The input buffer.                                                       *)

USE InCapAssumption

\* The handler gets whole messages, and all that are there.
LEMMA HandledFact ==
    ASSUME NEW e \in Nat, NEW m
    PROVE  /\ Handled(m, e) \in 0..e
           /\ \A j \in 1..e : m[j - 1] \in ends => j <= Handled(m, e)
           /\ (\A j \in 1..e : m[j - 1] \notin ends) => Handled(m, e) = 0
<1> DEFINE last == {j \in 1..e : m[j - 1] \in ends}
<1>1. Handled(m, e) = IF last = {} THEN 0 ELSE CHOOSE j \in last : \A k \in last : k <= j
  BY DEF Handled
<1>2. CASE last = {}
  <2>1. \A j \in 1..e : m[j - 1] \notin ends
    BY <1>2
  <2>2. Handled(m, e) = 0
    <3> HIDE DEF last
    <3> QED BY <1>1, <1>2
  <2> QED BY <2>1, <2>2
<1>3. CASE last # {}
  <2>1. \E j \in last : \A k \in last : k <= j
    <3>1. last \in SUBSET (0..e)
      OBVIOUS
    <3> HIDE DEF last
    <3> QED BY <1>3, <3>1, GreatestOne
  <2>2. Handled(m, e) \in last /\ \A k \in last : k <= Handled(m, e)
    <3> HIDE DEF last
    <3> QED BY <1>1, <1>3, <2>1
  <2> QED BY <2>2
<1> QED BY <1>2, <1>3

\* Moving the bytes that wait stays within the memory, and is right if the regions are
\* disjoint.
LEMMA IMovedFact ==
    ASSUME InTypeOK, NEW m \in IMoved
    PROVE  /\ m \in [0..(icap - 1) -> 0..MaxBytes]
           /\ ~IOverlaps => \A i \in 0..(ILive - 1) : m[i] = imem[istart + i]
<1>1. /\ istart \in Nat /\ iend \in Nat /\ icap \in Nat /\ istart <= iend /\ iend <= icap
      /\ imem \in [0..(icap - 1) -> 0..MaxBytes] /\ ILive = iend - istart /\ ILive \in Nat
  BY DEF InTypeOK, ILive
<1> DEFINE up   == [i \in 0..(icap - 1) |-> IF i < ILive THEN imem[i + istart] ELSE imem[i]]
           from(i) == i + istart * ((ILive - 1 - i) \div istart + 1)
           down == [i \in 0..(icap - 1) |-> IF i < ILive THEN imem[from(i)] ELSE imem[i]]
<1>2. m \in IF IOverlaps THEN {up, down} ELSE {up}
  BY <1>1 DEF IMoved
<1>3. up \in [0..(icap - 1) -> 0..MaxBytes]
  <2>1. \A i \in 0..(icap - 1) : i < ILive => i + istart \in 0..(icap - 1)
    BY <1>1
  <2> QED BY <1>1, <2>1
<1>4. ASSUME IOverlaps PROVE down \in [0..(icap - 1) -> 0..MaxBytes]
  <2>1. istart \in Nat \ {0}
    BY <1>1, <1>4 DEF IOverlaps
  <2>2. ASSUME NEW i \in 0..(icap - 1), i < ILive PROVE from(i) \in 0..(icap - 1)
    <3>1. from(i) \in istart..(istart + ILive - 1)
      <4>1. i \in 0..(ILive - 1) /\ ILive \in Nat
        BY <1>1, <2>2
      <4> QED BY <2>1, <4>1, DownwardFact, Zenon
    <3> HIDE DEF from
    <3> QED BY <1>1, <3>1
  <2> HIDE DEF from
  <2> QED BY <1>1, <2>2
<1>5. ASSUME ~IOverlaps, NEW i \in 0..(ILive - 1) PROVE m[i] = imem[istart + i]
  <2>1. i \in 0..(icap - 1) /\ i < ILive /\ i + istart = istart + i
    BY <1>1
  <2>2. m = up
    BY <1>2, <1>5
  <2> QED BY <2>1, <2>2
<1> HIDE DEF up, down
<1> QED BY <1>2, <1>3, <1>4, <1>5

\* There is room for at least one byte before each recv.
LEMMA GrownFact ==
    ASSUME InTypeOK
    PROVE  /\ Grown(ILive) \in Nat /\ Grown(ILive) > ILive /\ Grown(ILive) >= icap
           /\ ILive \in Nat
           /\ Grown(ILive) = icap \/ (Grown(ILive) = 2 * icap /\ icap < 2 * ILive)
<1>1. /\ istart \in Nat /\ iend \in Nat /\ icap \in Nat /\ icap >= 1
      /\ istart <= iend /\ iend <= icap /\ ILive = iend - istart
  BY DEF InTypeOK, ILive
<1> QED BY <1>1 DEF Grown

\* One receive: all is the memory before the handler has taken the first h bytes.
LEMMA ReceiveFact ==
    ASSUME InTypeOK, NEW n \in 0..Len(wire), Receive(n)
    PROVE  \E c, h \in Nat, all \in [0..(Grown(ILive) - 1) -> 0..MaxBytes] :
               /\ c = Grown(ILive) /\ ILive + n <= c /\ icap' = c /\ n > 0
               /\ h \in 0..(ILive + n) /\ istart' = h /\ iend' = ILive + n
               /\ ~IOverlaps => \A i \in 0..(ILive - 1) : all[i] = imem[istart + i]
               /\ \A i \in 1..n : all[ILive + i - 1] = wire[i]
               /\ \A i \in h..(ILive + n - 1) : all[i] \notin ends
               /\ parsed' = parsed \o [i \in 1..h |-> all[i - 1]]
               /\ imem' = [i \in 0..(c - 1) |-> IF i < h THEN 0 ELSE all[i]]
<1>1. ILive \in Nat /\ Grown(ILive) \in Nat /\ Grown(ILive) > ILive /\ Grown(ILive) >= icap
  BY GrownFact
<1>2. n \in Nat /\ n <= Len(wire) /\ wire \in Seq(0..MaxBytes) /\ icap \in Nat
  BY DEF InTypeOK
<1> DEFINE c   == Grown(ILive)
           all(m) == [i \in 0..(c - 1) |-> IF i < ILive THEN m[i]
                                           ELSE IF i < ILive + n THEN wire[i - ILive + 1] ELSE 0]
<1>3. /\ icap' = c /\ iend' = ILive + n /\ (n = 0 <=> c = ILive) /\ n <= c - ILive
  BY DEF Receive
<1>4. PICK m \in IMoved :
          /\ istart' = Handled(all(m), ILive + n)
          /\ parsed' = parsed \o [i \in 1..istart' |-> all(m)[i - 1]]
          /\ imem' = [i \in 0..(c - 1) |-> IF i < istart' THEN 0 ELSE all(m)[i]]
  <2> DEFINE raw(m) == [i \in 0..(icap' - 1) |-> IF i < ILive THEN m[i]
                                   ELSE IF i < iend' THEN wire[i - ILive + 1] ELSE 0]
  <2>1. PICK m \in IMoved :
            /\ istart' = Handled(raw(m), iend')
            /\ parsed' = parsed \o [i \in 1..istart' |-> raw(m)[i - 1]]
            /\ imem' = [i \in DOMAIN raw(m) |-> IF i < istart' THEN 0 ELSE raw(m)[i]]
    BY Zenon DEF Receive
  <2>2. raw(m) = all(m)
    BY <1>3
  <2>3. DOMAIN all(m) = 0..(c - 1)
    OBVIOUS
  <2> HIDE DEF all, raw
  <2> QED BY <1>3, <2>1, <2>2, <2>3, Zenon
<1>5. /\ m \in [0..(icap - 1) -> 0..MaxBytes]
      /\ ~IOverlaps => \A i \in 0..(ILive - 1) : m[i] = imem[istart + i]
  BY IMovedFact
<1>6. c > ILive /\ c \in Nat /\ c >= icap /\ ILive <= icap /\ n > 0 /\ ILive + n <= c
  <2>1. ILive <= icap
    BY <1>2 DEF InTypeOK, ILive
  <2> QED BY <1>1, <1>2, <1>3, <2>1
<1> HIDE DEF c
<1>7. all(m) \in [0..(c - 1) -> 0..MaxBytes]
  <2>1. ASSUME NEW i \in 0..(c - 1), i < ILive PROVE m[i] \in 0..MaxBytes
    <3>1. i \in 0..(icap - 1)
      BY <1>1, <1>2, <1>6, <2>1
    <3> QED BY <1>5, <3>1
  <2>2. ASSUME NEW i \in 0..(c - 1), ~(i < ILive), i < ILive + n
        PROVE  wire[i - ILive + 1] \in 0..MaxBytes
    <3>1. i - ILive + 1 \in 1..Len(wire)
      BY <1>1, <1>2, <1>6, <2>2
    <3> QED BY <1>2, <3>1, ElementOfSeq
  <2>3. 0 \in 0..MaxBytes
    OBVIOUS
  <2> QED BY <2>1, <2>2, <2>3
<1>8. ASSUME ~IOverlaps, NEW i \in 0..(ILive - 1) PROVE all(m)[i] = imem[istart + i]
  <2>1. i \in 0..(c - 1) /\ i < ILive
    BY <1>1, <1>6
  <2> QED BY <1>5, <1>8, <2>1
<1>9. ASSUME NEW i \in 1..n PROVE all(m)[ILive + i - 1] = wire[i]
  <2>1. /\ ILive + i - 1 \in 0..(c - 1) /\ ~(ILive + i - 1 < ILive) /\ ILive + i - 1 < ILive + n
        /\ (ILive + i - 1) - ILive + 1 = i
    BY <1>1, <1>2, <1>6
  <2> QED BY <2>1
<1> HIDE DEF all
<1>10. PICK h \in Nat : /\ istart' = h /\ h \in 0..(ILive + n)
                        /\ \A j \in 1..(ILive + n) : all(m)[j - 1] \in ends => j <= h
  <2>1. ILive + n \in Nat
    BY <1>1, <1>2
  <2>2. /\ Handled(all(m), ILive + n) \in 0..(ILive + n)
        /\ \A j \in 1..(ILive + n) : all(m)[j - 1] \in ends => j <= Handled(all(m), ILive + n)
    BY <2>1, HandledFact
  <2> QED BY <1>4, <2>1, <2>2
<1>11. ASSUME NEW i \in h..(ILive + n - 1) PROVE all(m)[i] \notin ends
  <2>1. i + 1 \in 1..(ILive + n) /\ ~(i + 1 <= h) /\ (i + 1) - 1 = i
    BY <1>1, <1>2, <1>10
  <2> QED BY <1>10, <2>1
<1>12. /\ parsed' = parsed \o [i \in 1..h |-> all(m)[i - 1]]
       /\ imem' = [i \in 0..(c - 1) |-> IF i < h THEN 0 ELSE all(m)[i]]
  BY <1>4, <1>10
<1> QED BY <1>3, <1>6, <1>7, <1>8, <1>9, <1>10, <1>11, <1>12, Zenon DEF c

\* One receive that fails.
LEMMA FailFact ==
    ASSUME InTypeOK, ReceiveFails
    PROVE  \E c \in Nat :
               /\ c = Grown(ILive) /\ icap' = c /\ istart' = 0
               /\ iend' = IF ILive = 0 THEN 0 ELSE ILive - 1
               /\ imem' \in [0..(c - 1) -> 0..MaxBytes]
               /\ ~IOverlaps => \A i \in 0..(ILive - 1) : imem'[i] = imem[istart + i]
<1>1. ILive \in Nat /\ Grown(ILive) \in Nat /\ Grown(ILive) > ILive /\ Grown(ILive) >= icap
  BY GrownFact
<1>2. ILive <= icap /\ icap \in Nat
  BY DEF InTypeOK, ILive
<1> DEFINE c == Grown(ILive)
<1>3. /\ icap' = c /\ istart' = 0 /\ iend' = IF ILive = 0 THEN 0 ELSE ILive - 1
  BY DEF ReceiveFails
<1>4. PICK m \in IMoved : imem' = [i \in 0..(c - 1) |-> IF i < ILive THEN m[i] ELSE 0]
  BY <1>3, Zenon DEF ReceiveFails
<1>5. /\ m \in [0..(icap - 1) -> 0..MaxBytes]
      /\ ~IOverlaps => \A i \in 0..(ILive - 1) : m[i] = imem[istart + i]
  BY IMovedFact
<1>6. c > ILive /\ c \in Nat
  BY <1>1
<1> HIDE DEF c
<1>7. imem' \in [0..(c - 1) -> 0..MaxBytes]
  <2>1. ASSUME NEW i \in 0..(c - 1), i < ILive PROVE m[i] \in 0..MaxBytes
    <3>1. i \in 0..(icap - 1)
      BY <1>1, <1>2, <1>6, <2>1
    <3> QED BY <1>5, <3>1
  <2>2. 0 \in 0..MaxBytes
    OBVIOUS
  <2> QED BY <1>4, <2>1, <2>2
<1>8. ASSUME ~IOverlaps, NEW i \in 0..(ILive - 1) PROVE imem'[i] = imem[istart + i]
  <2>1. i \in 0..(c - 1) /\ i < ILive
    BY <1>1, <1>6
  <2> QED BY <1>4, <1>5, <1>8, <2>1
<1> QED BY <1>3, <1>6, <1>7, <1>8, Zenon DEF c

-----------------------------------------------------------------------------
(* Both ends.                                                              *)

\* A message ends within its length of any byte.
EndsOK ==
    /\ ends \subseteq 1..accepted
    /\ \A b \in 0..(accepted - 1) : \E e \in ends, n \in Lengths : b < e /\ e <= b + n

\* The bytes that wait at the sender are the last ones.
OutOrder == \A i \in 1..Live : mem[start + i - 1] = (accepted - Live) + i

\* Those on their way lie between the ones at the receiver and the ones at the sender.
WireOrder ==
    state = "open" =>
        /\ Len(parsed) + ILive + Len(wire) + Live = accepted
        /\ \A i \in DOMAIN wire : wire[i] = (Len(parsed) + ILive) + i

\* The bytes that wait at the receiver follow the ones that were handled, and none of
\* them ends a message.
InOrder ==
    /\ Len(parsed) + ILive <= accepted
    /\ \A i \in DOMAIN parsed : parsed[i] = i
    /\ \A i \in istart..(iend - 1) : imem[i] = Len(parsed) + (i - istart) + 1 /\ imem[i] \notin ends

InBounded == icap <= InCap \/ icap < 4 * Longest

\* The inductive invariant.
StreamInv ==
    /\ TypeOK /\ InTypeOK /\ state # "dropped" /\ EndsOK
    /\ overlap \/ (OutOrder /\ WireOrder /\ InOrder /\ InBounded)

LEMMA LongestFact == \A n \in Lengths : Longest \in Nat /\ n \in Nat /\ n <= Longest
<1> SUFFICES ASSUME NEW n \in Lengths PROVE Longest \in Nat /\ n \in Nat /\ n <= Longest
  OBVIOUS
<1>1. Lengths \in SUBSET (0..MaxBytes) /\ Lengths # {} /\ MaxBytes \in Nat
  OBVIOUS
<1>2. \E x \in Lengths : \A k \in Lengths : k <= x
  BY <1>1, GreatestOne
<1>3. Longest \in Lengths /\ \A k \in Lengths : k <= Longest
  BY <1>2 DEF Longest
<1> QED BY <1>1, <1>3

\* What is left of a sequence when its first n elements are taken.
LEMMA RestFact ==
    ASSUME NEW S, NEW s \in Seq(S), NEW n \in 0..Len(s)
    PROVE  /\ SubSeq(s, n + 1, Len(s)) \in Seq(S)
           /\ Len(SubSeq(s, n + 1, Len(s))) = Len(s) - n
           /\ \A i \in 1..(Len(s) - n) : SubSeq(s, n + 1, Len(s))[i] = s[n + i]
<1> DEFINE q == [i \in 1..(Len(s) - n) |-> s[n + i]]
<1>1. SubSeq(s, n + 1, Len(s)) = q
  OBVIOUS
<1>2. \A i \in 1..(Len(s) - n) : s[n + i] \in S
  <2>1. \A i \in 1..(Len(s) - n) : n + i \in 1..Len(s)
    OBVIOUS
  <2> QED BY <2>1, ElementOfSeq
<1>3. Len(s) - n \in Nat
  OBVIOUS
<1>4. q \in Seq(S) /\ Len(q) = Len(s) - n
  BY <1>2, <1>3
<1> QED BY <1>1, <1>4

LEMMA StreamInitially == StreamInit => StreamInv
<1> SUFFICES ASSUME StreamInit PROVE StreamInv
  OBVIOUS
<1>1. /\ cap = InitCap /\ start = 0 /\ end = 0 /\ mem = [i \in 0..(InitCap - 1) |-> 0] /\ accepted = 0
      /\ ends = {} /\ wire = <<>> /\ imem = [i \in 0..(InCap - 1) |-> 0] /\ icap = InCap
      /\ istart = 0 /\ iend = 0 /\ parsed = <<>> /\ state = "open" /\ overlap = FALSE
  BY DEF StreamInit, Init
<1>2. TypeOK
  BY <1>1 DEF TypeOK
<1>3. InTypeOK
  <2>1. <<>> \in Seq(0..MaxBytes)
    OBVIOUS
  <2>2. 0 \in 0..MaxBytes
    OBVIOUS
  <2>3. imem \in [0..(icap - 1) -> 0..MaxBytes]
    BY <1>1, <2>2
  <2>4. icap \in Nat \ {0} /\ istart \in 0..iend /\ iend \in 0..icap
    BY <1>1
  <2> QED BY <1>1, <2>1, <2>3, <2>4 DEF InTypeOK
<1>4. EndsOK
  BY <1>1 DEF EndsOK
<1>5. Live = 0 /\ ILive = 0 /\ Len(parsed) = 0 /\ Len(wire) = 0 /\ DOMAIN wire = {} /\ DOMAIN parsed = {}
  BY <1>1 DEF Live, ILive
<1>6. OutOrder
  BY <1>5 DEF OutOrder
<1>7. WireOrder
  BY <1>1, <1>5 DEF WireOrder
<1>8. InOrder
  BY <1>1, <1>5 DEF InOrder
<1>9. InBounded
  BY <1>1 DEF InBounded
<1> QED BY <1>1, <1>2, <1>3, <1>4, <1>6, <1>7, <1>8, <1>9 DEF StreamInv

\* Putting a message in.
LEMMA PutKeeps ==
    ASSUME StreamInv, NEW n \in Lengths, Put(n)
    PROVE  StreamInv'
<1>1. /\ TypeOK /\ InTypeOK /\ state # "dropped" /\ EndsOK
      /\ overlap \/ (OutOrder /\ WireOrder /\ InOrder /\ InBounded)
  BY DEF StreamInv
<1>2. /\ n \in Nat /\ n >= 1 /\ accepted \in Nat /\ accepted + n <= MaxBytes /\ Live \in Nat /\ MaxBytes \in Nat
  BY <1>1 DEF TypeOK, Live, Put, SendResponse
<1>3. /\ TypeOK' /\ Live' = Live + n /\ accepted' = accepted + n
      /\ \A i \in 1..n : mem'[start' + Live + i - 1] = accepted + i
      /\ \/ \A i \in 1..Live : mem'[start' + i - 1] = mem[start + i - 1]
         \/ Overlaps /\ start' = 0
  BY <1>1, PutFact DEF Put
<1>4. /\ ends' = ends \cup {accepted + n} /\ overlap' = (overlap \/ (start' = 0 /\ Overlaps))
      /\ wire' = wire /\ imem' = imem /\ icap' = icap /\ istart' = istart /\ iend' = iend
      /\ parsed' = parsed /\ state' = state
  BY DEF Put, inbuffer
<1>5. EndsOK'
  <2>1. ends' \subseteq 1..accepted'
    BY <1>1, <1>2, <1>3, <1>4 DEF EndsOK
  <2>2. ASSUME NEW b \in 0..(accepted + n - 1)
        PROVE  \E e \in ends', k \in Lengths : b < e /\ e <= b + k
    <3>1. CASE b < accepted
      <4>1. b \in 0..(accepted - 1)
        BY <1>2, <3>1
      <4> QED BY <1>1, <1>4, <4>1 DEF EndsOK
    <3>2. CASE ~(b < accepted)
      <4>1. b < accepted + n /\ accepted + n <= b + n
        BY <1>2, <3>2
      <4> QED BY <1>4, <4>1
    <3> QED BY <3>1, <3>2
  <2>3. accepted' - 1 = accepted + n - 1
    BY <1>2, <1>3
  <2>4. \A b \in 0..(accepted' - 1) : \E e \in ends', k \in Lengths : b < e /\ e <= b + k
    BY <2>2, <2>3
  <2> QED BY <2>1, <2>4 DEF EndsOK
<1>6. InTypeOK'
  <2>1. accepted + n \in 1..MaxBytes
    BY <1>2
  <2> QED BY <1>1, <1>4, <2>1 DEF InTypeOK
<1>7. ASSUME ~overlap' PROVE OutOrder' /\ WireOrder' /\ InOrder' /\ InBounded'
  <2>1. /\ OutOrder /\ WireOrder /\ InOrder /\ InBounded
        /\ \A i \in 1..Live : mem'[start' + i - 1] = mem[start + i - 1]
    BY <1>1, <1>3, <1>4, <1>7
  <2>2. OutOrder'
    <3> SUFFICES ASSUME NEW i \in 1..(Live + n)
                 PROVE  mem'[start' + i - 1] = ((accepted + n) - (Live + n)) + i
      BY <1>3 DEF OutOrder
    <3>1. CASE i <= Live
      <4>1. i \in 1..Live
        BY <1>2, <3>1
      <4>2. mem'[start' + i - 1] = (accepted - Live) + i
        BY <2>1, <4>1 DEF OutOrder
      <4> QED BY <1>2, <4>2
    <3>2. CASE ~(i <= Live)
      <4>1. i - Live \in 1..n
        BY <1>2, <3>2
      <4>2. mem'[start' + Live + (i - Live) - 1] = accepted + (i - Live)
        BY <1>3, <4>1
      <4>3. start' + Live + (i - Live) - 1 = start' + i - 1
        BY <1>2, <1>3 DEF TypeOK
      <4>4. mem'[start' + i - 1] = accepted + (i - Live)
        BY <4>2, <4>3
      <4> QED BY <1>2, <4>4
    <3> QED BY <3>1, <3>2
  <2>3. ILive' = ILive /\ ILive \in Nat /\ Len(wire) \in Nat /\ Len(parsed) \in Nat
    BY <1>1, <1>4 DEF ILive, InTypeOK
  <2>4. WireOrder'
    BY <1>2, <1>3, <1>4, <2>1, <2>3 DEF WireOrder
  <2>5. InOrder'
    <3>1. Len(parsed') + ILive' <= accepted'
      BY <1>2, <1>3, <1>4, <2>1, <2>3 DEF InOrder
    <3>2. ASSUME NEW i \in istart..(iend - 1) PROVE imem[i] \notin ends'
      <4>1. imem[i] = Len(parsed) + (i - istart) + 1 /\ imem[i] \notin ends
        BY <2>1 DEF InOrder
      <4>2. Len(parsed) + (i - istart) + 1 <= accepted
        <5>1. istart \in Nat /\ iend \in Nat /\ Len(parsed) \in Nat /\ Len(parsed) + (iend - istart) <= accepted
          BY <1>1, <2>1, <2>3 DEF InOrder, InTypeOK, ILive
        <5> QED BY <1>2, <5>1
      <4>3. Len(parsed) + (i - istart) + 1 # accepted + n
        BY <1>1, <1>2, <2>3, <4>2 DEF InTypeOK
      <4> QED BY <1>4, <4>1, <4>3
    <3> QED BY <1>4, <2>1, <3>1, <3>2 DEF InOrder
  <2>6. InBounded'
    BY <1>4, <2>1 DEF InBounded, Longest
  <2> QED BY <2>2, <2>4, <2>5, <2>6
<1> QED BY <1>1, <1>3, <1>4, <1>5, <1>6, <1>7 DEF StreamInv

\* Sending some of it.
LEMMA FlowKeeps ==
    ASSUME StreamInv, NEW n \in 1..Live, Flow(n)
    PROVE  StreamInv'
<1>1. /\ TypeOK /\ InTypeOK /\ state # "dropped" /\ EndsOK
      /\ overlap \/ (OutOrder /\ WireOrder /\ InOrder /\ InBounded)
  BY DEF StreamInv
<1>2. /\ n \in Nat /\ n >= 1 /\ n <= Live /\ Live \in Nat /\ accepted \in Nat /\ start \in Nat
  BY <1>1 DEF TypeOK, Live
<1>3. /\ TypeOK' /\ Live' = Live - n /\ accepted' = accepted
      /\ \A i \in 1..(Live - n) : mem'[start' + i - 1] = mem[start + n + i - 1]
  BY <1>1, SendFact DEF Flow
<1>4. /\ ends' = ends /\ overlap' = overlap /\ imem' = imem /\ icap' = icap
      /\ istart' = istart /\ iend' = iend /\ parsed' = parsed /\ state' = state
  BY DEF Flow, inbuffer
<1> DEFINE q == [i \in 1..n |-> mem[start + i - 1]]
<1>5. q \in Seq(0..MaxBytes) /\ Len(q) = n
  <2>1. \A i \in 1..n : start + i - 1 \in 0..(cap - 1)
    BY <1>1, <1>2 DEF TypeOK, Live
  <2>2. \A i \in 1..n : mem[start + i - 1] \in 0..MaxBytes
    BY <1>1, <2>1 DEF TypeOK
  <2> QED BY <1>2, <2>2
<1>6. wire' = wire \o q
  BY DEF Flow
<1>7. /\ wire' \in Seq(0..MaxBytes) /\ Len(wire') = Len(wire) + n /\ Len(wire) \in Nat
      /\ \A i \in 1..(Len(wire) + n) : wire'[i] = IF i <= Len(wire) THEN wire[i] ELSE q[i - Len(wire)]
  <2>1. wire \in Seq(0..MaxBytes)
    BY <1>1 DEF InTypeOK
  <2> HIDE DEF q
  <2>2. Len(wire) \in Nat /\ q \in Seq(0..MaxBytes) /\ Len(q) = n
    BY <1>5, <2>1
  <2>3. /\ wire \o q \in Seq(0..MaxBytes) /\ Len(wire \o q) = Len(wire) + Len(q)
        /\ \A i \in 1..(Len(wire) + Len(q)) :
              (wire \o q)[i] = IF i <= Len(wire) THEN wire[i] ELSE q[i - Len(wire)]
    BY <2>1, <2>2, ConcatProperties
  <2> QED BY <1>6, <2>2, <2>3, Zenon
<1>8. EndsOK'
  BY <1>1, <1>3, <1>4 DEF EndsOK
<1>9. InTypeOK'
  BY <1>1, <1>4, <1>7 DEF InTypeOK
<1>10. ASSUME ~overlap' PROVE OutOrder' /\ WireOrder' /\ InOrder' /\ InBounded'
  <2>1. OutOrder /\ WireOrder /\ InOrder /\ InBounded
    BY <1>1, <1>4, <1>10
  <2>2. OutOrder'
    <3> SUFFICES ASSUME NEW i \in 1..(Live - n)
                 PROVE  mem'[start' + i - 1] = (accepted - (Live - n)) + i
      BY <1>3 DEF OutOrder
    <3>1. n + i \in 1..Live /\ start + (n + i) - 1 = start + n + i - 1
      BY <1>2
    <3>2. mem[start + (n + i) - 1] = (accepted - Live) + (n + i)
      BY <2>1, <3>1 DEF OutOrder
    <3>3. (accepted - Live) + (n + i) = (accepted - (Live - n)) + i
      BY <1>2
    <3> QED BY <1>3, <3>1, <3>2, <3>3
  <2>3. ILive' = ILive /\ ILive \in Nat /\ Len(parsed) \in Nat
    BY <1>1, <1>4 DEF ILive, InTypeOK
  <2>4. ASSUME state = "open" PROVE WireOrder'
    <3>1. /\ Len(parsed) + ILive + Len(wire) + Live = accepted
          /\ \A i \in 1..Len(wire) : wire[i] = (Len(parsed) + ILive) + i
      BY <1>1, <2>1, <2>4 DEF WireOrder, InTypeOK
    <3>2. Len(parsed') + ILive' + Len(wire') + Live' = accepted'
      BY <1>2, <1>3, <1>4, <1>7, <2>3, <3>1
    <3>3. ASSUME NEW i \in 1..(Len(wire) + n) PROVE wire'[i] = (Len(parsed) + ILive) + i
      <4>1. CASE i <= Len(wire)
        <5>1. i \in 1..Len(wire)
          BY <1>7, <4>1
        <5> QED BY <1>7, <3>1, <4>1, <5>1
      <4>2. CASE ~(i <= Len(wire))
        <5>1. i - Len(wire) \in 1..n /\ i - Len(wire) \in 1..Live
          BY <1>2, <1>7, <4>2
        <5>2. wire'[i] = q[i - Len(wire)]
          BY <1>7, <4>2
        <5>3. q[i - Len(wire)] = mem[start + (i - Len(wire)) - 1]
          BY <5>1
        <5>4. mem[start + (i - Len(wire)) - 1] = (accepted - Live) + (i - Len(wire))
          BY <2>1, <5>1 DEF OutOrder
        <5>5. (accepted - Live) + (i - Len(wire)) = (Len(parsed) + ILive) + i
          <6>1. Len(wire) \in Nat /\ i \in Nat
            BY <1>7, <5>1
          <6>2. Len(parsed) + ILive + Len(wire) + Live = accepted
            BY <3>1
          <6> QED BY <1>2, <2>3, <6>1, <6>2
        <5> QED BY <5>2, <5>3, <5>4, <5>5
      <4> QED BY <4>1, <4>2
    <3>4. DOMAIN wire' = 1..(Len(wire) + n)
      BY <1>7
    <3>5. \A i \in DOMAIN wire' : wire'[i] = (Len(parsed') + ILive') + i
      BY <1>4, <2>3, <3>3, <3>4
    <3> QED BY <3>2, <3>5 DEF WireOrder
  <2>5. WireOrder'
    BY <1>4, <2>4 DEF WireOrder
  <2>6. InOrder'
    BY <1>3, <1>4, <2>1, <2>3 DEF InOrder
  <2>7. InBounded'
    BY <1>4, <2>1 DEF InBounded, Longest
  <2> QED BY <2>2, <2>5, <2>6, <2>7
<1> QED BY <1>1, <1>3, <1>4, <1>8, <1>9, <1>10 DEF StreamInv

\* The bytes of an input buffer are less than a message, so it need not grow beyond
\* four times the longest one.
LEMMA GrowthBounded ==
    ASSUME TypeOK, InTypeOK, EndsOK, InOrder, InBounded
    PROVE  Grown(ILive) <= InCap \/ Grown(ILive) < 4 * Longest
<1>1. /\ ILive \in Nat /\ icap \in Nat
      /\ Grown(ILive) = icap \/ (Grown(ILive) = 2 * icap /\ icap < 2 * ILive)
  BY GrownFact DEF InTypeOK
<1>2. CASE Grown(ILive) = icap
  BY <1>2 DEF InBounded
<1>3. CASE Grown(ILive) = 2 * icap /\ icap < 2 * ILive
  <2>1. Len(parsed) \in Nat /\ istart \in Nat /\ iend \in Nat /\ accepted \in Nat /\ ILive = iend - istart
    BY DEF InTypeOK, TypeOK, ILive
  <2>2. Len(parsed) + ILive <= accepted
    BY DEF InOrder
  <2>3. Len(parsed) \in 0..(accepted - 1)
    BY <1>1, <1>3, <2>1, <2>2
  <2>4. PICK e \in ends, n \in Lengths : Len(parsed) < e /\ e <= Len(parsed) + n
    BY <2>3 DEF EndsOK
  <2>5. e \in Nat /\ n \in Nat /\ n <= Longest /\ Longest \in Nat
    BY LongestFact DEF InTypeOK
  <2>6. ILive < n
    <3> SUFFICES ASSUME n <= ILive PROVE FALSE
      BY <1>1, <2>5
    <3> DEFINE i == istart + (e - Len(parsed) - 1)
    <3>1. i \in istart..(iend - 1) /\ Len(parsed) + (i - istart) + 1 = e
      BY <1>1, <2>1, <2>4, <2>5
    <3> HIDE DEF i
    <3>2. imem[i] = e /\ imem[i] \notin ends
      BY <3>1 DEF InOrder
    <3> QED BY <3>2
  <2> QED BY <1>1, <1>3, <2>5, <2>6
<1> QED BY <1>1, <1>2, <1>3

\* Receiving, and handling the messages that are complete.
LEMMA ReceiveKeeps ==
    ASSUME StreamInv, NEW n \in 0..Len(wire), Receive(n)
    PROVE  StreamInv'
<1>1. /\ TypeOK /\ InTypeOK /\ state # "dropped" /\ EndsOK
      /\ overlap \/ (OutOrder /\ WireOrder /\ InOrder /\ InBounded)
  BY DEF StreamInv
<1>2. PICK c, h \in Nat, all \in [0..(Grown(ILive) - 1) -> 0..MaxBytes] :
          /\ c = Grown(ILive) /\ ILive + n <= c /\ icap' = c /\ n > 0
          /\ h \in 0..(ILive + n) /\ istart' = h /\ iend' = ILive + n
          /\ ~IOverlaps => \A i \in 0..(ILive - 1) : all[i] = imem[istart + i]
          /\ \A i \in 1..n : all[ILive + i - 1] = wire[i]
          /\ \A i \in h..(ILive + n - 1) : all[i] \notin ends
          /\ parsed' = parsed \o [i \in 1..h |-> all[i - 1]]
          /\ imem' = [i \in 0..(c - 1) |-> IF i < h THEN 0 ELSE all[i]]
  BY <1>1, ReceiveFact
<1>3. /\ ILive \in Nat /\ n \in Nat /\ n <= Len(wire) /\ Len(wire) \in Nat /\ Len(parsed) \in Nat
      /\ wire \in Seq(0..MaxBytes) /\ parsed \in Seq(0..MaxBytes)
  BY <1>1, GrownFact DEF InTypeOK
<1>4. /\ wire' = SubSeq(wire, n + 1, Len(wire)) /\ state = "open" /\ state' = "open"
      /\ overlap' = (overlap \/ IOverlaps) /\ ends' = ends
      /\ mem' = mem /\ cap' = cap /\ start' = start /\ end' = end /\ accepted' = accepted
  BY <1>2 DEF Receive, vars
<1>5. /\ wire' \in Seq(0..MaxBytes) /\ Len(wire') = Len(wire) - n
      /\ \A i \in 1..(Len(wire) - n) : wire'[i] = wire[n + i]
  BY <1>3, <1>4, RestFact
<1> DEFINE q == [i \in 1..h |-> all[i - 1]]
<1>6. q \in Seq(0..MaxBytes) /\ Len(q) = h
  <2>1. \A i \in 1..h : i - 1 \in 0..(c - 1)
    BY <1>2, <1>3
  <2>2. \A i \in 1..h : all[i - 1] \in 0..MaxBytes
    BY <1>2, <2>1
  <2> QED BY <2>2
<1>7. /\ parsed' \in Seq(0..MaxBytes) /\ Len(parsed') = Len(parsed) + h
      /\ \A i \in 1..(Len(parsed) + h) :
            parsed'[i] = IF i <= Len(parsed) THEN parsed[i] ELSE q[i - Len(parsed)]
  <2>1. parsed' = parsed \o q
    BY <1>2
  <2> HIDE DEF q
  <2>2. /\ parsed \o q \in Seq(0..MaxBytes) /\ Len(parsed \o q) = Len(parsed) + Len(q)
        /\ \A i \in 1..(Len(parsed) + Len(q)) :
              (parsed \o q)[i] = IF i <= Len(parsed) THEN parsed[i] ELSE q[i - Len(parsed)]
    BY <1>3, <1>6, ConcatProperties
  <2> QED BY <1>6, <2>1, <2>2, Zenon
<1>8. TypeOK'
  BY <1>1, <1>4 DEF TypeOK
<1>9. EndsOK'
  BY <1>1, <1>4 DEF EndsOK
<1>10. ILive' = ILive + n - h /\ Live' = Live /\ Live \in Nat /\ accepted \in Nat
  BY <1>1, <1>2, <1>3, <1>4 DEF ILive, Live, TypeOK
<1>11. InTypeOK'
  <2>1. imem' \in [0..(c - 1) -> 0..MaxBytes]
    <3>1. 0 \in 0..MaxBytes
      OBVIOUS
    <3> QED BY <1>2, <3>1
  <2>2. c \in Nat \ {0} /\ h \in 0..(ILive + n) /\ ILive + n \in 0..c
    BY <1>2, <1>3
  <2>3. overlap' \in BOOLEAN
    BY <1>1, <1>4 DEF InTypeOK
  <2> QED BY <1>1, <1>2, <1>4, <1>5, <1>7, <2>1, <2>2, <2>3 DEF InTypeOK
<1>12. ASSUME ~overlap' PROVE OutOrder' /\ WireOrder' /\ InOrder' /\ InBounded'
  <2>1. ~overlap /\ ~IOverlaps /\ OutOrder /\ WireOrder /\ InOrder /\ InBounded
    BY <1>1, <1>4, <1>12
  <2>2. /\ Len(parsed) + ILive + Len(wire) + Live = accepted
        /\ \A i \in 1..Len(wire) : wire[i] = (Len(parsed) + ILive) + i
    BY <1>3, <1>4, <2>1 DEF WireOrder
  <2>3. ASSUME NEW i \in 0..(ILive + n - 1) PROVE all[i] = Len(parsed) + i + 1
    <3>1. CASE i < ILive
      <4>1. istart \in Nat /\ iend \in Nat /\ ILive = iend - istart /\ i \in 0..(ILive - 1)
        BY <1>1, <1>3, <3>1 DEF InTypeOK, ILive
      <4>2. all[i] = imem[istart + i]
        BY <1>2, <2>1, <4>1
      <4>3. istart + i \in istart..(iend - 1)
        BY <4>1
      <4>4. imem[istart + i] = Len(parsed) + ((istart + i) - istart) + 1
        BY <2>1, <4>3 DEF InOrder
      <4>5. Len(parsed) + ((istart + i) - istart) + 1 = Len(parsed) + i + 1
        BY <1>3, <4>1
      <4> QED BY <4>2, <4>4, <4>5
    <3>2. CASE ~(i < ILive)
      <4> DEFINE j == i - ILive + 1
      <4>1. j \in 1..n /\ j \in 1..Len(wire) /\ ILive + j - 1 = i /\ (Len(parsed) + ILive) + j = Len(parsed) + i + 1
        BY <1>3, <3>2
      <4> HIDE DEF j
      <4>2. all[ILive + j - 1] = wire[j]
        BY <1>2, <4>1
      <4>3. wire[j] = (Len(parsed) + ILive) + j
        BY <2>2, <4>1
      <4> QED BY <4>1, <4>2, <4>3
    <3> QED BY <3>1, <3>2
  <2>4. OutOrder'
    BY <1>4, <1>10, <2>1 DEF OutOrder
  <2>5. WireOrder'
    <3>1. Len(parsed') + ILive' + Len(wire') + Live' = accepted'
      <4>1. /\ Len(parsed') = Len(parsed) + h /\ ILive' = ILive + n - h
            /\ Len(wire') = Len(wire) - n /\ Live' = Live /\ accepted' = accepted
        BY <1>4, <1>5, <1>7, <1>10
      <4>2. (Len(parsed) + h) + (ILive + n - h) + (Len(wire) - n) + Live = accepted
        <5>1. /\ Len(parsed) \in Nat /\ Len(wire) \in Nat /\ ILive \in Nat /\ Live \in Nat /\ n \in Nat
              /\ Len(parsed) + ILive + Len(wire) + Live = accepted
          BY <1>3, <1>10, <2>2
        <5> QED BY <5>1
      <4> QED BY <4>1, <4>2
    <3>2. ASSUME NEW i \in 1..(Len(wire) - n) PROVE wire'[i] = (Len(parsed') + ILive') + i
      <4>1. n + i \in 1..Len(wire) /\ (Len(parsed) + ILive) + (n + i) = (Len(parsed') + ILive') + i
        BY <1>2, <1>3, <1>7, <1>10
      <4> QED BY <1>5, <2>2, <4>1
    <3>3. DOMAIN wire' = 1..(Len(wire) - n)
      BY <1>5
    <3> QED BY <3>1, <3>2, <3>3 DEF WireOrder
  <2>6. InOrder'
    <3>1. Len(parsed') + ILive' <= accepted'
      BY <1>2, <1>3, <1>4, <1>7, <1>10, <2>2
    <3>2. ASSUME NEW i \in 1..(Len(parsed) + h) PROVE parsed'[i] = i
      <4>1. CASE i <= Len(parsed)
        <5>1. i \in 1..Len(parsed) /\ DOMAIN parsed = 1..Len(parsed)
          BY <1>3, <4>1
        <5> QED BY <1>7, <2>1, <4>1, <5>1 DEF InOrder
      <4>2. CASE ~(i <= Len(parsed))
        <5> DEFINE j == i - Len(parsed)
        <5>1. j \in 1..h /\ j - 1 \in 0..(ILive + n - 1) /\ Len(parsed) + (j - 1) + 1 = i
          BY <1>2, <1>3, <4>2
        <5>2. parsed'[i] = q[j]
          BY <1>7, <4>2
        <5> HIDE DEF j
        <5>3. q[j] = all[j - 1]
          BY <5>1
        <5>4. all[j - 1] = Len(parsed) + (j - 1) + 1
          BY <2>3, <5>1
        <5> QED BY <5>1, <5>2, <5>3, <5>4
      <4> QED BY <4>1, <4>2
    <3> PICK f \in Nat : f = ILive + n /\ iend' = f
      BY <1>2, <1>3
    <3>3. ASSUME NEW i \in h..(f - 1)
          PROVE  imem'[i] = Len(parsed') + (i - h) + 1 /\ imem'[i] \notin ends
      <4>1. i \in h..(ILive + n - 1) /\ i \in 0..(ILive + n - 1) /\ i \in 0..(c - 1) /\ ~(i < h)
        BY <1>2, <1>3
      <4>2. imem'[i] = all[i] /\ all[i] \notin ends
        BY <1>2, <4>1
      <4>3. all[i] = Len(parsed) + i + 1
        BY <2>3, <4>1
      <4>4. Len(parsed) + i + 1 = Len(parsed') + (i - h) + 1
        BY <1>2, <1>3, <1>7, <4>1
      <4> QED BY <4>2, <4>3, <4>4
    <3>4. DOMAIN parsed' = 1..(Len(parsed) + h)
      BY <1>7
    <3>5. \A i \in istart'..(iend' - 1) :
              imem'[i] = Len(parsed') + (i - istart') + 1 /\ imem'[i] \notin ends'
      <4>1. istart' = h /\ iend' = f /\ ends' = ends
        BY <1>2, <1>4
      <4> QED BY <3>3, <4>1
    <3> QED BY <3>1, <3>2, <3>4, <3>5 DEF InOrder
  <2>7. InBounded'
    BY <1>1, <1>2, <2>1, GrowthBounded DEF InBounded, Longest
  <2> QED BY <2>4, <2>5, <2>6, <2>7
<1> QED BY <1>4, <1>8, <1>9, <1>11, <1>12 DEF StreamInv

\* A receive that fails.
LEMMA FailKeeps ==
    ASSUME StreamInv, ReceiveFails
    PROVE  StreamInv'
<1>1. /\ TypeOK /\ InTypeOK /\ state # "dropped" /\ EndsOK
      /\ overlap \/ (OutOrder /\ WireOrder /\ InOrder /\ InBounded)
  BY DEF StreamInv
<1>2. PICK c \in Nat, f \in Nat :
          /\ c = Grown(ILive) /\ icap' = c /\ istart' = 0 /\ iend' = f
          /\ f = IF ILive = 0 THEN 0 ELSE ILive - 1
          /\ imem' \in [0..(c - 1) -> 0..MaxBytes]
          /\ ~IOverlaps => \A i \in 0..(ILive - 1) : imem'[i] = imem[istart + i]
  <2>1. ILive \in Nat
    BY <1>1, GrownFact
  <2>2. (IF ILive = 0 THEN 0 ELSE ILive - 1) \in Nat
    BY <2>1
  <2> QED BY <1>1, <2>2, FailFact
<1>3. ILive \in Nat /\ c > ILive /\ Len(parsed) \in Nat /\ accepted \in Nat
  BY <1>1, <1>2, GrownFact DEF InTypeOK, TypeOK
<1>4. /\ state' \in {"reset", "runaway"} /\ overlap' = (overlap \/ IOverlaps)
      /\ ends' = ends /\ wire' = wire /\ parsed' = parsed
      /\ mem' = mem /\ cap' = cap /\ start' = start /\ end' = end /\ accepted' = accepted
  BY DEF ReceiveFails, vars
<1>5. TypeOK' /\ EndsOK'
  BY <1>1, <1>4 DEF TypeOK, EndsOK
<1>6. InTypeOK'
  <2>1. c \in Nat \ {0} /\ 0 \in 0..f /\ f \in 0..c
    BY <1>2, <1>3
  <2>2. overlap' \in BOOLEAN
    BY <1>1, <1>4 DEF InTypeOK
  <2> QED BY <1>1, <1>2, <1>4, <2>1, <2>2 DEF InTypeOK
<1>7. ASSUME ~overlap' PROVE OutOrder' /\ WireOrder' /\ InOrder' /\ InBounded'
  <2>1. ~IOverlaps /\ OutOrder /\ InOrder /\ InBounded
    BY <1>1, <1>4, <1>7
  <2>2. OutOrder'
    BY <1>4, <2>1 DEF OutOrder, Live
  <2>3. WireOrder'
    BY <1>4 DEF WireOrder
  <2>4. InOrder'
    <3>1. Len(parsed') + ILive' <= accepted'
      <4>1. ILive' = f /\ f <= ILive
        BY <1>2, <1>3 DEF ILive
      <4>2. Len(parsed) + ILive <= accepted
        BY <2>1 DEF InOrder
      <4> QED BY <1>3, <1>4, <4>1, <4>2
    <3>2. ASSUME NEW i \in 0..(f - 1)
          PROVE  imem'[i] = Len(parsed) + (i - 0) + 1 /\ imem'[i] \notin ends
      <4>1. istart \in Nat /\ iend \in Nat /\ ILive = iend - istart /\ i \in 0..(ILive - 1)
        BY <1>1, <1>2, <1>3 DEF InTypeOK, ILive
      <4>2. imem'[i] = imem[istart + i]
        BY <1>2, <2>1, <4>1
      <4>3. istart + i \in istart..(iend - 1)
        BY <4>1
      <4>4. imem[istart + i] = Len(parsed) + ((istart + i) - istart) + 1 /\ imem[istart + i] \notin ends
        BY <2>1, <4>3 DEF InOrder
      <4>5. Len(parsed) + ((istart + i) - istart) + 1 = Len(parsed) + (i - 0) + 1
        BY <1>3, <4>1
      <4> QED BY <4>2, <4>4, <4>5
    <3>3. \A i \in istart'..(iend' - 1) :
              imem'[i] = Len(parsed') + (i - istart') + 1 /\ imem'[i] \notin ends'
      BY <1>2, <1>4, <3>2
    <3> QED BY <1>4, <2>1, <3>1, <3>3 DEF InOrder
  <2>5. InBounded'
    BY <1>1, <1>2, <2>1, GrowthBounded DEF InBounded, Longest
  <2> QED BY <2>2, <2>3, <2>4, <2>5
<1> QED BY <1>4, <1>5, <1>6, <1>7 DEF StreamInv

LEMMA StreamInvariant == StreamSpec => []StreamInv
<1>1. StreamInv /\ [StreamNext]_allVars => StreamInv'
  <2> SUFFICES ASSUME StreamInv, [StreamNext]_allVars PROVE StreamInv'
    OBVIOUS
  <2>1. CASE UNCHANGED allVars
    BY <2>1 DEF allVars, inbuffer, vars, StreamInv, TypeOK, InTypeOK, EndsOK, OutOrder, WireOrder,
                InOrder, InBounded, Live, ILive, Longest
  <2>2. CASE StreamNext
    BY <2>2, PutKeeps, FlowKeeps, ReceiveKeeps, FailKeeps DEF StreamNext
  <2> QED BY <2>1, <2>2
<1> QED BY <1>1, StreamInitially, PTL DEF StreamSpec

\* recv always has room, and the input buffer stays within four times the longest
\* message (im_receive_command).
THEOREM RoomForReceive == StreamSpec => []InputHasRoom
<1>1. StreamInv => InputHasRoom
  BY DEF StreamInv, InputHasRoom, InBounded
<1> QED BY <1>1, StreamInvariant, PTL

\* The handler of one end gets the bytes that were put in at the other, in order
\* (im_send_buffer, im_receive_command).
THEOREM StreamCorrect == StreamSpec => []EndToEnd
<1>1. StreamInv => EndToEnd
  BY DEF StreamInv, EndToEnd, InOrder
<1> QED BY <1>1, StreamInvariant, PTL

\* A recv that fails with bytes in the buffer makes the handler wait, no more
\* (im_receive_command).
THEOREM FailureWaits == StreamSpec => FailureIsWaiting
<1>1. StreamInv /\ [StreamNext]_allVars =>
          [ReceiveFails /\ ILive > 0 => iend' < icap' /\ (Handled(imem', iend') = 0 \/ overlap')]_allVars
  <2> SUFFICES ASSUME StreamInv, ReceiveFails, ILive > 0
               PROVE  iend' < icap' /\ (Handled(imem', iend') = 0 \/ overlap')
    OBVIOUS
  <2>1. StreamInv' /\ TypeOK /\ InTypeOK
    BY FailKeeps DEF StreamInv
  <2>2. ILive \in Nat /\ Grown(ILive) > ILive /\ Grown(ILive) \in Nat
    BY <2>1, GrownFact
  <2>3. icap' = Grown(ILive) /\ istart' = 0 /\ iend' = ILive - 1
    BY <2>2 DEF ReceiveFails
  <2>4. ASSUME ~overlap' PROVE Handled(imem', iend') = 0
    <3>1. \A i \in 0..(ILive - 2) : imem'[i] \notin ends'
      <4>1. InOrder'
        BY <2>1, <2>4 DEF StreamInv
      <4>2. \A i \in istart'..(iend' - 1) : imem'[i] \notin ends'
        BY <4>1 DEF InOrder
      <4>3. \A i \in 0..(ILive - 2) : i \in istart'..(iend' - 1)
        BY <2>2, <2>3
      <4> QED BY <4>2, <4>3
    <3>2. ends' = ends
      BY DEF ReceiveFails
    <3>3. \A j \in 1..(ILive - 1) : imem'[j - 1] \notin ends
      BY <2>2, <3>1, <3>2
    <3>4. ILive - 1 \in Nat
      BY <2>2
    <3> QED BY <2>3, <3>3, <3>4, HandledFact
  <2> QED BY <2>2, <2>3, <2>4
<1> QED BY <1>1, StreamInvariant, PTL DEF StreamSpec, FailureIsWaiting
=============================================================================
