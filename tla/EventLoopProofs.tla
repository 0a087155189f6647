--------------------------- MODULE EventLoopProofs ---------------------------
(***************************************************************************)
(* The connection table, for any number of descriptors, any batch size and *)
(* any backlog.  Descriptors are given out lowest first and slots in the   *)
(* order in which descriptors appear, so slot i is the one of descriptor i *)
(* for good; Table says so, and TableOK follows from it.  The events of a  *)
(* batch are those of connections that are still there because no list has *)
(* a descriptor twice and a connection that is closed leaves the list.     *)
(***************************************************************************)
EXTENDS EventLoop, FiniteSetTheorems, SequenceTheorems, WellFoundedInduction, TLAPS

Table ==
    /\ slots \in Seq(0..NFds)
    /\ new \in 0..Len(slots) /\ Len(slots) \in 0..NFds
    /\ \A i \in 1..Len(slots) : slots[i] = IF i = new THEN 0 ELSE i
    /\ open \subseteq 1..Len(slots)
    /\ peak \in Nat /\ Len(slots) <= peak

-----------------------------------------------------------------------------
(* The least element of a set.                                             *)

\* A set of natural numbers that is not empty has a least one.
LEMMA LeastFact ==
    ASSUME NEW S \in SUBSET Nat, S # {}
    PROVE  Least(S) \in S /\ \A y \in S : Least(S) <= y
<1> DEFINE R == {ss \in Nat \X Nat : ss[1] < ss[2]}
<1>1. IsWellFoundedOn(R, Nat)
  BY NatLessThanWellFounded DEF OpToRel
<1>2. PICK x \in S : \A y \in S : ~ (<<y, x>> \in R)
  BY <1>1, WFMin
<1>3. ASSUME NEW y \in S PROVE x <= y
  <2>1. <<y, x>> \notin R
    BY <1>2
  <2>2. ~(y < x)
    BY <2>1
  <2> QED BY <2>2
<1> QED BY <1>2, <1>3 DEF Least

-----------------------------------------------------------------------------
(* Table is inductive.                                                     *)

\* The slot of a descriptor that has been in use is the one with its number.
LEMMA LookupFact ==
    ASSUME Table, new = 0, NEW f \in Fds
    PROVE  Lookup(f) = IF f <= Len(slots) THEN {f} ELSE {}
BY SizesAssumption DEF Table, Lookup, Fds

\* One more slot is one more descriptor: accept takes a number above those of all
\* slots only when all of them are in use.
LEMMA OneMore ==
    ASSUME Table, new = 0, open # Fds
    PROVE  LET f == Least(Fds \ open)
           IN  /\ f \in Fds /\ f \notin open /\ f <= Len(slots) + 1
               /\ f = Len(slots) + 1 => Cardinality(open \cup {f}) = f
<1> DEFINE n == Len(slots)
           f == Least(Fds \ open)
<1>0. n \in Nat /\ n <= NFds /\ NFds \in Nat /\ open \subseteq 1..n
  BY SizesAssumption DEF Table
<1>1. f \in Fds \ open /\ \A y \in Fds \ open : f <= y
  <2>1. open \subseteq Fds
    BY <1>0 DEF Fds
  <2>2. Fds \ open # {}
    BY <2>1, Zenon
  <2>3. Fds \ open \in SUBSET Nat
    BY <1>0 DEF Fds
  <2> HIDE DEF f
  <2> QED BY <2>2, <2>3, LeastFact DEF f
<1> HIDE DEF n, f
<1>2. /\ f \in Nat /\ f >= 1 /\ f <= NFds /\ f \notin open
      /\ \A y \in Nat : y >= 1 /\ y <= NFds /\ y \notin open => f <= y
  BY <1>0, <1>1 DEF Fds
<1>3. f <= n + 1
  <2>1. CASE n = NFds
    BY <1>0, <1>2, <2>1
  <2>2. CASE n < NFds
    <3>1. n + 1 \notin open
      BY <1>0
    <3> QED BY <1>0, <1>2, <2>2, <3>1
  <2> QED BY <1>0, <2>1, <2>2
<1>4. ASSUME f = n + 1 PROVE Cardinality(open \cup {f}) = f
  <2>1. ASSUME NEW x \in 1..n PROVE x \in open
    BY <1>0, <1>2, <1>4
  <2>2. open \cup {f} \subseteq 1..f
    BY <1>0, <1>2, <1>4
  <2>3. 1..f \subseteq open \cup {f}
    <3> SUFFICES ASSUME NEW x \in 1..f PROVE x \in open \cup {f}
      OBVIOUS
    <3>1. x = f \/ x \in 1..n
      BY <1>0, <1>2, <1>4
    <3> QED BY <2>1, <3>1
  <2>4. Cardinality(1..f) = f
    BY <1>2, FS_Interval
  <2>5. open \cup {f} = 1..f
    BY <2>2, <2>3, Zenon
  <2> QED BY <2>4, <2>5
<1> QED BY <1>1, <1>3, <1>4 DEF n, f

LEMMA TableInit == Init => Table
BY SizesAssumption DEF Init, Table

LEMMA AcceptTable == Table /\ Accept => Table'
<1> SUFFICES ASSUME Table, Accept PROVE Table'
  OBVIOUS
<1> DEFINE f == Least(Fds \ open)
<1>1. new = 0 /\ open # Fds /\ new' = f /\ open' = open \cup {f} /\ slots' = PickSlot(f)
  BY DEF Accept
<1>2. /\ f \in Fds /\ f \notin open /\ f <= Len(slots) + 1
      /\ f = Len(slots) + 1 => Cardinality(open \cup {f}) = f
  BY <1>1, OneMore
<1>3. peak' = IF Cardinality(open') > peak THEN Cardinality(open') ELSE peak
  BY DEF Accept
<1>4. Lookup(f) = IF f <= Len(slots) THEN {f} ELSE {}
  BY <1>1, <1>2, LookupFact
<1> HIDE DEF f
<1>5. CASE f = Len(slots) + 1
  <2>1. slots' = Append(slots, 0)
    BY <1>1, <1>2, <1>4, <1>5 DEF PickSlot, Table
  <2>2. Cardinality(open') = f
    BY <1>1, <1>2, <1>5
  <2>3. peak' \in Nat /\ f <= peak'
    <3>0. peak' = IF f > peak THEN f ELSE peak
      BY <1>3, <2>2
    <3>1. f \in Nat /\ peak \in Nat
      BY <1>2, SizesAssumption DEF Table, Fds
    <3> QED BY <3>0, <3>1
  <2>4. slots' \in Seq(0..NFds) /\ Len(slots') = f /\ slots'[f] = 0
        /\ \A i \in 1..Len(slots) : slots'[i] = i
    <3>1. slots \in Seq(0..NFds) /\ 0 \in 0..NFds
      BY SizesAssumption DEF Table
    <3>2. \A i \in 1..Len(slots) : slots[i] = i
      BY <1>1 DEF Table
    <3>3. /\ slots' \in Seq(0..NFds) /\ Len(slots') = Len(slots) + 1
          /\ slots'[Len(slots) + 1] = 0 /\ \A i \in 1..Len(slots) : slots'[i] = slots[i]
      BY <2>1, <3>1, AppendProperties
    <3> QED BY <1>5, <3>2, <3>3
  <2>5. f \in Nat /\ f >= 1 /\ f <= NFds /\ Len(slots) \in Nat
    BY <1>2, SizesAssumption DEF Fds, Table
  <2>6. \A i \in 1..Len(slots') : slots'[i] = IF i = new' THEN 0 ELSE i
    BY <1>1, <1>5, <2>4, <2>5
  <2>7. open' \subseteq 1..Len(slots')
    <3>1. open \subseteq 1..Len(slots) /\ open' = open \cup {f}
      BY <1>1 DEF Table
    <3>2. 1..Len(slots) \subseteq 1..f /\ f \in 1..f
      BY <1>5, <2>5
    <3>3. open' \subseteq 1..f
      BY <3>1, <3>2, Zenon
    <3> QED BY <2>4, <3>3
  <2> QED BY <1>1, <2>3, <2>4, <2>5, <2>6, <2>7 DEF Table
<1>6. CASE f <= Len(slots)
  <2>1. Least({f}) = f
    BY <1>2, SizesAssumption DEF Least, Fds
  <2>2. slots' = [slots EXCEPT ![f] = 0]
    BY <1>1, <1>4, <1>6, <2>1 DEF PickSlot
  <2>3. peak' \in Nat /\ peak <= peak'
    <3>1. IsFiniteSet(open') /\ Cardinality(open') \in Nat
      <4>1. open' \subseteq 1..NFds
        BY <1>1, <1>2, SizesAssumption DEF Table, Fds
      <4>2. IsFiniteSet(1..NFds)
        BY FS_Interval, SizesAssumption
      <4>3. IsFiniteSet(open')
        BY <4>1, <4>2, FS_Subset
      <4> QED BY <4>3, FS_CardinalityType
    <3> QED BY <1>3, <3>1 DEF Table
  <2>4. slots' \in Seq(0..NFds) /\ Len(slots') = Len(slots) /\ f \in 1..Len(slots)
    BY <1>2, <1>6, <2>2, SizesAssumption DEF Table, Fds
  <2>5. \A i \in 1..Len(slots) : slots'[i] = IF i = f THEN 0 ELSE i
    BY <1>1, <2>2, <2>4 DEF Table
  <2> QED BY <1>1, <2>3, <2>4, <2>5 DEF Table
<1> QED BY <1>2, <1>5, <1>6 DEF Table, Fds

LEMMA FillTable == Table /\ Fill => Table'
<1> SUFFICES ASSUME Table, Fill PROVE Table'
  OBVIOUS
<1>1. /\ slots' = [i \in DOMAIN slots |-> IF slots[i] = 0 THEN new ELSE slots[i]]
      /\ new # 0 /\ new' = 0 /\ UNCHANGED <<open, peak>>
  BY DEF Fill
<1>2. DOMAIN slots = 1..Len(slots) /\ Len(slots) \in Nat
  BY DEF Table
<1>3. \A i \in 1..Len(slots) : slots'[i] = i
  BY <1>1, <1>2 DEF Table
<1>4. slots' \in Seq(0..NFds) /\ Len(slots') = Len(slots)
  <2>1. \A i \in 1..Len(slots) : i \in 0..NFds
    BY SizesAssumption DEF Table
  <2>2. slots' \in [1..Len(slots) -> 0..NFds]
    BY <1>1, <1>2, <1>3, <2>1
  <2>3. slots' \in Seq(0..NFds)
    BY <1>2, <2>2, SeqDef
  <2>4. DOMAIN slots' = 1..Len(slots)
    BY <2>2
  <2> QED BY <1>2, <2>3, <2>4
<1> QED BY <1>1, <1>2, <1>3, <1>4 DEF Table

\* The steps that only close connections or leave the table alone.
LEMMA OthersTable ==
    ASSUME Table, open' \subseteq open, UNCHANGED <<slots, new, peak>>
    PROVE  Table'
BY DEF Table

LEMMA TableStep == Table /\ [Next]_vars => Table'
<1> SUFFICES ASSUME Table, [Next]_vars PROVE Table'
  OBVIOUS
<1>1. CASE Accept
  BY <1>1, AcceptTable
<1>2. CASE Fill
  BY <1>2, FillTable
<1>3. CASE HangUp \/ Read
  <2>1. open' \subseteq open /\ UNCHANGED <<slots, new, peak>>
    BY <1>3 DEF HangUp, Read, CloseSocket, tableVars
  <2> QED BY <2>1, OthersTable
<1>4. CASE EpollWait \/ AcceptFails \/ Write \/ Request
  <2>1. open' \subseteq open /\ UNCHANGED <<slots, new, peak>>
    BY <1>4 DEF EpollWait, AcceptFails, Write, Request, tableVars, connVars
  <2> QED BY <2>1, OthersTable
<1>5. ASSUME NEW f \in Fds, NEW what, Arrive(f, what) PROVE Table'
  <2>1. open' \subseteq open /\ UNCHANGED <<slots, new, peak>>
    BY <1>5 DEF Arrive, tableVars
  <2> QED BY <2>1, OthersTable
<1>6. ASSUME NEW i \in DOMAIN slots, Notice(i) PROVE Table'
  <2>1. open' \subseteq open /\ UNCHANGED <<slots, new, peak>>
    BY <1>6 DEF Notice, tableVars
  <2> QED BY <2>1, OthersTable
<1>7. CASE UNCHANGED vars
  BY <1>7, OthersTable DEF vars, tableVars, connVars
<1> QED BY <1>1, <1>2, <1>3, <1>4, <1>5, <1>6, <1>7 DEF Next, Loop

\* Table is an invariant.
THEOREM TableInvariant == Spec => []Table
BY TableStep, TableInit, PTL DEF Spec

-----------------------------------------------------------------------------
(* Lists of descriptors.                                                   *)

\* The position with the rank j among those in I, see At.
Position(I, j) == CHOOSE i \in I : Cardinality({x \in I : x <= i}) = j

\* A list in which nothing occurs twice.
Roster(s, S) == s \in Seq(S) /\ \A i, j \in 1..Len(s) : s[i] = s[j] => i = j

\* What t lists is in s at one of the positions I.
Among(t, s, I) == \A j \in 1..Len(t) : \E i \in I : t[j] = s[i]

\* Ranks are different, so there is a position for each and it is another one.
LEMMA Positions ==
    ASSUME NEW n \in Nat, NEW I \in SUBSET (1..n)
    PROVE  /\ Cardinality(I) \in Nat
           /\ \A j \in 1..Cardinality(I) : Position(I, j) \in I
           /\ \A i, j \in 1..Cardinality(I) : Position(I, i) = Position(I, j) => i = j
<1> DEFINE c == Cardinality(I)
           below(i) == {x \in I : x <= i}
           rank == [i \in I |-> Cardinality(below(i))]
<1>1. IsFiniteSet(I) /\ c \in Nat
  <2>1. IsFiniteSet(1..n)
    BY FS_Interval
  <2> QED BY <2>1, FS_Subset, FS_CardinalityType
<1>2. ASSUME NEW i \in I
      PROVE  IsFiniteSet(below(i)) /\ Cardinality(below(i)) \in 1..c
  <2>1. below(i) \in SUBSET I /\ i \in below(i)
    OBVIOUS
  <2> HIDE DEF below
  <2>2. IsFiniteSet(below(i)) /\ Cardinality(below(i)) <= c
    BY <1>1, <2>1, FS_Subset
  <2>3. Cardinality(below(i)) \in Nat /\ Cardinality(below(i)) # 0
    BY <2>1, <2>2, FS_CardinalityType, FS_EmptySet
  <2> HIDE DEF c
  <2> QED BY <1>1, <2>2, <2>3
<1>3. ASSUME NEW i \in I, NEW j \in I, i < j
      PROVE  Cardinality(below(i)) # Cardinality(below(j))
  <2>0. i \in Nat /\ j \in Nat /\ \A x \in I : x \in Nat
    OBVIOUS
  <2>1. below(i) \in SUBSET below(j) /\ j \in below(j) /\ j \notin below(i)
    <3>1. \A x \in Nat : x <= i => x <= j
      BY <1>3, <2>0
    <3>2. j <= j /\ ~(j <= i)
      BY <1>3, <2>0
    <3> QED BY <2>0, <3>1, <3>2
  <2> HIDE DEF below
  <2>2. below(i) # below(j)
    BY <2>1
  <2> QED BY <1>2, <2>1, <2>2, FS_Subset
<1> HIDE DEF below, c
<1>4. rank \in Injection(I, 1..c)
  <2>1. rank \in [I -> 1..c]
    BY <1>2
  <2>2. \A i, j \in I : rank[i] = rank[j] => i = j
    <3> SUFFICES ASSUME NEW i \in I, NEW j \in I, i # j PROVE rank[i] # rank[j]
      OBVIOUS
    <3>1. i < j \/ j < i
      OBVIOUS
    <3>2. Cardinality(below(i)) # Cardinality(below(j))
      BY <1>3, <3>1
    <3> QED BY <3>2
  <2> QED BY <2>1, <2>2 DEF Injection, IsInjective
<1>5. rank \in Surjection(I, 1..c)
  <2>1. IsFiniteSet(1..c) /\ Cardinality(1..c) = c
    BY <1>1, FS_Interval
  <2> HIDE DEF rank
  <2>2. Cardinality(I) = Cardinality(1..c) <=> rank \in Surjection(I, 1..c)
    BY <1>4, <2>1, FS_Injection
  <2> QED BY <2>1, <2>2 DEF c
<1>6. ASSUME NEW j \in 1..c
      PROVE  Position(I, j) \in I /\ Cardinality(below(Position(I, j))) = j
  <2>1. \E i \in I : rank[i] = j
    BY <1>5 DEF Surjection
  <2>2. \E i \in I : Cardinality({x \in I : x <= i}) = j
    BY <2>1 DEF below
  <2> QED BY <2>2 DEF Position, below
<1> QED BY <1>1, <1>6 DEF c

\* At lists what it is asked for, and nothing twice if s does not.
LEMMA AtFact ==
    ASSUME NEW S, NEW s, Roster(s, S), NEW I \in SUBSET (1..Len(s)), NEW T,
           \A i \in I : s[i] \in T
    PROVE  Roster(At(s, I), T) /\ Among(At(s, I), s, I)
<1> DEFINE c == Cardinality(I)
<1>1. Len(s) \in Nat
  BY DEF Roster
<1>2. /\ c \in Nat /\ \A j \in 1..c : Position(I, j) \in I
      /\ \A i, j \in 1..c : Position(I, i) = Position(I, j) => i = j
  BY <1>1, Positions
<1>3. At(s, I) = [j \in 1..c |-> s[Position(I, j)]]
  BY DEF At, Position
<1> HIDE DEF c
<1>4. At(s, I) \in [1..c -> T]
  BY <1>2, <1>3
<1>5. At(s, I) \in Seq(T) /\ Len(At(s, I)) = c
  BY <1>2, <1>4, SeqDef
<1>6. \A i, j \in 1..c : At(s, I)[i] = At(s, I)[j] => i = j
  <2> SUFFICES ASSUME NEW i \in 1..c, NEW j \in 1..c, At(s, I)[i] = At(s, I)[j] PROVE i = j
    OBVIOUS
  <2>1. s[Position(I, i)] = s[Position(I, j)]
    BY <1>3
  <2>2. Position(I, i) = Position(I, j)
    BY <1>2, <2>1 DEF Roster
  <2> QED BY <1>2, <2>2
<1>7. \A j \in 1..c : \E i \in I : At(s, I)[j] = s[i]
  BY <1>2, <1>3
<1> QED BY <1>5, <1>6, <1>7 DEF Roster, Among

\* Two lists with nothing in common make one.
LEMMA Joined ==
    ASSUME NEW S, NEW s, Roster(s, S), NEW t, Roster(t, S),
           \A i \in 1..Len(s), j \in 1..Len(t) : s[i] # t[j]
    PROVE  Roster(s \o t, S)
<1>1. /\ s \in Seq(S) /\ t \in Seq(S) /\ Len(s) \in Nat /\ Len(t) \in Nat
      /\ s \o t \in Seq(S) /\ Len(s \o t) = Len(s) + Len(t)
  BY DEF Roster
<1>2. ASSUME NEW i \in 1..(Len(s) + Len(t))
      PROVE  \/ i \in 1..Len(s) /\ (s \o t)[i] = s[i]
             \/ /\ i - Len(s) \in 1..Len(t) /\ i > Len(s) /\ i \in Nat
                /\ (s \o t)[i] = t[i - Len(s)]
  BY <1>1
<1> SUFFICES ASSUME NEW i \in 1..(Len(s) + Len(t)), NEW j \in 1..(Len(s) + Len(t)),
                    (s \o t)[i] = (s \o t)[j]
             PROVE  i = j
  BY <1>1 DEF Roster
<1>3. CASE i \in 1..Len(s) /\ (s \o t)[i] = s[i] /\ j \in 1..Len(s) /\ (s \o t)[j] = s[j]
  BY <1>3 DEF Roster
<1>4. CASE /\ i - Len(s) \in 1..Len(t) /\ (s \o t)[i] = t[i - Len(s)]
           /\ j - Len(s) \in 1..Len(t) /\ (s \o t)[j] = t[j - Len(s)]
  <2>1. i - Len(s) = j - Len(s)
    BY <1>4 DEF Roster
  <2> QED BY <1>1, <2>1
<1> QED BY <1>2, <1>3, <1>4

\* Nothing is listed that nobody asked for.
LEMMA WokenFact ==
    ASSUME NEW S, NEW s, Roster(s, S), NEW to \in SUBSET Fds, to \subseteq S
    PROVE  Roster(s \o Woken(s, to), S)
<1> DEFINE all == [f \in Fds |-> f]
           I   == {f \in to : ~Queued(s, f)}
<1>1. NFds \in Nat /\ Fds = 1..NFds
  BY SizesAssumption DEF Fds
<1>2. all \in Seq(Fds) /\ Len(all) = NFds
  BY <1>1, SeqDef
<1>3. Roster(all, Fds)
  BY <1>1, <1>2 DEF Roster
<1>4. /\ I \in SUBSET (1..Len(all)) /\ \A i \in I : all[i] = i
      /\ \A i \in I : all[i] \in S
  BY <1>1, <1>2
<1>5. Woken(s, to) = At(all, I)
  BY DEF Woken
<1> HIDE DEF all, I
<1>6. Roster(At(all, I), S) /\ Among(At(all, I), all, I)
  <2>1. I \in SUBSET (1..Len(all))
    BY <1>4
  <2>2. \A i \in I : all[i] \in S
    BY <1>4
  <2> QED BY <1>3, <2>1, <2>2, AtFact
<1>7. \A i \in 1..Len(s), j \in 1..Len(At(all, I)) : s[i] # At(all, I)[j]
  BY <1>4, <1>6 DEF Queued, I, Roster, Among
<1> QED BY <1>5, <1>6, <1>7, Joined

\* What is left without f.
LEMMA WithoutFact ==
    ASSUME NEW S, NEW s, Roster(s, S), NEW f
    PROVE  Roster(Without(s, f), S \ {f}) /\ Among(Without(s, f), s, 1..Len(s))
<1> DEFINE I == {i \in DOMAIN s : s[i] # f}
<1>1. I \in SUBSET (1..Len(s)) /\ \A i \in I : s[i] \in S \ {f}
  BY DEF Roster
<1>2. Without(s, f) = At(s, I)
  BY DEF Without
<1> HIDE DEF I
<1>3. Roster(At(s, I), S \ {f}) /\ Among(At(s, I), s, I)
  BY <1>1, AtFact
<1>4. Among(At(s, I), s, 1..Len(s))
  BY <1>1, <1>3 DEF Among
<1> QED BY <1>2, <1>3, <1>4

\* A descriptor is queued once.
LEMMA EnqueueFact ==
    ASSUME NEW S, NEW s, Roster(s, S), NEW f \in S
    PROVE  Roster(Enqueue(s, f), S)
<1>1. CASE Queued(s, f)
  BY <1>1 DEF Enqueue
<1>2. CASE ~Queued(s, f)
  <2>1. /\ Enqueue(s, f) = Append(s, f) /\ s \in Seq(S) /\ Len(s) \in Nat
        /\ \A i \in 1..Len(s) : s[i] # f
    BY <1>2 DEF Enqueue, Queued, Roster
  <2>2. /\ Append(s, f) \in Seq(S) /\ Len(Append(s, f)) = Len(s) + 1
        /\ Append(s, f)[Len(s) + 1] = f /\ \A i \in 1..Len(s) : Append(s, f)[i] = s[i]
    BY <2>1, AppendProperties
  <2>3. \A i \in 1..(Len(s) + 1) : i \in 1..Len(s) \/ i = Len(s) + 1
    BY <2>1
  <2> QED BY <2>1, <2>2, <2>3 DEF Roster
<1> QED BY <1>1, <1>2

\* A list stays one when less is said of its elements.
LEMMA Wider ==
    ASSUME NEW S, NEW T, S \subseteq T, NEW s, Roster(s, S)
    PROVE  Roster(s, T)
<1>1. s \in Seq(T)
  BY SeqDef DEF Roster
<1> QED BY <1>1 DEF Roster

\* How far epoll_wait looks is a position of the list, or 0.
LEMMA LookedFact ==
    ASSUME NEW S, Roster(ready, S)
    PROVE  Looked \in 0..Len(ready)
<1> DEFINE enough == {k \in DOMAIN ready :
                         Cardinality({i \in 1..k : IsReady(ready[i])}) = MaxEvents}
<1>1. Len(ready) \in Nat /\ DOMAIN ready = 1..Len(ready)
  BY DEF Roster
<1>2. Looked = IF enough = {} THEN Len(ready) ELSE Least(enough)
  BY DEF Looked
<1>3. enough \in SUBSET (1..Len(ready)) /\ enough \in SUBSET Nat
  BY <1>1
<1> HIDE DEF enough
<1>4. CASE enough = {}
  BY <1>1, <1>2, <1>4
<1>5. CASE enough # {}
  <2>1. Least(enough) \in enough
    BY <1>3, <1>5, LeastFact
  <2>2. Least(enough) \in 1..Len(ready)
    BY <1>3, <2>1
  <2> QED BY <1>1, <1>2, <1>5, <2>2
<1> QED BY <1>4, <1>5

\* What is found is ready and listed; what is found goes behind what was not looked at.
LEMMA FoundFact ==
    ASSUME NEW S, Roster(ready, S)
    PROVE  /\ Roster(Found, {f \in S : IsReady(f)})
           /\ Roster(SubSeq(ready, Looked + 1, Len(ready)) \o Without(Found, master), S)
<1> DEFINE l == Looked
           m == Len(ready)
           I == {i \in 1..l : IsReady(ready[i])}
           T == {f \in S : IsReady(f)}
           rest == SubSeq(ready, l + 1, m)
           back == Without(Found, master)
<1>1. m \in Nat /\ l \in 0..m /\ ready \in Seq(S) /\ \A i \in 1..m : ready[i] \in S
  BY LookedFact DEF Roster
<1>2. Found = At(ready, I)
  BY DEF Found
<1> HIDE DEF l
<1>3. I \in SUBSET (1..m) /\ I \subseteq 1..l /\ \A i \in I : ready[i] \in T
  BY <1>1
<1>4. Roster(Found, T) /\ Among(Found, ready, I)
  <2> HIDE DEF I, T
  <2> QED BY <1>2, <1>3, AtFact DEF m
<1> HIDE DEF I, T
<1>5. Roster(back, T \ {master}) /\ Among(back, Found, 1..Len(Found))
  <2> HIDE DEF back
  <2>1. Roster(Without(Found, master), T \ {master})
        /\ Among(Without(Found, master), Found, 1..Len(Found))
    BY <1>4, WithoutFact
  <2> QED BY <2>1 DEF back
<1>6. /\ rest \in Seq(S) /\ Len(rest) = m - l
      /\ \A i \in 1..(m - l) : rest[i] = ready[l + i] /\ l + i \in 1..m
  BY <1>1
<1>7. Roster(rest, S)
  <2> SUFFICES ASSUME NEW i \in 1..(m - l), NEW j \in 1..(m - l), rest[i] = rest[j]
               PROVE  i = j
    BY <1>6 DEF Roster
  <2>1. ready[l + i] = ready[l + j] /\ l + i \in 1..m /\ l + j \in 1..m
    BY <1>6
  <2>2. l + i = l + j
    BY <2>1 DEF Roster, m
  <2> QED BY <1>1, <2>2
<1>8. Roster(back, S)
  <2>1. T \ {master} \subseteq S
    BY DEF T
  <2> QED BY <1>5, <2>1, Wider
<1>9. \A i \in 1..Len(rest), j \in 1..Len(back) : rest[i] # back[j]
  <2> SUFFICES ASSUME NEW i \in 1..(m - l), NEW j \in 1..Len(back), rest[i] = back[j]
               PROVE  FALSE
    BY <1>6
  <2>1. PICK x \in I : back[j] = ready[x]
    BY <1>4, <1>5 DEF Among
  <2>2. ready[l + i] = ready[x] /\ l + i \in 1..m /\ x \in 1..m /\ x \in 1..l
    BY <1>3, <1>6, <2>1
  <2>3. l + i = x
    BY <2>2 DEF Roster, m
  <2> QED BY <1>1, <2>2, <2>3
<1> HIDE DEF rest, back
<1>10. Roster(rest \o back, S)
  BY <1>7, <1>8, <1>9, Joined
<1> QED BY <1>4, <1>10 DEF rest, back, l, m, T

-----------------------------------------------------------------------------
(* Events and connections.                                                 *)

\* Who may be in the list of ready descriptors.
Watched == {master} \cup (open \ {new})

\* The batch of events: one for each descriptor, none for a connection that is gone, and
\* that of the listening socket first while accept is under way.
BatchInv ==
    /\ \A i, j \in 1..Len(batch) : batch[i].fd = batch[j].fd => i = j
    /\ \A i \in 1..Len(batch) : batch[i].fd \in {master} \cup (open \ fresh)
    /\ new # 0 => new \in open \cap fresh /\ batch # <<>> /\ batch[1].fd = master
    /\ new = 0 => \A i \in 1..Len(batch) : batch[i].fd = master => backlog > 0

Events == [fd : 0..NFds, ev : SUBSET {"in", "out", "err"}]

\* The types of what neither Table nor Roster is about.
TypeRest ==
    /\ backlog \in 0..MaxBacklog /\ open \subseteq Fds
    /\ input \in [Fds -> {"none", "data", "end", "error"}] /\ armed \in [Fds -> BOOLEAN]
    /\ batch \in Seq(Events) /\ peak \in 0..NFds
    /\ fresh \subseteq Fds /\ missed \subseteq {"merged", "dropped", "failed"}

EventInv == TypeRest /\ Table /\ Roster(ready, Watched) /\ BatchInv

LEMMA EventInit == Init => EventInv
<1> SUFFICES ASSUME Init PROVE EventInv
  OBVIOUS
<1>1. TypeRest
  BY SizesAssumption DEF Init, TypeRest, Fds
<1>2. Table
  BY TableInit
<1>3. Roster(ready, Watched)
  BY DEF Init, Roster
<1>4. BatchInv
  BY DEF Init, BatchInv
<1> QED BY <1>1, <1>2, <1>3, <1>4 DEF EventInv

\* The kernel queues a descriptor.
LEMMA KernelKeeps ==
    ASSUME EventInv, Request \/ (\E f \in Fds, what \in {"data", "end", "error"} : Arrive(f, what))
    PROVE  TypeRest' /\ Roster(ready', Watched') /\ BatchInv'
<1>1. CASE Request
  <2>1. /\ backlog < MaxBacklog /\ backlog' = backlog + 1 /\ ready' = Enqueue(ready, master)
        /\ missed' = IF Queued(ready, master) THEN missed \cup {"merged"} ELSE missed
        /\ UNCHANGED <<open, input, armed, batch, slots, new, peak, fresh>>
    BY <1>1 DEF Request, connVars, tableVars
  <2>2. backlog' \in 0..MaxBacklog /\ backlog' > 0
    BY <2>1, SizesAssumption DEF EventInv, TypeRest
  <2>3. TypeRest'
    BY <2>1, <2>2 DEF EventInv, TypeRest
  <2>4. Roster(ready', Watched) /\ Watched' = Watched
    BY <2>1, EnqueueFact DEF EventInv, Watched
  <2>5. BatchInv'
    BY <2>1, <2>2 DEF EventInv, BatchInv
  <2> QED BY <2>3, <2>4, <2>5
<1>2. ASSUME NEW f \in Fds, NEW what \in {"data", "end", "error"}, Arrive(f, what)
      PROVE  TypeRest' /\ Roster(ready', Watched') /\ BatchInv'
  <2>1. /\ f \in open \ {new} /\ input' = [input EXCEPT ![f] = what]
        /\ ready' = Enqueue(ready, f)
        /\ UNCHANGED <<backlog, open, armed, batch, slots, new, peak, fresh, missed>>
    BY <1>2 DEF Arrive, tableVars
  <2>2. TypeRest'
    BY <2>1 DEF EventInv, TypeRest
  <2>3. Roster(ready', Watched) /\ Watched' = Watched
    BY <2>1, EnqueueFact DEF EventInv, Watched
  <2>4. BatchInv'
    BY <2>1 DEF EventInv, BatchInv
  <2> QED BY <2>2, <2>3, <2>4
<1> QED BY <1>1, <1>2

\* epoll_wait reports of each descriptor once, and of connections that are open.
LEMMA WaitKeeps ==
    ASSUME EventInv, EpollWait
    PROVE  TypeRest' /\ Roster(ready', Watched') /\ BatchInv'
<1> DEFINE T == {f \in Watched : IsReady(f)}
<1>1. /\ new = 0 /\ batch' = Reported(Found) /\ fresh' = {}
      /\ ready' = SubSeq(ready, Looked + 1, Len(ready)) \o Without(Found, master)
      /\ UNCHANGED <<backlog, open, input, armed, slots, new, peak, missed>>
  BY DEF EpollWait, Waiting, connVars, tableVars
<1>2. Roster(Found, T) /\ Roster(ready', Watched)
  BY <1>1, FoundFact DEF EventInv
<1>3. Watched' = Watched /\ Watched \subseteq {master} \cup open /\ Watched \subseteq 0..NFds
  BY <1>1, SizesAssumption DEF Watched, EventInv, TypeRest, Fds, master
<1>4. /\ Len(Found) \in Nat /\ DOMAIN Found = 1..Len(Found)
      /\ \A i \in 1..Len(Found) : Found[i] \in T
      /\ \A i, j \in 1..Len(Found) : Found[i] = Found[j] => i = j
  BY <1>2 DEF Roster
<1>5. batch' = [i \in 1..Len(Found) |->
                  [fd |-> Found[i], ev |-> IF Found[i] = master THEN {"in"} ELSE EventsOf(Found[i])]]
  BY <1>1, <1>4 DEF Reported
<1>6. ASSUME NEW i \in 1..Len(Found)
      PROVE  /\ batch'[i] \in Events /\ batch'[i].fd = Found[i]
             /\ Found[i] \in {master} \cup open /\ IsReady(Found[i])
  <2>1. Found[i] \in 0..NFds /\ Found[i] \in {master} \cup open /\ IsReady(Found[i])
    BY <1>3, <1>4
  <2>2. (IF Found[i] = master THEN {"in"} ELSE EventsOf(Found[i])) \in SUBSET {"in", "out", "err"}
    BY DEF EventsOf
  <2> QED BY <1>5, <2>1, <2>2 DEF Events
<1>7. batch' \in Seq(Events) /\ Len(batch') = Len(Found)
  <2>1. batch' \in [1..Len(Found) -> Events]
    BY <1>5, <1>6
  <2> QED BY <1>4, <2>1, SeqDef
<1>8. TypeRest'
  BY <1>1, <1>7 DEF EventInv, TypeRest
<1>9. BatchInv'
  <2>1. \A i, j \in 1..Len(batch') : batch'[i].fd = batch'[j].fd => i = j
    BY <1>4, <1>6, <1>7
  <2>2. \A i \in 1..Len(batch') : batch'[i].fd \in {master} \cup (open' \ fresh')
    BY <1>1, <1>6, <1>7
  <2>3. \A i \in 1..Len(batch') : batch'[i].fd = master => backlog' > 0
    BY <1>1, <1>6, <1>7 DEF IsReady
  <2> QED BY <1>1, <2>1, <2>2, <2>3 DEF BatchInv
<1> QED BY <1>2, <1>3, <1>8, <1>9

\* The event that is handled, and those behind it.
LEMMA TailFact ==
    ASSUME EventInv, batch # <<>>
    PROVE  /\ 1 \in 1..Len(batch) /\ Event.fd = batch[1].fd
           /\ Event.fd # master => Event.fd \in open \cap Fds /\ Event.fd \notin fresh
           /\ Tail(batch) \in Seq(Events) /\ Len(Tail(batch)) = Len(batch) - 1
           /\ \A i \in 1..(Len(batch) - 1) : /\ Tail(batch)[i] = batch[i + 1]
                                             /\ i + 1 \in 1..Len(batch)
           /\ \A i \in 1..(Len(batch) - 1) : Tail(batch)[i].fd # Event.fd
<1>1. batch \in Seq(Events) /\ open \subseteq Fds
  BY DEF EventInv, TypeRest
<1>2. /\ Len(batch) \in Nat /\ Len(batch) >= 1 /\ 1 \in 1..Len(batch) /\ Event = batch[1]
      /\ Tail(batch) \in Seq(Events) /\ Len(Tail(batch)) = Len(batch) - 1
      /\ \A i \in 1..(Len(batch) - 1) : Tail(batch)[i] = batch[i + 1] /\ i + 1 \in 1..Len(batch)
  BY <1>1 DEF Event
<1>3. Event.fd # master => Event.fd \in open \cap Fds /\ Event.fd \notin fresh
  BY <1>1, <1>2 DEF EventInv, BatchInv
<1>4. ASSUME NEW i \in 1..(Len(batch) - 1) PROVE Tail(batch)[i].fd # Event.fd
  <2>1. Tail(batch)[i] = batch[i + 1] /\ i + 1 \in 1..Len(batch) /\ i + 1 # 1
    BY <1>2
  <2> QED BY <1>2, <2>1 DEF EventInv, BatchInv
<1> QED BY <1>2, <1>3, <1>4

\* The events behind the one that was handled are still right.
LEMMA BehindKeeps ==
    ASSUME EventInv, batch # <<>>, new' = 0, batch' = Tail(batch),
           \A f \in open \ fresh : f # Event.fd => f \in open' \ fresh',
           new = 0 => backlog' = backlog,
           new # 0 => Event.fd = master
    PROVE  BatchInv'
<1>1. /\ Len(batch') = Len(batch) - 1
      /\ \A i \in 1..Len(batch') : /\ batch'[i] = batch[i + 1] /\ i + 1 \in 1..Len(batch)
                                   /\ batch'[i].fd # Event.fd
  BY TailFact
<1>2. Len(batch') \in Nat
  BY <1>1 DEF EventInv, TypeRest
<1>3. \A i, j \in 1..Len(batch') : batch'[i].fd = batch'[j].fd => i = j
  <2> SUFFICES ASSUME NEW i \in 1..Len(batch'), NEW j \in 1..Len(batch'),
                      batch'[i].fd = batch'[j].fd
               PROVE  i = j
    OBVIOUS
  <2>1. i + 1 = j + 1
    BY <1>1 DEF EventInv, BatchInv
  <2> QED BY <1>2, <2>1
<1>4. \A i \in 1..Len(batch') : batch'[i].fd \in {master} \cup (open' \ fresh')
  BY <1>1 DEF EventInv, BatchInv
<1>5. \A i \in 1..Len(batch') : batch'[i].fd = master => backlog' > 0
  BY <1>1 DEF EventInv, BatchInv
<1> QED BY <1>3, <1>4, <1>5 DEF BatchInv

\* A socket is closed.
LEMMA CloseFact ==
    ASSUME EventInv, new = 0, new' = 0, NEW f \in open, NEW to \in SUBSET open,
           CloseSocket(f, to)
    PROVE  /\ Roster(ready', Watched')
           /\ open' = open \ {f} /\ fresh' = fresh \cup {f} /\ open' \subseteq Fds /\ fresh' \subseteq Fds
           /\ input' \in [Fds -> {"none", "data", "end", "error"}] /\ armed' \in [Fds -> BOOLEAN]
<1> DEFINE left == Without(ready, f)
<1>1. /\ open' = open \ {f} /\ fresh' = fresh \cup {f} /\ input' = [input EXCEPT ![f] = "none"]
      /\ armed' = [g \in Fds |-> g # f /\ (armed[g] \/ g \in to)]
      /\ ready' = left \o Woken(left, to \ {f})
  BY DEF CloseSocket
<1>2. open \subseteq Fds /\ fresh \subseteq Fds /\ Roster(ready, Watched)
  BY DEF EventInv, TypeRest
<1>3. Watched \ {f} = Watched' /\ to \ {f} \in SUBSET Fds /\ to \ {f} \subseteq Watched'
  <2>1. f # master /\ f # new
    BY <1>2, SizesAssumption DEF Fds, master
  <2> QED BY <1>1, <1>2, <2>1, SizesAssumption DEF Watched, Fds, master
<1>4. Roster(left, Watched')
  <2>1. Roster(left, Watched \ {f})
    BY <1>2, WithoutFact
  <2> QED BY <1>3, <2>1
<1> HIDE DEF left
<1>5. Roster(left \o Woken(left, to \ {f}), Watched')
  BY <1>3, <1>4, WokenFact
<1>6. input' \in [Fds -> {"none", "data", "end", "error"}]
  BY <1>1 DEF EventInv, TypeRest
<1>7. armed' \in [Fds -> BOOLEAN]
  BY <1>1
<1> QED BY <1>1, <1>2, <1>5, <1>6, <1>7

\* Connections to get something to send.
LEMMA ArmFact ==
    ASSUME EventInv, NEW to \in SUBSET (open \ {new}), Arm(to), ready' = ready \o Woken(ready, to),
           UNCHANGED <<open, new>>
    PROVE  Roster(ready', Watched') /\ armed' \in [Fds -> BOOLEAN]
<1>1. /\ Roster(ready, Watched) /\ Watched' = Watched
      /\ to \in SUBSET Fds /\ to \subseteq Watched
  BY DEF EventInv, TypeRest, Watched
<1>2. Roster(ready \o Woken(ready, to), Watched)
  BY <1>1, WokenFact
<1>3. armed' \in [Fds -> BOOLEAN]
  BY DEF Arm
<1> QED BY <1>1, <1>2, <1>3

\* A broken connection is closed and the loop goes on.
LEMMA HangUpKeeps ==
    ASSUME EventInv, HangUp
    PROVE  TypeRest' /\ Roster(ready', Watched') /\ BatchInv'
<1>1. /\ batch # <<>> /\ new = 0 /\ new' = 0 /\ Event.fd # master /\ batch' = Tail(batch)
      /\ UNCHANGED <<backlog, peak, missed>>
  BY DEF HangUp, tableVars
<1>2. PICK to \in SUBSET (open \ {Event.fd}) : CloseSocket(Event.fd, to)
  BY DEF HangUp
<1>3. Event.fd \in open /\ batch' \in Seq(Events)
  BY <1>1, TailFact
<1>4. /\ Roster(ready', Watched') /\ open' = open \ {Event.fd} /\ fresh' = fresh \cup {Event.fd}
      /\ open' \subseteq Fds /\ fresh' \subseteq Fds
      /\ input' \in [Fds -> {"none", "data", "end", "error"}] /\ armed' \in [Fds -> BOOLEAN]
  <2>1. to \in SUBSET open
    OBVIOUS
  <2> QED BY <1>1, <1>2, <1>3, <2>1, CloseFact
<1>5. BatchInv'
  BY <1>1, <1>4, BehindKeeps
<1>6. TypeRest'
  BY <1>1, <1>3, <1>4 DEF EventInv, TypeRest
<1> QED BY <1>4, <1>5, <1>6

\* A connection request is not served, or is on its way into the table.
LEMMA AcceptKeeps ==
    ASSUME EventInv, AcceptFails \/ Accept
    PROVE  TypeRest' /\ Roster(ready', Watched') /\ BatchInv'
<1>1. CASE AcceptFails
  <2>1. /\ batch # <<>> /\ new = 0 /\ new' = 0 /\ batch' = Tail(batch)
        /\ missed' = missed \cup {"failed"}
        /\ UNCHANGED <<backlog, ready, open, input, armed, peak, fresh>>
    BY <1>1 DEF AcceptFails, connVars, tableVars
  <2>2. batch' \in Seq(Events)
    BY <2>1, TailFact
  <2>3. BatchInv'
    BY <2>1, BehindKeeps
  <2>4. TypeRest'
    BY <2>1, <2>2 DEF EventInv, TypeRest
  <2>5. Roster(ready', Watched')
    BY <2>1 DEF EventInv, Watched
  <2> QED BY <2>3, <2>4, <2>5
<1>2. CASE Accept
  <2> DEFINE f == Least(Fds \ open)
  <2>1. /\ batch # <<>> /\ new = 0 /\ Event.fd = master /\ open # Fds
        /\ new' = f /\ open' = open \cup {f} /\ fresh' = fresh \cup {f}
        /\ backlog' = backlog - 1
        /\ missed' = IF backlog = 1 THEN {} ELSE missed
        /\ peak' = IF Cardinality(open') > peak THEN Cardinality(open') ELSE peak
        /\ UNCHANGED <<ready, input, armed, batch>>
    BY <1>2 DEF Accept
  <2>2. f \in Fds /\ f \notin open
    BY <2>1, OneMore DEF EventInv
  <2> HIDE DEF f
  <2>3. 1 \in 1..Len(batch) /\ batch[1].fd = master
    BY <2>1, TailFact
  <2>4. backlog' \in 0..MaxBacklog
    <3>1. backlog > 0
      BY <2>1, <2>3 DEF EventInv, BatchInv
    <3> QED BY <2>1, <3>1, SizesAssumption DEF EventInv, TypeRest
  <2>5. open' \subseteq Fds /\ fresh' \subseteq Fds
    BY <2>1, <2>2 DEF EventInv, TypeRest
  <2>6. peak' \in 0..NFds
    <3>1. IsFiniteSet(Fds) /\ Cardinality(Fds) = NFds
      BY FS_Interval, SizesAssumption DEF Fds
    <3>2. IsFiniteSet(open') /\ Cardinality(open') <= NFds
      BY <2>5, <3>1, FS_Subset
    <3>3. Cardinality(open') \in 0..NFds
      BY <3>2, FS_CardinalityType, SizesAssumption
    <3> QED BY <2>1, <3>3 DEF EventInv, TypeRest
  <2>7. TypeRest'
    BY <2>1, <2>4, <2>5, <2>6 DEF EventInv, TypeRest
  <2>8. Watched' = Watched
    <3>1. f # 0 /\ 0 \notin open
      BY <2>2, SizesAssumption DEF Fds, EventInv, TypeRest
    <3> QED BY <2>1, <2>2, <3>1 DEF Watched
  <2>9. BatchInv'
    <3>1. f # 0
      BY <2>2, SizesAssumption DEF Fds
    <3>2. \A i \in 1..Len(batch) : batch[i].fd \in {master} \cup (open' \ fresh')
      BY <2>1, <2>2 DEF EventInv, BatchInv
    <3> QED BY <2>1, <2>3, <3>1, <3>2 DEF EventInv, BatchInv
  <2> QED BY <2>1, <2>7, <2>8, <2>9 DEF EventInv
<1> QED BY <1>1, <1>2

\* The new connection is in the table, and the peer may have been quick.
LEMMA FillKeeps ==
    ASSUME EventInv, Fill
    PROVE  TypeRest' /\ Roster(ready', Watched') /\ BatchInv'
<1>1. /\ new # 0 /\ new' = 0 /\ batch' = Tail(batch)
      /\ UNCHANGED <<backlog, open, armed, peak, fresh, missed>>
  BY DEF Fill
<1>2. PICK what \in {"none", "data", "end", "error"} :
          /\ input' = [input EXCEPT ![new] = what]
          /\ ready' = IF what = "none" THEN ready ELSE Append(ready, new)
  BY DEF Fill
<1>3. new \in open /\ batch # <<>> /\ batch[1].fd = master /\ Roster(ready, Watched)
  BY <1>1 DEF EventInv, BatchInv
<1>4. Event.fd = master /\ batch' \in Seq(Events)
  BY <1>1, <1>3, TailFact
<1>5. BatchInv'
  BY <1>1, <1>3, <1>4, BehindKeeps
<1>6. TypeRest'
  BY <1>1, <1>2, <1>4 DEF EventInv, TypeRest
<1>7. Roster(ready', Watched')
  <2>1. Watched \subseteq Watched' /\ new \in Watched' /\ new \notin Watched
    BY <1>1, <1>3 DEF Watched, master
  <2>2. Roster(ready, Watched')
    BY <1>3, <2>1, Wider
  <2>3. Enqueue(ready, new) = Append(ready, new)
    BY <1>3, <2>1 DEF Enqueue, Queued, Roster
  <2>4. Roster(Enqueue(ready, new), Watched')
    BY <2>1, <2>2, EnqueueFact
  <2> QED BY <1>2, <2>2, <2>3, <2>4
<1> QED BY <1>5, <1>6, <1>7

\* A read or a write ends the batch.
LEMMA BreakKeeps ==
    ASSUME EventInv, new = 0, new' = 0, Break
    PROVE  /\ BatchInv' /\ batch' \in Seq(Events)
           /\ missed' \subseteq {"merged", "dropped", "failed"}
<1>1. batch' = <<>> /\ missed' \subseteq missed \cup {"dropped"}
  BY DEF Break
<1>2. missed \subseteq {"merged", "dropped", "failed"}
  BY DEF EventInv, TypeRest
<1> QED BY <1>1, <1>2 DEF BatchInv

LEMMA ReadKeeps ==
    ASSUME EventInv, Read
    PROVE  TypeRest' /\ Roster(ready', Watched') /\ BatchInv'
<1>1. /\ batch # <<>> /\ new = 0 /\ new' = 0 /\ Event.fd # master /\ Break
      /\ UNCHANGED <<backlog, peak>>
  BY DEF Read, tableVars
<1>2. PICK to \in SUBSET open :
          IF input[Event.fd] = "end"
          THEN CloseSocket(Event.fd, to)
          ELSE /\ input' = [input EXCEPT ![Event.fd] = IF @ = "data" THEN "none" ELSE @]
               /\ Arm(to) /\ ready' = ready \o Woken(ready, to)
               /\ UNCHANGED <<open, fresh>>
  BY DEF Read
<1>3. Event.fd \in open /\ Event.fd \in Fds
  BY <1>1, TailFact
<1>4. /\ BatchInv' /\ batch' \in Seq(Events)
      /\ missed' \subseteq {"merged", "dropped", "failed"}
  BY <1>1, BreakKeeps
<1>5. /\ Roster(ready', Watched') /\ open' \subseteq Fds /\ fresh' \subseteq Fds
      /\ input' \in [Fds -> {"none", "data", "end", "error"}] /\ armed' \in [Fds -> BOOLEAN]
  <2>1. CASE input[Event.fd] = "end"
    <3>1. CloseSocket(Event.fd, to)
      BY <1>2, <2>1
    <3> QED BY <1>1, <1>3, <3>1, CloseFact
  <2>2. CASE input[Event.fd] # "end"
    <3>1. /\ input' = [input EXCEPT ![Event.fd] = IF @ = "data" THEN "none" ELSE @]
          /\ Arm(to) /\ ready' = ready \o Woken(ready, to) /\ UNCHANGED <<open, fresh>>
      BY <1>2, <2>2
    <3>2. to \in SUBSET (open \ {new})
      BY <1>1, SizesAssumption DEF EventInv, TypeRest, Fds
    <3>3. Roster(ready', Watched') /\ armed' \in [Fds -> BOOLEAN]
      BY <1>1, <3>1, <3>2, ArmFact
    <3>4. input' \in [Fds -> {"none", "data", "end", "error"}]
      BY <1>3, <3>1 DEF EventInv, TypeRest
    <3> QED BY <3>1, <3>3, <3>4 DEF EventInv, TypeRest
  <2> QED BY <2>1, <2>2
<1>6. TypeRest'
  BY <1>1, <1>4, <1>5 DEF EventInv, TypeRest
<1> QED BY <1>4, <1>5, <1>6

LEMMA WriteKeeps ==
    ASSUME EventInv, Write
    PROVE  TypeRest' /\ Roster(ready', Watched') /\ BatchInv'
<1>1. /\ new = 0 /\ new' = 0 /\ Break
      /\ armed' = [armed EXCEPT ![Event.fd] = FALSE] \/ armed' = armed
      /\ UNCHANGED <<backlog, ready, open, input, peak, fresh>>
  BY DEF Write, tableVars
<1>2. /\ BatchInv' /\ batch' \in Seq(Events)
      /\ missed' \subseteq {"merged", "dropped", "failed"}
  BY <1>1, BreakKeeps
<1>3. armed' \in [Fds -> BOOLEAN]
  BY <1>1 DEF EventInv, TypeRest
<1>4. Roster(ready', Watched')
  BY <1>1 DEF EventInv, Watched
<1> QED BY <1>1, <1>2, <1>3, <1>4 DEF EventInv, TypeRest

\* The timer thread.
LEMMA NoticeKeeps ==
    ASSUME EventInv, NEW i \in DOMAIN slots, Notice(i)
    PROVE  TypeRest' /\ Roster(ready', Watched') /\ BatchInv'
<1>1. /\ {slots[i]} \in SUBSET (open \ {new}) /\ Arm({slots[i]})
      /\ ready' = ready \o Woken(ready, {slots[i]})
      /\ UNCHANGED <<backlog, open, input, batch, new, peak, fresh, missed>>
  BY DEF Notice, tableVars
<1>2. Roster(ready', Watched') /\ armed' \in [Fds -> BOOLEAN]
  BY <1>1, ArmFact
<1>3. TypeRest' /\ BatchInv'
  BY <1>1, <1>2 DEF EventInv, TypeRest, BatchInv
<1> QED BY <1>2, <1>3

LEMMA EventStep == EventInv /\ [Next]_vars => EventInv'
<1> SUFFICES ASSUME EventInv, [Next]_vars PROVE EventInv'
  OBVIOUS
<1>1. Table'
  BY TableStep DEF EventInv
<1>2. CASE UNCHANGED vars
  <2>1. UNCHANGED <<backlog, ready, open, input, armed, batch, new, peak, fresh, missed>>
    BY <1>2 DEF vars, connVars, tableVars
  <2> QED BY <1>1, <2>1 DEF EventInv, TypeRest, BatchInv, Watched
<1>3. CASE Request \/ \E f \in Fds, what \in {"data", "end", "error"} : Arrive(f, what)
  BY <1>1, <1>3, KernelKeeps DEF EventInv
<1>4. CASE Loop
  BY <1>1, <1>4, WaitKeeps, HangUpKeeps, AcceptKeeps, FillKeeps, ReadKeeps, WriteKeeps
     DEF EventInv, Loop
<1>5. CASE \E i \in DOMAIN slots : Notice(i)
  BY <1>1, <1>5, NoticeKeeps DEF EventInv
<1> QED BY <1>2, <1>3, <1>4, <1>5 DEF Next

-----------------------------------------------------------------------------
(* What the runs check.                                                    *)

\* An event or a scan of the timer thread finds the client of a descriptor, and only
\* him, but for the slot that accept is filling; and clients[] never needs more slots
\* than there were descriptors at a time.
THEOREM TableIsOK == Spec => []TableOK
<1>1. Table => TableOK
  BY SizesAssumption DEF Table, TableOK, Lookup
<1> QED BY <1>1, TableInvariant, PTL

\* However peers connect, write, reset and leave, and however batches are cut short, an
\* event that network_thread handles is for the connection that it was reported for.
THEOREM EventsStayCurrent == Spec => []EventsAreCurrent
<1>1. EventInv => EventsAreCurrent
  <2> SUFFICES ASSUME EventInv PROVE EventsAreCurrent
    OBVIOUS
  <2>1. ready \in Seq(0..NFds)
    <3>1. Watched \subseteq 0..NFds
      <4>1. open \subseteq 1..NFds
        BY DEF EventInv, TypeRest, Fds
      <4>2. 0 \in 0..NFds /\ 1..NFds \subseteq 0..NFds
        BY SizesAssumption
      <4> QED BY <4>1, <4>2 DEF Watched, master
    <3>2. Roster(ready, 0..NFds)
      BY <3>1, Wider DEF EventInv
    <3> QED BY <3>2 DEF Roster
  <2>2. slots \in Seq(0..NFds) /\ new \in 0..NFds
    BY SizesAssumption DEF EventInv, Table
  <2>3. TypeOK
    BY <2>1, <2>2 DEF EventInv, TypeRest, TypeOK, Events
  <2>4. DOMAIN batch = 1..Len(batch)
    BY DEF EventInv, TypeRest
  <2> QED BY <2>3, <2>4 DEF EventInv, BatchInv, EventsAreCurrent
<1> QED BY <1>1, EventInit, EventStep, PTL DEF Spec
=============================================================================
