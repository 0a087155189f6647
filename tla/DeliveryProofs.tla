--------------------------- MODULE DeliveryProofs ---------------------------
(* What holds of Delivery for every number of users, room and requests. *)
EXTENDS Delivery, SequenceTheorems, TLAPS

(***************************************************************************)
(* Output that waits has an event to wait for.  Two facts make this        *)
(* inductive: a mailbox is only written while its user is not logged in,   *)
(* and a login always asks for EPOLLOUT; and between the two sends of a    *)
(* flush the first one has noted whether it left something behind.         *)
(***************************************************************************)
BufOK ==
    /\ sess \in [Users -> {"closed", "open", "idle", "here"}]
    /\ armed \in [Users -> BOOLEAN] /\ short \in [Users -> BOOLEAN]
    /\ out \in [Users -> Seq(Nat)] /\ mail \in [Users -> Seq(Nat)]
    /\ wire \in [Users -> Seq(Nat)]
    /\ turn \in Users \cup {NoUser} /\ steps \in Nat
    /\ \A u \in Users : Len(wire[u]) <= Room

BetweenSends == \A u \in Users : turn = u /\ out[u] # <<>> => short[u]

DeliveryInv == BufOK /\ NeverForgotten /\ BetweenSends

USE NoUserAssumption, BoundsAssumption

\* Cutting a queue in two gives queues, and the rest is empty only if all was taken.
LEMMA CutQueue ==
    ASSUME NEW q \in Seq(Nat), NEW n \in 0..Len(q)
    PROVE  /\ SubSeq(q, 1, n) \in Seq(Nat) /\ Len(SubSeq(q, 1, n)) = n
           /\ Rest(q, n) \in Seq(Nat) /\ (n < Len(q) <=> Rest(q, n) # <<>>)
  <1> USE DEF Rest
  <1>1. \A i \in 1..Len(q) : q[i] \in Nat
    OBVIOUS
  <1>2. SubSeq(q, 1, n) \in Seq(Nat) /\ Len(SubSeq(q, 1, n)) = n
    BY <1>1, SubSeqProperties
  <1>3. /\ SubSeq(q, n + 1, Len(q)) \in Seq(Nat)
        /\ Len(SubSeq(q, n + 1, Len(q))) = IF n + 1 <= Len(q) THEN Len(q) - n ELSE 0
    <2>1. \A i \in n + 1..Len(q) : q[i] \in Nat
      BY <1>1
    <2> QED
      BY <2>1, SubSeqProperties
  <1>4. n < Len(q) => Rest(q, n) # <<>>
    <2>1. n < Len(q) => Len(SubSeq(q, n + 1, Len(q))) # 0
      BY <1>3
    <2>2. Len(<<>>) = 0
      BY EmptySeq
    <2> QED
      BY <2>1, <2>2, Zenon
  <1>5. n >= Len(q) => Rest(q, n) = <<>>
    BY SubSeqEmpty
  <1> QED
    BY <1>2, <1>3, <1>4, <1>5

\* What fits in the socket.
LEMMA FitsBounds ==
    ASSUME BufOK, NEW u \in Users, NEW q \in Seq(Nat)
    PROVE  Fits(u, q) \in 0..Len(q) /\ Len(wire[u]) + Fits(u, q) <= Room
  BY DEF BufOK, Fits

\* Appending makes a queue that is not empty.
LEMMA AppendQueue ==
    ASSUME NEW q \in Seq(Nat), NEW m \in Nat
    PROVE  Append(q, m) \in Seq(Nat) /\ Append(q, m) # <<>>
  BY AppendProperties, EmptySeq

\* A reply asks for EPOLLOUT wherever it adds something.
LEMMA ReplyArms ==
    ASSUME BufOK, NEW to \in SUBSET Users, NEW m \in Nat, Reply(to, m)
    PROVE  /\ out' \in [Users -> Seq(Nat)] /\ armed' \in [Users -> BOOLEAN]
           /\ \A u \in Users : /\ u \in to => armed'[u]
                               /\ u \notin to => out'[u] = out[u]
                               /\ armed[u] => armed'[u]
  BY AppendQueue DEF BufOK, Reply

\* The same for a post, and a mailbox is only written for a user who is away.
LEMMA PostArms ==
    ASSUME BufOK, NEW to \in SUBSET Users, NEW m \in Nat, Post(to, m)
    PROVE  /\ out' \in [Users -> Seq(Nat)] /\ armed' \in [Users -> BOOLEAN]
           /\ mail' \in [Users -> Seq(Nat)]
           /\ \A u \in Users : /\ out'[u] = out[u] \/ armed'[u]
                               /\ armed[u] => armed'[u]
                               /\ Here(u) => mail'[u] = mail[u]
  <1>1. Reply({u \in to : Here(u)}, m)
    BY DEF Post
  <1>2. mail' \in [Users -> Seq(Nat)] /\ \A u \in Users : Here(u) => mail'[u] = mail[u]
    BY AppendQueue DEF Post, BufOK
  <1> QED
    BY <1>1, <1>2, ReplyArms

\* Logins, logouts and timeouts.
LEMMA SessionStep ==
    ASSUME DeliveryInv, NEW u \in Users, Login(u) \/ Expire(u) \/ Reap(u) \/ Close(u)
    PROVE  DeliveryInv'
  <1> USE DEF DeliveryInv, BufOK, NeverForgotten, BetweenSends, Waiting, Here, Free, queueVars,
              histVars
  <1>1. CASE Login(u)
    <2>1. /\ Note \in Nat /\ Watchers(u) \cup {u} \in SUBSET Users
          /\ Reply(Watchers(u) \cup {u}, Note)
      BY <1>1 DEF Login, Watchers, Note
    <2>2. /\ out' \in [Users -> Seq(Nat)] /\ armed' \in [Users -> BOOLEAN] /\ armed'[u]
          /\ \A v \in Users : (out'[v] = out[v] \/ armed'[v]) /\ (armed[v] => armed'[v])
      BY <2>1, ReplyArms
    <2>3. /\ sess' = [sess EXCEPT ![u] = "here"] /\ turn = NoUser /\ steps' \in Nat
          /\ UNCHANGED <<mail, wire, turn, short>>
      BY <1>1 DEF Login, Counted
    <2>4. BufOK'
      BY <2>2, <2>3
    <2>5. NeverForgotten' /\ BetweenSends'
      BY <2>2, <2>3
    <2> QED
      BY <2>4, <2>5
  <1>2. CASE Expire(u)
    BY <1>2 DEF Expire
  <1>3. CASE Reap(u)
    <2>1. /\ Note \in Nat /\ Watchers(u) \cup {u} \in SUBSET Users
          /\ Reply(Watchers(u) \cup {u}, Note)
      BY <1>3 DEF Reap, Watchers, Note
    <2>2. /\ out' \in [Users -> Seq(Nat)] /\ armed' \in [Users -> BOOLEAN]
          /\ \A v \in Users : (out'[v] = out[v] \/ armed'[v]) /\ (armed[v] => armed'[v])
      BY <2>1, ReplyArms
    <2> QED
      BY <1>3, <2>2 DEF Reap
  <1>4. CASE Close(u)
    <2> DEFINE told == IF sess[u] = "open" THEN {} ELSE Watchers(u)
    <2>1. out' = [v \in Users |-> IF v = u THEN <<>>
                                  ELSE IF v \in told THEN Append(out[v], Note) ELSE out[v]]
      BY <1>4 DEF Close
    <2>2. armed' = [v \in Users |-> v # u /\ (armed[v] \/ v \in told)]
      BY <1>4 DEF Close
    <2> HIDE DEF told
    <2>3. <<>> \in Seq(Nat) /\ Len(<<>>) = 0 /\ Note \in Nat
      BY EmptySeq DEF Note
    <2>4. /\ out' \in [Users -> Seq(Nat)] /\ armed' \in [Users -> BOOLEAN]
          /\ \A v \in Users \ {u} : (out'[v] = out[v] \/ armed'[v]) /\ (armed[v] => armed'[v])
      BY <2>1, <2>2, <2>3, AppendQueue
    <2>5. /\ wire' = [wire EXCEPT ![u] = <<>>] /\ short' = [short EXCEPT ![u] = FALSE]
          /\ sess' = [sess EXCEPT ![u] = "closed"]
          /\ UNCHANGED <<mail, turn, steps>> /\ turn = NoUser
      BY <1>4 DEF Close
    <2>6. BufOK'
      BY <2>3, <2>4, <2>5
    <2>7. NeverForgotten' /\ BetweenSends'
      BY <2>4, <2>5
    <2> QED
      BY <2>6, <2>7
  <1> QED
    BY <1>1, <1>2, <1>3, <1>4

\* Requests.
LEMMA RequestStep ==
    ASSUME DeliveryInv, NEW u \in Users, NEW v \in Users,
           Ask(u) \/ Broadcast(u) \/ Message(u, v) \/ Block(u, v) \/ Unblock(u, v)
    PROVE  DeliveryInv'
  <1> USE DEF DeliveryInv, BufOK, NeverForgotten, BetweenSends, Waiting, Here, Free, Counted,
              queueVars, histVars
  <1>1. ASSUME Reply({u}, Note), Counted,
               UNCHANGED <<sess, mail, wire, turn, short>>
        PROVE  DeliveryInv'
    <2>1. /\ out' \in [Users -> Seq(Nat)] /\ armed' \in [Users -> BOOLEAN]
          /\ \A w \in Users : (out'[w] = out[w] \/ armed'[w]) /\ (armed[w] => armed'[w])
      BY <1>1, ReplyArms DEF Note
    <2> QED
      BY <1>1, <2>1
  <1>2. CASE Ask(u) \/ Block(u, v) \/ Unblock(u, v)
    BY <1>1, <1>2 DEF Ask, Block, Unblock
  <1>3. CASE Message(u, v)
    <2>1. CASE <<v, u>> \in blocked
      BY <1>1, <1>3, <2>1 DEF Message
    <2>2. CASE <<v, u>> \notin blocked
      <3>1. Post({v}, steps + 1)
        BY <1>3, <2>2 DEF Message
      <3>2. /\ out' \in [Users -> Seq(Nat)] /\ armed' \in [Users -> BOOLEAN]
            /\ mail' \in [Users -> Seq(Nat)]
            /\ \A w \in Users : /\ out'[w] = out[w] \/ armed'[w]
                                /\ armed[w] => armed'[w]
                                /\ Here(w) => mail'[w] = mail[w]
        <4>1. {v} \in SUBSET Users /\ steps + 1 \in Nat /\ BufOK
          OBVIOUS
        <4> HIDE DEF BufOK, Here
        <4> QED
          BY <3>1, <4>1, PostArms
      <3> QED
        BY <1>3, <3>2 DEF Message
    <2> QED
      BY <2>1, <2>2
  <1>4. CASE Broadcast(u)
    <2> DEFINE all  == {w \in Users \ {u} : Here(w)}
               deaf == {w \in all : <<w, u>> \in blocked}
               m(w) == IF w = u THEN Note ELSE steps + 1
               to   == (all \ deaf) \cup (IF deaf = {} THEN {} ELSE {u})
    <2>1. /\ out' = [w \in Users |-> IF w \in to THEN Append(out[w], m(w)) ELSE out[w]]
          /\ armed' = [w \in Users |-> armed[w] \/ w \in to]
      BY <1>4 DEF Broadcast
    <2>2. \A w \in Users : m(w) \in Nat
      BY DEF Note
    <2> HIDE DEF to, m
    <2>3. /\ out' \in [Users -> Seq(Nat)] /\ armed' \in [Users -> BOOLEAN]
          /\ \A w \in Users : (out'[w] = out[w] \/ armed'[w]) /\ (armed[w] => armed'[w])
      BY <2>1, <2>2, AppendQueue
    <2>4. turn = NoUser /\ steps' \in Nat /\ UNCHANGED <<sess, mail, wire, turn, short>>
      BY <1>4 DEF Broadcast
    <2> QED
      BY <2>3, <2>4
  <1> QED
    BY <1>2, <1>3, <1>4

\* The first send of a flush notes whether it leaves something behind.
LEMMA FlushOutStep ==
    ASSUME DeliveryInv, NEW u \in Users, FlushOut(u)
    PROVE  DeliveryInv'
  <1> DEFINE n == Fits(u, out[u])
  <1>1. n \in 0..Len(out[u]) /\ Len(wire[u]) + n <= Room /\ out[u] \in Seq(Nat)
    BY FitsBounds DEF DeliveryInv, BufOK
  <1>2. /\ wire' = [wire EXCEPT ![u] = @ \o SubSeq(out[u], 1, n)]
        /\ out' = [out EXCEPT ![u] = Rest(@, n)]
        /\ armed' = [armed EXCEPT ![u] = n < Len(out[u])]
        /\ short' = [short EXCEPT ![u] = out'[u] # <<>>]
        /\ turn' = u /\ turn = NoUser /\ UNCHANGED <<sess, mail, steps>>
    BY DEF FlushOut, Free
  <1> HIDE DEF n
  <1>3. /\ SubSeq(out[u], 1, n) \in Seq(Nat) /\ Len(SubSeq(out[u], 1, n)) = n
        /\ Rest(out[u], n) \in Seq(Nat)
    BY <1>1, CutQueue
  <1>4. /\ wire[u] \o SubSeq(out[u], 1, n) \in Seq(Nat)
        /\ Len(wire[u] \o SubSeq(out[u], 1, n)) <= Room
    BY <1>1, <1>3, ConcatProperties DEF DeliveryInv, BufOK
  <1>5. BufOK'
    BY <1>1, <1>2, <1>3, <1>4 DEF DeliveryInv, BufOK
  <1>6. NeverForgotten' /\ BetweenSends'
    BY <1>2, <1>5 DEF DeliveryInv, BufOK, NeverForgotten, BetweenSends, Waiting, Here
  <1> QED
    BY <1>5, <1>6 DEF DeliveryInv

\* The second send adds what it leaves behind itself.
LEMMA FlushMailStep ==
    ASSUME DeliveryInv, NEW u \in Users, FlushMail(u)
    PROVE  DeliveryInv'
  <1>1. CASE Here(u)
    <2> DEFINE n == Fits(u, mail[u])
    <2>1. n \in 0..Len(mail[u]) /\ Len(wire[u]) + n <= Room /\ mail[u] \in Seq(Nat)
      BY FitsBounds DEF DeliveryInv, BufOK
    <2>2. /\ wire' = [wire EXCEPT ![u] = @ \o SubSeq(mail[u], 1, n)]
          /\ mail' = [mail EXCEPT ![u] = Rest(@, n)]
          /\ armed' = [armed EXCEPT ![u] = @ /\ n < Len(mail[u])]
          /\ short' = [short EXCEPT ![u] = @ \/ n < Len(mail[u])]
          /\ turn = u /\ turn' = NoUser /\ UNCHANGED <<sess, out, steps>>
      BY <1>1 DEF FlushMail
    <2> HIDE DEF n
    <2>3. /\ SubSeq(mail[u], 1, n) \in Seq(Nat) /\ Len(SubSeq(mail[u], 1, n)) = n
          /\ Rest(mail[u], n) \in Seq(Nat) /\ (n < Len(mail[u]) <=> Rest(mail[u], n) # <<>>)
      BY <2>1, CutQueue
    <2>4. /\ wire[u] \o SubSeq(mail[u], 1, n) \in Seq(Nat)
          /\ Len(wire[u] \o SubSeq(mail[u], 1, n)) <= Room
      BY <2>1, <2>3, ConcatProperties DEF DeliveryInv, BufOK
    <2>5. BufOK'
      BY <2>1, <2>2, <2>3, <2>4 DEF DeliveryInv, BufOK
    <2>6. NeverForgotten' /\ BetweenSends'
      BY <2>2, <2>3, <2>5 DEF DeliveryInv, BufOK, NeverForgotten, BetweenSends, Waiting, Here
    <2> QED
      BY <2>5, <2>6 DEF DeliveryInv
  <1>2. CASE ~Here(u)
    BY <1>2 DEF FlushMail, DeliveryInv, BufOK, NeverForgotten, BetweenSends, Waiting, Here
  <1> QED
    BY <1>1, <1>2

\* A peer that reads makes room and changes no buffer of the server.
LEMMA ReadStep ==
    ASSUME DeliveryInv, NEW u \in Users, Read(u)
    PROVE  DeliveryInv'
  <1>1. Tail(wire[u]) \in Seq(Nat) /\ Len(Tail(wire[u])) <= Room
    BY HeadTailProperties DEF Read, DeliveryInv, BufOK
  <1> QED
    BY <1>1 DEF Read, DeliveryInv, BufOK, NeverForgotten, BetweenSends, Waiting, Here

\* The invariant holds at the start and is kept by every step.
LEMMA DeliveryStart == Init => DeliveryInv
  BY EmptySeq DEF Init, DeliveryInv, BufOK, NeverForgotten, BetweenSends, Waiting, Here

LEMMA DeliveryStep == DeliveryInv /\ [Next]_vars => DeliveryInv'
  <1> SUFFICES ASSUME DeliveryInv, [Next]_vars PROVE DeliveryInv'
    OBVIOUS
  <1>1. CASE UNCHANGED vars
    BY <1>1 DEF vars, queueVars, histVars, DeliveryInv, BufOK, NeverForgotten, BetweenSends,
                Waiting, Here
  <1>2. CASE Next
    BY <1>2, SessionStep, RequestStep, FlushOutStep, FlushMailStep, ReadStep DEF Next
  <1> QED
    BY <1>1, <1>2

\* Output that waits for an open connection has EPOLLOUT to wait for, unless a
\* flush found no room in the socket: no order of logins, timeouts, messages,
\* notices and flushes forgets it in any other way.
THEOREM ForgetsNothing == Spec => []NeverForgotten
  <1>1. DeliveryInv => NeverForgotten
    BY DEF DeliveryInv
  <1> QED
    BY <1>1, DeliveryStart, DeliveryStep, PTL DEF Spec

-----------------------------------------------------------------------------
(* Where a message is, and in which order.                                 *)

Below(P, Q) == \A x \in P, y \in Q : x < y

\* One queue behind another.
LEMMA JoinFact ==
    ASSUME NEW p \in Seq(Nat), NEW q \in Seq(Nat)
    PROVE  /\ p \o q \in Seq(Nat)
           /\ Messages(p \o q) = Messages(p) \cup Messages(q)
           /\ Once(p \o q) <=> Once(p) /\ Once(q) /\ Messages(p) \cap Messages(q) = {}
           /\ InOrder(p \o q) <=> InOrder(p) /\ InOrder(q) /\ Below(Messages(p), Messages(q))
  <1> DEFINE r == p \o q
             k == Len(p)
             n == Len(q)
  <1>1. k \in Nat /\ n \in Nat /\ DOMAIN p = 1..k /\ DOMAIN q = 1..n
    OBVIOUS
  <1>2. /\ r \in Seq(Nat) /\ Len(r) = k + n
        /\ \A i \in 1..(k + n) : r[i] = IF i <= k THEN p[i] ELSE q[i - k]
    BY ConcatProperties
  <1>3. DOMAIN r = 1..(k + n)
    BY <1>2
  <1> HIDE DEF r, k, n
  <1>4. \A i \in 1..k : i \in 1..(k + n) /\ r[i] = p[i]
    BY <1>1, <1>2
  <1>5. \A i \in 1..n : k + i \in 1..(k + n) /\ r[k + i] = q[i]
    <2> SUFFICES ASSUME NEW i \in 1..n PROVE k + i \in 1..(k + n) /\ r[k + i] = q[i]
      OBVIOUS
    <2>1. k + i \in 1..(k + n) /\ ~(k + i <= k) /\ (k + i) - k = i
      BY <1>1
    <2> QED
      BY <1>2, <2>1
  <1>6. \A i \in 1..(k + n) : i \in 1..k \/ \E j \in 1..n : i = k + j
    <2> SUFFICES ASSUME NEW i \in 1..(k + n), i \notin 1..k PROVE \E j \in 1..n : i = k + j
      OBVIOUS
    <2>1. i - k \in 1..n /\ i = k + (i - k)
      BY <1>1
    <2> QED
      BY <2>1
  <1>7. Messages(r) = Messages(p) \cup Messages(q)
    <2>1. ASSUME NEW x \in Messages(r) PROVE x \in Messages(p) \cup Messages(q)
      <3>1. PICK i \in 1..(k + n) : r[i] = x /\ x # Note
        BY <1>3 DEF Messages
      <3>2. CASE i \in 1..k
        BY <1>1, <1>4, <3>1, <3>2 DEF Messages
      <3>3. CASE i \notin 1..k
        <4>1. PICK j \in 1..n : i = k + j
          BY <1>6, <3>3
        <4> QED
          BY <1>1, <1>5, <3>1, <4>1 DEF Messages
      <3> QED
        BY <3>2, <3>3
    <2>2. ASSUME NEW x \in Messages(p) PROVE x \in Messages(r)
      <3>1. PICK i \in 1..k : p[i] = x /\ x # Note
        BY <1>1 DEF Messages
      <3> QED
        BY <1>3, <1>4, <3>1 DEF Messages
    <2>3. ASSUME NEW x \in Messages(q) PROVE x \in Messages(r)
      <3>1. PICK i \in 1..n : q[i] = x /\ x # Note
        BY <1>1 DEF Messages
      <3> QED
        BY <1>3, <1>5, <3>1 DEF Messages
    <2> QED
      BY <2>1, <2>2, <2>3
  <1>8. \A i, j \in 1..n : /\ k + i = k + j <=> i = j
                           /\ k + i < k + j <=> i < j
    BY <1>1
  <1>9. \A i \in 1..k, j \in 1..n : i < k + j /\ i # k + j /\ ~(k + j < i)
    BY <1>1
  <1>10. Once(r) => Once(p) /\ Once(q) /\ Messages(p) \cap Messages(q) = {}
    <2> SUFFICES ASSUME Once(r) PROVE Once(p) /\ Once(q) /\ Messages(p) \cap Messages(q) = {}
      OBVIOUS
    <2>1. Once(p)
      BY <1>1, <1>3, <1>4 DEF Once
    <2>2. Once(q)
      BY <1>1, <1>3, <1>5, <1>8, Zenon DEF Once
    <2>3. Messages(p) \cap Messages(q) = {}
      <3> SUFFICES ASSUME NEW x \in Messages(p), x \in Messages(q) PROVE FALSE
        OBVIOUS
      <3>1. PICK i \in 1..k, j \in 1..n : p[i] = x /\ q[j] = x /\ x # Note
        BY <1>1 DEF Messages
      <3>2. r[i] = x /\ r[k + j] = x /\ i # k + j
        BY <1>4, <1>5, <1>9, <3>1
      <3> QED
        BY <1>3, <1>4, <1>5, <3>1, <3>2 DEF Once
    <2> QED
      BY <2>1, <2>2, <2>3
  <1>11. ASSUME Once(p), Once(q), Messages(p) \cap Messages(q) = {} PROVE Once(r)
    <2> SUFFICES ASSUME NEW i \in 1..(k + n), NEW j \in 1..(k + n), r[i] # Note, r[i] = r[j]
                 PROVE  i = j
      BY <1>3 DEF Once
    <2>1. CASE i \in 1..k /\ j \in 1..k
      BY <1>1, <1>4, <1>11, <2>1 DEF Once
    <2>2. CASE i \notin 1..k /\ j \notin 1..k
      <3>1. PICK a \in 1..n, b \in 1..n : i = k + a /\ j = k + b
        BY <1>6, <2>2
      <3> QED
        BY <1>1, <1>5, <1>11, <3>1 DEF Once
    <2>3. CASE i \in 1..k /\ j \notin 1..k
      <3>1. PICK b \in 1..n : j = k + b
        BY <1>6, <2>3
      <3>2. r[i] \in Messages(p) /\ r[j] \in Messages(q)
        BY <1>1, <1>4, <1>5, <2>3, <3>1 DEF Messages
      <3> QED
        BY <1>11, <3>2
    <2>4. CASE i \notin 1..k /\ j \in 1..k
      <3>1. PICK a \in 1..n : i = k + a
        BY <1>6, <2>4
      <3>2. r[i] \in Messages(q) /\ r[j] \in Messages(p)
        BY <1>1, <1>4, <1>5, <2>4, <3>1 DEF Messages
      <3> QED
        BY <1>11, <3>2
    <2> QED
      BY <2>1, <2>2, <2>3, <2>4
  <1>12. InOrder(r) => InOrder(p) /\ InOrder(q) /\ Below(Messages(p), Messages(q))
    <2> SUFFICES ASSUME InOrder(r)
                 PROVE  InOrder(p) /\ InOrder(q) /\ Below(Messages(p), Messages(q))
      OBVIOUS
    <2>1. InOrder(p)
      BY <1>1, <1>3, <1>4 DEF InOrder
    <2>2. InOrder(q)
      BY <1>1, <1>3, <1>5, <1>8 DEF InOrder
    <2>3. Below(Messages(p), Messages(q))
      BY <1>1, <1>3, <1>4, <1>5, <1>9 DEF InOrder, Messages, Below
    <2> QED
      BY <2>1, <2>2, <2>3
  <1>13. ASSUME InOrder(p), InOrder(q), Below(Messages(p), Messages(q)) PROVE InOrder(r)
    <2> SUFFICES ASSUME NEW i \in 1..(k + n), NEW j \in 1..(k + n),
                        i < j, r[i] # Note, r[j] # Note
                 PROVE  r[i] < r[j]
      BY <1>3 DEF InOrder
    <2>1. CASE i \in 1..k /\ j \in 1..k
      BY <1>1, <1>4, <1>13, <2>1 DEF InOrder
    <2>2. CASE i \notin 1..k /\ j \notin 1..k
      <3>1. PICK a \in 1..n, b \in 1..n : i = k + a /\ j = k + b
        BY <1>6, <2>2
      <3> QED
        BY <1>1, <1>5, <1>8, <1>13, <3>1 DEF InOrder
    <2>3. CASE i \in 1..k /\ j \notin 1..k
      <3>1. PICK b \in 1..n : j = k + b
        BY <1>6, <2>3
      <3> QED
        BY <1>1, <1>4, <1>5, <1>13, <2>3, <3>1 DEF Messages, Below
    <2>4. CASE i \notin 1..k /\ j \in 1..k
      BY <1>6, <1>9, <2>4
    <2> QED
      BY <2>1, <2>2, <2>3, <2>4
  <1> QED
    BY <1>2, <1>7, <1>10, <1>11, <1>12, <1>13 DEF r

\* A queue of one.
LEMMA SingleFact ==
    ASSUME NEW m \in Nat
    PROVE  /\ <<m>> \in Seq(Nat) /\ Messages(<<m>>) = {m} \ {Note}
           /\ Once(<<m>>) /\ InOrder(<<m>>)
  BY DEF Messages, Once, InOrder

\* An empty one.
LEMMA EmptyFact ==
    <<>> \in Seq(Nat) /\ Messages(<<>>) = {} /\ Once(<<>>) /\ InOrder(<<>>)
  BY DEF Messages, Once, InOrder

\* Something is added at the end.
LEMMA AppendFact ==
    ASSUME NEW q \in Seq(Nat), NEW m \in Nat
    PROVE  /\ Append(q, m) \in Seq(Nat)
           /\ Messages(Append(q, m)) = Messages(q) \cup ({m} \ {Note})
           /\ Once(Append(q, m)) <=> Once(q) /\ m \notin Messages(q)
           /\ InOrder(Append(q, m)) <=> InOrder(q) /\ Below(Messages(q), {m} \ {Note})
  <1>1. Append(q, m) = q \o <<m>>
    OBVIOUS
  <1>2. Note \notin Messages(q)
    BY DEF Messages
  <1>3. <<m>> \in Seq(Nat) /\ Messages(<<m>>) = {m} \ {Note} /\ Once(<<m>>) /\ InOrder(<<m>>)
    BY SingleFact
  <1> DEFINE s == <<m>>
  <1> HIDE DEF s
  <1>4. /\ q \o s \in Seq(Nat)
        /\ Messages(q \o s) = Messages(q) \cup Messages(s)
        /\ Once(q \o s) <=> Once(q) /\ Once(s) /\ Messages(q) \cap Messages(s) = {}
        /\ InOrder(q \o s) <=> InOrder(q) /\ InOrder(s) /\ Below(Messages(q), Messages(s))
    BY <1>3, JoinFact DEF s
  <1>5. Messages(q) \cap ({m} \ {Note}) = {} <=> m \notin Messages(q)
    BY <1>2
  <1> QED
    BY <1>1, <1>3, <1>4, <1>5, Zenon DEF s

Four(a, b, c, d) == a \o b \o c \o d

\* The trail of a user, part by part.
ByParts(a, b, c, d) ==
    /\ Messages(Four(a, b, c, d)) =
            Messages(a) \cup Messages(b) \cup Messages(c) \cup Messages(d)
    /\ Once(Four(a, b, c, d)) <=>
            /\ Once(a) /\ Once(b) /\ Once(c) /\ Once(d)
            /\ Messages(a) \cap Messages(b) = {} /\ Messages(a) \cap Messages(c) = {}
            /\ Messages(a) \cap Messages(d) = {} /\ Messages(b) \cap Messages(c) = {}
            /\ Messages(b) \cap Messages(d) = {} /\ Messages(c) \cap Messages(d) = {}
    /\ InOrder(Four(a, b, c, d)) <=>
            /\ InOrder(a) /\ InOrder(b) /\ InOrder(c) /\ InOrder(d)
            /\ Below(Messages(a), Messages(b)) /\ Below(Messages(a), Messages(c))
            /\ Below(Messages(a), Messages(d)) /\ Below(Messages(b), Messages(c))
            /\ Below(Messages(b), Messages(d)) /\ Below(Messages(c), Messages(d))

LEMMA FourFact ==
    ASSUME NEW a \in Seq(Nat), NEW b \in Seq(Nat), NEW c \in Seq(Nat), NEW d \in Seq(Nat)
    PROVE  ByParts(a, b, c, d)
  <1> DEFINE ab  == a \o b
             abc == ab \o c
  <1>1. /\ ab \in Seq(Nat) /\ Messages(ab) = Messages(a) \cup Messages(b)
        /\ Once(ab) <=> Once(a) /\ Once(b) /\ Messages(a) \cap Messages(b) = {}
        /\ InOrder(ab) <=> InOrder(a) /\ InOrder(b) /\ Below(Messages(a), Messages(b))
    BY JoinFact
  <1> HIDE DEF ab
  <1>2. /\ abc \in Seq(Nat) /\ Messages(abc) = Messages(ab) \cup Messages(c)
        /\ Once(abc) <=> Once(ab) /\ Once(c) /\ Messages(ab) \cap Messages(c) = {}
        /\ InOrder(abc) <=> InOrder(ab) /\ InOrder(c) /\ Below(Messages(ab), Messages(c))
    BY <1>1, JoinFact
  <1> HIDE DEF abc
  <1>3. /\ Messages(abc \o d) = Messages(abc) \cup Messages(d)
        /\ Once(abc \o d) <=> Once(abc) /\ Once(d) /\ Messages(abc) \cap Messages(d) = {}
        /\ InOrder(abc \o d) <=> InOrder(abc) /\ InOrder(d) /\ Below(Messages(abc), Messages(d))
    BY <1>2, JoinFact
  <1>4. Four(a, b, c, d) = abc \o d
    BY DEF Four, abc, ab
  <1>5. \A P, Q, R : (P \cup Q) \cap R = {} <=> P \cap R = {} /\ Q \cap R = {}
    OBVIOUS
  <1>6. Messages(Four(a, b, c, d)) =
            Messages(a) \cup Messages(b) \cup Messages(c) \cup Messages(d)
    BY <1>1, <1>2, <1>3, <1>4
  <1>7. Once(Four(a, b, c, d)) <=>
            /\ Once(a) /\ Once(b) /\ Once(c) /\ Once(d)
            /\ Messages(a) \cap Messages(b) = {} /\ Messages(a) \cap Messages(c) = {}
            /\ Messages(a) \cap Messages(d) = {} /\ Messages(b) \cap Messages(c) = {}
            /\ Messages(b) \cap Messages(d) = {} /\ Messages(c) \cap Messages(d) = {}
    <2>1. Messages(ab) \cap Messages(c) = {} <=>
              Messages(a) \cap Messages(c) = {} /\ Messages(b) \cap Messages(c) = {}
      BY <1>1, <1>5, Zenon
    <2>2. Messages(abc) \cap Messages(d) = {} <=>
              /\ Messages(a) \cap Messages(d) = {} /\ Messages(b) \cap Messages(d) = {}
              /\ Messages(c) \cap Messages(d) = {}
      BY <1>1, <1>2, <1>5, Zenon
    <2> QED
      BY <1>1, <1>2, <1>3, <1>4, <2>1, <2>2, Zenon
  <1>8. InOrder(Four(a, b, c, d)) <=>
            /\ InOrder(a) /\ InOrder(b) /\ InOrder(c) /\ InOrder(d)
            /\ Below(Messages(a), Messages(b)) /\ Below(Messages(a), Messages(c))
            /\ Below(Messages(a), Messages(d)) /\ Below(Messages(b), Messages(c))
            /\ Below(Messages(b), Messages(d)) /\ Below(Messages(c), Messages(d))
    <2>1. Below(Messages(ab), Messages(c)) <=>
              Below(Messages(a), Messages(c)) /\ Below(Messages(b), Messages(c))
      BY <1>1 DEF Below
    <2>2. Below(Messages(abc), Messages(d)) <=>
              /\ Below(Messages(a), Messages(d)) /\ Below(Messages(b), Messages(d))
              /\ Below(Messages(c), Messages(d))
      BY <1>1, <1>2 DEF Below
    <2> QED
      BY <1>1, <1>2, <1>3, <1>4, <2>1, <2>2, Zenon
  <1> QED
    BY <1>6, <1>7, <1>8, Zenon DEF ByParts

\* A queue cut in two.
LEMMA CutFact ==
    ASSUME NEW q \in Seq(Nat), NEW n \in 0..Len(q)
    PROVE  q = SubSeq(q, 1, n) \o Rest(q, n)
  <1> DEFINE p == SubSeq(q, 1, n)
             r == Rest(q, n)
  <1>1. p = [i \in 1..n |-> q[i]] /\ r = [i \in 1..(Len(q) - n) |-> q[n + i]]
    BY DEF Rest
  <1>2. /\ p \in Seq(Nat) /\ Len(p) = n /\ \A i \in 1..n : p[i] = q[i]
        /\ r \in Seq(Nat) /\ Len(r) = Len(q) - n /\ \A i \in 1..(Len(q) - n) : r[i] = q[n + i]
    <2>1. p \in Seq(Nat) /\ r \in Seq(Nat)
      BY CutQueue
    <2>2. n \in Nat /\ Len(q) - n \in Nat
      OBVIOUS
    <2> HIDE DEF p, r
    <2> QED
      BY <1>1, <2>1, <2>2
  <1> HIDE DEF p, r
  <1>3. /\ p \o r \in Seq(Nat) /\ Len(p \o r) = Len(q)
        /\ \A i \in 1..Len(q) : (p \o r)[i] = IF i <= n THEN p[i] ELSE r[i - n]
    <2>1. /\ p \o r \in Seq(Nat) /\ Len(p \o r) = Len(p) + Len(r)
          /\ \A i \in 1..(Len(p) + Len(r)) :
                (p \o r)[i] = IF i <= Len(p) THEN p[i] ELSE r[i - Len(p)]
      BY <1>2, ConcatProperties
    <2>2. Len(p) + Len(r) = Len(q)
      BY <1>2
    <2> QED
      BY <1>2, <2>1, <2>2
  <1>4. ASSUME NEW i \in 1..Len(q) PROVE (p \o r)[i] = q[i]
    <2>1. CASE i <= n
      BY <1>2, <1>3, <2>1
    <2>2. CASE ~(i <= n)
      <3>1. i - n \in 1..(Len(q) - n) /\ n + (i - n) = i
        BY <2>2
      <3> QED
        BY <1>2, <1>3, <2>2, <3>1
    <2> QED
      BY <2>1, <2>2
  <1>5. p \o r = q
    BY <1>3, <1>4, SeqEqual
  <1> QED
    BY <1>5 DEF p, r

\* The first one of a queue is taken.
LEMMA HeadFact ==
    ASSUME NEW q \in Seq(Nat), q # <<>>
    PROVE  /\ Head(q) \in Nat /\ Tail(q) \in Seq(Nat)
           /\ Messages(q) = ({Head(q)} \ {Note}) \cup Messages(Tail(q))
           /\ Once(q) <=> Once(Tail(q)) /\ ({Head(q)} \ {Note}) \cap Messages(Tail(q)) = {}
           /\ InOrder(q) <=> InOrder(Tail(q)) /\ Below({Head(q)} \ {Note}, Messages(Tail(q)))
  <1>1. Head(q) \in Nat /\ Tail(q) \in Seq(Nat) /\ q = <<Head(q)>> \o Tail(q)
    BY HeadTailProperties
  <1> DEFINE s == <<Head(q)>>
             t == Tail(q)
  <1>2. s \in Seq(Nat) /\ Messages(s) = {Head(q)} \ {Note} /\ Once(s) /\ InOrder(s)
    BY <1>1, SingleFact
  <1> HIDE DEF s, t
  <1>3. t \in Seq(Nat) /\ q = s \o t
    BY <1>1 DEF s, t
  <1>4. /\ Messages(s \o t) = Messages(s) \cup Messages(t)
        /\ Once(s \o t) <=> Once(s) /\ Once(t) /\ Messages(s) \cap Messages(t) = {}
        /\ InOrder(s \o t) <=> InOrder(s) /\ InOrder(t) /\ Below(Messages(s), Messages(t))
    BY <1>2, <1>3, JoinFact
  <1> QED
    BY <1>1, <1>2, <1>3, <1>4, Zenon DEF t

-----------------------------------------------------------------------------
(* What a step does to the trail of one user.                              *)

\* A reply or a notice.
LEMMA NoteAdded ==
    ASSUME NEW a \in Seq(Nat), NEW b \in Seq(Nat), NEW c \in Seq(Nat), NEW d \in Seq(Nat)
    PROVE  /\ Messages(Append(c, Note)) = Messages(c)
           /\ Messages(Four(a, b, Append(c, Note), d)) = Messages(Four(a, b, c, d))
           /\ Once(Four(a, b, Append(c, Note), d)) <=> Once(Four(a, b, c, d))
           /\ InOrder(Four(a, b, Append(c, Note), d)) <=> InOrder(Four(a, b, c, d))
  <1>1. Note \in Nat /\ Note \notin Messages(c)
    BY DEF Note, Messages
  <1>2. Below(Messages(c), {Note} \ {Note})
    BY DEF Below
  <1> DEFINE e == Append(c, Note)
  <1>3. e \in Seq(Nat) /\ Messages(e) = Messages(c) /\ (Once(e) <=> Once(c)) /\ (InOrder(e) <=> InOrder(c))
    <2>1. /\ e \in Seq(Nat) /\ Messages(e) = Messages(c) \cup ({Note} \ {Note})
          /\ Once(e) <=> Once(c) /\ Note \notin Messages(c)
          /\ InOrder(e) <=> InOrder(c) /\ Below(Messages(c), {Note} \ {Note})
      BY <1>1, AppendFact
    <2> HIDE DEF e
    <2> QED
      BY <1>1, <1>2, <2>1
  <1> HIDE DEF e
  <1>4. ByParts(a, b, c, d) /\ ByParts(a, b, e, d)
    BY <1>3, FourFact
  <1>5. /\ Messages(Four(a, b, e, d)) = Messages(Four(a, b, c, d))
        /\ Once(Four(a, b, e, d)) <=> Once(Four(a, b, c, d))
        /\ InOrder(Four(a, b, e, d)) <=> InOrder(Four(a, b, c, d))
    BY <1>3, <1>4 DEF ByParts
  <1> QED
    BY <1>3, <1>5 DEF e

\* Something that is not a note is added.
LEMMA MessageAdded ==
    ASSUME NEW q \in Seq(Nat), NEW m \in Nat \ {Note}
    PROVE  /\ Append(q, m) \in Seq(Nat) /\ Messages(Append(q, m)) = Messages(q) \cup {m}
           /\ Once(Append(q, m)) <=> Once(q) /\ m \notin Messages(q)
           /\ InOrder(Append(q, m)) <=> InOrder(q) /\ Below(Messages(q), {m})
  <1>1. {m} \ {Note} = {m} /\ m \in Nat
    OBVIOUS
  <1>2. /\ Append(q, m) \in Seq(Nat)
        /\ Messages(Append(q, m)) = Messages(q) \cup ({m} \ {Note})
        /\ Once(Append(q, m)) <=> Once(q) /\ m \notin Messages(q)
        /\ InOrder(Append(q, m)) <=> InOrder(q) /\ Below(Messages(q), {m} \ {Note})
    BY <1>1, AppendFact
  <1> QED
    BY <1>1, <1>2, Zenon

\* A message for somebody who is logged in.
LEMMA MessageOut ==
    ASSUME NEW a \in Seq(Nat), NEW b \in Seq(Nat), NEW c \in Seq(Nat), NEW d \in Seq(Nat),
           NEW m \in Nat \ {Note}, m \notin Messages(Four(a, b, c, d))
    PROVE  /\ Messages(Append(c, m)) = Messages(c) \cup {m}
           /\ Messages(Four(a, b, Append(c, m), d)) = Messages(Four(a, b, c, d)) \cup {m}
           /\ Once(Four(a, b, c, d)) => Once(Four(a, b, Append(c, m), d))
           /\ d = <<>> /\ Below(Messages(Four(a, b, c, d)), {m}) /\ InOrder(Four(a, b, c, d)) =>
                  InOrder(Four(a, b, Append(c, m), d))
  <1> DEFINE e == Append(c, m)
             M == Messages(Four(a, b, c, d))
  <1>1. /\ e \in Seq(Nat) /\ Messages(e) = Messages(c) \cup {m}
        /\ Once(e) <=> Once(c) /\ m \notin Messages(c)
        /\ InOrder(e) <=> InOrder(c) /\ Below(Messages(c), {m})
    BY MessageAdded
  <1> HIDE DEF e
  <1>2. ByParts(a, b, c, d) /\ ByParts(a, b, e, d)
    BY <1>1, FourFact
  <1>3. Messages(Four(a, b, e, d)) = M \cup {m}
    BY <1>1, <1>2 DEF ByParts
  <1>4. ASSUME Once(Four(a, b, c, d)) PROVE Once(Four(a, b, e, d))
    <2>1. /\ m \notin Messages(a) /\ m \notin Messages(b) /\ m \notin Messages(c) /\ m \notin Messages(d)
          /\ Messages(a) \cap Messages(c) = {} /\ Messages(b) \cap Messages(c) = {}
          /\ Messages(c) \cap Messages(d) = {}
      BY <1>2, <1>4 DEF ByParts
    <2>2. /\ Messages(a) \cap Messages(e) = {} /\ Messages(b) \cap Messages(e) = {}
          /\ Messages(e) \cap Messages(d) = {}
      BY <1>1, <2>1
    <2> QED
      BY <1>1, <1>2, <1>4, <2>1, <2>2, Zenon DEF ByParts
  <1>5. ASSUME d = <<>>, Below(M, {m}), InOrder(Four(a, b, c, d)) PROVE InOrder(Four(a, b, e, d))
    <2>1. Messages(d) = {}
      BY <1>5, EmptyFact
    <2>2. /\ Below(Messages(a), Messages(c)) /\ Below(Messages(b), Messages(c))
          /\ M = Messages(a) \cup Messages(b) \cup Messages(c) \cup Messages(d)
      BY <1>2, <1>5, Zenon DEF ByParts
    <2>3. /\ Below(Messages(a), Messages(e)) /\ Below(Messages(b), Messages(e))
          /\ Below(Messages(c), {m}) /\ Below(Messages(e), Messages(d))
      BY <1>1, <1>5, <2>1, <2>2 DEF Below
    <2> QED
      BY <1>1, <1>2, <1>5, <2>3, Zenon DEF ByParts
  <1> QED
    BY <1>1, <1>3, <1>4, <1>5 DEF e

\* A message for somebody who is not.
LEMMA MessageMail ==
    ASSUME NEW a \in Seq(Nat), NEW b \in Seq(Nat), NEW c \in Seq(Nat), NEW d \in Seq(Nat),
           NEW m \in Nat \ {Note}, m \notin Messages(Four(a, b, c, d))
    PROVE  /\ Messages(Four(a, b, c, Append(d, m))) = Messages(Four(a, b, c, d)) \cup {m}
           /\ Once(Four(a, b, c, d)) => Once(Four(a, b, c, Append(d, m)))
           /\ Below(Messages(Four(a, b, c, d)), {m}) /\ InOrder(Four(a, b, c, d)) =>
                  InOrder(Four(a, b, c, Append(d, m)))
  <1> DEFINE e == Append(d, m)
             M == Messages(Four(a, b, c, d))
  <1>1. /\ e \in Seq(Nat) /\ Messages(e) = Messages(d) \cup {m}
        /\ Once(e) <=> Once(d) /\ m \notin Messages(d)
        /\ InOrder(e) <=> InOrder(d) /\ Below(Messages(d), {m})
    BY MessageAdded
  <1> HIDE DEF e
  <1>2. ByParts(a, b, c, d) /\ ByParts(a, b, c, e)
    BY <1>1, FourFact
  <1>3. Messages(Four(a, b, c, e)) = M \cup {m}
    BY <1>1, <1>2 DEF ByParts
  <1>4. ASSUME Once(Four(a, b, c, d)) PROVE Once(Four(a, b, c, e))
    <2>1. /\ m \notin Messages(a) /\ m \notin Messages(b) /\ m \notin Messages(c) /\ m \notin Messages(d)
          /\ Messages(a) \cap Messages(d) = {} /\ Messages(b) \cap Messages(d) = {}
          /\ Messages(c) \cap Messages(d) = {}
      BY <1>2, <1>4 DEF ByParts
    <2>2. /\ Messages(a) \cap Messages(e) = {} /\ Messages(b) \cap Messages(e) = {}
          /\ Messages(c) \cap Messages(e) = {}
      BY <1>1, <2>1
    <2> QED
      BY <1>1, <1>2, <1>4, <2>1, <2>2, Zenon DEF ByParts
  <1>5. ASSUME Below(M, {m}), InOrder(Four(a, b, c, d)) PROVE InOrder(Four(a, b, c, e))
    <2>1. /\ Below(Messages(a), Messages(d)) /\ Below(Messages(b), Messages(d))
          /\ Below(Messages(c), Messages(d))
          /\ M = Messages(a) \cup Messages(b) \cup Messages(c) \cup Messages(d)
      BY <1>2, <1>5, Zenon DEF ByParts
    <2>2. /\ Below(Messages(a), Messages(e)) /\ Below(Messages(b), Messages(e))
          /\ Below(Messages(c), Messages(e)) /\ Below(Messages(d), {m})
      BY <1>1, <1>5, <2>1 DEF Below
    <2> QED
      BY <1>1, <1>2, <1>5, <2>2, Zenon DEF ByParts
  <1> QED
    BY <1>3, <1>4, <1>5 DEF e

\* A connection that closes.
LEMMA ConnectionLost ==
    ASSUME NEW a \in Seq(Nat), NEW b \in Seq(Nat), NEW c \in Seq(Nat), NEW d \in Seq(Nat),
           Once(Four(a, b, c, d))
    PROVE  /\ Messages(Four(a, <<>>, <<>>, d)) =
                  Messages(Four(a, b, c, d)) \ (Messages(c) \cup Messages(b))
           /\ Once(Four(a, <<>>, <<>>, d))
           /\ InOrder(Four(a, b, c, d)) => InOrder(Four(a, <<>>, <<>>, d))
  <1> DEFINE e == <<>>
  <1>1. e \in Seq(Nat) /\ Messages(e) = {} /\ Once(e) /\ InOrder(e)
    BY EmptyFact
  <1> HIDE DEF e
  <1>2. ByParts(a, b, c, d) /\ ByParts(a, e, e, d)
    BY <1>1, FourFact
  <1>3. /\ Messages(a) \cap Messages(b) = {} /\ Messages(a) \cap Messages(c) = {}
        /\ Messages(a) \cap Messages(d) = {} /\ Messages(b) \cap Messages(d) = {}
        /\ Messages(c) \cap Messages(d) = {} /\ Once(a) /\ Once(d)
    BY <1>2, Zenon DEF ByParts
  <1>4. /\ Messages(Four(a, e, e, d)) = Messages(a) \cup Messages(e) \cup Messages(e) \cup Messages(d)
        /\ Messages(Four(a, b, c, d)) =
              Messages(a) \cup Messages(b) \cup Messages(c) \cup Messages(d)
    BY <1>2, Zenon DEF ByParts
  <1>5. Messages(Four(a, e, e, d)) = Messages(Four(a, b, c, d)) \ (Messages(c) \cup Messages(b))
    BY <1>1, <1>3, <1>4
  <1>6. \A P : P \cap {} = {} /\ {} \cap P = {} /\ Below(P, {}) /\ Below({}, P)
    BY DEF Below
  <1>7. Once(Four(a, e, e, d))
    <2>1. /\ Messages(a) \cap Messages(e) = {} /\ Messages(e) \cap Messages(e) = {}
          /\ Messages(e) \cap Messages(d) = {}
      BY <1>1, <1>6
    <2> QED
      BY <1>1, <1>2, <1>3, <2>1, Zenon DEF ByParts
  <1>8. ASSUME InOrder(Four(a, b, c, d)) PROVE InOrder(Four(a, e, e, d))
    <2>1. InOrder(a) /\ InOrder(d) /\ Below(Messages(a), Messages(d))
      BY <1>2, <1>8, Zenon DEF ByParts
    <2>2. /\ Below(Messages(a), Messages(e)) /\ Below(Messages(e), Messages(e))
          /\ Below(Messages(e), Messages(d))
      BY <1>1, <1>6
    <2> QED
      BY <1>1, <1>2, <2>1, <2>2, Zenon DEF ByParts
  <1> QED
    BY <1>5, <1>7, <1>8 DEF e

\* A part of the output buffer is sent.
LEMMA SentFromOut ==
    ASSUME NEW a \in Seq(Nat), NEW b \in Seq(Nat), NEW x \in Seq(Nat), NEW y \in Seq(Nat),
           NEW d \in Seq(Nat)
    PROVE  /\ Messages(y) \subseteq Messages(x \o y)
           /\ Messages(Four(a, b \o x, y, d)) = Messages(Four(a, b, x \o y, d))
           /\ Once(Four(a, b, x \o y, d)) => Once(Four(a, b \o x, y, d))
           /\ InOrder(Four(a, b, x \o y, d)) => InOrder(Four(a, b \o x, y, d))
  <1> DEFINE bx == b \o x
             xy == x \o y
  <1>1. /\ bx \in Seq(Nat) /\ Messages(bx) = Messages(b) \cup Messages(x)
        /\ Once(bx) <=> Once(b) /\ Once(x) /\ Messages(b) \cap Messages(x) = {}
        /\ InOrder(bx) <=> InOrder(b) /\ InOrder(x) /\ Below(Messages(b), Messages(x))
    BY JoinFact
  <1>2. /\ xy \in Seq(Nat) /\ Messages(xy) = Messages(x) \cup Messages(y)
        /\ Once(xy) <=> Once(x) /\ Once(y) /\ Messages(x) \cap Messages(y) = {}
        /\ InOrder(xy) <=> InOrder(x) /\ InOrder(y) /\ Below(Messages(x), Messages(y))
    BY JoinFact
  <1> HIDE DEF bx, xy
  <1>3. ByParts(a, bx, y, d) /\ ByParts(a, b, xy, d)
    BY <1>1, <1>2, FourFact
  <1>4. Messages(Four(a, bx, y, d)) = Messages(Four(a, b, xy, d))
    <2>1. /\ Messages(Four(a, bx, y, d)) =
                Messages(a) \cup Messages(bx) \cup Messages(y) \cup Messages(d)
          /\ Messages(Four(a, b, xy, d)) =
                Messages(a) \cup Messages(b) \cup Messages(xy) \cup Messages(d)
      BY <1>3, Zenon DEF ByParts
    <2> QED
      BY <1>1, <1>2, <2>1
  <1>5. ASSUME Once(Four(a, b, xy, d)) PROVE Once(Four(a, bx, y, d))
    <2>1. /\ Once(a) /\ Once(b) /\ Once(xy) /\ Once(d)
          /\ Messages(a) \cap Messages(b) = {} /\ Messages(a) \cap Messages(xy) = {}
          /\ Messages(a) \cap Messages(d) = {} /\ Messages(b) \cap Messages(xy) = {}
          /\ Messages(b) \cap Messages(d) = {} /\ Messages(xy) \cap Messages(d) = {}
      BY <1>3, <1>5, Zenon DEF ByParts
    <2>2. Once(bx) /\ Once(y)
      BY <1>1, <1>2, <2>1
    <2>3. /\ Messages(a) \cap Messages(bx) = {} /\ Messages(a) \cap Messages(y) = {}
          /\ Messages(bx) \cap Messages(y) = {} /\ Messages(bx) \cap Messages(d) = {}
          /\ Messages(y) \cap Messages(d) = {}
      BY <1>1, <1>2, <2>1
    <2> QED
      BY <1>3, <2>1, <2>2, <2>3, Zenon DEF ByParts
  <1>6. ASSUME InOrder(Four(a, b, xy, d)) PROVE InOrder(Four(a, bx, y, d))
    <2>1. /\ InOrder(a) /\ InOrder(b) /\ InOrder(xy) /\ InOrder(d)
          /\ Below(Messages(a), Messages(b)) /\ Below(Messages(a), Messages(xy))
          /\ Below(Messages(a), Messages(d)) /\ Below(Messages(b), Messages(xy))
          /\ Below(Messages(b), Messages(d)) /\ Below(Messages(xy), Messages(d))
      BY <1>3, <1>6, Zenon DEF ByParts
    <2>2. InOrder(x) /\ InOrder(y) /\ Below(Messages(x), Messages(y))
      BY <1>2, <2>1
    <2>3. /\ Below(Messages(a), Messages(bx)) /\ Below(Messages(a), Messages(y))
          /\ Below(Messages(b), Messages(x)) /\ Below(Messages(bx), Messages(y))
          /\ Below(Messages(bx), Messages(d)) /\ Below(Messages(y), Messages(d))
      BY <1>1, <1>2, <2>1, <2>2 DEF Below
    <2> QED
      BY <1>1, <1>3, <2>1, <2>2, <2>3, Zenon DEF ByParts
  <1> QED
    BY <1>2, <1>4, <1>5, <1>6 DEF bx, xy

\* A part of the mailbox is sent, before what is in the output buffer.
LEMMA SentFromMail ==
    ASSUME NEW a \in Seq(Nat), NEW b \in Seq(Nat), NEW c \in Seq(Nat), NEW x \in Seq(Nat),
           NEW y \in Seq(Nat)
    PROVE  /\ Messages(y) \subseteq Messages(x \o y)
           /\ Messages(Four(a, b \o x, c, y)) = Messages(Four(a, b, c, x \o y))
           /\ Once(Four(a, b, c, x \o y)) => Once(Four(a, b \o x, c, y))
           /\ Below(Messages(x \o y), Messages(c)) /\ InOrder(Four(a, b, c, x \o y)) =>
                  InOrder(Four(a, b \o x, c, y))
  <1> DEFINE bx == b \o x
             xy == x \o y
  <1>1. /\ bx \in Seq(Nat) /\ Messages(bx) = Messages(b) \cup Messages(x)
        /\ Once(bx) <=> Once(b) /\ Once(x) /\ Messages(b) \cap Messages(x) = {}
        /\ InOrder(bx) <=> InOrder(b) /\ InOrder(x) /\ Below(Messages(b), Messages(x))
    BY JoinFact
  <1>2. /\ xy \in Seq(Nat) /\ Messages(xy) = Messages(x) \cup Messages(y)
        /\ Once(xy) <=> Once(x) /\ Once(y) /\ Messages(x) \cap Messages(y) = {}
        /\ InOrder(xy) <=> InOrder(x) /\ InOrder(y) /\ Below(Messages(x), Messages(y))
    BY JoinFact
  <1> HIDE DEF bx, xy
  <1>3. ByParts(a, bx, c, y) /\ ByParts(a, b, c, xy)
    BY <1>1, <1>2, FourFact
  <1>4. Messages(Four(a, bx, c, y)) = Messages(Four(a, b, c, xy))
    <2>1. /\ Messages(Four(a, bx, c, y)) =
                Messages(a) \cup Messages(bx) \cup Messages(c) \cup Messages(y)
          /\ Messages(Four(a, b, c, xy)) =
                Messages(a) \cup Messages(b) \cup Messages(c) \cup Messages(xy)
      BY <1>3, Zenon DEF ByParts
    <2> QED
      BY <1>1, <1>2, <2>1
  <1>5. ASSUME Once(Four(a, b, c, xy)) PROVE Once(Four(a, bx, c, y))
    <2>1. /\ Once(a) /\ Once(b) /\ Once(c) /\ Once(xy)
          /\ Messages(a) \cap Messages(b) = {} /\ Messages(a) \cap Messages(c) = {}
          /\ Messages(a) \cap Messages(xy) = {} /\ Messages(b) \cap Messages(c) = {}
          /\ Messages(b) \cap Messages(xy) = {} /\ Messages(c) \cap Messages(xy) = {}
      BY <1>3, <1>5, Zenon DEF ByParts
    <2>2. Once(bx) /\ Once(y)
      BY <1>1, <1>2, <2>1
    <2>3. /\ Messages(a) \cap Messages(bx) = {} /\ Messages(a) \cap Messages(y) = {}
          /\ Messages(bx) \cap Messages(c) = {} /\ Messages(bx) \cap Messages(y) = {}
          /\ Messages(c) \cap Messages(y) = {}
      BY <1>1, <1>2, <2>1
    <2> QED
      BY <1>3, <2>1, <2>2, <2>3, Zenon DEF ByParts
  <1>6. ASSUME Below(Messages(xy), Messages(c)), InOrder(Four(a, b, c, xy))
        PROVE  InOrder(Four(a, bx, c, y))
    <2>1. /\ InOrder(a) /\ InOrder(b) /\ InOrder(c) /\ InOrder(xy)
          /\ Below(Messages(a), Messages(b)) /\ Below(Messages(a), Messages(c))
          /\ Below(Messages(a), Messages(xy)) /\ Below(Messages(b), Messages(c))
          /\ Below(Messages(b), Messages(xy)) /\ Below(Messages(c), Messages(xy))
      BY <1>3, <1>6, Zenon DEF ByParts
    <2>2. InOrder(x) /\ InOrder(y) /\ Below(Messages(x), Messages(y))
      BY <1>2, <2>1
    <2>3. /\ Below(Messages(a), Messages(bx)) /\ Below(Messages(a), Messages(y))
          /\ Below(Messages(b), Messages(x)) /\ Below(Messages(bx), Messages(c))
          /\ Below(Messages(bx), Messages(y)) /\ Below(Messages(c), Messages(y))
      BY <1>1, <1>2, <1>6, <2>1, <2>2 DEF Below
    <2> QED
      BY <1>1, <1>3, <2>1, <2>2, <2>3, Zenon DEF ByParts
  <1> QED
    BY <1>2, <1>4, <1>5, <1>6 DEF bx, xy

\* The peer reads one message, or a reply or notice.
LEMMA ReadFact ==
    ASSUME NEW a \in Seq(Nat), NEW b \in Seq(Nat), NEW c \in Seq(Nat), NEW d \in Seq(Nat),
           b # <<>>
    PROVE  /\ Tail(b) \in Seq(Nat) /\ Head(b) \in Nat
           /\ Head(b) = Note =>
                /\ Messages(Four(a, Tail(b), c, d)) = Messages(Four(a, b, c, d))
                /\ Once(Four(a, b, c, d)) => Once(Four(a, Tail(b), c, d))
                /\ InOrder(Four(a, b, c, d)) => InOrder(Four(a, Tail(b), c, d))
           /\ Head(b) # Note =>
                /\ Messages(Four(Append(a, Head(b)), Tail(b), c, d)) = Messages(Four(a, b, c, d))
                /\ Once(Four(a, b, c, d)) => Once(Four(Append(a, Head(b)), Tail(b), c, d))
                /\ InOrder(Four(a, b, c, d)) => InOrder(Four(Append(a, Head(b)), Tail(b), c, d))
  <1> DEFINE h == Head(b)
             t == Tail(b)
             e == Append(a, h)
  <1>1. /\ h \in Nat /\ t \in Seq(Nat) /\ Messages(b) = ({h} \ {Note}) \cup Messages(t)
        /\ Once(b) <=> Once(t) /\ ({h} \ {Note}) \cap Messages(t) = {}
        /\ InOrder(b) <=> InOrder(t) /\ Below({h} \ {Note}, Messages(t))
    BY HeadFact
  <1> HIDE DEF h, t
  <1>2. ByParts(a, b, c, d) /\ ByParts(a, t, c, d)
    BY <1>1, FourFact
  <1>3. ASSUME h = Note
        PROVE  /\ Messages(Four(a, t, c, d)) = Messages(Four(a, b, c, d))
               /\ Once(Four(a, b, c, d)) => Once(Four(a, t, c, d))
               /\ InOrder(Four(a, b, c, d)) => InOrder(Four(a, t, c, d))
    <2>1. Messages(b) = Messages(t) /\ (Once(b) => Once(t)) /\ (InOrder(b) => InOrder(t))
      BY <1>1, <1>3
    <2> QED
      BY <1>2, <2>1 DEF ByParts
  <1>4. ASSUME h # Note
        PROVE  /\ Messages(Four(e, t, c, d)) = Messages(Four(a, b, c, d))
               /\ Once(Four(a, b, c, d)) => Once(Four(e, t, c, d))
               /\ InOrder(Four(a, b, c, d)) => InOrder(Four(e, t, c, d))
    <2>1. h \in Nat \ {Note} /\ {h} \ {Note} = {h}
      BY <1>1, <1>4
    <2>2. /\ e \in Seq(Nat) /\ Messages(e) = Messages(a) \cup {h}
          /\ Once(e) <=> Once(a) /\ h \notin Messages(a)
          /\ InOrder(e) <=> InOrder(a) /\ Below(Messages(a), {h})
      BY <2>1, MessageAdded
    <2> HIDE DEF e
    <2>3. /\ Messages(b) = {h} \cup Messages(t)
          /\ Once(b) <=> Once(t) /\ h \notin Messages(t)
          /\ InOrder(b) <=> InOrder(t) /\ Below({h}, Messages(t))
      BY <1>1, <2>1
    <2>4. ByParts(e, t, c, d)
      BY <1>1, <2>2, FourFact
    <2>5. Messages(Four(e, t, c, d)) = Messages(Four(a, b, c, d))
      <3>1. /\ Messages(Four(e, t, c, d)) =
                  Messages(e) \cup Messages(t) \cup Messages(c) \cup Messages(d)
            /\ Messages(Four(a, b, c, d)) =
                  Messages(a) \cup Messages(b) \cup Messages(c) \cup Messages(d)
        BY <1>2, <2>4, Zenon DEF ByParts
      <3> QED
        BY <2>2, <2>3, <3>1
    <2>6. ASSUME Once(Four(a, b, c, d)) PROVE Once(Four(e, t, c, d))
      <3>1. /\ Once(a) /\ Once(b) /\ Once(c) /\ Once(d)
            /\ Messages(a) \cap Messages(b) = {} /\ Messages(a) \cap Messages(c) = {}
            /\ Messages(a) \cap Messages(d) = {} /\ Messages(b) \cap Messages(c) = {}
            /\ Messages(b) \cap Messages(d) = {} /\ Messages(c) \cap Messages(d) = {}
        BY <1>2, <2>6, Zenon DEF ByParts
      <3>2. h \notin Messages(a) /\ h \notin Messages(t) /\ Once(t)
        BY <2>3, <3>1
      <3>3. /\ Messages(e) \cap Messages(t) = {} /\ Messages(e) \cap Messages(c) = {}
            /\ Messages(e) \cap Messages(d) = {} /\ Messages(t) \cap Messages(c) = {}
            /\ Messages(t) \cap Messages(d) = {}
        BY <2>2, <2>3, <3>1, <3>2
      <3> QED
        BY <2>2, <2>4, <3>1, <3>2, <3>3, Zenon DEF ByParts
    <2>7. ASSUME InOrder(Four(a, b, c, d)) PROVE InOrder(Four(e, t, c, d))
      <3>1. /\ InOrder(a) /\ InOrder(b) /\ InOrder(c) /\ InOrder(d)
            /\ Below(Messages(a), Messages(b)) /\ Below(Messages(a), Messages(c))
            /\ Below(Messages(a), Messages(d)) /\ Below(Messages(b), Messages(c))
            /\ Below(Messages(b), Messages(d)) /\ Below(Messages(c), Messages(d))
        BY <1>2, <2>7, Zenon DEF ByParts
      <3>2. InOrder(t) /\ Below({h}, Messages(t))
        BY <2>3, <3>1
      <3>3. /\ Below(Messages(a), {h}) /\ Below(Messages(e), Messages(t))
            /\ Below(Messages(e), Messages(c)) /\ Below(Messages(e), Messages(d))
            /\ Below(Messages(t), Messages(c)) /\ Below(Messages(t), Messages(d))
        BY <2>2, <2>3, <3>1, <3>2 DEF Below
      <3> QED
        BY <2>2, <2>4, <3>1, <3>2, <3>3, Zenon DEF ByParts
    <2> QED
      BY <2>5, <2>6, <2>7
  <1> QED
    BY <1>1, <1>3, <1>4 DEF h, t, e

-----------------------------------------------------------------------------
(* The order and the whereabouts of messages.                              *)

\* A mailbox is older than what is in the connection of a user who is logged in.
UserOK(u) ==
    /\ due[u] \subseteq 1..steps /\ lost[u] \subseteq due[u]
    /\ Messages(Trail(u)) = due[u] \ lost[u] /\ Once(Trail(u))
    /\ Here(u) => Below(Messages(mail[u]), Messages(out[u]))

ClosedOK == \A u \in Users : sess[u] = "closed" => out[u] = <<>> /\ ~armed[u]

\* The inductive invariant.
TrailInv ==
    /\ DeliveryInv /\ ClosedOK
    /\ inbox \in [Users -> Seq(Nat)] /\ due \in [Users -> SUBSET Nat]
    /\ lost \in [Users -> SUBSET Nat]
    /\ blocked \subseteq Users \X Users /\ steps \in 0..MaxSteps
    /\ \A u \in Users : UserOK(u)

\* Every step is one of these for every user.
Quiet(u) ==
    /\ out'[u] \in {out[u], Append(out[u], Note)}
    /\ inbox'[u] = inbox[u] /\ wire'[u] = wire[u] /\ mail'[u] = mail[u]
    /\ due'[u] = due[u] /\ lost'[u] = lost[u]
    /\ Here(u)' => Here(u) \/ out[u] = <<>>

Posted(u) ==
    /\ Here(u) /\ steps' = steps + 1 /\ out'[u] = Append(out[u], steps + 1)
    /\ inbox'[u] = inbox[u] /\ wire'[u] = wire[u] /\ mail'[u] = mail[u]
    /\ due'[u] = due[u] \cup {steps + 1} /\ lost'[u] = lost[u]

Kept(u) ==
    /\ ~Here(u)' /\ steps' = steps + 1 /\ mail'[u] = Append(mail[u], steps + 1)
    /\ inbox'[u] = inbox[u] /\ wire'[u] = wire[u] /\ out'[u] = out[u]
    /\ due'[u] = due[u] \cup {steps + 1} /\ lost'[u] = lost[u]

Cut(u) ==
    /\ ~Here(u)' /\ out'[u] = <<>> /\ wire'[u] = <<>>
    /\ inbox'[u] = inbox[u] /\ mail'[u] = mail[u] /\ due'[u] = due[u]
    /\ lost'[u] = lost[u] \cup Messages(out[u]) \cup Messages(wire[u])

SentOut(u) ==
    /\ \E n \in 0..Len(out[u]) : /\ wire'[u] = wire[u] \o SubSeq(out[u], 1, n)
                                 /\ out'[u] = Rest(out[u], n)
    /\ inbox'[u] = inbox[u] /\ mail'[u] = mail[u]
    /\ due'[u] = due[u] /\ lost'[u] = lost[u] /\ (Here(u)' <=> Here(u))

SentMail(u) ==
    /\ Here(u)
    /\ \E n \in 0..Len(mail[u]) : /\ wire'[u] = wire[u] \o SubSeq(mail[u], 1, n)
                                  /\ mail'[u] = Rest(mail[u], n)
    /\ inbox'[u] = inbox[u] /\ out'[u] = out[u]
    /\ due'[u] = due[u] /\ lost'[u] = lost[u]

Taken(u) ==
    /\ wire[u] # <<>> /\ wire'[u] = Tail(wire[u])
    /\ inbox'[u] = IF Head(wire[u]) = Note THEN inbox[u] ELSE Append(inbox[u], Head(wire[u]))
    /\ out'[u] = out[u] /\ mail'[u] = mail[u]
    /\ due'[u] = due[u] /\ lost'[u] = lost[u] /\ (Here(u)' <=> Here(u))

StepOf(u) == Quiet(u) \/ Posted(u) \/ Kept(u) \/ Cut(u) \/ SentOut(u) \/ SentMail(u) \/ Taken(u)

\* What every step keeps of the types.
FrameOK ==
    /\ inbox' \in [Users -> Seq(Nat)] /\ due' \in [Users -> SUBSET Nat]
    /\ lost' \in [Users -> SUBSET Nat] /\ blocked' \subseteq Users \X Users
    /\ steps' \in 0..MaxSteps /\ steps' >= steps

LEMMA SessionKinds ==
    ASSUME TrailInv, NEW u \in Users, Login(u) \/ Expire(u) \/ Reap(u) \/ Close(u)
    PROVE  FrameOK /\ ClosedOK' /\ \A w \in Users : StepOf(w)
  <1> USE DEF TrailInv, DeliveryInv, BufOK, Here, Free, queueVars, histVars
  <1>1. CASE Login(u)
    <2>1. /\ steps' \in 0..MaxSteps /\ steps' >= steps
          /\ sess' = [sess EXCEPT ![u] = "here"] /\ sess[u] = "closed"
          /\ UNCHANGED <<mail, wire, blocked, inbox, due, lost>>
      BY <1>1 DEF Login, Counted
    <2>2. /\ out' = [w \in Users |-> IF w \in Watchers(u) \cup {u} THEN Append(out[w], Note) ELSE out[w]]
          /\ armed' = [w \in Users |-> armed[w] \/ w \in Watchers(u) \cup {u}]
      BY <1>1 DEF Login, Reply
    <2>3. FrameOK
      BY <2>1 DEF FrameOK
    <2>4. ClosedOK'
      BY <2>1, <2>2 DEF ClosedOK, Watchers
    <2>5. \A w \in Users : Quiet(w)
      BY <2>1, <2>2 DEF Quiet, ClosedOK
    <2> QED
      BY <2>3, <2>4, <2>5 DEF StepOf
  <1>2. CASE Expire(u)
    BY <1>2 DEF Expire, FrameOK, ClosedOK, StepOf, Quiet
  <1>3. CASE Reap(u)
    <2>1. /\ sess' = [sess EXCEPT ![u] = "open"]
          /\ UNCHANGED <<mail, wire, blocked, steps, inbox, due, lost>> /\ sess[u] = "idle"
      BY <1>3 DEF Reap
    <2>2. /\ out' = [w \in Users |-> IF w \in Watchers(u) \cup {u} THEN Append(out[w], Note) ELSE out[w]]
          /\ armed' = [w \in Users |-> armed[w] \/ w \in Watchers(u) \cup {u}]
      BY <1>3 DEF Reap, Reply
    <2>3. FrameOK
      BY <2>1 DEF FrameOK
    <2>4. ClosedOK'
      BY <2>1, <2>2 DEF ClosedOK, Watchers
    <2>5. \A w \in Users : Quiet(w)
      BY <2>1, <2>2 DEF Quiet
    <2> QED
      BY <2>3, <2>4, <2>5 DEF StepOf
  <1>4. CASE Close(u)
    <2> DEFINE told == IF sess[u] = "open" THEN {} ELSE Watchers(u)
    <2>1. /\ sess' = [sess EXCEPT ![u] = "closed"] /\ wire' = [wire EXCEPT ![u] = <<>>]
          /\ lost' = [lost EXCEPT ![u] = @ \cup Messages(out[u]) \cup Messages(wire[u])]
          /\ UNCHANGED <<mail, blocked, steps, inbox, due>>
      BY <1>4 DEF Close
    <2>2. /\ out' = [v \in Users |-> IF v = u THEN <<>>
                                     ELSE IF v \in told THEN Append(out[v], Note) ELSE out[v]]
          /\ armed' = [v \in Users |-> v # u /\ (armed[v] \/ v \in told)]
      BY <1>4 DEF Close
    <2>3. \A v \in told : sess[v] = "here" /\ v # u
      BY DEF Watchers
    <2> HIDE DEF told
    <2>4. Messages(out[u]) \in SUBSET Nat /\ Messages(wire[u]) \in SUBSET Nat
      BY DEF Messages
    <2>5. FrameOK
      BY <2>1, <2>4 DEF FrameOK
    <2>6. ClosedOK'
      BY <2>1, <2>2, <2>3 DEF ClosedOK
    <2>7. Cut(u)
      BY <2>1, <2>2 DEF Cut
    <2>8. \A w \in Users \ {u} : Quiet(w)
      BY <2>1, <2>2 DEF Quiet
    <2> QED
      BY <2>5, <2>6, <2>7, <2>8 DEF StepOf
  <1> QED
    BY <1>1, <1>2, <1>3, <1>4

LEMMA RequestKinds ==
    ASSUME TrailInv, NEW u \in Users, NEW v \in Users,
           Ask(u) \/ Broadcast(u) \/ Message(u, v) \/ Block(u, v) \/ Unblock(u, v)
    PROVE  FrameOK /\ ClosedOK' /\ \A w \in Users : StepOf(w)
  <1> USE DEF TrailInv, DeliveryInv, BufOK, Here, Free, queueVars, histVars
  <1>1. ASSUME Reply({u}, Note), steps' \in 0..MaxSteps, steps' >= steps, sess[u] # "closed",
               blocked' \subseteq Users \X Users,
               UNCHANGED <<sess, mail, wire, inbox, due, lost>>
        PROVE  FrameOK /\ ClosedOK' /\ \A w \in Users : StepOf(w)
    <2>1. /\ out' = [w \in Users |-> IF w \in {u} THEN Append(out[w], Note) ELSE out[w]]
          /\ armed' = [w \in Users |-> armed[w] \/ w \in {u}]
      BY <1>1 DEF Reply
    <2>2. FrameOK
      BY <1>1 DEF FrameOK
    <2>3. ClosedOK'
      BY <1>1, <2>1 DEF ClosedOK
    <2>4. \A w \in Users : Quiet(w)
      BY <1>1, <2>1 DEF Quiet
    <2> QED
      BY <2>2, <2>3, <2>4 DEF StepOf
  <1>2. Counted => steps' = steps + 1 /\ steps' \in 0..MaxSteps /\ steps' >= steps
    BY DEF Counted
  <1>3. CASE Ask(u)
    BY <1>1, <1>2, <1>3 DEF Ask
  <1>4. CASE Block(u, v)
    BY <1>1, <1>2, <1>4 DEF Block
  <1>5. CASE Unblock(u, v)
    BY <1>1, <1>2, <1>5 DEF Unblock
  <1>6. CASE Message(u, v)
    <2>1. CASE <<v, u>> \in blocked
      BY <1>1, <1>2, <1>6, <2>1 DEF Message
    <2>2. CASE <<v, u>> \notin blocked
      <3>1. /\ Post({v}, steps + 1) /\ due' = [due EXCEPT ![v] = @ \cup {steps + 1}]
            /\ UNCHANGED <<sess, wire, blocked, inbox, lost>>
            /\ steps' = steps + 1 /\ steps' \in 0..MaxSteps /\ steps' >= steps
        BY <1>2, <1>6, <2>2 DEF Message
      <3>2. /\ out' = [w \in Users |-> IF w = v /\ sess[v] = "here" THEN Append(out[w], steps + 1)
                                       ELSE out[w]]
            /\ armed' = [w \in Users |-> armed[w] \/ (w = v /\ sess[v] = "here")]
            /\ mail' = [w \in Users |-> IF w = v /\ sess[v] # "here" THEN Append(mail[w], steps + 1)
                                        ELSE mail[w]]
        BY <3>1 DEF Post, Reply
      <3>3. FrameOK
        <4>1. steps + 1 \in Nat /\ due \in [Users -> SUBSET Nat]
          OBVIOUS
        <4>2. due[v] \cup {steps + 1} \in SUBSET Nat
          BY <4>1
        <4>3. due' \in [Users -> SUBSET Nat]
          BY <3>1, <4>1, <4>2
        <4> QED
          BY <3>1, <4>3 DEF FrameOK
      <3>4. ClosedOK'
        BY <3>1, <3>2 DEF ClosedOK
      <3>5. \A w \in Users \ {v} : Quiet(w)
        BY <3>1, <3>2 DEF Quiet
      <3>6. sess[v] = "here" => Posted(v)
        BY <3>1, <3>2 DEF Posted
      <3>7. sess[v] # "here" => Kept(v)
        BY <3>1, <3>2 DEF Kept
      <3> QED
        BY <3>3, <3>4, <3>5, <3>6, <3>7 DEF StepOf
    <2> QED
      BY <2>1, <2>2
  <1>7. CASE Broadcast(u)
    <2> DEFINE all  == {w \in Users \ {u} : Here(w)}
               deaf == {w \in all : <<w, u>> \in blocked}
               m(w) == IF w = u THEN Note ELSE steps + 1
               to   == (all \ deaf) \cup (IF deaf = {} THEN {} ELSE {u})
    <2>1. /\ out' = [w \in Users |-> IF w \in to THEN Append(out[w], m(w)) ELSE out[w]]
          /\ armed' = [w \in Users |-> armed[w] \/ w \in to]
          /\ due' = [w \in Users |-> IF w \in all \ deaf THEN due[w] \cup {steps + 1} ELSE due[w]]
      BY <1>7 DEF Broadcast
    <2>2. /\ UNCHANGED <<sess, mail, wire, blocked, inbox, lost>> /\ sess[u] = "here"
          /\ steps' = steps + 1 /\ steps' \in 0..MaxSteps /\ steps' >= steps
      BY <1>2, <1>7 DEF Broadcast
    <2>3. /\ u \notin all \ deaf /\ m(u) = Note
          /\ \A w \in all \ deaf : w \in to /\ w # u /\ sess[w] = "here" /\ m(w) = steps + 1
          /\ \A w \in to : w = u \/ w \in all \ deaf
      OBVIOUS
    <2> HIDE DEF all, deaf, to, m
    <2>4. FrameOK
      <3>1. steps + 1 \in Nat /\ due \in [Users -> SUBSET Nat]
        OBVIOUS
      <3>2. \A w \in Users : due[w] \cup {steps + 1} \in SUBSET Nat
        BY <3>1
      <3>3. due' \in [Users -> SUBSET Nat]
        BY <2>1, <3>1, <3>2
      <3> QED
        BY <2>2, <3>3 DEF FrameOK
    <2>5. ClosedOK'
      BY <2>1, <2>2, <2>3 DEF ClosedOK
    <2>6. \A w \in Users : w \in all \ deaf => Posted(w)
      BY <2>1, <2>2, <2>3 DEF Posted
    <2>7. \A w \in Users : w \notin all \ deaf => Quiet(w)
      BY <2>1, <2>2, <2>3 DEF Quiet
    <2> QED
      BY <2>4, <2>5, <2>6, <2>7 DEF StepOf
  <1> QED
    BY <1>3, <1>4, <1>5, <1>6, <1>7

LEMMA FlushKinds ==
    ASSUME TrailInv, NEW u \in Users, FlushOut(u) \/ FlushMail(u) \/ Read(u)
    PROVE  FrameOK /\ ClosedOK' /\ \A w \in Users : StepOf(w)
  <1> USE DEF TrailInv, DeliveryInv, BufOK, Here, queueVars, histVars
  <1>1. CASE FlushOut(u)
    <2> DEFINE n == Fits(u, out[u])
    <2>1. n \in 0..Len(out[u])
      BY FitsBounds
    <2>2. /\ wire' = [wire EXCEPT ![u] = @ \o SubSeq(out[u], 1, n)]
          /\ out' = [out EXCEPT ![u] = Rest(@, n)]
          /\ armed' = [armed EXCEPT ![u] = n < Len(out[u])] /\ sess[u] # "closed"
          /\ UNCHANGED <<sess, mail, blocked, steps, inbox, due, lost>>
      BY <1>1 DEF FlushOut
    <2> HIDE DEF n
    <2>3. FrameOK
      BY <2>2 DEF FrameOK
    <2>4. ClosedOK'
      BY <2>2 DEF ClosedOK
    <2>5. SentOut(u)
      BY <2>1, <2>2 DEF SentOut
    <2>6. \A w \in Users \ {u} : Quiet(w)
      BY <2>2 DEF Quiet
    <2> QED
      BY <2>3, <2>4, <2>5, <2>6 DEF StepOf
  <1>2. CASE FlushMail(u) /\ Here(u)
    <2> DEFINE n == Fits(u, mail[u])
    <2>1. n \in 0..Len(mail[u])
      BY FitsBounds
    <2>2. /\ wire' = [wire EXCEPT ![u] = @ \o SubSeq(mail[u], 1, n)]
          /\ mail' = [mail EXCEPT ![u] = Rest(@, n)]
          /\ armed' = [armed EXCEPT ![u] = @ /\ n < Len(mail[u])] /\ sess[u] = "here"
          /\ UNCHANGED <<sess, out, blocked, steps, inbox, due, lost>>
      BY <1>2 DEF FlushMail
    <2> HIDE DEF n
    <2>3. FrameOK
      BY <2>2 DEF FrameOK
    <2>4. ClosedOK'
      BY <2>2 DEF ClosedOK
    <2>5. SentMail(u)
      BY <2>1, <2>2 DEF SentMail
    <2>6. \A w \in Users \ {u} : Quiet(w)
      BY <2>2 DEF Quiet
    <2> QED
      BY <2>3, <2>4, <2>5, <2>6 DEF StepOf
  <1>3. CASE FlushMail(u) /\ ~Here(u)
    <2>1. UNCHANGED <<sess, out, mail, armed, wire, blocked, steps, inbox, due, lost>>
      BY <1>3 DEF FlushMail
    <2> QED
      BY <2>1 DEF FrameOK, ClosedOK, StepOf, Quiet
  <1>4. CASE Read(u)
    <2>1. /\ wire[u] # <<>> /\ wire' = [wire EXCEPT ![u] = Tail(@)]
          /\ inbox' = [inbox EXCEPT ![u] = IF Head(wire[u]) = Note THEN @ ELSE Append(@, Head(wire[u]))]
          /\ UNCHANGED <<sess, out, mail, armed, blocked, steps, due, lost>>
      BY <1>4 DEF Read
    <2>2. inbox' \in [Users -> Seq(Nat)]
      <3>1. Head(wire[u]) \in Nat /\ wire[u] \in Seq(Nat)
        BY <2>1, HeadTailProperties
      <3> QED
        BY <2>1, <3>1, AppendQueue
    <2>3. FrameOK
      BY <2>1, <2>2 DEF FrameOK
    <2>4. ClosedOK'
      BY <2>1 DEF ClosedOK
    <2>5. Taken(u)
      BY <2>1 DEF Taken
    <2>6. \A w \in Users \ {u} : Quiet(w)
      BY <2>1 DEF Quiet
    <2> QED
      BY <2>3, <2>4, <2>5, <2>6 DEF StepOf
  <1> QED
    BY <1>1, <1>2, <1>3, <1>4

\* What a step does to the place and the order of the messages of one user.
LEMMA TrailStep ==
    ASSUME TrailInv, FrameOK, BufOK', NEW w \in Users, StepOf(w)
    PROVE  /\ UserOK(w)'
           /\ InOrder(Trail(w)) /\ ~InOrder(Trail(w)') =>
                 Here(w) /\ mail[w] # <<>> /\ Len(out'[w]) > Len(out[w])
  <1> DEFINE a == inbox[w]
             b == wire[w]
             c == out[w]
             d == mail[w]
             e == inbox'[w]
             f == wire'[w]
             g == out'[w]
             h == mail'[w]
             m == steps + 1
  <1>1. /\ a \in Seq(Nat) /\ b \in Seq(Nat) /\ c \in Seq(Nat) /\ d \in Seq(Nat)
        /\ e \in Seq(Nat) /\ f \in Seq(Nat) /\ g \in Seq(Nat) /\ h \in Seq(Nat)
    BY DEF TrailInv, DeliveryInv, BufOK, FrameOK
  <1>2. /\ steps \in Nat /\ steps' \in Nat /\ steps' >= steps
        /\ due[w] \in SUBSET Nat /\ lost[w] \in SUBSET Nat
    BY DEF TrailInv, DeliveryInv, BufOK, FrameOK
  <1>3. Trail(w) = Four(a, b, c, d) /\ Trail(w)' = Four(e, f, g, h)
    BY DEF Trail, Four
  <1>4. /\ due[w] \subseteq 1..steps /\ lost[w] \subseteq due[w]
        /\ Messages(Four(a, b, c, d)) = due[w] \ lost[w] /\ Once(Four(a, b, c, d))
        /\ Here(w) => Below(Messages(d), Messages(c))
    BY <1>3, Zenon DEF TrailInv, UserOK
  <1> DEFINE Good == /\ due'[w] \subseteq 1..steps' /\ lost'[w] \subseteq due'[w]
                     /\ Messages(Four(e, f, g, h)) = due'[w] \ lost'[w]
                     /\ Once(Four(e, f, g, h))
                     /\ Here(w)' => Below(Messages(h), Messages(g))
             Kind == InOrder(Four(a, b, c, d)) /\ ~InOrder(Four(e, f, g, h)) =>
                        Here(w) /\ d # <<>> /\ Len(g) > Len(c)
  <1>5. Good => UserOK(w)'
    BY <1>3, Zenon DEF UserOK
  <1>15. Kind => (InOrder(Trail(w)) /\ ~InOrder(Trail(w)') =>
                    Here(w) /\ mail[w] # <<>> /\ Len(out'[w]) > Len(out[w]))
    BY <1>3, Zenon
  <1>6. /\ m \in Nat \ {Note} /\ m \notin due[w] /\ m \notin Messages(Four(a, b, c, d))
        /\ Below(Messages(Four(a, b, c, d)), {m})
    <2>1. m \in Nat /\ m # 0 /\ \A x \in 1..steps : x < m
      BY <1>2
    <2> HIDE DEF m
    <2>2. m \notin due[w]
      BY <1>2, <1>4, <2>1
    <2> QED
      BY <1>4, <2>1, <2>2 DEF Below, Note
  <1>7. due[w] \subseteq 1..steps'
    BY <1>2, <1>4
  <1> HIDE DEF a, b, c, d, e, f, g, h, m, Good, Kind
  <1>8. CASE Quiet(w)
    <2>1. /\ e = a /\ f = b /\ h = d /\ due'[w] = due[w] /\ lost'[w] = lost[w]
          /\ g = c \/ g = Append(c, Note)
          /\ Here(w)' => Here(w) \/ c = <<>>
      BY <1>8 DEF Quiet, a, b, c, d, e, f, g, h
    <2>2. /\ Messages(g) = Messages(c)
          /\ Messages(Four(e, f, g, h)) = Messages(Four(a, b, c, d))
          /\ Once(Four(e, f, g, h)) <=> Once(Four(a, b, c, d))
          /\ InOrder(Four(e, f, g, h)) <=> InOrder(Four(a, b, c, d))
      <3>1. CASE g = c
        BY <2>1, <3>1, Zenon
      <3>2. /\ Messages(Append(c, Note)) = Messages(c)
            /\ Messages(Four(a, b, Append(c, Note), d)) = Messages(Four(a, b, c, d))
            /\ Once(Four(a, b, Append(c, Note), d)) <=> Once(Four(a, b, c, d))
            /\ InOrder(Four(a, b, Append(c, Note), d)) <=> InOrder(Four(a, b, c, d))
        BY <1>1, NoteAdded
      <3>3. CASE g = Append(c, Note)
        BY <2>1, <3>2, <3>3, Zenon
      <3> QED
        BY <2>1, <3>1, <3>3
    <2>3. c = <<>> => Below(Messages(d), Messages(c))
      BY EmptyFact DEF Below
    <2>4. Good
      BY <1>4, <1>7, <2>1, <2>2, <2>3, Zenon DEF Good
    <2>5. Kind
      BY <2>2, Zenon DEF Kind
    <2> QED
      BY <1>5, <1>15, <2>4, <2>5
  <1>9. CASE Posted(w)
    <2>1. /\ e = a /\ f = b /\ h = d /\ due'[w] = due[w] \cup {m} /\ lost'[w] = lost[w]
          /\ g = Append(c, m) /\ Here(w) /\ steps' = m
      BY <1>9 DEF Posted, a, b, c, d, e, f, g, h, m
    <2>2. /\ Messages(Append(c, m)) = Messages(c) \cup {m}
          /\ Messages(Four(a, b, Append(c, m), d)) = Messages(Four(a, b, c, d)) \cup {m}
          /\ Once(Four(a, b, c, d)) => Once(Four(a, b, Append(c, m), d))
          /\ d = <<>> /\ Below(Messages(Four(a, b, c, d)), {m}) /\ InOrder(Four(a, b, c, d)) =>
                 InOrder(Four(a, b, Append(c, m), d))
      BY <1>1, <1>6, MessageOut
    <2>3. due'[w] \subseteq 1..steps' /\ lost'[w] \subseteq due'[w]
      <3>1. m \in 1..steps'
        BY <1>2, <1>6, <2>1 DEF Note
      <3> QED
        BY <1>4, <1>7, <2>1, <3>1
    <2>4. Messages(Four(e, f, g, h)) = due'[w] \ lost'[w]
      <3>1. Messages(Four(e, f, g, h)) = (due[w] \ lost[w]) \cup {m}
        BY <1>4, <2>1, <2>2, Zenon
      <3> QED
        BY <1>4, <1>6, <2>1, <3>1
    <2>5. Below(Messages(h), Messages(g))
      <3>1. Messages(d) \subseteq Messages(Four(a, b, c, d))
        <4>1. ByParts(a, b, c, d)
          BY <1>1, FourFact
        <4>2. Messages(Four(a, b, c, d)) =
                    Messages(a) \cup Messages(b) \cup Messages(c) \cup Messages(d)
          BY <4>1, Zenon DEF ByParts
        <4> QED
          BY <4>2
      <3> QED
        BY <1>4, <1>6, <2>1, <2>2, <3>1 DEF Below
    <2>6. Len(g) > Len(c)
      BY <1>1, <1>6, <2>1, AppendProperties
    <2>7. Good
      BY <1>4, <2>1, <2>2, <2>3, <2>4, <2>5, Zenon DEF Good
    <2>8. Kind
      BY <1>6, <2>1, <2>2, <2>6, Zenon DEF Kind
    <2> QED
      BY <1>5, <1>15, <2>7, <2>8
  <1>10. CASE Kept(w)
    <2>1. /\ e = a /\ f = b /\ g = c /\ due'[w] = due[w] \cup {m} /\ lost'[w] = lost[w]
          /\ h = Append(d, m) /\ ~Here(w)' /\ steps' = m
      BY <1>10 DEF Kept, a, b, c, d, e, f, g, h, m
    <2>2. /\ Messages(Four(a, b, c, Append(d, m))) = Messages(Four(a, b, c, d)) \cup {m}
          /\ Once(Four(a, b, c, d)) => Once(Four(a, b, c, Append(d, m)))
          /\ Below(Messages(Four(a, b, c, d)), {m}) /\ InOrder(Four(a, b, c, d)) =>
                 InOrder(Four(a, b, c, Append(d, m)))
      BY <1>1, <1>6, MessageMail
    <2>3. due'[w] \subseteq 1..steps' /\ lost'[w] \subseteq due'[w]
      <3>1. m \in 1..steps'
        BY <1>2, <1>6, <2>1 DEF Note
      <3> QED
        BY <1>4, <1>7, <2>1, <3>1
    <2>4. Messages(Four(e, f, g, h)) = due'[w] \ lost'[w]
      <3>1. Messages(Four(e, f, g, h)) = (due[w] \ lost[w]) \cup {m}
        BY <1>4, <2>1, <2>2, Zenon
      <3> QED
        BY <1>4, <1>6, <2>1, <3>1
    <2>5. Good
      BY <1>4, <2>1, <2>2, <2>3, <2>4, Zenon DEF Good
    <2>6. Kind
      BY <1>6, <2>1, <2>2, Zenon DEF Kind
    <2> QED
      BY <1>5, <1>15, <2>5, <2>6
  <1>11. CASE Cut(w)
    <2>1. /\ e = a /\ h = d /\ due'[w] = due[w] /\ f = <<>> /\ g = <<>> /\ ~Here(w)'
          /\ lost'[w] = lost[w] \cup Messages(c) \cup Messages(b)
      BY <1>11 DEF Cut, a, b, c, d, e, f, g, h
    <2>2. /\ Messages(Four(a, <<>>, <<>>, d)) =
                 Messages(Four(a, b, c, d)) \ (Messages(c) \cup Messages(b))
          /\ Once(Four(a, <<>>, <<>>, d))
          /\ InOrder(Four(a, b, c, d)) => InOrder(Four(a, <<>>, <<>>, d))
      BY <1>1, <1>4, ConnectionLost
    <2>3. Messages(c) \cup Messages(b) \subseteq due[w]
      <3>1. ByParts(a, b, c, d)
        BY <1>1, FourFact
      <3>2. Messages(Four(a, b, c, d)) =
                  Messages(a) \cup Messages(b) \cup Messages(c) \cup Messages(d)
        BY <3>1, Zenon DEF ByParts
      <3> QED
        BY <1>4, <3>2
    <2>4. Messages(Four(e, f, g, h)) = due'[w] \ lost'[w] /\ lost'[w] \subseteq due'[w]
      <3>1. Messages(Four(e, f, g, h)) = (due[w] \ lost[w]) \ (Messages(c) \cup Messages(b))
        BY <1>4, <2>1, <2>2, Zenon
      <3> QED
        BY <1>4, <2>1, <2>3, <3>1
    <2>5. Good
      BY <1>7, <2>1, <2>2, <2>4, Zenon DEF Good
    <2>6. Kind
      BY <2>1, <2>2, Zenon DEF Kind
    <2> QED
      BY <1>5, <1>15, <2>5, <2>6
  <1>12. CASE SentOut(w)
    <2>1. /\ e = a /\ h = d /\ due'[w] = due[w] /\ lost'[w] = lost[w] /\ (Here(w)' <=> Here(w))
          /\ \E n \in 0..Len(c) : f = b \o SubSeq(c, 1, n) /\ g = Rest(c, n)
      BY <1>12 DEF SentOut, a, b, c, d, e, f, g, h
    <2>2. PICK n \in 0..Len(c) : f = b \o SubSeq(c, 1, n) /\ g = Rest(c, n)
      BY <2>1
    <2> DEFINE x == SubSeq(c, 1, n)
               y == Rest(c, n)
    <2>3. x \in Seq(Nat) /\ y \in Seq(Nat) /\ c = x \o y
      BY <1>1, CutQueue, CutFact
    <2> HIDE DEF x, y
    <2>4. /\ Messages(y) \subseteq Messages(x \o y)
          /\ Messages(Four(a, b \o x, y, d)) = Messages(Four(a, b, x \o y, d))
          /\ Once(Four(a, b, x \o y, d)) => Once(Four(a, b \o x, y, d))
          /\ InOrder(Four(a, b, x \o y, d)) => InOrder(Four(a, b \o x, y, d))
      BY <1>1, <2>3, SentFromOut
    <2>5. f = b \o x /\ g = y
      BY <2>2 DEF x, y
    <2>6. /\ Messages(g) \subseteq Messages(c)
          /\ Messages(Four(e, f, g, h)) = Messages(Four(a, b, c, d))
          /\ Once(Four(a, b, c, d)) => Once(Four(e, f, g, h))
          /\ InOrder(Four(a, b, c, d)) => InOrder(Four(e, f, g, h))
      BY <2>1, <2>3, <2>4, <2>5, Zenon
    <2>7. Here(w)' => Below(Messages(h), Messages(g))
      BY <1>4, <2>1, <2>6 DEF Below
    <2>8. Good
      BY <1>4, <1>7, <2>1, <2>6, <2>7, Zenon DEF Good
    <2>9. Kind
      BY <2>6, Zenon DEF Kind
    <2> QED
      BY <1>5, <1>15, <2>8, <2>9
  <1>13. CASE SentMail(w)
    <2>1. /\ e = a /\ g = c /\ due'[w] = due[w] /\ lost'[w] = lost[w] /\ Here(w)
          /\ \E n \in 0..Len(d) : f = b \o SubSeq(d, 1, n) /\ h = Rest(d, n)
      BY <1>13 DEF SentMail, a, b, c, d, e, f, g, h
    <2>2. PICK n \in 0..Len(d) : f = b \o SubSeq(d, 1, n) /\ h = Rest(d, n)
      BY <2>1
    <2> DEFINE x == SubSeq(d, 1, n)
               y == Rest(d, n)
    <2>3. x \in Seq(Nat) /\ y \in Seq(Nat) /\ d = x \o y
      BY <1>1, CutQueue, CutFact
    <2> HIDE DEF x, y
    <2>4. /\ Messages(y) \subseteq Messages(x \o y)
          /\ Messages(Four(a, b \o x, c, y)) = Messages(Four(a, b, c, x \o y))
          /\ Once(Four(a, b, c, x \o y)) => Once(Four(a, b \o x, c, y))
          /\ Below(Messages(x \o y), Messages(c)) /\ InOrder(Four(a, b, c, x \o y)) =>
                 InOrder(Four(a, b \o x, c, y))
      BY <1>1, <2>3, SentFromMail
    <2>5. f = b \o x /\ h = y
      BY <2>2 DEF x, y
    <2>6. /\ Messages(h) \subseteq Messages(d)
          /\ Messages(Four(e, f, g, h)) = Messages(Four(a, b, c, d))
          /\ Once(Four(a, b, c, d)) => Once(Four(e, f, g, h))
          /\ InOrder(Four(a, b, c, d)) => InOrder(Four(e, f, g, h))
      BY <1>4, <2>1, <2>3, <2>4, <2>5, Zenon
    <2>7. Below(Messages(h), Messages(g))
      BY <1>4, <2>1, <2>6 DEF Below
    <2>8. Good
      BY <1>4, <1>7, <2>1, <2>6, <2>7, Zenon DEF Good
    <2>9. Kind
      BY <2>6, Zenon DEF Kind
    <2> QED
      BY <1>5, <1>15, <2>8, <2>9
  <1>14. CASE Taken(w)
    <2>1. /\ b # <<>> /\ f = Tail(b) /\ g = c /\ h = d
          /\ e = IF Head(b) = Note THEN a ELSE Append(a, Head(b))
          /\ due'[w] = due[w] /\ lost'[w] = lost[w] /\ (Here(w)' <=> Here(w))
      BY <1>14 DEF Taken, a, b, c, d, e, f, g, h
    <2>2. /\ Head(b) = Note =>
               /\ Messages(Four(a, Tail(b), c, d)) = Messages(Four(a, b, c, d))
               /\ Once(Four(a, b, c, d)) => Once(Four(a, Tail(b), c, d))
               /\ InOrder(Four(a, b, c, d)) => InOrder(Four(a, Tail(b), c, d))
          /\ Head(b) # Note =>
               /\ Messages(Four(Append(a, Head(b)), Tail(b), c, d)) = Messages(Four(a, b, c, d))
               /\ Once(Four(a, b, c, d)) => Once(Four(Append(a, Head(b)), Tail(b), c, d))
               /\ InOrder(Four(a, b, c, d)) => InOrder(Four(Append(a, Head(b)), Tail(b), c, d))
      BY <1>1, <2>1, ReadFact
    <2>3. /\ Messages(Four(e, f, g, h)) = Messages(Four(a, b, c, d))
          /\ Once(Four(a, b, c, d)) => Once(Four(e, f, g, h))
          /\ InOrder(Four(a, b, c, d)) => InOrder(Four(e, f, g, h))
      BY <2>1, <2>2, Zenon
    <2>4. Good
      BY <1>4, <1>7, <2>1, <2>3, Zenon DEF Good
    <2>5. Kind
      BY <2>3, Zenon DEF Kind
    <2> QED
      BY <1>5, <1>15, <2>4, <2>5
  <1> QED
    BY <1>8, <1>9, <1>10, <1>11, <1>12, <1>13, <1>14, Zenon DEF StepOf

\* Every step is of one of the kinds, and keeps the types.
LEMMA StepKinds ==
    ASSUME TrailInv, [Next]_vars
    PROVE  FrameOK /\ ClosedOK' /\ \A w \in Users : StepOf(w)
  <1>1. CASE UNCHANGED vars
    <2>1. UNCHANGED <<sess, out, mail, armed, wire, blocked, steps, inbox, due, lost>>
      BY <1>1 DEF vars, queueVars, histVars
    <2> QED
      BY <2>1 DEF TrailInv, DeliveryInv, BufOK, FrameOK, ClosedOK, StepOf, Quiet, Here
  <1>2. CASE Next
    <2>1. PICK u \in Users :
            \/ Login(u) \/ Expire(u) \/ Reap(u) \/ Close(u)
            \/ Ask(u) \/ Broadcast(u)
            \/ \E v \in Users : Message(u, v) \/ Block(u, v) \/ Unblock(u, v)
            \/ FlushOut(u) \/ FlushMail(u) \/ Read(u)
      BY <1>2 DEF Next
    <2>2. CASE Login(u) \/ Expire(u) \/ Reap(u) \/ Close(u)
      BY <2>2, SessionKinds
    <2>3. CASE \E v \in Users :
                  Ask(u) \/ Broadcast(u) \/ Message(u, v) \/ Block(u, v) \/ Unblock(u, v)
      BY <2>3, RequestKinds
    <2>4. CASE FlushOut(u) \/ FlushMail(u) \/ Read(u)
      BY <2>4, FlushKinds
    <2> QED
      BY <2>1, <2>2, <2>3, <2>4
  <1> QED
    BY <1>1, <1>2

LEMMA TrailStart == Init => TrailInv
  <1> SUFFICES ASSUME Init PROVE TrailInv
    OBVIOUS
  <1>1. DeliveryInv
    BY DeliveryStart
  <1>2. /\ inbox = [u \in Users |-> <<>>] /\ wire = [u \in Users |-> <<>>]
        /\ out = [u \in Users |-> <<>>] /\ mail = [u \in Users |-> <<>>]
        /\ due = [u \in Users |-> {}] /\ lost = [u \in Users |-> {}]
        /\ sess = [u \in Users |-> "closed"] /\ armed = [u \in Users |-> FALSE]
        /\ blocked = {} /\ steps = 0
    BY DEF Init
  <1>3. <<>> \in Seq(Nat) /\ Messages(<<>>) = {} /\ Once(<<>>)
    BY EmptyFact
  <1>4. ASSUME NEW u \in Users PROVE UserOK(u)
    <2> DEFINE q == <<>>
    <2>1. q \in Seq(Nat) /\ Messages(q) = {} /\ Once(q)
      BY <1>3
    <2>2. Trail(u) = Four(q, q, q, q)
      BY <1>2 DEF Trail, Four
    <2> HIDE DEF q
    <2>3. ByParts(q, q, q, q)
      BY <2>1, FourFact
    <2>4. Messages(Four(q, q, q, q)) = {} /\ Once(Four(q, q, q, q))
      <3>1. Messages(q) \cup Messages(q) \cup Messages(q) \cup Messages(q) = {}
        BY <2>1
      <3>2. Messages(q) \cap Messages(q) = {}
        BY <2>1
      <3> QED
        BY <2>1, <2>3, <3>1, <3>2, Zenon DEF ByParts
    <2> QED
      BY <1>2, <2>2, <2>4 DEF UserOK, Here
  <1> QED
    BY <1>1, <1>2, <1>3, <1>4 DEF TrailInv, ClosedOK

LEMMA TrailKept ==
    ASSUME TrailInv, [Next]_vars
    PROVE  TrailInv'
  <1>1. DeliveryInv'
    BY DeliveryStep DEF TrailInv
  <1>2. FrameOK /\ ClosedOK' /\ \A w \in Users : StepOf(w)
    BY StepKinds
  <1>3. BufOK'
    BY <1>1 DEF DeliveryInv
  <1>4. \A w \in Users : UserOK(w)'
    BY <1>2, <1>3, TrailStep
  <1> QED
    BY <1>1, <1>2, <1>4 DEF TrailInv, FrameOK

\* However logins, timeouts, requests, short sends and closing connections follow
\* each other, an accepted message is read, on its way to its user, or lost with the
\* connection that held it, and it is never there twice.
THEOREM DeliveredOnce == Spec => []ExactlyOnce
  <1>1. TrailInv => ExactlyOnce
    <2> SUFFICES ASSUME TrailInv PROVE ExactlyOnce
      OBVIOUS
    <2>1. TypeOK
      BY DEF TrailInv, DeliveryInv, BufOK, ClosedOK, UserOK, TypeOK
    <2>2. \A u \in Users : Messages(Trail(u)) = due[u] \ lost[u] /\ Once(Trail(u))
      BY DEF TrailInv, UserOK
    <2> QED
      BY <2>1, <2>2 DEF ExactlyOnce
  <1>2. TrailInv /\ [Next]_vars => TrailInv'
    BY TrailKept
  <1> QED
    BY <1>1, <1>2, TrailStart, PTL DEF Spec

\* Messages keep their order, but for one that is sent to a user who is logged in
\* and has part of his mailbox before him.
THEOREM OvertakingIsByPost == Spec => OvertakenByPostOnly
  <1> DEFINE Kept2(u) == InOrder(Trail(u)) /\ ~InOrder(Trail(u)') =>
                            Here(u) /\ mail[u] # <<>> /\ Len(out'[u]) > Len(out[u])
  <1>1. TrailInv /\ [Next]_vars => [\A u \in Users : Kept2(u)]_vars
    <2> SUFFICES ASSUME TrailInv, [Next]_vars PROVE \A u \in Users : Kept2(u)
      OBVIOUS
    <2>1. FrameOK /\ \A w \in Users : StepOf(w)
      BY StepKinds
    <2>2. BufOK'
      BY DeliveryStep DEF TrailInv, DeliveryInv
    <2> QED
      BY <2>1, <2>2, TrailStep
  <1>2. TrailInv /\ [Next]_vars => TrailInv'
    BY TrailKept
  <1> QED
    BY <1>1, <1>2, TrailStart, PTL DEF Spec, OvertakenByPostOnly
=============================================================================
