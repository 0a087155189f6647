------------------------------ MODULE ClientProofs --------------------------
(***************************************************************************)
(* What the user of the bundled client can rely on, first when he logs in  *)
(* (ClientLogin), then when he types commands (Requests).                  *)
(*                                                                         *)
(* The client goes on to commands only after a login that succeeded,       *)
(* however many passwords are typed and wherever answers are cut.  The     *)
(* test is of lastresponse, which any success sets; the proof is that a    *)
(* success which is not the answer to a login never comes before one that  *)
(* is: the server writes notices to sessions only, and answers keep their  *)
(* order.                                                                  *)
(*                                                                         *)
(* Commands and answers are what they were, in their order, although recv  *)
(* returns pieces of any size.  Both ways have the same invariant, Follows *)
(* below: the receiver's buffer with the stream behind it is the messages  *)
(* that have not been taken yet, one after the other, each of them whole,  *)
(* as long as the server has not closed the connection.  So the next       *)
(* message is there exactly when the length in its head says so, and it is *)
(* read as it was written.  What the handlers do to the block list and to  *)
(* the answers of whoelse is stated of the requests as they were meant.    *)
(***************************************************************************)
EXTENDS Requests, ClientLogin, FiniteSetTheorems, WellFoundedInduction, TLAPS

\* A "Welcome" has been parsed or is among the first k answers on their way.
Explained(k) == welcome \/ \E j \in 1..k : loginDown[j] = "welcome"

LoginInv ==
    /\ loginDown \in Seq(Answers)
    /\ ReadyIsWelcome
    /\ Running => /\ last => welcome
                  /\ bound => Explained(Len(loginDown))
                  /\ \A i \in 1..Len(loginDown) : loginDown[i] = "notice" => Explained(i)

-----------------------------------------------------------------------------
(* What a step of the network thread and of the server does to the answers *)
(* on their way.                                                           *)

\* When an input has an answer that ends the client, parsing stops at one.
LEMMA ParsedFact ==
    ASSUME NEW n \in Nat
    PROVE  \/ Parsed(n) = n /\ \A i \in 1..n : loginDown[i] \notin Exits
           \/ Parsed(n) \in 1..n /\ loginDown[Parsed(n)] \in Exits
<1> DEFINE ends == {i \in 1..n : loginDown[i] \in Exits}
           R == {ss \in Nat \X Nat : ss[1] < ss[2]}
<1>1. CASE ends = {}
  BY <1>1 DEF Parsed
<1>2. CASE ends # {}
  <2>1. IsWellFoundedOn(R, Nat)
    BY NatLessThanWellFounded DEF OpToRel
  <2>2. ends \subseteq Nat
    OBVIOUS
  <2>3. PICK x \in ends : \A y \in ends : ~ (<<y, x>> \in R)
    BY <1>2, <2>1, <2>2, WFMin
  <2>4. ASSUME NEW y \in ends PROVE x <= y
    <3>1. <<y, x>> \notin R
      BY <2>3
    <3>2. ~(y < x)
      BY <2>2, <3>1
    <3> QED BY <2>2, <3>2
  <2>5. (CHOOSE i \in ends : \A j \in ends : i <= j) \in ends
    BY <2>4
  <2> QED BY <1>2, <2>5 DEF Parsed
<1> QED BY <1>1, <1>2

\* What is put behind the others changes none of them.
LEMMA AppendFact ==
    ASSUME loginDown \in Seq(Answers), NEW a \in Answers, loginDown' = Append(loginDown, a), UNCHANGED welcome
    PROVE  /\ loginDown' \in Seq(Answers) /\ Len(loginDown') = Len(loginDown) + 1 /\ Len(loginDown) \in Nat
           /\ \A i \in 1..Len(loginDown) : loginDown'[i] = loginDown[i]
           /\ loginDown'[Len(loginDown) + 1] = a
           /\ \A i \in 1..Len(loginDown) : Explained(i) => Explained(i)'
           /\ Explained(Len(loginDown)) => \A i \in {Len(loginDown), Len(loginDown) + 1} : Explained(i)'
<1>1. /\ loginDown' \in Seq(Answers) /\ Len(loginDown') = Len(loginDown) + 1 /\ Len(loginDown) \in Nat
      /\ \A i \in 1..Len(loginDown) : loginDown'[i] = loginDown[i]
      /\ loginDown'[Len(loginDown) + 1] = a
  OBVIOUS
<1>2. ASSUME NEW i \in 0..Len(loginDown), NEW k \in i..(i + 1), Explained(i)
      PROVE  welcome' \/ \E j \in 1..k : loginDown'[j] = "welcome"
  BY <1>1, <1>2 DEF Explained
<1>3. \A i \in 1..Len(loginDown) : Explained(i) => Explained(i)'
  BY <1>1, <1>2 DEF Explained
<1>4. Explained(Len(loginDown)) => \A i \in {Len(loginDown), Len(loginDown) + 1} : Explained(i)'
  BY <1>1, <1>2 DEF Explained
<1> QED BY <1>1, <1>3, <1>4

\* A whole input is read and does not end the client: what stays is explained by
\* what stays or by what was read.
LEMMA ReadFact ==
    ASSUME LoginInv, Running, NEW n \in 0..Len(loginDown), NEW more \in BOOLEAN, Read(n, more)
    PROVE  LoginInv'
<1>1. /\ Len(loginDown) \in Nat /\ n \in Nat /\ n <= Len(loginDown)
      /\ loginDown' = SubSeq(loginDown, n + 1, Len(loginDown))
      /\ UNCHANGED <<inPc, bound>>
  BY DEF LoginInv, Read
<1>2. /\ loginDown' \in Seq(Answers) /\ Len(loginDown') = Len(loginDown) - n
      /\ \A i \in 1..Len(loginDown') : loginDown'[i] = loginDown[n + i]
  BY <1>1 DEF LoginInv
<1>3. /\ welcome \/ (\E i \in 1..Parsed(n) : loginDown[i] = "welcome") => welcome'
      /\ last' = LastAfter(Parsed(n)) /\ gone' = ExitAfter(Parsed(n))
  BY Zenon DEF Read
<1>4. ReadyIsWelcome'
  BY <1>1, <1>3 DEF LoginInv, ReadyIsWelcome
<1>5. ASSUME Running' PROVE Parsed(n) = n
  <2>1. CASE Parsed(n) \in 1..n /\ loginDown[Parsed(n)] \in Exits
    <3>1. gone' = loginDown[Parsed(n)]
      BY <2>1, <1>1, <1>3 DEF ExitAfter
    <3> QED BY <1>5, <2>1, <3>1 DEF Running, Exits
  <2> QED BY <1>1, <2>1, ParsedFact
<1>6. ASSUME Running', NEW k \in n..Len(loginDown), Explained(k)
      PROVE  welcome' \/ \E j \in 1..(k - n) : loginDown'[j] = "welcome"
  <2>1. CASE welcome
    BY <1>3, <2>1
  <2>2. ASSUME NEW j \in 1..k, loginDown[j] = "welcome"
        PROVE  welcome' \/ \E i \in 1..(k - n) : loginDown'[i] = "welcome"
    <3>1. CASE j <= n
      <4>1. j \in 1..Parsed(n)
        BY <1>1, <1>5, <1>6, <3>1
      <4> QED BY <1>3, <2>2, <4>1
    <3>2. CASE j > n
      <4>1. j - n \in 1..(k - n) /\ j - n \in 1..Len(loginDown') /\ n + (j - n) = j
        BY <1>1, <1>2, <3>2
      <4> QED BY <1>2, <2>2, <4>1
    <3>3. j <= n \/ j > n
      BY <1>1, <1>6
    <3> QED BY <3>1, <3>2, <3>3, Zenon
  <2> QED BY <1>6, <2>1, <2>2 DEF Explained
<1>7. ASSUME Running' PROVE last' => welcome'
  <2>1. CASE n = 0
    BY <1>3, <1>5, <1>7, <2>1 DEF LastAfter, LoginInv
  <2>2. CASE n # 0 /\ last'
    <3>1. n \in 1..Len(loginDown)
      BY <1>1, <2>2
    <3>2. loginDown[n] \in Successes
      BY <1>3, <1>5, <1>7, <2>2, Zenon DEF LastAfter
    <3>3. loginDown[n] = "welcome" \/ loginDown[n] = "notice"
      BY <3>2 DEF Successes
    <3>4. Explained(n)
      <4>1. n \in 1..n
        BY <1>1, <3>1
      <4> QED BY <3>1, <3>3, <4>1, Zenon DEF LoginInv, Explained
    <3> QED BY <1>3, <1>5, <1>7, <3>4, Zenon DEF Explained
  <2> QED BY <2>1, <2>2
<1>8. ASSUME Running' PROVE bound' => Explained(Len(loginDown))'
  <2>1. bound => Explained(Len(loginDown))
    BY DEF LoginInv
  <2>2. Len(loginDown) \in n..Len(loginDown) /\ Len(loginDown') = Len(loginDown) - n
    BY <1>1, <1>2
  <2>3. Explained(Len(loginDown)) => Explained(Len(loginDown))'
    BY <1>6, <1>8, <2>2 DEF Explained
  <2> QED BY <1>1, <2>1, <2>3, Zenon
<1>9. ASSUME Running', NEW i \in 1..Len(loginDown'), loginDown'[i] = "notice" PROVE Explained(i)'
  <2>1. n + i \in 1..Len(loginDown) /\ n + i \in n..Len(loginDown) /\ (n + i) - n = i
    BY <1>1, <1>2
  <2>2. Explained(n + i)
    BY <1>2, <1>9, <2>1 DEF LoginInv
  <2> QED BY <1>6, <1>9, <2>1, <2>2 DEF Explained
<1> QED BY <1>2, <1>4, <1>7, <1>8, <1>9 DEF LoginInv

-----------------------------------------------------------------------------
\* Every step keeps the invariant.
LEMMA NextLoginInv == LoginInv /\ [LoginNext]_loginVars => LoginInv'
<1> SUFFICES ASSUME LoginInv, [LoginNext]_loginVars PROVE LoginInv'
  OBVIOUS
<1> USE DEF net, hist, loginClient
<1>1. ASSUME Lock \/ Test \/ (\E p \in Passwords : Ask(p)) \/ Unlock \/ UNCHANGED loginVars
      PROVE  LoginInv'
  BY <1>1 DEF Lock, Test, Ask, Unlock, loginVars, LoginInv, ReadyIsWelcome, Running, Explained
<1>2. ASSUME NEW n \in 0..Len(loginDown), NEW more \in BOOLEAN, Read(n, more) PROVE LoginInv'
  BY <1>2, ReadFact DEF Read
<1>3. ASSUME NEW r \in LoginAnswers, Serve(r) PROVE LoginInv'
  <2>1. /\ loginDown' = Append(loginDown, r) /\ r \in Answers /\ UNCHANGED <<loginClient, hist>>
        /\ bound' => bound \/ r = "welcome"
    BY <1>3 DEF Serve, Answers
  <2>2. r # "notice"
    BY DEF LoginAnswers
  <2>3. r = "welcome" => Explained(Len(loginDown))'
    <3>1. loginDown'[Len(loginDown')] = r /\ Len(loginDown') \in 1..Len(loginDown')
      BY <2>1 DEF LoginInv
    <3> QED BY <3>1 DEF Explained
  <2>4. /\ loginDown' \in Seq(Answers) /\ Len(loginDown') = Len(loginDown) + 1 /\ Len(loginDown) \in Nat
        /\ \A i \in 1..Len(loginDown) : loginDown'[i] = loginDown[i]
        /\ loginDown'[Len(loginDown) + 1] = r
        /\ \A i \in 1..Len(loginDown) : Explained(i) => Explained(i)'
        /\ Explained(Len(loginDown)) => Explained(Len(loginDown))'
    <3>1. loginDown \in Seq(Answers) /\ UNCHANGED welcome
      BY <2>1 DEF LoginInv
    <3>2. Len(loginDown') = Len(loginDown) + 1
      BY <2>1, <3>1
    <3> QED BY <2>1, <3>1, <3>2, AppendFact
  <2>5. Running' /\ bound' => Explained(Len(loginDown))'
    BY <2>1, <2>3, <2>4 DEF LoginInv, Running
  <2>6. Running' => \A i \in 1..Len(loginDown') : loginDown'[i] = "notice" => Explained(i)'
    BY <2>1, <2>2, <2>4 DEF LoginInv, Running
  <2> QED BY <2>1, <2>4, <2>5, <2>6 DEF LoginInv, ReadyIsWelcome, Running
<1>4. CASE Notify
  <2>1. loginDown' = Append(loginDown, "notice") /\ "notice" \in Answers /\ bound /\ UNCHANGED <<loginClient, bound, hist>>
    BY <1>4 DEF Notify, Answers
  <2> QED BY <2>1, AppendFact DEF LoginInv, ReadyIsWelcome, Running
<1>5. CASE Reap
  <2>1. loginDown' = Append(loginDown, "idle") /\ "idle" \in Answers /\ ~bound' /\ UNCHANGED <<loginClient, hist>>
    BY <1>5 DEF Reap, Answers
  <2> QED BY <2>1, AppendFact DEF LoginInv, ReadyIsWelcome, Running
<1> QED BY <1>1, <1>2, <1>3, <1>4, <1>5 DEF LoginNext, Input, Network, Server

\* Whatever a client reads and wherever it is cut, it goes on to commands only when it
\* has been welcomed.
THEOREM ReadyMeansWelcome == LoginSpec => []ReadyIsWelcome
<1>1. LoginInit => LoginInv
  BY DEF LoginInit, LoginInv, ReadyIsWelcome
<1>2. LoginInv => ReadyIsWelcome
  BY DEF LoginInv
<1> QED BY <1>1, <1>2, NextLoginInv, PTL DEF LoginSpec

-----------------------------------------------------------------------------
(* One login at a time.                                                    *)

\* The answers to logins among the first k on their way.
LoginsIn(k) == {i \in 1..k : loginDown[i] \in LoginAnswers}

\* There are never more answers than passwords.
Accounted ==
    /\ LoginTypeOK
    /\ done + Cardinality(LoginsIn(Len(loginDown))) + Len(loginUp) <= asked

\* What loginlock and the answers on their way can be while no input was cut short:
\* the input thread has the lock to itself, or waits for the answer to its login,
Resting ==
    /\ Running /\ asked = done /\ ~bound /\ ~last /\ loginUp = <<>> /\ loginDown = <<>>
    /\ \/ inPc = "lock" /\ (locked <=> netPc = "unlock")
       \/ inPc \in {"test", "ask"} /\ locked /\ netPc = "wait"

Asking ==
    /\ Running /\ asked = done + 1 /\ ~last /\ inPc = "lock" /\ locked /\ netPc = "wait"
    /\ \/ Len(loginUp) = 1 /\ loginDown = <<>> /\ ~bound
       \/ /\ loginUp = <<>> /\ loginDown # <<>> /\ loginDown[1] \in LoginAnswers
          /\ loginDown[1] # "welcome" => Len(loginDown) = 1 /\ ~bound
          /\ \A i \in 2..Len(loginDown) : loginDown[i] \notin LoginAnswers

\* or has succeeded, or the client is gone.
Succeeded ==
    /\ Running /\ asked = done /\ last /\ inPc # "ask" /\ loginUp = <<>>
    /\ \A i \in 1..Len(loginDown) : loginDown[i] \notin LoginAnswers

Gone == ~Running /\ inPc # "ask" /\ asked \in {done, done + 1}

\* The inductive invariant.
TurnInv == Accounted /\ (early \/ Resting \/ Asking \/ Succeeded \/ Gone)

LEMMA LoginsFinite ==
    ASSUME NEW n \in Nat
    PROVE  IsFiniteSet(LoginsIn(n)) /\ Cardinality(LoginsIn(n)) \in Nat
<1>1. IsFiniteSet(1..n)
  BY FS_Interval
<1>2. IsFiniteSet(LoginsIn(n))
  BY <1>1, FS_Subset DEF LoginsIn
<1> QED BY <1>2, FS_CardinalityType

\* An answer is put behind the others.
LEMMA LoginsAppend ==
    ASSUME loginDown \in Seq(Answers), NEW a \in Answers, loginDown' = Append(loginDown, a)
    PROVE  Cardinality(LoginsIn(Len(loginDown)))' =
              Cardinality(LoginsIn(Len(loginDown))) + (IF a \in LoginAnswers THEN 1 ELSE 0)
<1> DEFINE n == Len(loginDown)
           S == LoginsIn(n)
           T == {i \in 1..(n + 1) : loginDown'[i] \in LoginAnswers}
<1>1. /\ n \in Nat /\ Len(loginDown') = n + 1 /\ loginDown'[n + 1] = a
      /\ \A i \in 1..n : loginDown'[i] = loginDown[i]
  OBVIOUS
<1>2. LoginsIn(Len(loginDown))' = T
  BY <1>1 DEF LoginsIn
<1>3. T = IF a \in LoginAnswers THEN S \cup {n + 1} ELSE S
  <2>1. \A i : i \in 1..(n + 1) <=> i \in 1..n \/ i = n + 1
    BY <1>1
  <2> HIDE DEF n
  <2> QED BY <1>1, <2>1 DEF LoginsIn
<1>4. n + 1 \notin S /\ IsFiniteSet(S) /\ Cardinality(S) \in Nat
  BY <1>1, LoginsFinite DEF LoginsIn
<1>5. Cardinality(S \cup {n + 1}) = Cardinality(S) + 1
  BY <1>4, FS_AddElement
<1> HIDE DEF S, T, n
<1>6. Cardinality(T) = Cardinality(S) + (IF a \in LoginAnswers THEN 1 ELSE 0)
  BY <1>3, <1>4, <1>5
<1> QED BY <1>2, <1>6 DEF S, n

\* Those that are parsed and those that stay are different ones.
LEMMA LoginsCut ==
    ASSUME loginDown \in Seq(Answers), NEW n \in 0..Len(loginDown), NEW k \in 0..n,
           loginDown' = SubSeq(loginDown, n + 1, Len(loginDown))
    PROVE  Cardinality(LoginsIn(k)) + Cardinality(LoginsIn(Len(loginDown)))' <=
              Cardinality(LoginsIn(Len(loginDown)))
<1> DEFINE m == Len(loginDown)
           A == LoginsIn(k)
           S == LoginsIn(m)
           T == {i \in 1..(m - n) : loginDown'[i] \in LoginAnswers}
           B == {i \in (n + 1)..m : loginDown[i] \in LoginAnswers}
           f == [i \in T |-> n + i]
<1>1. /\ m \in Nat /\ n \in Nat /\ n <= m /\ k \in Nat /\ k <= n /\ m - n \in Nat
      /\ Len(loginDown') = m - n /\ \A i \in 1..(m - n) : loginDown'[i] = loginDown[n + i]
  OBVIOUS
<1>2. LoginsIn(Len(loginDown))' = T
  BY <1>1 DEF LoginsIn
<1>3. IsFiniteSet(A) /\ Cardinality(A) \in Nat /\ IsFiniteSet(S) /\ Cardinality(S) \in Nat
  BY <1>1, LoginsFinite
<1> HIDE DEF m
<1>4. A \subseteq S /\ B \subseteq S /\ A \cap B = {}
  BY <1>1 DEF LoginsIn
<1>5. IsFiniteSet(B) /\ Cardinality(B) \in Nat
  BY <1>3, <1>4, FS_Subset, FS_CardinalityType
<1>6. f \in Injection(T, B)
  <2>1. ASSUME NEW i \in T PROVE n + i \in B
    BY <1>1
  <2>2. f \in [T -> B]
    BY <2>1
  <2>3. \A i, j \in T : f[i] = f[j] => i = j
    BY <1>1
  <2> QED BY <2>2, <2>3 DEF Injection, IsInjective
<1> HIDE DEF A, B, S, T, f
<1>7. Cardinality(T) <= Cardinality(B) /\ IsFiniteSet(T) /\ Cardinality(T) \in Nat
  BY <1>5, <1>6, FS_Injection, FS_CardinalityType
<1>8. /\ IsFiniteSet(A \cup B) /\ Cardinality(A \cup B) \in Nat
      /\ Cardinality(A \cup B) = Cardinality(A) + Cardinality(B)
  <2>1. /\ IsFiniteSet(A \cup B)
        /\ Cardinality(A \cup B) = Cardinality(A) + Cardinality(B) - Cardinality(A \cap B)
    BY <1>3, <1>5, FS_Union
  <2>2. Cardinality(A \cap B) = 0
    BY <1>4, FS_EmptySet
  <2> QED BY <1>3, <1>5, <2>1, <2>2
<1>9. Cardinality(A \cup B) <= Cardinality(S)
  BY <1>3, <1>4, FS_Subset
<1>10. Cardinality(A) + Cardinality(T) <= Cardinality(S)
  BY <1>3, <1>5, <1>7, <1>8, <1>9
<1> QED BY <1>2, <1>10 DEF A, S, m

\* The input thread, and the unlock.
LEMMA InputTurn ==
    ASSUME MaxLogins \in Nat, TurnInv, Lock \/ Test \/ (\E p \in Passwords : Ask(p)) \/ Unlock \/ UNCHANGED loginVars
    PROVE  TurnInv'
<1> USE DEF net, hist, loginClient
<1> DEFINE L == Cardinality(LoginsIn(Len(loginDown)))
<1>1. LoginTypeOK /\ done + L + Len(loginUp) <= asked
  BY DEF TurnInv, Accounted
<1>2. loginDown' = loginDown /\ L' = L
  BY DEF Lock, Test, Ask, Unlock, loginVars, LoginsIn
<1>3. L \in Nat /\ Len(loginDown) \in Nat
  <2>1. Len(loginDown) \in Nat
    BY <1>1 DEF LoginTypeOK
  <2> QED BY <2>1, LoginsFinite
<1> HIDE DEF L
<1>4. CASE Lock \/ Test \/ Unlock \/ UNCHANGED loginVars
  <2>1. UNCHANGED <<loginUp, loginDown, bound, gone, asked, done, early>>
    BY <1>4 DEF Lock, Test, Unlock, loginVars
  <2>2. Accounted'
    <3>1. LoginTypeOK'
      BY <1>1, <1>4 DEF LoginTypeOK, Lock, Test, Unlock, loginVars
    <3> QED BY <1>1, <1>2, <2>1, <3>1 DEF Accounted, L
  <2>3. CASE early
    BY <2>1, <2>2, <2>3 DEF TurnInv
  <2>4. CASE Resting
    <3>1. ASSUME Lock PROVE Resting'
      BY <1>1, <2>1, <2>4, <3>1 DEF Resting, Lock, Running, LoginTypeOK
    <3>2. ASSUME Test PROVE Resting'
      BY <2>1, <2>4, <3>2 DEF Resting, Test, Running
    <3>3. ASSUME Unlock PROVE Resting'
      BY <2>1, <2>4, <3>3 DEF Resting, Unlock, Running
    <3>4. ASSUME UNCHANGED loginVars PROVE Resting'
      BY <2>1, <2>4, <3>4 DEF Resting, loginVars, Running
    <3>5. Resting'
      BY <1>4, <3>1, <3>2, <3>3, <3>4
    <3> QED BY <2>2, <3>5 DEF TurnInv
  <2>5. CASE Asking
    BY <1>4, <2>2, <2>5 DEF Asking, TurnInv, Lock, Test, Unlock, loginVars, Running
  <2>6. CASE Succeeded
    BY <1>4, <2>2, <2>6 DEF Succeeded, TurnInv, Lock, Test, Unlock, loginVars, Running
  <2>7. CASE Gone
    BY <1>4, <2>2, <2>7 DEF Gone, TurnInv, Lock, Test, Unlock, loginVars, Running
  <2> QED BY <2>3, <2>4, <2>5, <2>6, <2>7 DEF TurnInv
<1>5. ASSUME NEW p \in Passwords, Ask(p) PROVE TurnInv'
  <2>1. /\ Running /\ inPc = "ask" /\ asked < MaxLogins /\ asked' = asked + 1
        /\ loginUp' = Append(loginUp, p) /\ inPc' = "lock"
        /\ UNCHANGED <<netPc, locked, last, gone, loginDown, bound, done, welcome, early>>
    BY <1>5 DEF Ask
  <2>2. loginUp' \in Seq(Passwords) /\ Len(loginUp') = Len(loginUp) + 1 /\ Len(loginUp) \in Nat
    BY <1>1, <2>1 DEF LoginTypeOK
  <2>3. asked \in Nat /\ done \in Nat /\ asked' \in 0..MaxLogins
    BY <1>1, <2>1 DEF LoginTypeOK
  <2>4. LoginTypeOK'
    BY <1>1, <2>1, <2>2, <2>3 DEF LoginTypeOK
  <2>5. done' + L' + Len(loginUp') <= asked'
    <3>1. done + L + (Len(loginUp) + 1) <= asked + 1
      BY <1>1, <1>3, <2>2, <2>3
    <3> QED BY <1>2, <2>1, <2>2, <3>1
  <2>6. Accounted'
    BY <2>4, <2>5 DEF Accounted, L
  <2>7. Resting => Asking'
    <3>1. ASSUME loginUp = <<>> PROVE Len(loginUp') = 1
      BY <2>2, <3>1
    <3> QED BY <2>1, <3>1 DEF Resting, Asking, Running
  <2> QED BY <2>1, <2>6, <2>7 DEF TurnInv, Asking, Succeeded, Gone
<1> QED BY <1>4, <1>5

\* The server.
LEMMA ServerTurn ==
    ASSUME TurnInv, (\E r \in LoginAnswers : Serve(r)) \/ Notify \/ Reap
    PROVE  TurnInv'
<1> USE DEF net, hist, loginClient
<1> DEFINE L == Cardinality(LoginsIn(Len(loginDown)))
<1>1. LoginTypeOK /\ done + L + Len(loginUp) <= asked
  BY DEF TurnInv, Accounted
<1>2. Len(loginDown) \in Nat /\ L \in Nat /\ loginDown \in Seq(Answers) /\ asked \in Nat /\ done \in Nat
  <2>1. Len(loginDown) \in Nat /\ loginDown \in Seq(Answers) /\ asked \in Nat /\ done \in Nat
    BY <1>1 DEF LoginTypeOK
  <2> QED BY <2>1, LoginsFinite
<1>3. ASSUME NEW a \in Answers, loginDown' = Append(loginDown, a)
      PROVE  /\ loginDown' \in Seq(Answers) /\ Len(loginDown') = Len(loginDown) + 1 /\ loginDown'[Len(loginDown) + 1] = a
             /\ \A i \in 1..Len(loginDown) : loginDown'[i] = loginDown[i]
             /\ L' = L + (IF a \in LoginAnswers THEN 1 ELSE 0)
  <2>1. L' = L + (IF a \in LoginAnswers THEN 1 ELSE 0)
    BY <1>2, <1>3, LoginsAppend
  <2> HIDE DEF L
  <2> QED BY <1>2, <1>3, <2>1
<1> HIDE DEF L
<1>4. ASSUME NEW r \in LoginAnswers, Serve(r) PROVE TurnInv'
  <2>1. /\ loginUp # <<>> /\ r \in Results(Head(loginUp)) /\ loginUp' = Tail(loginUp) /\ loginDown' = Append(loginDown, r)
        /\ bound' = (bound \/ r = "welcome") /\ UNCHANGED <<loginClient, hist>>
    BY <1>4 DEF Serve
  <2>2. r \in Answers
    BY DEF Answers
  <2>3. loginUp' \in Seq(Passwords) /\ Len(loginUp') = Len(loginUp) - 1 /\ Len(loginUp) \in Nat /\ Len(loginUp) >= 1
    BY <1>1, <2>1 DEF LoginTypeOK
  <2>4. /\ loginDown' \in Seq(Answers) /\ Len(loginDown') = Len(loginDown) + 1 /\ loginDown'[Len(loginDown) + 1] = r
        /\ L' = L + 1
    BY <1>3, <2>1, <2>2
  <2>5. LoginTypeOK'
    BY <1>1, <2>1, <2>3, <2>4 DEF LoginTypeOK
  <2>6. done' + L' + Len(loginUp') <= asked'
    <3>1. done + (L + 1) + (Len(loginUp) - 1) <= asked
      BY <1>1, <1>2, <2>3
    <3> QED BY <2>1, <2>3, <2>4, <3>1
  <2>7. Accounted'
    BY <2>5, <2>6 DEF Accounted, L
  <2>8. CASE Asking
    <3>1. /\ Len(loginUp) = 1 /\ loginDown = <<>> /\ ~bound /\ Running /\ asked = done + 1 /\ ~last
          /\ inPc = "lock" /\ locked /\ netPc = "wait"
      BY <2>1, <2>8 DEF Asking
    <3>2. Len(loginDown) = 0
      BY <3>1
    <3>3. Len(loginDown') = 1 /\ loginDown'[1] = r /\ loginDown' # <<>> /\ loginUp' = <<>>
      <4>1. Len(loginDown') = 1 /\ loginDown'[1] = r /\ Len(loginUp') = 0
        BY <2>3, <2>4, <3>1, <3>2
      <4>2. loginDown' # <<>>
        BY <4>1
      <4>3. loginUp' = <<>>
        BY <2>3, <4>1
      <4> QED BY <4>1, <4>2, <4>3
    <3>4. \A i \in 2..Len(loginDown') : loginDown'[i] \notin LoginAnswers
      BY <3>3
    <3>5. Asking'
      BY <2>1, <3>1, <3>3, <3>4 DEF Asking, Running
    <3> QED BY <2>7, <3>5 DEF TurnInv
  <2>9. ~Resting /\ ~Succeeded
    BY <2>1 DEF Resting, Succeeded
  <2>10. Gone => Gone'
    BY <2>1 DEF Gone, Running
  <2> QED BY <2>1, <2>7, <2>8, <2>9, <2>10 DEF TurnInv
<1>5. ASSUME NEW a \in {"notice", "idle"}, bound, loginDown' = Append(loginDown, a), bound' \in BOOLEAN,
             UNCHANGED <<loginClient, loginUp, hist>>
      PROVE  TurnInv'
  <2>1. a \in Answers /\ a \notin LoginAnswers
    BY DEF Answers, LoginAnswers
  <2>2. /\ loginDown' \in Seq(Answers) /\ Len(loginDown') = Len(loginDown) + 1 /\ loginDown'[Len(loginDown) + 1] = a
        /\ \A i \in 1..Len(loginDown) : loginDown'[i] = loginDown[i]
        /\ L' = L
    <3>1. L' = L + (IF a \in LoginAnswers THEN 1 ELSE 0)
      BY <1>3, <1>5, <2>1
    <3>2. L' = L
      BY <1>2, <2>1, <3>1
    <3> QED BY <1>3, <1>5, <2>1, <3>2
  <2>3. LoginTypeOK'
    BY <1>1, <1>5, <2>2 DEF LoginTypeOK
  <2>4. Accounted'
    BY <1>1, <1>5, <2>2, <2>3 DEF Accounted, L
  <2>5. \A i \in 1..Len(loginDown') : i \in 1..Len(loginDown) \/ i = Len(loginDown) + 1
    BY <1>2, <2>2
  <2>6. CASE Asking
    <3>1. loginDown # <<>> /\ loginDown[1] = "welcome" /\ loginUp = <<>>
          /\ \A i \in 2..Len(loginDown) : loginDown[i] \notin LoginAnswers
      BY <1>5, <2>6 DEF Asking
    <3>2. 1 \in 1..Len(loginDown) /\ Len(loginDown) # 0
      BY <1>2, <3>1
    <3>3. loginDown'[1] = "welcome" /\ loginDown' # <<>>
      BY <1>2, <2>2, <3>1, <3>2
    <3>4. \A i \in 2..Len(loginDown') : loginDown'[i] \notin LoginAnswers
      <4> SUFFICES ASSUME NEW i \in 2..Len(loginDown') PROVE loginDown'[i] \notin LoginAnswers
        OBVIOUS
      <4>1. (i \in 2..Len(loginDown) /\ i \in 1..Len(loginDown)) \/ i = Len(loginDown) + 1
        BY <1>2, <2>2
      <4> QED BY <2>1, <2>2, <3>1, <4>1
    <3>5. Asking'
      BY <1>5, <2>6, <3>1, <3>3, <3>4 DEF Asking, Running, LoginAnswers
    <3> QED BY <2>4, <3>5 DEF TurnInv
  <2>7. CASE Succeeded
    <3>1. \A i \in 1..Len(loginDown') : loginDown'[i] \notin LoginAnswers
      BY <2>1, <2>2, <2>5, <2>7 DEF Succeeded
    <3> QED BY <1>5, <2>4, <2>7, <3>1 DEF Succeeded, TurnInv, Running
  <2>8. ~Resting /\ (Gone => Gone')
    BY <1>5 DEF Resting, Gone, Running
  <2> QED BY <1>5, <2>4, <2>6, <2>7, <2>8 DEF TurnInv
<1>6. CASE Notify
  BY <1>1, <1>5, <1>6 DEF Notify, LoginTypeOK
<1>7. CASE Reap
  BY <1>1, <1>5, <1>7 DEF Reap
<1> QED BY <1>4, <1>6, <1>7

\* The network thread reads.
LEMMA ReadTurn ==
    ASSUME MaxLogins \in Nat, TurnInv, NEW n \in 0..Len(loginDown), NEW more \in BOOLEAN, Read(n, more)
    PROVE  TurnInv'
<1> DEFINE k == Parsed(n)
           m == Len(loginDown)
           L == Cardinality(LoginsIn(Len(loginDown)))
           K == Cardinality(LoginsIn(k))
<1>1. LoginTypeOK /\ done + L + Len(loginUp) <= asked
  BY DEF TurnInv, Accounted
<1>2. /\ m \in Nat /\ n \in Nat /\ n <= m /\ loginDown \in Seq(Answers)
      /\ asked \in 0..MaxLogins /\ done \in Nat /\ Len(loginUp) \in Nat
  BY <1>1 DEF LoginTypeOK
<1>3. /\ Running /\ netPc = "wait" /\ (n > 0 \/ more) /\ (more => n < m)
      /\ last' = LastAfter(k) /\ gone' = ExitAfter(k) /\ done' = done + K
      /\ welcome' = (welcome \/ \E i \in 1..k : loginDown[i] = "welcome")
      /\ loginDown' = SubSeq(loginDown, n + 1, m) /\ netPc' = "unlock" /\ early' = (early \/ n = 0)
      /\ UNCHANGED <<inPc, locked, asked, loginUp, bound>>
  <2>1. done' = done + K
    BY DEF Read, LoginsIn
  <2> QED BY <2>1 DEF Read
<1>4. /\ k \in 0..n /\ (n > 0 => k > 0)
      /\ \/ k = n /\ \A i \in 1..n : loginDown[i] \notin Exits
         \/ k \in 1..n /\ loginDown[k] \in Exits
  BY <1>2, ParsedFact
<1>5. K \in Nat /\ L \in Nat /\ L' \in Nat /\ K + L' <= L
  <2>1. K \in Nat /\ L \in Nat
    BY <1>2, <1>4, LoginsFinite
  <2>2. L' \in Nat
    <3>1. Len(loginDown') \in Nat
      BY <1>2, <1>3
    <3>2. IsFiniteSet(LoginsIn(Len(loginDown)))' /\ (Cardinality(LoginsIn(Len(loginDown))) \in Nat)'
      <4>1. IsFiniteSet(1..Len(loginDown'))
        BY <3>1, FS_Interval
      <4>2. IsFiniteSet(LoginsIn(Len(loginDown))')
        BY <4>1, FS_Subset DEF LoginsIn
      <4> QED BY <4>2, FS_CardinalityType
    <3> QED BY <3>2
  <2>3. K + L' <= L
    BY <1>2, <1>3, <1>4, LoginsCut
  <2> QED BY <2>1, <2>2, <2>3
<1>6. /\ loginDown' \in Seq(Answers) /\ Len(loginDown') = m - n
      /\ \A i \in 1..(m - n) : loginDown'[i] = loginDown[n + i] /\ n + i \in 1..m
  BY <1>2, <1>3
<1>7. \A i \in 1..m : loginDown[i] \in Answers
  BY <1>2
<1> HIDE DEF L, K, k, m
<1>8. gone' \in Exits \cup {"no"} /\ last' \in BOOLEAN
  <2>1. last' = IF k = 0 THEN last ELSE loginDown[k] \in Successes
    BY <1>3 DEF LastAfter
  <2>2. last' \in BOOLEAN
    <3>1. last \in BOOLEAN
      BY <1>1 DEF LoginTypeOK
    <3>2. CASE k = 0
      <4>1. last' = last
        BY <2>1, <3>2
      <4> QED BY <3>1, <4>1
    <3>3. CASE k # 0
      <4>1. last' = (loginDown[k] \in Successes)
        BY <2>1, <3>3
      <4>2. (loginDown[k] \in Successes) \in BOOLEAN
        OBVIOUS
      <4> QED BY <4>1, <4>2
    <3> QED BY <3>2, <3>3
  <2>3. gone' = IF k > 0 /\ loginDown[k] \in Exits THEN loginDown[k] ELSE "no"
    BY <1>3 DEF ExitAfter
  <2>4. gone' \in Exits \cup {"no"}
    BY <2>3
  <2> QED BY <2>2, <2>4
<1>9. Accounted'
  <2>1. done' + L' + Len(loginUp') <= asked'
    <3>1. PICK l2 \in Nat : l2 = L'
      BY <1>5
    <3>2. PICK u \in Nat : u = Len(loginUp)
      BY <1>2
    <3>3. K \in Nat /\ L \in Nat /\ K + l2 <= L /\ done \in Nat /\ asked \in Nat
      <4>1. done \in Nat /\ asked \in Nat
        BY <1>2
      <4>2. K \in Nat /\ L \in Nat /\ K + L' <= L
        BY <1>5
      <4>3. K + l2 <= L
        BY <3>1, <4>2
      <4> QED BY <4>1, <4>2, <4>3
    <3>4. done + L + u <= asked
      BY <1>1, <3>2
    <3>5. done + K + l2 + u <= asked
      BY <3>3, <3>4
    <3> QED BY <1>3, <3>1, <3>2, <3>5
  <2>2. done' \in 0..MaxLogins
    <3>1. /\ done' \in Nat /\ L' \in Nat /\ Len(loginUp') \in Nat
          /\ asked' \in Nat /\ asked' <= MaxLogins /\ MaxLogins \in Nat
      BY <1>2, <1>3, <1>5
    <3> QED BY <2>1, <3>1
  <2>3. LoginTypeOK'
    BY <1>1, <1>3, <1>6, <1>8, <2>2 DEF LoginTypeOK
  <2> QED BY <2>1, <2>3 DEF Accounted, L
<1>10. ASSUME n > 0, ~early PROVE Resting' \/ Succeeded' \/ Gone'
  <2>1. m >= 1 /\ k >= 1 /\ k <= n /\ 1 \in 1..m /\ loginDown # <<>>
    <3>1. m >= 1
      BY <1>2, <1>10
    <3>2. loginDown # <<>>
      BY <3>1 DEF m
    <3> QED BY <1>2, <1>4, <1>10, <3>1, <3>2
  <2>2. ~Resting
    BY <2>1 DEF Resting
  <2>3. ~Gone
    BY <1>3 DEF Gone
  <2>4. gone' = IF loginDown[k] \in Exits THEN loginDown[k] ELSE "no"
    <3>1. k > 0
      BY <1>4, <1>10
    <3> QED BY <1>3, <3>1 DEF ExitAfter
  <2>5. Running' => k = n /\ \A i \in 1..n : loginDown[i] \notin Exits
    BY <1>4, <2>4 DEF Running, Exits
  <2>6. last' = (loginDown[k] \in Successes)
    BY <2>1, <1>3, <1>4 DEF LastAfter
  <2>7. CASE Succeeded
    <3>1. LoginsIn(k) = {}
      BY <1>2, <1>4, <2>7 DEF Succeeded, LoginsIn, m
    <3>2. done' = done
      <4>1. K = 0
        BY <3>1, FS_EmptySet DEF K
      <4> QED BY <1>2, <1>3, <4>1
    <3>3. CASE Running'
      <4>1. n \in 1..m /\ loginDown[n] \notin LoginAnswers /\ loginDown[n] \notin Exits
        BY <1>2, <1>10, <2>5, <2>7, <3>3 DEF Succeeded, m
      <4>2. loginDown[n] \in Successes
        BY <1>7, <4>1 DEF Answers, Exits, Successes
      <4>3. last'
        BY <2>5, <2>6, <3>3, <4>2
      <4>4. \A i \in 1..Len(loginDown') : loginDown'[i] \notin LoginAnswers
        BY <1>6, <2>7 DEF Succeeded, m
      <4> QED BY <1>3, <2>7, <3>2, <3>3, <4>3, <4>4 DEF Succeeded
    <3>4. CASE ~Running'
      BY <1>3, <2>7, <3>2, <3>4 DEF Succeeded, Gone
    <3> QED BY <3>3, <3>4
  <2>8. CASE Asking
    <3>1. /\ asked = done + 1 /\ inPc = "lock" /\ locked /\ loginUp = <<>>
          /\ loginDown[1] \in LoginAnswers
          /\ loginDown[1] # "welcome" => m = 1 /\ ~bound
          /\ \A i \in 2..m : loginDown[i] \notin LoginAnswers
      BY <2>1, <2>8 DEF Asking, m
    <3>2. LoginsIn(k) = {1}
      <4>1. \A i \in 1..k : i = 1 \/ i \in 2..m
        BY <1>2, <1>4
      <4> QED BY <1>4, <2>1, <3>1, <4>1 DEF LoginsIn
    <3>3. done' = asked
      <4>1. K = 1
        BY <3>2, FS_Singleton DEF K
      <4> QED BY <1>2, <1>3, <3>1, <4>1
    <3>4. CASE ~Running'
      BY <1>3, <3>1, <3>3, <3>4 DEF Gone
    <3>5. CASE Running' /\ loginDown[1] = "welcome"
      <4>1. \A i \in 1..Len(loginDown') : loginDown'[i] \notin LoginAnswers
        <5> SUFFICES ASSUME NEW i \in 1..Len(loginDown') PROVE loginDown'[i] \notin LoginAnswers
          OBVIOUS
        <5>1. i \in 1..(m - n) /\ n + i \in 2..m
          BY <1>2, <1>6, <1>10
        <5> QED BY <1>6, <3>1, <5>1
      <4>2. loginDown[n] \in Successes
        <5>1. CASE n = 1
          BY <3>5, <5>1 DEF Successes
        <5>2. CASE n # 1
          <6>1. n \in 2..m /\ n \in 1..m /\ n \in 1..n
            BY <1>2, <1>10, <5>2
          <6>2. loginDown[n] \notin LoginAnswers /\ loginDown[n] \notin Exits /\ loginDown[n] \in Answers
            BY <1>7, <2>5, <3>1, <3>5, <6>1
          <6> QED BY <6>2 DEF Answers, Exits, Successes
        <5> QED BY <5>1, <5>2
      <4>3. last'
        BY <2>5, <2>6, <3>5, <4>2
      <4> QED BY <1>3, <3>1, <3>3, <3>5, <4>1, <4>3 DEF Succeeded
    <3>6. CASE Running' /\ loginDown[1] # "welcome"
      <4>1. m = 1 /\ n = 1 /\ k = 1 /\ ~bound
        BY <1>2, <1>10, <2>5, <3>1, <3>6
      <4>2. loginDown[1] = "wrong"
        <5>1. loginDown[1] \notin Exits
          BY <2>5, <3>6, <4>1
        <5> QED BY <3>1, <3>6, <5>1 DEF LoginAnswers, Exits
      <4>3. ~last'
        BY <2>6, <4>1, <4>2 DEF Successes
      <4>4. loginDown' = <<>>
        <5>1. Len(loginDown') = 0
          BY <1>6, <4>1
        <5> QED BY <1>6, <5>1
      <4> QED BY <1>3, <3>1, <3>3, <3>6, <4>1, <4>3, <4>4 DEF Resting
    <3> QED BY <3>4, <3>5, <3>6
  <2> QED BY <1>10, <2>2, <2>3, <2>7, <2>8 DEF TurnInv
<1>11. n > 0 \/ n = 0
  BY <1>2
<1> QED BY <1>3, <1>9, <1>10, <1>11 DEF TurnInv

\* The user is asked again only when he has been answered, and never while he has a
\* session: loginlock does its work whenever every input brings an answer to its end.
THEOREM OneLogin == LoginSpec => []OneLoginAtATime
<1>1. LoginInit => TurnInv
  <2> SUFFICES ASSUME LoginInit PROVE TurnInv
    OBVIOUS
  <2>1. LoginTypeOK
    <3>1. 0 \in 0..MaxLogins
      BY MaxLoginsAssumption
    <3>2. loginUp \in Seq(Passwords) /\ loginDown \in Seq(Answers)
      BY DEF LoginInit
    <3> QED BY <3>1, <3>2 DEF LoginInit, LoginTypeOK
  <2>2. Cardinality(LoginsIn(Len(loginDown))) = 0
    <3>1. LoginsIn(Len(loginDown)) = {}
      BY DEF LoginInit, LoginsIn
    <3> QED BY <3>1, FS_EmptySet
  <2>3. Accounted
    BY <2>1, <2>2 DEF LoginInit, Accounted
  <2>4. Resting
    BY DEF LoginInit, Resting, Running
  <2> QED BY <2>3, <2>4 DEF TurnInv
<1>2. TurnInv /\ [LoginNext]_loginVars => TurnInv'
  BY MaxLoginsAssumption, InputTurn, ServerTurn, ReadTurn DEF LoginNext, Input, Network, Server
<1>3. TurnInv => OneLoginAtATime
  <2>1. LoginTypeOK => asked \in Nat /\ done \in Nat
    BY DEF LoginTypeOK
  <2> QED BY <2>1 DEF TurnInv, Accounted, OneLoginAtATime, Resting, Asking, Succeeded, Gone
<1> QED BY <1>1, <1>2, <1>3, PTL DEF LoginSpec

-----------------------------------------------------------------------------
(* Sequences whose elements are of no particular set.                      *)

IsSeq(s) == Len(s) \in Nat /\ s = [i \in 1..Len(s) |-> s[i]]

LEMMA SeqOfItsOwn ==
    ASSUME NEW s, IsSeq(s)
    PROVE  \E S : s \in Seq(S)
<1> DEFINE S == {s[i] : i \in 1..Len(s)}
<1>1. [i \in 1..Len(s) |-> s[i]] \in [1..Len(s) -> S]
  OBVIOUS
<1>2. s \in [1..Len(s) -> S] /\ Len(s) \in Nat
  BY <1>1 DEF IsSeq
<1> HIDE DEF S
<1> QED BY <1>2

LEMMA SeqIsSeq ==
    ASSUME NEW S, NEW s \in Seq(S)
    PROVE  IsSeq(s)
BY DEF IsSeq

LEMMA CommonSet ==
    ASSUME NEW a, NEW b, IsSeq(a), IsSeq(b)
    PROVE  \E S : a \in Seq(S) /\ b \in Seq(S)
<1>1. PICK A : a \in Seq(A)
  BY SeqOfItsOwn
<1>2. PICK B : b \in Seq(B)
  BY SeqOfItsOwn
<1>3. \A i \in 1..Len(a) : a[i] \in A \cup B
  BY <1>1
<1>4. \A i \in 1..Len(b) : b[i] \in A \cup B
  BY <1>2
<1>5. a \in Seq(A \cup B)
  <2>1. a = [i \in 1..Len(a) |-> a[i]] /\ Len(a) \in Nat
    BY DEF IsSeq
  <2>2. a \in [1..Len(a) -> A \cup B]
    BY <2>1, <1>3
  <2> QED BY <2>1, <2>2
<1>6. b \in Seq(A \cup B)
  <2>1. b = [i \in 1..Len(b) |-> b[i]] /\ Len(b) \in Nat
    BY DEF IsSeq
  <2>2. b \in [1..Len(b) -> A \cup B]
    BY <2>1, <1>4
  <2> QED BY <2>1, <2>2
<1> QED BY <1>5, <1>6

\* What two sequences are when they are put together,
LEMMA ConcatFact ==
    ASSUME NEW a, NEW b, IsSeq(a), IsSeq(b)
    PROVE  /\ IsSeq(a \o b) /\ Len(a \o b) = Len(a) + Len(b) /\ Len(a) \in Nat /\ Len(b) \in Nat
           /\ \A i \in 1..Len(a) : (a \o b)[i] = a[i]
           /\ \A i \in 1..Len(b) : (a \o b)[Len(a) + i] = b[i]
<1>1. PICK S : a \in Seq(S) /\ b \in Seq(S)
  BY CommonSet
<1>2. a \o b \in Seq(S)
  BY <1>1
<1>3. IsSeq(a \o b)
  BY <1>2, SeqIsSeq
<1> QED BY <1>1, <1>2, <1>3

\* when something is added at the end,
LEMMA AddFact ==
    ASSUME NEW s, NEW x, IsSeq(s)
    PROVE  /\ IsSeq(Append(s, x)) /\ Len(Append(s, x)) = Len(s) + 1 /\ Len(s) \in Nat
           /\ \A i \in 1..Len(s) : Append(s, x)[i] = s[i]
           /\ Append(s, x)[Len(s) + 1] = x
<1>1. IsSeq(<<x>>)
  BY DEF IsSeq
<1>2. PICK S : s \in Seq(S) /\ <<x>> \in Seq(S)
  BY <1>1, CommonSet
<1>3. x \in S
  <2>1. <<x>>[1] \in S
    BY <1>2
  <2> QED BY <2>1
<1>4. Append(s, x) \in Seq(S)
  BY <1>2, <1>3
<1>5. IsSeq(Append(s, x))
  BY <1>4, SeqIsSeq
<1> QED BY <1>2, <1>3, <1>4, <1>5

\* and when one is cut.
LEMMA CutFact ==
    ASSUME NEW s, IsSeq(s), NEW k \in 0..Len(s)
    PROVE  /\ IsSeq(SubSeq(s, 1, k)) /\ Len(SubSeq(s, 1, k)) = k /\ k \in Nat /\ Len(s) \in Nat
           /\ \A i \in 1..k : SubSeq(s, 1, k)[i] = s[i]
           /\ IsSeq(SubSeq(s, k + 1, Len(s))) /\ Len(SubSeq(s, k + 1, Len(s))) = Len(s) - k
           /\ \A i \in 1..(Len(s) - k) : SubSeq(s, k + 1, Len(s))[i] = s[k + i]
<1>1. PICK S : s \in Seq(S)
  BY SeqOfItsOwn
<1>2. SubSeq(s, 1, k) \in Seq(S) /\ SubSeq(s, k + 1, Len(s)) \in Seq(S)
  BY <1>1
<1>3. IsSeq(SubSeq(s, 1, k)) /\ IsSeq(SubSeq(s, k + 1, Len(s)))
  BY <1>2, SeqIsSeq
<1> QED BY <1>1, <1>2, <1>3

\* Two sequences are the same when their elements are.
LEMMA SameSeq ==
    ASSUME NEW a, NEW b, IsSeq(a), IsSeq(b), Len(a) = Len(b), \A i \in 1..Len(a) : a[i] = b[i]
    PROVE  a = b
BY DEF IsSeq

LEMMA PrefixFact ==
    ASSUME NEW a, NEW b, IsSeq(a), IsSeq(b), Len(a) <= Len(b), \A i \in 1..Len(a) : a[i] = b[i]
    PROVE  IsPrefix(a, b)
<1>1. Len(a) \in 0..Len(a) /\ Len(a) \in 0..Len(b) /\ Len(a) \in Nat
  BY DEF IsSeq
<1>2. /\ IsSeq(SubSeq(a, 1, Len(a))) /\ Len(SubSeq(a, 1, Len(a))) = Len(a)
      /\ \A i \in 1..Len(a) : SubSeq(a, 1, Len(a))[i] = a[i]
  BY <1>1, CutFact
<1>3. /\ IsSeq(SubSeq(b, 1, Len(a))) /\ Len(SubSeq(b, 1, Len(a))) = Len(a)
      /\ \A i \in 1..Len(a) : SubSeq(b, 1, Len(a))[i] = b[i]
  BY <1>1, CutFact
<1>4. SubSeq(a, 1, Len(a)) = SubSeq(b, 1, Len(a))
  BY <1>2, <1>3, SameSeq
<1> QED BY <1>4 DEF IsPrefix

\* A set of natural numbers that is not empty has a least one.
LEMMA LeastOne ==
    ASSUME NEW S \in SUBSET Nat, S # {}
    PROVE  \E x \in S : \A y \in S : x <= y
  <1> DEFINE R == {t \in Nat \X Nat : t[1] < t[2]}
  <1>1. IsWellFoundedOn(R, Nat)
    BY NatLessThanWellFounded DEF OpToRel
  <1>2. PICK x \in S : \A y \in S : ~(<<y, x>> \in R)
    BY <1>1, WFMin
  <1>3. ASSUME NEW y \in S PROVE x <= y
    <2>1. <<y, x>> \notin R
      BY <1>2
    <2> QED
      BY <2>1
  <1> QED
    BY <1>2, <1>3

-----------------------------------------------------------------------------
(* Messages on a stream, which is cut where the network likes.             *)

\* X is the messages M[a + 1], ..., M[b] one after the other, or a beginning of that;
\* e[i] is where M[i] ends in it.
Marks(e, X, M, a, b) ==
    /\ e \in [a..b -> Nat] /\ e[a] = 0
    /\ \A i \in (a + 1)..b : e[i] = e[i - 1] + Len(M[i])
    /\ \A i \in (a + 1)..b : \A u \in 1..Len(M[i]) :
          e[i - 1] + u <= Len(X) => X[e[i - 1] + u] = M[i][u]
    /\ Len(X) <= e[b]
Follows(X, M, a, b, whole) ==
    /\ a \in Nat /\ b \in Nat /\ a <= b /\ \A i \in (a + 1)..b : IsSeq(M[i])
    /\ IsSeq(X) /\ \E e : Marks(e, X, M, a, b) /\ (whole => Len(X) = e[b])

LEMMA MarksGrow ==
    ASSUME NEW e, NEW X, NEW M, NEW a \in Nat, NEW b \in Nat, Marks(e, X, M, a, b),
           \A i \in (a + 1)..b : IsSeq(M[i]), NEW i \in a..b, NEW j \in i..b
    PROVE  e[i] <= e[j]
<1> SUFFICES ASSUME e[j] < e[i] PROVE FALSE
  BY DEF Marks
<1> DEFINE T == {n \in Nat : n \in i..b /\ e[n] < e[i]}
<1>1. T \subseteq Nat /\ j \in T
  OBVIOUS
<1> HIDE DEF T
<1>2. PICK n \in T : \A x \in T : n <= x
  BY <1>1, LeastOne
<1>3. n \in i..b /\ e[n] < e[i] /\ n \in Nat
  BY <1>2 DEF T
<1>4. n # i
  BY <1>3 DEF Marks
<1>5. n - 1 \in i..b /\ n - 1 \in Nat /\ n - 1 \notin T /\ n \in (a + 1)..b /\ n - 1 \in a..b
  BY <1>1, <1>2, <1>3, <1>4
<1>6. ~(e[n - 1] < e[i])
  BY <1>5 DEF T
<1>7. Len(M[n]) \in Nat
  BY <1>5 DEF IsSeq
<1>8. e[n] = e[n - 1] + Len(M[n])
  BY <1>5, Zenon DEF Marks
<1>9. e[n - 1] \in Nat /\ e[i] \in Nat
  BY <1>5 DEF Marks
<1> QED BY <1>3, <1>6, <1>7, <1>8, <1>9

LEMMA FollowsEmpty ==
    ASSUME NEW M, NEW whole
    PROVE  Follows(<<>>, M, 0, 0, whole)
<1> DEFINE e == [i \in 0..0 |-> 0]
<1>1. Marks(e, <<>>, M, 0, 0) /\ Len(<<>>) = e[0]
  BY DEF Marks
<1>2. IsSeq(<<>>)
  BY DEF IsSeq
<1> HIDE DEF e
<1> QED BY <1>1, <1>2 DEF Follows

\* Only the messages that are still to come matter.
LEMMA FollowsSame ==
    ASSUME NEW X, NEW M, NEW N, NEW a, NEW b, NEW whole, Follows(X, M, a, b, whole),
           \A i \in (a + 1)..b : N[i] = M[i]
    PROVE  Follows(X, N, a, b, whole)
<1>1. PICK e : Marks(e, X, M, a, b) /\ (whole => Len(X) = e[b])
  BY DEF Follows
<1>2. Marks(e, X, N, a, b)
  BY <1>1 DEF Marks
<1>3. \A i \in (a + 1)..b : IsSeq(N[i])
  BY DEF Follows
<1> QED BY <1>1, <1>2, <1>3 DEF Follows

\* A message is sent: it is one more, and goes behind the others
LEMMA FollowsMore ==
    ASSUME NEW X, NEW M, NEW a, NEW b, Follows(X, M, a, b, TRUE), IsSeq(M[b + 1])
    PROVE  Follows(X \o M[b + 1], M, a, b + 1, TRUE)
<1>1. PICK e : Marks(e, X, M, a, b) /\ Len(X) = e[b]
  BY DEF Follows
<1>2. a \in Nat /\ b \in Nat /\ a <= b /\ IsSeq(X) /\ \A i \in (a + 1)..b : IsSeq(M[i])
  BY DEF Follows
<1>3. PICK m : m = M[b + 1]
  OBVIOUS
<1>4. PICK Y : Y = X \o m
  OBVIOUS
<1>5. /\ IsSeq(Y) /\ Len(Y) = Len(X) + Len(m) /\ Len(X) \in Nat /\ Len(m) \in Nat
      /\ \A i \in 1..Len(X) : Y[i] = X[i]
      /\ \A i \in 1..Len(m) : Y[Len(X) + i] = m[i]
  BY <1>2, <1>3, <1>4, ConcatFact
<1> DEFINE f == [i \in a..(b + 1) |-> IF i <= b THEN e[i] ELSE Len(Y)]
<1>6. f \in [a..(b + 1) -> Nat] /\ f[a] = 0 /\ f[b + 1] = Len(Y) /\ \A i \in a..b : f[i] = e[i]
  BY <1>1, <1>2, <1>5 DEF Marks
<1> HIDE DEF f
<1>7. ASSUME NEW i \in (a + 1)..(b + 1)
      PROVE  /\ f[i] = f[i - 1] + Len(M[i])
             /\ \A u \in 1..Len(M[i]) : f[i - 1] + u <= Len(Y) => Y[f[i - 1] + u] = M[i][u]
  <2>1. CASE i = b + 1
    <3>1. f[i - 1] = Len(X) /\ M[i] = m
      BY <1>1, <1>2, <1>3, <1>6, <2>1
    <3> QED BY <1>5, <1>6, <2>1, <3>1
  <2>2. CASE i <= b
    <3>1. i \in (a + 1)..b /\ i - 1 \in a..b /\ i \in a..b
      BY <1>2, <2>2
    <3>2. f[i] = e[i] /\ f[i - 1] = e[i - 1] /\ e[i] = e[i - 1] + Len(M[i]) /\ e[i - 1] \in Nat /\ e[i] \in Nat
      BY <1>1, <1>6, <3>1 DEF Marks
    <3>3. e[i] <= Len(X)
      <4>1. b \in i..b
        BY <1>2, <3>1
      <4>2. e[i] <= e[b]
        BY <1>1, <1>2, <3>1, <4>1, MarksGrow
      <4> QED BY <1>1, <4>2
    <3>4. ASSUME NEW u \in 1..Len(M[i]) PROVE Y[f[i - 1] + u] = M[i][u]
      <4>1. Len(M[i]) \in Nat
        BY <1>2, <3>1 DEF IsSeq
      <4>2. e[i - 1] + u <= Len(X) /\ e[i - 1] + u \in 1..Len(X)
        BY <1>5, <3>2, <3>3, <4>1
      <4>3. X[e[i - 1] + u] = M[i][u]
        BY <1>1, <3>1, <4>2 DEF Marks
      <4> QED BY <1>5, <3>2, <4>2, <4>3
    <3> QED BY <3>2, <3>4
  <2> QED BY <1>2, <2>1, <2>2
<1>8. Marks(f, Y, M, a, b + 1) /\ Len(Y) = f[b + 1]
  BY <1>6, <1>7, <1>5 DEF Marks
<1>9. \A i \in (a + 1)..(b + 1) : IsSeq(M[i])
  BY <1>2
<1> QED BY <1>2, <1>3, <1>4, <1>5, <1>8, <1>9 DEF Follows

\* or is not sent any more.
LEMMA FollowsUnsent ==
    ASSUME NEW X, NEW M, NEW a, NEW b, Follows(X, M, a, b, FALSE), IsSeq(M[b + 1])
    PROVE  Follows(X, M, a, b + 1, FALSE)
<1>1. PICK e : Marks(e, X, M, a, b)
  BY DEF Follows
<1>2. a \in Nat /\ b \in Nat /\ a <= b /\ IsSeq(X) /\ \A i \in (a + 1)..b : IsSeq(M[i])
  BY DEF Follows
<1>3. PICK n \in Nat : n = Len(M[b + 1])
  BY DEF IsSeq
<1> DEFINE f == [i \in a..(b + 1) |-> IF i <= b THEN e[i] ELSE e[b] + n]
<1>4. b \in a..b /\ e[b] \in Nat
  BY <1>1, <1>2 DEF Marks
<1>5. f \in [a..(b + 1) -> Nat] /\ f[a] = 0 /\ f[b + 1] = e[b] + n /\ \A i \in a..b : f[i] = e[i]
  BY <1>1, <1>2, <1>3, <1>4 DEF Marks
<1> HIDE DEF f
<1>6. Len(X) <= e[b] /\ Len(X) \in Nat
  BY <1>1, <1>2 DEF Marks, IsSeq
<1>7. ASSUME NEW i \in (a + 1)..(b + 1)
      PROVE  /\ f[i] = f[i - 1] + Len(M[i])
             /\ \A u \in 1..Len(M[i]) : f[i - 1] + u <= Len(X) => X[f[i - 1] + u] = M[i][u]
  <2>1. CASE i = b + 1
    <3>1. f[i - 1] = e[b] /\ Len(M[i]) = n
      BY <1>2, <1>3, <1>4, <1>5, <2>1
    <3> QED BY <1>3, <1>4, <1>5, <1>6, <2>1, <3>1
  <2>2. CASE i <= b
    <3>1. i \in (a + 1)..b /\ i - 1 \in a..b /\ i \in a..b
      BY <1>2, <2>2
    <3>2. f[i] = e[i] /\ f[i - 1] = e[i - 1]
      BY <1>5, <3>1
    <3>3. /\ e[i] = e[i - 1] + Len(M[i])
          /\ \A u \in 1..Len(M[i]) : e[i - 1] + u <= Len(X) => X[e[i - 1] + u] = M[i][u]
      BY <1>1, <3>1, Zenon DEF Marks
    <3> QED BY <3>2, <3>3
  <2> QED BY <1>2, <2>1, <2>2
<1>8. Len(X) <= f[b + 1]
  BY <1>3, <1>4, <1>5, <1>6
<1>9. Marks(f, X, M, a, b + 1)
  BY <1>5, <1>7, <1>8 DEF Marks
<1>10. \A i \in (a + 1)..(b + 1) : IsSeq(M[i])
  BY <1>2
<1> QED BY <1>2, <1>9, <1>10 DEF Follows

\* What is lost at the end is not missed at the beginning.
LEMMA FollowsCut ==
    ASSUME NEW X, NEW M, NEW a, NEW b, NEW whole, Follows(X, M, a, b, whole), NEW k \in 0..Len(X)
    PROVE  Follows(SubSeq(X, 1, k), M, a, b, FALSE)
<1>1. PICK e : Marks(e, X, M, a, b)
  BY DEF Follows
<1>2. a \in Nat /\ b \in Nat /\ a <= b /\ IsSeq(X) /\ \A i \in (a + 1)..b : IsSeq(M[i])
  BY DEF Follows
<1>3. PICK Y : Y = SubSeq(X, 1, k)
  OBVIOUS
<1>4. /\ IsSeq(Y) /\ Len(Y) = k /\ k \in Nat /\ Len(X) \in Nat /\ k <= Len(X)
      /\ \A i \in 1..k : Y[i] = X[i]
  <2>1. IsSeq(X)
    BY <1>2
  <2>2. /\ IsSeq(Y) /\ Len(Y) = k /\ k \in Nat /\ Len(X) \in Nat
        /\ \A i \in 1..k : Y[i] = X[i]
    BY <1>3, <2>1, CutFact
  <2>3. k <= Len(X)
    BY <2>2
  <2> QED BY <2>2, <2>3
<1>5. ASSUME NEW i \in (a + 1)..b, NEW u \in 1..Len(M[i]), e[i - 1] + u <= k
      PROVE  Y[e[i - 1] + u] = M[i][u]
  <2>1. i - 1 \in a..b /\ e[i - 1] \in Nat /\ Len(M[i]) \in Nat
    BY <1>1, <1>2 DEF Marks, IsSeq
  <2>2. e[i - 1] + u \in 1..k /\ e[i - 1] + u <= Len(X)
    BY <1>4, <1>5, <2>1
  <2>3. X[e[i - 1] + u] = M[i][u]
    BY <1>1, <2>2 DEF Marks
  <2> QED BY <1>4, <2>2, <2>3
<1>6. k <= e[b]
  BY <1>1, <1>2, <1>4 DEF Marks
<1>7. Marks(e, Y, M, a, b)
  BY <1>1, <1>4, <1>5, <1>6 DEF Marks
<1> QED BY <1>2, <1>3, <1>4, <1>7 DEF Follows

\* Whoever has something has a beginning of the first message.
LEMMA FollowsFirst ==
    ASSUME NEW X, NEW M, NEW a, NEW b, NEW whole, Follows(X, M, a, b, whole), Len(X) > 0
    PROVE  a + 1 \in (a + 1)..b /\ \A u \in 1..Len(M[a + 1]) : u <= Len(X) => X[u] = M[a + 1][u]
<1>1. PICK e : Marks(e, X, M, a, b)
  BY DEF Follows
<1>2. a \in Nat /\ b \in Nat /\ a <= b /\ IsSeq(X)
  BY DEF Follows
<1>3. e[a] = 0 /\ Len(X) <= e[b]
  BY <1>1 DEF Marks
<1>4. a # b
  BY <1>2, <1>3 DEF IsSeq
<1>5. a + 1 \in (a + 1)..b /\ (a + 1) - 1 = a
  BY <1>2, <1>4
<1>6. \A u \in 1..Len(M[a + 1]) : e[(a + 1) - 1] + u <= Len(X) => X[e[(a + 1) - 1] + u] = M[a + 1][u]
  BY <1>1, <1>5, Zenon DEF Marks
<1>7. ASSUME NEW u \in 1..Len(M[a + 1]), u <= Len(X) PROVE X[u] = M[a + 1][u]
  <2>1. e[(a + 1) - 1] + u = u
    BY <1>3, <1>5
  <2> QED BY <1>6, <1>7, <2>1
<1> QED BY <1>5, <1>7

\* And when it is taken off, the others follow.
LEMMA FollowsRest ==
    ASSUME NEW X, NEW M, NEW a, NEW b, NEW whole, Follows(X, M, a, b, whole), a < b,
           NEW k, k = Len(M[a + 1]), k <= Len(X)
    PROVE  Follows(SubSeq(X, k + 1, Len(X)), M, a + 1, b, whole)
<1>1. PICK e : Marks(e, X, M, a, b) /\ (whole => Len(X) = e[b])
  BY DEF Follows
<1>2. a \in Nat /\ b \in Nat /\ a <= b /\ IsSeq(X) /\ \A i \in (a + 1)..b : IsSeq(M[i])
  BY DEF Follows
<1>3. PICK Y : Y = SubSeq(X, k + 1, Len(X))
  OBVIOUS
<1>4. k \in 0..Len(X) /\ Len(X) \in Nat /\ k \in Nat
  BY <1>2 DEF IsSeq
<1>5. IsSeq(Y) /\ Len(Y) = Len(X) - k /\ \A i \in 1..(Len(X) - k) : Y[i] = X[k + i]
  BY <1>2, <1>3, <1>4, CutFact
<1>6. e[a + 1] = k
  <2>1. a + 1 \in (a + 1)..b /\ (a + 1) - 1 = a
    BY <1>2
  <2>2. e[a + 1] = e[(a + 1) - 1] + Len(M[a + 1])
    BY <1>1, <2>1, Zenon DEF Marks
  <2>3. e[a] = 0
    BY <1>1 DEF Marks
  <2> QED BY <1>4, <2>1, <2>2, <2>3
<1>7. ASSUME NEW i \in (a + 1)..b PROVE e[i] \in Nat /\ k <= e[i]
  <2>1. a + 1 \in a..b /\ i \in (a + 1)..b /\ i \in a..b
    BY <1>2
  <2>2. e[a + 1] <= e[i]
    BY <1>1, <1>2, <2>1, MarksGrow
  <2> QED BY <1>1, <1>6, <2>1, <2>2 DEF Marks
<1> DEFINE f == [i \in (a + 1)..b |-> e[i] - k]
<1>8. f \in [(a + 1)..b -> Nat] /\ f[a + 1] = 0
  BY <1>2, <1>4, <1>6, <1>7
<1>9. \A i \in (a + 1)..b : f[i] = e[i] - k
  OBVIOUS
<1> HIDE DEF f
<1>10. ASSUME NEW i \in ((a + 1) + 1)..b
       PROVE  /\ f[i] = f[i - 1] + Len(M[i])
              /\ \A u \in 1..Len(M[i]) : f[i - 1] + u <= Len(Y) => Y[f[i - 1] + u] = M[i][u]
  <2>1. i \in (a + 1)..b /\ i - 1 \in (a + 1)..b
    BY <1>2
  <2>2. f[i] = e[i] - k /\ f[i - 1] = e[i - 1] - k /\ e[i - 1] \in Nat /\ k <= e[i - 1] /\ e[i] \in Nat
    BY <1>7, <1>9, <2>1
  <2>3. e[i] = e[i - 1] + Len(M[i]) /\ Len(M[i]) \in Nat
    <3>1. e[i] = e[i - 1] + Len(M[i])
      BY <1>1, <2>1, Zenon DEF Marks
    <3>2. Len(M[i]) \in Nat
      BY <1>2, <2>1 DEF IsSeq
    <3> QED BY <3>1, <3>2
  <2>4. ASSUME NEW u \in 1..Len(M[i]), f[i - 1] + u <= Len(Y) PROVE Y[f[i - 1] + u] = M[i][u]
    <3>1. e[i - 1] + u <= Len(X) /\ f[i - 1] + u \in 1..(Len(X) - k) /\ k + (f[i - 1] + u) = e[i - 1] + u
      <4>1. PICK h \in Nat : h = e[i - 1]
        BY <2>2
      <4>2. f[i - 1] = h - k /\ k <= h
        BY <2>2, <4>1
      <4>3. u \in Nat /\ u >= 1
        BY <2>3
      <4>4. (h - k) + u <= Len(X) - k
        BY <1>5, <2>4, <4>2
      <4>5. h + u <= Len(X) /\ (h - k) + u \in 1..(Len(X) - k) /\ k + ((h - k) + u) = h + u
        BY <1>4, <4>2, <4>3, <4>4
      <4> QED BY <4>1, <4>2, <4>5
    <3>2. X[e[i - 1] + u] = M[i][u]
      BY <1>1, <2>1, <3>1, Zenon DEF Marks
    <3>3. Y[f[i - 1] + u] = X[k + (f[i - 1] + u)]
      BY <1>5, <3>1
    <3> QED BY <3>1, <3>2, <3>3
  <2> QED BY <1>4, <2>2, <2>3, <2>4
<1>11. b \in (a + 1)..b
  BY <1>2
<1>12. Len(Y) <= f[b] /\ (whole => Len(Y) = f[b])
  <2>1. Len(X) <= e[b] /\ e[b] \in Nat
    BY <1>1, <1>7, <1>11 DEF Marks
  <2>2. f[b] = e[b] - k
    BY <1>9, <1>11
  <2> QED BY <1>1, <1>4, <1>5, <2>1, <2>2
<1>13. Marks(f, Y, M, a + 1, b)
  BY <1>8, <1>10, <1>12 DEF Marks
<1>14. /\ a + 1 \in Nat /\ a + 1 <= b
       /\ \A i \in ((a + 1) + 1)..b : IsSeq(M[i])
  BY <1>2
<1>15. Follows(Y, M, a + 1, b, whole)
  BY <1>2, <1>5, <1>12, <1>13, <1>14 DEF Follows
<1> QED BY <1>3, <1>15

-----------------------------------------------------------------------------
(* What is sent is what is read.                                           *)

\* The fields of a message come back as they were put in,
LEMMA FieldsComeBack ==
    ASSUME NEW schema, NEW fields, Fits(fields, schema)
    PROVE  [i \in DOMAIN schema |-> FieldOf(schema[i], Unit(schema[i], fields[i]))] = fields
<1>1. ASSUME NEW i \in DOMAIN schema PROVE FieldOf(schema[i], Unit(schema[i], fields[i])) = fields[i]
  <2>1. CASE schema[i] = "uint32"
    <3>1. fields[i] \in 0..(Word - 1)
      BY <2>1 DEF Fits
    <3>2. fields[i] % Word = fields[i]
      BY <3>1, WordAssumption
    <3> QED BY <2>1, <3>2 DEF FieldOf, Unit, U32
  <2>2. CASE schema[i] = "bool"
    <3>1. fields[i] \in BOOLEAN
      BY <2>2 DEF Fits
    <3>2. Unit(schema[i], fields[i]) = <<"varint", IF fields[i] THEN 1 ELSE 0>>
      BY <2>2 DEF Unit
    <3>3. FieldOf(schema[i], Unit(schema[i], fields[i])) = ((IF fields[i] THEN 1 ELSE 0) # 0)
      BY <2>2, <3>2 DEF FieldOf
    <3>4. ((IF fields[i] THEN 1 ELSE 0) # 0) = fields[i]
      BY <3>1
    <3> QED BY <3>3, <3>4
  <2>3. CASE schema[i] # "uint32" /\ schema[i] # "bool"
    BY <2>3 DEF FieldOf, Unit
  <2> QED BY <2>1, <2>2, <2>3
<1>2. fields = [i \in DOMAIN schema |-> fields[i]]
  BY DEF Fits
<1> QED BY <1>1, <1>2

\* and a message has its scalars, the length of its value and its value.
LEMMA OuterFact ==
    ASSUME NEW scalars, NEW value, IsSeq(scalars), IsSeq(value)
    PROVE  /\ IsSeq(Outer(scalars, value)) /\ Len(Outer(scalars, value)) = Len(scalars) + 1 + Len(value)
           /\ \A i \in 1..Len(scalars) : Outer(scalars, value)[i] = scalars[i]
           /\ Outer(scalars, value)[Len(scalars) + 1] = <<"varint", U32(Len(value))>>
           /\ \A i \in 1..Len(value) : Outer(scalars, value)[Len(scalars) + 1 + i] = value[i]
<1>1. PICK unit : unit = Unit("uint32", Len(value))
  OBVIOUS
<1>2. PICK len : len = <<unit>>
  OBVIOUS
<1>3. IsSeq(len) /\ Len(len) = 1 /\ len[1] = <<"varint", U32(Len(value))>>
  <2>1. unit = <<"varint", U32(Len(value))>>
    BY <1>1 DEF Unit
  <2>2. IsSeq(len) /\ Len(len) = 1 /\ len[1] = unit
    BY <1>2 DEF IsSeq
  <2> QED BY <2>1, <2>2
<1>4. PICK h : h = scalars \o len
  OBVIOUS
<1>5. /\ IsSeq(h) /\ Len(h) = Len(scalars) + 1 /\ Len(scalars) \in Nat
      /\ \A i \in 1..Len(scalars) : h[i] = scalars[i]
      /\ h[Len(scalars) + 1] = len[1]
  <2>1. /\ IsSeq(scalars \o len) /\ Len(scalars \o len) = Len(scalars) + Len(len) /\ Len(scalars) \in Nat
        /\ \A i \in 1..Len(scalars) : (scalars \o len)[i] = scalars[i]
        /\ \A i \in 1..Len(len) : (scalars \o len)[Len(scalars) + i] = len[i]
    <3>1. IsSeq(len)
      BY <1>3
    <3> QED BY <3>1, ConcatFact
  <2>2. 1 \in 1..Len(len)
    BY <1>3
  <2> QED BY <1>3, <1>4, <2>1, <2>2
<1>6. PICK m : m = h \o value
  OBVIOUS
<1>7. /\ IsSeq(m) /\ Len(m) = Len(h) + Len(value) /\ Len(value) \in Nat
      /\ \A i \in 1..Len(h) : m[i] = h[i]
      /\ \A i \in 1..Len(value) : m[Len(h) + i] = value[i]
  <2>1. /\ IsSeq(h \o value) /\ Len(h \o value) = Len(h) + Len(value) /\ Len(value) \in Nat
        /\ \A i \in 1..Len(h) : (h \o value)[i] = h[i]
        /\ \A i \in 1..Len(value) : (h \o value)[Len(h) + i] = value[i]
    BY <1>5, ConcatFact
  <2> QED BY <1>6, <2>1
<1>8. Outer(scalars, value) = m
  BY <1>1, <1>2, <1>4, <1>6 DEF Outer
<1>9. /\ Len(m) = Len(scalars) + 1 + Len(value)
      /\ \A i \in 1..Len(scalars) : m[i] = scalars[i]
      /\ m[Len(scalars) + 1] = len[1]
      /\ \A i \in 1..Len(value) : m[Len(scalars) + 1 + i] = value[i]
  BY <1>5, <1>7
<1> QED BY <1>3, <1>7, <1>8, <1>9

LEMMA EncodeFact ==
    ASSUME NEW schema, NEW fields, IsSeq(schema)
    PROVE  /\ IsSeq(Encode(schema, fields)) /\ Len(Encode(schema, fields)) = Len(schema)
           /\ \A i \in 1..Len(schema) : Encode(schema, fields)[i] = Unit(schema[i], fields[i])
           /\ DOMAIN schema = 1..Len(schema) /\ Len(schema) \in Nat
<1>1. DOMAIN schema = 1..Len(schema) /\ Len(schema) \in Nat
  BY DEF IsSeq
<1>2. PICK v : v = [i \in 1..Len(schema) |-> Unit(schema[i], fields[i])]
  OBVIOUS
<1>3. Encode(schema, fields) = v
  BY <1>1, <1>2 DEF Encode
<1>4. PICK n \in Nat : n = Len(schema)
  BY <1>1
<1>5. v = [i \in 1..n |-> Unit(schema[i], fields[i])]
  BY <1>2, <1>4
<1>6. Len(v) = n
  BY <1>5
<1>7. v = [i \in 1..Len(v) |-> v[i]]
  BY <1>5, <1>6
<1> QED BY <1>1, <1>3, <1>4, <1>5, <1>6, <1>7 DEF IsSeq

ReadAs(X, s, m, scalars, schema, fields) ==
    /\ Whole(X, s + 1) = Len(m) /\ Len(m) <= Len(X)
    /\ \A i \in 1..s : X[i] = scalars[i]
    /\ Value(X, s + 1, schema) = fields

\* Whatever follows, and wherever what has come is cut, a message is read as it was
\* sent when it is there as a whole.
LEMMA FirstMessage ==
    ASSUME NEW scalars, IsSeq(scalars), NEW s \in Nat, s = Len(scalars),
           NEW schema, IsSeq(schema), Len(schema) < Word,
           NEW fields, Fits(fields, schema),
           NEW m, m = Outer(scalars, Encode(schema, fields)),
           NEW X, IsSeq(X), \A u \in 1..Len(m) : u <= Len(X) => X[u] = m[u],
           Whole(X, s + 1) > 0
    PROVE  ReadAs(X, s, m, scalars, schema, fields)
<1>1. PICK v : v = Encode(schema, fields)
  OBVIOUS
<1>2. /\ IsSeq(v) /\ Len(v) = Len(schema) /\ Len(schema) \in Nat /\ DOMAIN schema = 1..Len(schema)
      /\ \A i \in 1..Len(schema) : v[i] = Unit(schema[i], fields[i])
  BY <1>1, EncodeFact
<1>3. /\ IsSeq(m) /\ Len(m) = s + 1 + Len(schema)
      /\ \A i \in 1..s : m[i] = scalars[i]
      /\ m[s + 1] = <<"varint", U32(Len(schema))>>
      /\ \A i \in 1..Len(schema) : m[s + 1 + i] = v[i]
  BY <1>1, <1>2, OuterFact
<1>4. U32(Len(schema)) = Len(schema)
  <2>1. PICK n \in Nat : n = Len(schema)
    BY <1>2
  <2>2. n % Word = n
    BY <2>1, WordAssumption
  <2> QED BY <2>1, <2>2 DEF U32
<1>5. Len(X) \in Nat
  BY DEF IsSeq
<1>6. Len(X) >= s + 1
  BY <1>5 DEF Whole
<1>7. X[s + 1][2] = Len(schema)
  <2>1. s + 1 \in 1..Len(m) /\ s + 1 <= Len(X)
    BY <1>2, <1>3, <1>6
  <2>2. X[s + 1] = <<"varint", Len(schema)>>
    BY <1>3, <1>4, <2>1
  <2> QED BY <2>2
<1>8. Len(X) >= s + 1 + Len(schema) /\ Whole(X, s + 1) = s + 1 + Len(schema)
  BY <1>2, <1>5, <1>6, <1>7 DEF Whole
<1>9. \A i \in 1..s : X[i] = scalars[i]
  <2> SUFFICES ASSUME NEW i \in 1..s PROVE X[i] = scalars[i]
    OBVIOUS
  <2>1. i \in 1..Len(m) /\ i <= Len(X)
    BY <1>2, <1>3, <1>5, <1>8
  <2> QED BY <1>3, <2>1
<1>10. Value(X, s + 1, schema) = [i \in DOMAIN schema |-> FieldOf(schema[i], Unit(schema[i], fields[i]))]
  <2>1. ASSUME NEW i \in DOMAIN schema PROVE X[s + 1 + i] = Unit(schema[i], fields[i])
    <3>1. i \in 1..Len(schema) /\ s + 1 + i \in 1..Len(m) /\ s + 1 + i <= Len(X)
      BY <1>2, <1>3, <1>5, <1>8
    <3>2. X[s + 1 + i] = m[s + 1 + i] /\ m[s + 1 + i] = v[i]
      BY <1>3, <3>1
    <3> QED BY <1>2, <3>1, <3>2
  <2> QED BY <2>1 DEF Value
<1>11. Value(X, s + 1, schema) = fields
  BY <1>10, FieldsComeBack
<1>12. Whole(X, s + 1) = Len(m) /\ Len(m) <= Len(X)
  BY <1>3, <1>8
<1> QED BY <1>9, <1>11, <1>12 DEF ReadAs

-----------------------------------------------------------------------------
(* Pieces of a stream.                                                     *)

LEMMA ConcatAt ==
    ASSUME NEW a, NEW b, IsSeq(a), IsSeq(b), NEW i \in 1..(Len(a) + Len(b))
    PROVE  (a \o b)[i] = IF i <= Len(a) THEN a[i] ELSE b[i - Len(a)]
<1>1. /\ Len(a) \in Nat /\ Len(b) \in Nat
      /\ \A j \in 1..Len(a) : (a \o b)[j] = a[j]
      /\ \A j \in 1..Len(b) : (a \o b)[Len(a) + j] = b[j]
  BY ConcatFact
<1>2. CASE i <= Len(a)
  BY <1>1, <1>2
<1>3. CASE ~(i <= Len(a))
  <2>1. i - Len(a) \in 1..Len(b) /\ Len(a) + (i - Len(a)) = i
    BY <1>1, <1>3
  <2>2. (a \o b)[Len(a) + (i - Len(a))] = b[i - Len(a)]
    BY <1>1, <2>1
  <2> QED BY <1>3, <2>1, <2>2
<1> QED BY <1>2, <1>3

LEMMA Associative ==
    ASSUME NEW a, NEW b, NEW c, IsSeq(a), IsSeq(b), IsSeq(c)
    PROVE  (a \o b) \o c = a \o (b \o c)
<1>1. PICK l : l = a \o b
  OBVIOUS
<1>2. PICK r : r = b \o c
  OBVIOUS
<1>3. IsSeq(l) /\ Len(l) = Len(a) + Len(b) /\ Len(a) \in Nat /\ Len(b) \in Nat
  BY <1>1, ConcatFact
<1>4. IsSeq(r) /\ Len(r) = Len(b) + Len(c) /\ Len(c) \in Nat
  BY <1>2, ConcatFact
<1>5. IsSeq(l \o c) /\ Len(l \o c) = Len(l) + Len(c)
  BY <1>3, ConcatFact
<1>6. IsSeq(a \o r) /\ Len(a \o r) = Len(a) + Len(r)
  BY <1>4, ConcatFact
<1>7. ASSUME NEW i \in 1..Len(l \o c) PROVE (l \o c)[i] = (a \o r)[i]
  <2>1. i \in 1..(Len(l) + Len(c)) /\ i \in 1..(Len(a) + Len(r))
    BY <1>3, <1>4, <1>5
  <2>2. (l \o c)[i] = IF i <= Len(l) THEN l[i] ELSE c[i - Len(l)]
    BY <1>3, <2>1, ConcatAt
  <2>3. (a \o r)[i] = IF i <= Len(a) THEN a[i] ELSE r[i - Len(a)]
    BY <1>4, <2>1, ConcatAt
  <2>4. CASE i <= Len(a)
    <3>1. i \in 1..(Len(a) + Len(b))
      BY <1>3, <2>4
    <3>2. l[i] = a[i]
      BY <1>1, <2>4, <3>1, ConcatAt
    <3> QED BY <1>3, <2>2, <2>3, <2>4, <3>2
  <2>5. CASE i > Len(a) /\ i <= Len(l)
    <3>1. i \in 1..(Len(a) + Len(b)) /\ i - Len(a) \in 1..(Len(b) + Len(c)) /\ i - Len(a) <= Len(b) /\ ~(i <= Len(a))
      BY <1>3, <1>4, <2>5
    <3>2. l[i] = b[i - Len(a)]
      BY <1>1, <3>1, ConcatAt
    <3>3. r[i - Len(a)] = b[i - Len(a)]
      BY <1>2, <3>1, ConcatAt
    <3> QED BY <2>2, <2>3, <2>5, <3>1, <3>2, <3>3
  <2>6. CASE i > Len(l)
    <3>1. PICK j : j = i - Len(a)
      OBVIOUS
    <3>2. j \in 1..(Len(b) + Len(c)) /\ ~(j <= Len(b)) /\ ~(i <= Len(a)) /\ ~(i <= Len(l)) /\ j - Len(b) = i - Len(l)
      BY <1>3, <1>4, <2>1, <2>6, <3>1
    <3>3. r[j] = c[j - Len(b)]
      BY <1>2, <3>2, ConcatAt
    <3> QED BY <2>2, <2>3, <3>1, <3>2, <3>3
  <2> QED BY <1>3, <2>1, <2>4, <2>5, <2>6
<1>8. l \o c = a \o r
  <2>1. Len(l \o c) = Len(a \o r)
    BY <1>3, <1>4, <1>5, <1>6
  <2> QED BY <1>5, <1>6, <1>7, <2>1, SameSeq
<1> QED BY <1>1, <1>2, <1>8

\* What moves from one place to the next stays where it is in the stream.
LEMMA MoveOn ==
    ASSUME NEW c, NEW d, IsSeq(c), IsSeq(d), NEW n \in 0..Len(d)
    PROVE  /\ IsSeq(c \o SubSeq(d, 1, n)) /\ IsSeq(SubSeq(d, n + 1, Len(d)))
           /\ (c \o SubSeq(d, 1, n)) \o SubSeq(d, n + 1, Len(d)) = c \o d
<1>1. PICK f : f = SubSeq(d, 1, n)
  OBVIOUS
<1>2. PICK g : g = SubSeq(d, n + 1, Len(d))
  OBVIOUS
<1>3. /\ IsSeq(f) /\ Len(f) = n /\ n \in Nat /\ Len(d) \in Nat /\ n <= Len(d)
      /\ \A i \in 1..n : f[i] = d[i]
  BY <1>1, CutFact
<1>4. /\ IsSeq(g) /\ Len(g) = Len(d) - n
      /\ \A i \in 1..(Len(d) - n) : g[i] = d[n + i]
  BY <1>2, CutFact
<1>5. IsSeq(f \o g) /\ Len(f \o g) = Len(f) + Len(g)
  BY <1>3, <1>4, ConcatFact
<1>6. Len(f \o g) = Len(d)
  BY <1>3, <1>4, <1>5
<1>7. ASSUME NEW i \in 1..Len(f \o g) PROVE (f \o g)[i] = d[i]
  <2>1. i \in 1..(Len(f) + Len(g))
    BY <1>5
  <2>2. (f \o g)[i] = IF i <= Len(f) THEN f[i] ELSE g[i - Len(f)]
    BY <1>3, <1>4, <2>1, ConcatAt
  <2>3. CASE i <= Len(f)
    BY <1>3, <2>1, <2>2, <2>3
  <2>4. CASE ~(i <= Len(f))
    <3>1. i - n \in 1..(Len(d) - n) /\ n + (i - n) = i
      BY <1>3, <1>4, <2>1, <2>4
    <3>2. g[i - n] = d[n + (i - n)]
      BY <1>4, <3>1
    <3> QED BY <1>3, <2>2, <2>4, <3>1, <3>2
  <2> QED BY <2>3, <2>4
<1>8. f \o g = d
  BY <1>5, <1>6, <1>7, SameSeq
<1>9. IsSeq(c \o f)
  BY <1>3, ConcatFact
<1>10. (c \o f) \o g = c \o (f \o g)
  BY <1>3, <1>4, Associative
<1> QED BY <1>1, <1>2, <1>4, <1>8, <1>9, <1>10

\* What is taken from the front of a stream, and what is lost at its end.
LEMMA TakeFront ==
    ASSUME NEW c, NEW d, IsSeq(c), IsSeq(d), NEW k \in 0..Len(c)
    PROVE  SubSeq(c, k + 1, Len(c)) \o d = SubSeq(c \o d, k + 1, Len(c \o d))
<1>1. PICK g : g = SubSeq(c, k + 1, Len(c))
  OBVIOUS
<1>2. /\ IsSeq(g) /\ Len(g) = Len(c) - k /\ k \in Nat /\ Len(c) \in Nat /\ k <= Len(c)
      /\ \A i \in 1..(Len(c) - k) : g[i] = c[k + i]
  BY <1>1, CutFact
<1>3. PICK X : X = c \o d
  OBVIOUS
<1>4. IsSeq(X) /\ Len(X) = Len(c) + Len(d) /\ Len(d) \in Nat
  BY <1>3, ConcatFact
<1>5. PICK Y : Y = SubSeq(X, k + 1, Len(X))
  OBVIOUS
<1>6. IsSeq(Y) /\ Len(Y) = Len(X) - k /\ \A i \in 1..(Len(X) - k) : Y[i] = X[k + i]
  <2>1. k \in 0..Len(X)
    BY <1>2, <1>4
  <2> QED BY <1>4, <1>5, <2>1, CutFact
<1>7. IsSeq(g \o d) /\ Len(g \o d) = Len(g) + Len(d)
  BY <1>2, ConcatFact
<1>8. Len(g \o d) = Len(Y)
  BY <1>2, <1>4, <1>6, <1>7
<1>9. ASSUME NEW i \in 1..Len(g \o d) PROVE (g \o d)[i] = Y[i]
  <2>1. i \in 1..(Len(g) + Len(d)) /\ i \in 1..(Len(X) - k) /\ k + i \in 1..(Len(c) + Len(d))
    BY <1>2, <1>4, <1>7
  <2>2. (g \o d)[i] = IF i <= Len(g) THEN g[i] ELSE d[i - Len(g)]
    BY <1>2, <2>1, ConcatAt
  <2>3. X[k + i] = IF k + i <= Len(c) THEN c[k + i] ELSE d[(k + i) - Len(c)]
    BY <1>3, <2>1, ConcatAt
  <2>4. Y[i] = X[k + i]
    BY <1>6, <2>1
  <2>5. CASE i <= Len(g)
    <3>1. k + i <= Len(c) /\ i \in 1..(Len(c) - k)
      BY <1>2, <2>1, <2>5
    <3>2. g[i] = c[k + i]
      BY <1>2, <3>1
    <3> QED BY <2>2, <2>3, <2>4, <2>5, <3>1, <3>2
  <2>6. CASE ~(i <= Len(g))
    <3>1. ~(k + i <= Len(c)) /\ (k + i) - Len(c) = i - Len(g)
      BY <1>2, <2>1, <2>6
    <3> QED BY <2>2, <2>3, <2>4, <2>6, <3>1
  <2> QED BY <2>5, <2>6
<1>10. g \o d = Y
  BY <1>6, <1>7, <1>8, <1>9, SameSeq
<1> QED BY <1>1, <1>3, <1>5, <1>10

LEMMA LoseEnd ==
    ASSUME NEW c, NEW d, IsSeq(c), IsSeq(d), NEW k \in 0..Len(d)
    PROVE  /\ c \o SubSeq(d, 1, k) = SubSeq(c \o d, 1, Len(c) + k)
           /\ Len(c) + k \in 0..Len(c \o d)
<1>1. PICK f : f = SubSeq(d, 1, k)
  OBVIOUS
<1>2. /\ IsSeq(f) /\ Len(f) = k /\ k \in Nat /\ Len(d) \in Nat /\ k <= Len(d)
      /\ \A i \in 1..k : f[i] = d[i]
  BY <1>1, CutFact
<1>3. PICK X : X = c \o d
  OBVIOUS
<1>4. IsSeq(X) /\ Len(X) = Len(c) + Len(d) /\ Len(c) \in Nat
  BY <1>3, ConcatFact
<1>5. PICK Y : Y = SubSeq(X, 1, Len(c) + k)
  OBVIOUS
<1>6. Len(c) + k \in 0..Len(X)
  BY <1>2, <1>4
<1>7. IsSeq(Y) /\ Len(Y) = Len(c) + k /\ \A i \in 1..(Len(c) + k) : Y[i] = X[i]
  BY <1>4, <1>5, <1>6, CutFact
<1>8. IsSeq(c \o f) /\ Len(c \o f) = Len(c) + Len(f)
  BY <1>2, ConcatFact
<1>9. ASSUME NEW i \in 1..Len(c \o f) PROVE (c \o f)[i] = Y[i]
  <2>1. i \in 1..(Len(c) + Len(f)) /\ i \in 1..(Len(c) + Len(d)) /\ i \in 1..(Len(c) + k)
    BY <1>2, <1>4, <1>8
  <2>2. (c \o f)[i] = IF i <= Len(c) THEN c[i] ELSE f[i - Len(c)]
    BY <1>2, <2>1, ConcatAt
  <2>3. X[i] = IF i <= Len(c) THEN c[i] ELSE d[i - Len(c)]
    BY <1>3, <2>1, ConcatAt
  <2>4. Y[i] = X[i]
    BY <1>7, <2>1
  <2>5. ~(i <= Len(c)) => i - Len(c) \in 1..k
    BY <1>2, <1>4, <2>1
  <2> QED BY <1>2, <2>2, <2>3, <2>4, <2>5
<1>10. c \o f = Y
  BY <1>2, <1>7, <1>8, <1>9, SameSeq
<1> QED BY <1>1, <1>3, <1>5, <1>6, <1>10

-----------------------------------------------------------------------------
(* The answers.                                                            *)

\* What a handler may answer, and as what it is sent.
IsAnswer(a) == /\ a = <<a[1], a[2], a[3]>> /\ a[1] \in {1, 2, 3} /\ a[2] \in BOOLEAN
               /\ Fits(a[3], Responses[a[1]])
AnswerUnits(a) == IMResponse(a[1], a[2], Encode(Responses[a[1]], a[3]))
Sent(answers) == [i \in 1..Len(answers) |-> AnswerUnits(answers[i])]

\* The invariant: what waits at the client and what is on its way to him are the
\* answers that he has not seen, one after the other, or what close has left of them.
AnswersInv ==
    /\ IsSeq(cin) /\ IsSeq(down) /\ IsSeq(said) /\ IsSeq(shown)
    /\ \A i \in 1..Len(said) : IsAnswer(said[i])
    /\ Len(shown) <= Len(said) /\ \A i \in 1..Len(shown) : shown[i] = said[i]
    /\ Follows(cin \o down, Sent(said), Len(shown), Len(said), ~closed)

LEMMA ResponseSchemas ==
    ASSUME NEW t \in {1, 2, 3}
    PROVE  /\ IsSeq(Responses[t]) /\ Len(Responses[t]) \in {1, 2} /\ DOMAIN Responses[t] = 1..Len(Responses[t])
           /\ \A i \in 1..Len(Responses[t]) : Responses[t][i] \in {"string", "bytes"}
<1>1. Responses[1] = <<"string">> /\ Responses[2] = <<"string">> /\ Responses[3] = <<"string", "bytes">>
  BY DEF Responses, TextResponse, ExitResponse, GetIPResponse
<1>2. IsSeq(<<"string">>) /\ IsSeq(<<"string", "bytes">>)
  BY DEF IsSeq
<1> QED BY <1>1, <1>2

\* Words fit in a text, and a name and an address in the answer to getip.
LEMMA TextFits ==
    ASSUME NEW t \in {1, 2}, NEW b \in BOOLEAN, NEW w
    PROVE  IsAnswer(<<t, b, <<w>> >>)
<1>1. Responses[t] = <<"string">>
  BY DEF Responses, TextResponse, ExitResponse
<1>2. Fits(<<w>>, <<"string">>)
  BY DEF Fits
<1> QED BY <1>1, <1>2 DEF IsAnswer

LEMMA AddressFits ==
    ASSUME NEW v, NEW w
    PROVE  IsAnswer(<<3, TRUE, <<v, w>> >>)
<1>1. Responses[3] = <<"string", "bytes">>
  BY DEF Responses, GetIPResponse
<1>2. Fits(<<v, w>>, <<"string", "bytes">>)
  BY DEF Fits
<1> QED BY <1>1, <1>2 DEF IsAnswer

\* An answer is read as it was given.
LEMMA AnswerIsRead ==
    ASSUME NEW a, IsAnswer(a), NEW X, IsSeq(X),
           \A u \in 1..Len(AnswerUnits(a)) : u <= Len(X) => X[u] = AnswerUnits(a)[u],
           Whole(X, 3) > 0
    PROVE  /\ Whole(X, 3) = Len(AnswerUnits(a)) /\ Len(AnswerUnits(a)) <= Len(X)
           /\ <<TypeOf(X), X[2][2] # 0, Value(X, 3, Responses[TypeOf(X)])>> = a
<1>1. PICK t \in {1, 2, 3} : t = a[1]
  BY DEF IsAnswer
<1>2. PICK schema : schema = Responses[t]
  OBVIOUS
<1>3. PICK fields : fields = a[3]
  OBVIOUS
<1>4. IsSeq(schema) /\ Len(schema) < Word /\ Fits(fields, schema)
  <2>1. IsSeq(schema) /\ Len(schema) \in {1, 2}
    BY <1>2, ResponseSchemas
  <2>2. Fits(fields, schema)
    BY <1>1, <1>2, <1>3 DEF IsAnswer
  <2>3. Len(schema) < Word
    <3>1. PICK n \in {1, 2} : n = Len(schema)
      BY <2>1
    <3>2. n < Word
      BY TypesFit, WordAssumption
    <3> QED BY <3>1, <3>2
  <2> QED BY <2>1, <2>2, <2>3
<1>5. PICK scalars : scalars = <<Unit("uint32", t), Unit("bool", a[2])>>
  OBVIOUS
<1>6. IsSeq(scalars) /\ Len(scalars) = 2
  BY <1>5 DEF IsSeq
<1>7. scalars[1] = <<"varint", t>>
  <2>1. t % Word = t
    BY TypesFit, WordAssumption
  <2>2. Unit("uint32", t) = <<"varint", t>>
    BY <2>1 DEF Unit, U32
  <2> QED BY <1>5, <2>2
<1>8. scalars[2][2] = IF a[2] THEN 1 ELSE 0
  <2>1. Unit("bool", a[2]) = <<"varint", IF a[2] THEN 1 ELSE 0>>
    BY DEF Unit
  <2>2. scalars[2] = <<"varint", IF a[2] THEN 1 ELSE 0>>
    BY <1>5, <2>1
  <2> QED BY <2>2
<1>9. AnswerUnits(a) = Outer(scalars, Encode(schema, fields))
  BY <1>1, <1>2, <1>3, <1>5 DEF AnswerUnits, IMResponse
<1>10. PICK m : m = AnswerUnits(a)
  OBVIOUS
<1>11. /\ Whole(X, 3) = Len(m) /\ Len(m) <= Len(X)
       /\ \A i \in 1..2 : X[i] = scalars[i]
       /\ Value(X, 3, schema) = fields
  <2>1. PICK s \in Nat : s = 2
    OBVIOUS
  <2>2. s + 1 = 3 /\ s = Len(scalars)
    BY <1>6, <2>1
  <2>3. \A u \in 1..Len(m) : u <= Len(X) => X[u] = m[u]
    BY <1>10
  <2>4. m = Outer(scalars, Encode(schema, fields))
    BY <1>9, <1>10
  <2>5. Whole(X, s + 1) > 0
    BY <2>2
  <2>6. IsSeq(scalars)
    BY <1>6
  <2>7. IsSeq(schema)
    BY <1>4
  <2>8. Len(schema) < Word
    BY <1>4
  <2>9. Fits(fields, schema)
    BY <1>4
  <2>10. ReadAs(X, s, m, scalars, schema, fields)
    BY <2>2, <2>3, <2>4, <2>5, <2>6, <2>7, <2>8, <2>9, FirstMessage
  <2> QED BY <2>1, <2>2, <2>10 DEF ReadAs
<1>12. TypeOf(X) = t
  BY <1>7, <1>11 DEF TypeOf
<1>13. (X[2][2] # 0) = a[2]
  <2>1. X[2][2] = IF a[2] THEN 1 ELSE 0
    BY <1>8, <1>11
  <2>2. a[2] \in BOOLEAN
    BY DEF IsAnswer
  <2> QED BY <2>1, <2>2
<1>14. Value(X, 3, Responses[TypeOf(X)]) = a[3]
  BY <1>2, <1>3, <1>11, <1>12
<1>15. <<t, a[2], a[3]>> = a
  BY <1>1 DEF IsAnswer
<1>16. PICK b \in BOOLEAN : b = (X[2][2] # 0)
  OBVIOUS
<1>17. b = a[2]
  BY <1>13, <1>16
<1>18. <<TypeOf(X), b, Value(X, 3, Responses[TypeOf(X)])>> = a
  BY <1>12, <1>14, <1>15, <1>17
<1> QED BY <1>10, <1>11, <1>16, <1>18

LEMMA UnitsAreSeq ==
    ASSUME NEW a, IsAnswer(a)
    PROVE  IsSeq(AnswerUnits(a))
<1>1. PICK t \in {1, 2, 3} : t = a[1]
  BY DEF IsAnswer
<1>2. PICK v : v = Encode(Responses[a[1]], a[3])
  OBVIOUS
<1>3. IsSeq(v)
  BY <1>1, <1>2, ResponseSchemas, EncodeFact
<1>4. PICK scalars : scalars = <<Unit("uint32", a[1]), Unit("bool", a[2])>>
  OBVIOUS
<1>5. IsSeq(scalars)
  BY <1>4 DEF IsSeq
<1>6. IsSeq(Outer(scalars, v))
  BY <1>3, <1>5, OuterFact
<1> QED BY <1>2, <1>4, <1>6 DEF AnswerUnits, IMResponse

-----------------------------------------------------------------------------
\* What every handler does to the answers.
Answering ==
    /\ UNCHANGED <<client, cin, shown>>
    /\ \/ UNCHANGED <<said, down, closed>>
       \/ /\ UNCHANGED closed
          /\ \E a : /\ IsAnswer(a) /\ said' = Append(said, a)
                    /\ down' = IF closed THEN down ELSE down \o AnswerUnits(a)
       \/ UNCHANGED said /\ closed' = TRUE /\ \E k \in 0..Len(down) : down' = SubSeq(down, 1, k)

LEMMA AnsweredAnswers ==
    ASSUME NEW a, a = NoAnswer \/ IsAnswer(a), Answered(a), UNCHANGED <<client, back>>, UNCHANGED closed
    PROVE  Answering
<1>1. UNCHANGED <<cin, shown>>
  BY DEF back
<1>2. CASE a = NoAnswer
  BY <1>1, <1>2 DEF Answered, Answering
<1>3. CASE a # NoAnswer
  <2>1. IsAnswer(a) /\ said' = Append(said, a)
    BY <1>3 DEF Answered
  <2>2. down' = IF closed THEN down ELSE down \o AnswerUnits(a)
    BY <1>3 DEF Answered, AnswerUnits
  <2> QED BY <1>1, <2>1, <2>2 DEF Answering
<1> QED BY <1>2, <1>3

LEMMA TextAnswers == \A b \in BOOLEAN : \A w : IsAnswer(Text(b, w)) /\ IsAnswer(Exit(b, w))
BY TextFits DEF Text, Exit

LEMMA HandlersAnswer ==
    ASSUME closed \in BOOLEAN, Handle
    PROVE  Answering
<1>1. IsAnswer(NotLoggedIn)
  BY TextAnswers DEF NotLoggedIn
<1>2. CASE ServeLogin
  <2>1. PICK a : a = IF session THEN Exit(FALSE, <<"another session is in place">>) ELSE Text(TRUE, <<"Welcome">>)
    OBVIOUS
  <2>2. IsAnswer(a)
    BY <2>1, TextAnswers
  <2>3. Answered(a) /\ UNCHANGED <<client, back>> /\ UNCHANGED closed
    BY <1>2, <2>1 DEF ServeLogin
  <2> QED BY <2>2, <2>3, AnsweredAnswers
<1>3. CASE ServeMessage
  <2>1. PICK a : a = IF ~session THEN NotLoggedIn
                     ELSE IF Fields[1] \/ FindUser(Fields[2]) # {} THEN NoAnswer
                     ELSE Text(FALSE, <<"Recipient">>)
    OBVIOUS
  <2>2. a = NoAnswer \/ IsAnswer(a)
    BY <1>1, <2>1, TextAnswers
  <2>3. Answered(a) /\ UNCHANGED <<client, back>> /\ UNCHANGED closed
    BY <1>3, <2>1 DEF ServeMessage
  <2> QED BY <2>2, <2>3, AnsweredAnswers
<1>4. CASE ServeWhoElse
  <2>1. PICK list : list = LoggedInUsersAfterTime(Threshold(Fields[1], Fields[2]), Fields[3])
    OBVIOUS
  <2>2. PICK a : a = IF ~session THEN NotLoggedIn ELSE Text(list # {}, <<"users", list>>)
    OBVIOUS
  <2>3. IsAnswer(a)
    BY <1>1, <2>2, TextAnswers
  <2>4. Answered(a) /\ UNCHANGED <<client, back>> /\ UNCHANGED closed
    BY <1>4, <2>1, <2>2 DEF ServeWhoElse
  <2> QED BY <2>3, <2>4, AnsweredAnswers
<1>5. CASE ServeBlock
  <2>1. PICK ok \in BOOLEAN : ok = (session /\ \E u \in FindUser(Fields[1]) \ {Me} : ~HasBlocked(blocked, u))
    OBVIOUS
  <2>2. PICK a : a = IF session THEN Text(ok, <<"block">>) ELSE NotLoggedIn
    OBVIOUS
  <2>3. IsAnswer(a)
    BY <1>1, <2>2, TextAnswers
  <2>4. Answered(a) /\ UNCHANGED <<client, back>> /\ UNCHANGED closed
    BY <1>5, <2>1, <2>2 DEF ServeBlock
  <2> QED BY <2>3, <2>4, AnsweredAnswers
<1>6. CASE ServeUnblock
  <2>1. PICK ok \in BOOLEAN : ok = (session /\ \E u \in FindUser(Fields[1]) \ {Me} : HasBlocked(blocked, u))
    OBVIOUS
  <2>2. PICK a : a = IF session THEN Text(ok, <<"unblock">>) ELSE NotLoggedIn
    OBVIOUS
  <2>3. IsAnswer(a)
    BY <1>1, <2>2, TextAnswers
  <2>4. Answered(a) /\ UNCHANGED <<client, back>> /\ UNCHANGED closed
    BY <1>6, <2>1, <2>2 DEF ServeUnblock
  <2> QED BY <2>3, <2>4, AnsweredAnswers
<1>7. CASE ServeLogout
  <2>1. CASE session
    <3>1. UNCHANGED said /\ closed' = TRUE /\ (\E k \in 0..Len(down) : down' = SubSeq(down, 1, k))
      BY <1>7, <2>1 DEF ServeLogout
    <3>2. UNCHANGED <<client, cin, shown>>
      BY <1>7 DEF ServeLogout, back
    <3> QED BY <3>1, <3>2 DEF Answering
  <2>2. CASE ~session
    <3>1. Answered(NotLoggedIn) /\ UNCHANGED <<client, back>> /\ closed' = closed
      BY <1>7, <2>2 DEF ServeLogout
    <3> QED BY <1>1, <3>1, AnsweredAnswers
  <2> QED BY <2>1, <2>2
<1>8. CASE ServeGetIP
  <2>1. PICK name : name = Fields[1]
    OBVIOUS
  <2>2. PICK a : a = IF session /\ \E u \in FindUser(Fields[1]) \ {Me} : online[u]
                     THEN <<3, TRUE, <<Fields[1], <<"address">> >> >>
                     ELSE Text(FALSE, <<"startprivate">>)
    OBVIOUS
  <2>3. IsAnswer(a)
    <3>1. IsAnswer(<<3, TRUE, <<name, <<"address">> >> >>)
      BY AddressFits
    <3> QED BY <2>1, <2>2, <3>1, TextAnswers
  <2>4. Answered(a) /\ UNCHANGED <<client, back>> /\ UNCHANGED closed
    BY <1>8, <2>2 DEF ServeGetIP
  <2> QED BY <2>3, <2>4, AnsweredAnswers
<1>9. CASE ServeFiles
  <2>1. PICK a : a = IF session THEN Text(TRUE, <<"file">>) ELSE NotLoggedIn
    OBVIOUS
  <2>2. IsAnswer(a)
    BY <1>1, <2>1, TextAnswers
  <2>3. Answered(a) /\ UNCHANGED <<client, back>> /\ UNCHANGED closed
    BY <1>9, <2>1 DEF ServeFiles
  <2> QED BY <2>2, <2>3, AnsweredAnswers
<1> QED BY <1>2, <1>3, <1>4, <1>5, <1>6, <1>7, <1>8, <1>9 DEF Handle

\* The invariant for a client who has seen n answers.
AnswersFrom(X, n, answers, whole) == Follows(X, Sent(answers), n, Len(answers), whole)

LEMMA SentFact ==
    ASSUME NEW answers, IsSeq(answers), NEW a
    PROVE  /\ \A i \in 1..Len(answers) : Sent(Append(answers, a))[i] = Sent(answers)[i]
           /\ Sent(Append(answers, a))[Len(answers) + 1] = AnswerUnits(a)
           /\ Len(Append(answers, a)) = Len(answers) + 1 /\ Len(answers) \in Nat
<1>1. PICK longer : longer = Append(answers, a)
  OBVIOUS
<1>2. /\ Len(longer) = Len(answers) + 1 /\ Len(answers) \in Nat
      /\ \A i \in 1..Len(answers) : longer[i] = answers[i]
      /\ longer[Len(answers) + 1] = a
  BY <1>1, AddFact
<1>3. \A i \in 1..Len(longer) : Sent(longer)[i] = AnswerUnits(longer[i])
  BY DEF Sent
<1>4. \A i \in 1..Len(answers) : Sent(answers)[i] = AnswerUnits(answers[i])
  BY DEF Sent
<1>5. PICK n \in Nat : n = Len(answers)
  BY <1>2
<1>6. ASSUME NEW i \in 1..n PROVE Sent(longer)[i] = Sent(answers)[i]
  <2>1. i \in 1..Len(longer) /\ i \in 1..Len(answers)
    BY <1>2, <1>5
  <2> QED BY <1>2, <1>3, <1>4, <2>1
<1>7. n + 1 \in 1..Len(longer)
  BY <1>2, <1>5
<1>8. Sent(longer)[n + 1] = AnswerUnits(a)
  BY <1>2, <1>3, <1>5, <1>7
<1> QED BY <1>1, <1>2, <1>5, <1>6, <1>8

\* An answer more, sent or not.
LEMMA AnswerMore ==
    ASSUME NEW c, NEW d, NEW n, NEW answers, NEW a, IsSeq(c), IsSeq(d), IsSeq(answers), IsAnswer(a),
           AnswersFrom(c \o d, n, answers, TRUE)
    PROVE  AnswersFrom(c \o (d \o AnswerUnits(a)), n, Append(answers, a), TRUE)
<1>1. PICK m : m = AnswerUnits(a)
  OBVIOUS
<1>2. PICK M : M = Sent(Append(answers, a))
  OBVIOUS
<1>3. PICK b \in Nat : b = Len(answers)
  BY DEF IsSeq
<1>4. /\ \A i \in 1..b : M[i] = Sent(answers)[i]
      /\ M[b + 1] = m /\ Len(Append(answers, a)) = b + 1
  BY <1>1, <1>2, <1>3, SentFact
<1>5. Follows(c \o d, Sent(answers), n, b, TRUE)
  BY <1>3 DEF AnswersFrom
<1>6. n \in Nat /\ n <= b
  BY <1>5 DEF Follows
<1>7. \A i \in (n + 1)..b : M[i] = Sent(answers)[i]
  BY <1>4, <1>6
<1>8. Follows(c \o d, M, n, b, TRUE)
  BY <1>5, <1>7, FollowsSame
<1>9. IsSeq(m)
  BY <1>1, UnitsAreSeq
<1>10. IsSeq(M[b + 1])
  BY <1>4, <1>9
<1>11. Follows((c \o d) \o M[b + 1], M, n, b + 1, TRUE)
  BY <1>8, <1>10, FollowsMore
<1>12. (c \o d) \o m = c \o (d \o m)
  BY <1>9, Associative
<1>13. Follows(c \o (d \o m), M, n, b + 1, TRUE)
  BY <1>4, <1>11, <1>12
<1> QED BY <1>1, <1>2, <1>4, <1>13 DEF AnswersFrom

LEMMA AnswerUnsent ==
    ASSUME NEW X, NEW n, NEW answers, NEW a, IsSeq(answers), IsAnswer(a),
           AnswersFrom(X, n, answers, FALSE)
    PROVE  AnswersFrom(X, n, Append(answers, a), FALSE)
<1>1. PICK m : m = AnswerUnits(a)
  OBVIOUS
<1>2. PICK M : M = Sent(Append(answers, a))
  OBVIOUS
<1>3. PICK b \in Nat : b = Len(answers)
  BY DEF IsSeq
<1>4. /\ \A i \in 1..b : M[i] = Sent(answers)[i]
      /\ M[b + 1] = m /\ Len(Append(answers, a)) = b + 1
  BY <1>1, <1>2, <1>3, SentFact
<1>5. Follows(X, Sent(answers), n, b, FALSE)
  BY <1>3 DEF AnswersFrom
<1>6. n \in Nat /\ n <= b
  BY <1>5 DEF Follows
<1>7. \A i \in (n + 1)..b : M[i] = Sent(answers)[i]
  BY <1>4, <1>6
<1>8. Follows(X, M, n, b, FALSE)
  BY <1>5, <1>7, FollowsSame
<1>9. IsSeq(m)
  BY <1>1, UnitsAreSeq
<1>10. IsSeq(M[b + 1])
  BY <1>4, <1>9
<1>11. Follows(X, M, n, b + 1, FALSE)
  BY <1>8, <1>10, FollowsUnsent
<1> QED BY <1>2, <1>4, <1>11 DEF AnswersFrom

AnswersIInv == AnswersInv /\ closed \in BOOLEAN

LEMMA AnsweringKeeps ==
    ASSUME AnswersIInv, Answering
    PROVE  AnswersIInv'
<1>1. PICK c : c = cin
  OBVIOUS
<1>2. PICK d : d = down
  OBVIOUS
<1>3. PICK s : s = said
  OBVIOUS
<1>4. PICK n : n = Len(shown)
  OBVIOUS
<1>5. PICK cl \in BOOLEAN : cl = closed
  BY DEF AnswersIInv
<1>6. /\ IsSeq(c) /\ IsSeq(d) /\ IsSeq(s) /\ \A i \in 1..Len(s) : IsAnswer(s[i])
      /\ n <= Len(s) /\ \A i \in 1..n : shown[i] = s[i]
      /\ IsSeq(shown)
  BY <1>1, <1>2, <1>3, <1>4 DEF AnswersIInv, AnswersInv
<1>7. AnswersFrom(c \o d, n, s, ~cl)
  BY <1>1, <1>2, <1>3, <1>4, <1>5 DEF AnswersIInv, AnswersInv, AnswersFrom
<1>8. cin' = c /\ shown' = shown
  BY <1>1 DEF Answering
<1>9. CASE UNCHANGED <<said, down, closed>>
  <2>1. AnswersInv'
    BY <1>8, <1>9, <1>1 DEF AnswersIInv, AnswersInv
  <2> QED BY <1>9, <2>1 DEF AnswersIInv
<1>10. CASE /\ UNCHANGED closed
            /\ \E a : /\ IsAnswer(a) /\ said' = Append(said, a)
                      /\ down' = IF closed THEN down ELSE down \o AnswerUnits(a)
  <2>1. PICK a : /\ IsAnswer(a) /\ said' = Append(said, a)
                 /\ down' = IF closed THEN down ELSE down \o AnswerUnits(a)
    BY <1>10
  <2>2. PICK e : e = down'
    OBVIOUS
  <2>3. PICK t : t = Append(s, a)
    OBVIOUS
  <2>4. /\ IsSeq(t) /\ Len(t) = Len(s) + 1 /\ Len(s) \in Nat
        /\ \A i \in 1..Len(s) : t[i] = s[i]
        /\ t[Len(s) + 1] = a
    BY <1>6, <2>3, AddFact
  <2>5. n \in Nat
    BY <1>4, <1>6 DEF IsSeq
  <2>6. \A i \in 1..Len(t) : IsAnswer(t[i])
    <3> SUFFICES ASSUME NEW i \in 1..Len(t) PROVE IsAnswer(t[i])
      OBVIOUS
    <3>1. CASE i = Len(s) + 1
      BY <2>1, <2>4, <3>1
    <3>2. CASE i # Len(s) + 1
      <4>1. i \in 1..Len(s)
        BY <2>4, <3>2
      <4> QED BY <1>6, <2>4, <4>1
    <3> QED BY <3>1, <3>2
  <2>7. n <= Len(t) /\ \A i \in 1..n : shown[i] = t[i]
    BY <1>6, <2>4, <2>5
  <2>8. IsSeq(e) /\ AnswersFrom(c \o e, n, t, ~cl)
    <3>1. CASE cl = TRUE
      <4>1. e = d
        BY <1>2, <1>5, <2>1, <2>2, <3>1
      <4>2. AnswersFrom(c \o d, n, s, FALSE)
        BY <1>7, <3>1
      <4>3. AnswersFrom(c \o d, n, t, FALSE)
        BY <1>6, <2>1, <2>3, <4>2, AnswerUnsent
      <4> QED BY <1>6, <3>1, <4>1, <4>3
    <3>2. CASE cl = FALSE
      <4>1. e = d \o AnswerUnits(a)
        BY <1>2, <1>5, <2>1, <2>2, <3>2
      <4>2. AnswersFrom(c \o d, n, s, TRUE)
        BY <1>7, <3>2
      <4>3. AnswersFrom(c \o e, n, t, TRUE)
        BY <1>6, <2>1, <2>3, <4>1, <4>2, AnswerMore
      <4>4. IsSeq(AnswerUnits(a))
        BY <2>1, UnitsAreSeq
      <4>5. IsSeq(d \o AnswerUnits(a))
        BY <1>6, <4>4, ConcatFact
      <4> QED BY <3>2, <4>1, <4>3, <4>5
    <3> QED BY <3>1, <3>2
  <2>9. said' = t /\ closed' = cl /\ Len(shown') = n
    BY <1>3, <1>4, <1>5, <1>8, <1>10, <2>1, <2>3
  <2>10. AnswersInv'
    BY <1>6, <1>8, <2>2, <2>6, <2>7, <2>8, <2>4, <2>9 DEF AnswersInv, AnswersFrom
  <2> QED BY <2>9, <2>10 DEF AnswersIInv
<1>11. CASE UNCHANGED said /\ closed' = TRUE /\ \E k \in 0..Len(down) : down' = SubSeq(down, 1, k)
  <2>1. PICK k \in 0..Len(d) : down' = SubSeq(d, 1, k)
    BY <1>2, <1>11
  <2>2. PICK e : e = SubSeq(d, 1, k)
    OBVIOUS
  <2>3. IsSeq(e)
    BY <1>6, <2>2, CutFact
  <2>4. c \o e = SubSeq(c \o d, 1, Len(c) + k) /\ Len(c) + k \in 0..Len(c \o d)
    BY <1>6, <2>2, LoseEnd
  <2>5. Follows(c \o d, Sent(s), n, Len(s), ~cl)
    BY <1>7 DEF AnswersFrom
  <2>6. Follows(SubSeq(c \o d, 1, Len(c) + k), Sent(s), n, Len(s), FALSE)
    BY <2>4, <2>5, FollowsCut
  <2>7. said' = s /\ closed' = TRUE /\ down' = e /\ Len(shown') = n
    BY <1>3, <1>4, <1>8, <1>11, <2>1, <2>2
  <2>8. Follows(c \o e, Sent(s), n, Len(s), FALSE)
    BY <2>4, <2>6
  <2>9. AnswersInv'
    BY <1>6, <1>8, <2>3, <2>7, <2>8 DEF AnswersInv
  <2> QED BY <2>7, <2>9 DEF AnswersIInv
<1> QED BY <1>9, <1>10, <1>11 DEF Answering

LEMMA HearKeeps ==
    ASSUME AnswersIInv, NEW k \in 1..Len(down), Hear(k)
    PROVE  AnswersIInv'
<1>1. PICK c : c = cin
  OBVIOUS
<1>2. PICK d : d = down
  OBVIOUS
<1>3. IsSeq(c) /\ IsSeq(d) /\ k \in 0..Len(d)
  BY <1>1, <1>2 DEF AnswersIInv, AnswersInv
<1>4. PICK f : f = c \o SubSeq(d, 1, k)
  OBVIOUS
<1>5. PICK g : g = SubSeq(d, k + 1, Len(d))
  OBVIOUS
<1>6. IsSeq(f) /\ IsSeq(g) /\ f \o g = c \o d
  BY <1>3, <1>4, <1>5, MoveOn
<1>7. cin' = f /\ down' = g /\ UNCHANGED <<said, shown, closed>>
  BY <1>1, <1>2, <1>4, <1>5 DEF Hear
<1>8. AnswersInv'
  BY <1>1, <1>2, <1>6, <1>7 DEF AnswersIInv, AnswersInv
<1> QED BY <1>7, <1>8 DEF AnswersIInv

LEMMA ShowKeeps ==
    ASSUME AnswersIInv, Show
    PROVE  AnswersIInv'
<1>1. PICK c : c = cin
  OBVIOUS
<1>2. PICK d : d = down
  OBVIOUS
<1>3. PICK s : s = said
  OBVIOUS
<1>4. PICK n : n = Len(shown)
  OBVIOUS
<1>5. PICK sh : sh = shown
  OBVIOUS
<1>6. /\ IsSeq(c) /\ IsSeq(d) /\ IsSeq(s) /\ \A i \in 1..Len(s) : IsAnswer(s[i])
      /\ n <= Len(s) /\ \A i \in 1..n : sh[i] = s[i]
      /\ IsSeq(sh) /\ n = Len(sh)
  BY <1>1, <1>2, <1>3, <1>4, <1>5 DEF AnswersIInv, AnswersInv
<1>7. PICK X : X = c \o d
  OBVIOUS
<1>8. Follows(X, Sent(s), n, Len(s), ~closed)
  BY <1>1, <1>2, <1>3, <1>4, <1>7 DEF AnswersIInv, AnswersInv
<1>9. Whole(c, 3) > 0
  BY <1>1 DEF Show
<1>10. /\ Len(X) = Len(c) + Len(d) /\ Len(c) \in Nat /\ Len(d) \in Nat
       /\ \A i \in 1..Len(c) : X[i] = c[i]
  BY <1>6, <1>7, ConcatFact
<1>11. Len(c) >= 3
  BY <1>9, <1>10 DEF Whole
<1>12. Len(X) > 0
  BY <1>10, <1>11
<1>13. n + 1 \in (n + 1)..Len(s) /\ \A u \in 1..Len(Sent(s)[n + 1]) : u <= Len(X) => X[u] = Sent(s)[n + 1][u]
  BY <1>8, <1>12, FollowsFirst
<1>14. n \in Nat /\ Len(s) \in Nat
  BY <1>6 DEF IsSeq
<1>15. PICK a : a = s[n + 1]
  OBVIOUS
<1>16. n + 1 \in 1..Len(s) /\ IsAnswer(a) /\ Sent(s)[n + 1] = AnswerUnits(a) /\ n < Len(s)
  <2>1. n + 1 \in 1..Len(s)
    BY <1>13, <1>14
  <2>2. Sent(s)[n + 1] = AnswerUnits(s[n + 1])
    BY <2>1 DEF Sent
  <2> QED BY <1>6, <1>14, <1>15, <2>1, <2>2
<1>17. PICK m : m = AnswerUnits(a)
  OBVIOUS
<1>18. \A u \in 1..Len(m) : u <= Len(c) => c[u] = m[u]
  <2> SUFFICES ASSUME NEW u \in 1..Len(m), u <= Len(c) PROVE c[u] = m[u]
    OBVIOUS
  <2>1. IsSeq(m)
    BY <1>16, <1>17, UnitsAreSeq
  <2>2. u \in 1..Len(c) /\ u <= Len(X)
    BY <1>10, <2>1 DEF IsSeq
  <2>3. X[u] = m[u]
    BY <1>13, <1>16, <1>17, <2>2
  <2> QED BY <1>10, <2>2, <2>3
<1>19. /\ Whole(c, 3) = Len(m) /\ Len(m) <= Len(c)
       /\ <<TypeOf(c), c[2][2] # 0, Value(c, 3, Responses[TypeOf(c)])>> = a
  BY <1>6, <1>9, <1>16, <1>17, <1>18, AnswerIsRead
<1>20. PICK k : k = Len(m)
  OBVIOUS
<1>21. k \in 0..Len(c)
  <2>1. IsSeq(m)
    BY <1>16, <1>17, UnitsAreSeq
  <2> QED BY <1>10, <1>19, <1>20, <2>1 DEF IsSeq
<1>22. PICK f : f = SubSeq(c, k + 1, Len(c))
  OBVIOUS
<1>23. IsSeq(f)
  BY <1>6, <1>21, <1>22, CutFact
<1>24. f \o d = SubSeq(X, k + 1, Len(X))
  BY <1>6, <1>7, <1>21, <1>22, TakeFront
<1>25. Follows(SubSeq(X, k + 1, Len(X)), Sent(s), n + 1, Len(s), ~closed)
  <2>1. k <= Len(X)
    BY <1>10, <1>21
  <2>2. k = Len(Sent(s)[n + 1])
    BY <1>16, <1>17, <1>20
  <2>3. n < Len(s)
    BY <1>16
  <2> QED BY <1>8, <2>1, <2>2, <2>3, FollowsRest
<1>26. PICK t : t = Append(sh, a)
  OBVIOUS
<1>27. /\ IsSeq(t) /\ Len(t) = n + 1
       /\ \A i \in 1..n : t[i] = sh[i]
       /\ t[n + 1] = a
  BY <1>6, <1>26, AddFact
<1>28. Len(t) <= Len(s) /\ \A i \in 1..Len(t) : t[i] = s[i]
  <2> SUFFICES ASSUME NEW i \in 1..Len(t) PROVE t[i] = s[i]
    BY <1>16, <1>14, <1>27
  <2>1. i \in 1..n \/ i = n + 1
    BY <1>14, <1>27
  <2> QED BY <1>6, <1>15, <1>27, <2>1
<1>29. shown' = t /\ cin' = f /\ UNCHANGED <<said, down, closed>>
  <2>1. shown' = Append(shown, <<TypeOf(cin), cin[2][2] # 0, Value(cin, 3, Responses[TypeOf(cin)])>>)
    BY DEF Show
  <2>2. cin' = SubSeq(cin, Whole(cin, 3) + 1, Len(cin)) /\ UNCHANGED <<said, down, closed>>
    BY DEF Show
  <2>3. <<TypeOf(cin), cin[2][2] # 0, Value(cin, 3, Responses[TypeOf(cin)])>> = a
    BY <1>1, <1>19
  <2>4. shown' = Append(shown, a)
    BY <2>1, <2>3, Zenon
  <2> QED BY <1>1, <1>5, <1>19, <1>20, <1>22, <1>26, <2>2, <2>4
<1>30. AnswersInv'
  BY <1>2, <1>3, <1>6, <1>23, <1>24, <1>25, <1>27, <1>28, <1>29 DEF AnswersInv
<1> QED BY <1>29, <1>30 DEF AnswersIInv

LEMMA AnswersInit ==
    ASSUME Init PROVE AnswersIInv
<1>1. /\ cin = <<>> /\ down = <<>> /\ said = <<>> /\ shown = <<>> /\ closed = FALSE
  BY DEF Init
<1>2. IsSeq(<<>>) /\ Len(<<>>) = 0 /\ <<>> \o <<>> = <<>>
  BY DEF IsSeq
<1>3. Follows(<<>>, Sent(<<>>), 0, 0, TRUE)
  BY FollowsEmpty
<1>4. Follows(cin \o down, Sent(said), Len(shown), Len(said), ~closed)
  BY <1>1, <1>2, <1>3
<1>5. IsSeq(cin) /\ IsSeq(down) /\ IsSeq(said) /\ IsSeq(shown)
  BY <1>1, <1>2
<1>6. /\ \A i \in 1..Len(said) : IsAnswer(said[i])
      /\ Len(shown) <= Len(said) /\ \A i \in 1..Len(shown) : shown[i] = said[i]
  BY <1>1
<1>7. AnswersInv
  BY <1>4, <1>5, <1>6 DEF AnswersInv
<1> QED BY <1>1, <1>7 DEF AnswersIInv

LEMMA AnswersSteps ==
    ASSUME AnswersIInv, [Next]_vars
    PROVE  AnswersIInv'
<1>1. ASSUME UNCHANGED <<cin, down, said, shown, closed>> PROVE AnswersIInv'
  BY <1>1 DEF AnswersIInv, AnswersInv
<1>2. ASSUME NEW l \in Lines, Type(l) PROVE AnswersIInv'
  BY <1>1, <1>2 DEF Type, back
<1>3. ASSUME NEW n \in 1..Len(up), Receive(n) PROVE AnswersIInv'
  BY <1>1, <1>3 DEF Receive, back
<1>4. CASE Handle
  <2>1. closed \in BOOLEAN
    BY DEF AnswersIInv
  <2> QED BY <1>4, <2>1, HandlersAnswer, AnsweringKeeps
<1>5. ASSUME NEW n \in 1..Len(down), Hear(n) PROVE AnswersIInv'
  BY <1>5, HearKeeps
<1>6. CASE Show
  BY <1>6, ShowKeeps
<1>7. CASE ServerGone
  BY <1>1, <1>7 DEF ServerGone, back
<1>8. CASE Tick
  BY <1>1, <1>8 DEF Tick, back
<1>9. ASSUME NEW u \in Visitors, Come(u) \/ Leave(u) PROVE AnswersIInv'
  BY <1>1, <1>9 DEF Come, Leave, back
<1>10. CASE UNCHANGED vars
  BY <1>1, <1>10 DEF vars, back
<1> QED BY <1>2, <1>3, <1>4, <1>5, <1>6, <1>7, <1>8, <1>9, <1>10 DEF Next

\* What the user is shown is what the server has answered so far, in its order and
\* unaltered, for any users, any lines and any way the network cuts the streams.
THEOREM AnswersArrive == Spec => []AnswersInOrder
<1>1. Init => AnswersIInv
  BY AnswersInit
<1>2. AnswersIInv /\ [Next]_vars => AnswersIInv'
  BY AnswersSteps
<1>3. AnswersIInv => AnswersInOrder
  BY PrefixFact DEF AnswersIInv, AnswersInv, AnswersInOrder
<1> QED BY <1>1, <1>2, <1>3, PTL DEF Spec

-----------------------------------------------------------------------------
(* The requests.                                                           *)

LEMMA RequestSchemas ==
    ASSUME NEW t \in DOMAIN Handlers
    PROVE  /\ t \in 1..10 /\ IsSeq(Handlers[t][2]) /\ Len(Handlers[t][2]) \in 0..3
           /\ Handlers[t] = <<Handlers[t][1], Handlers[t][2]>>
<1>1. /\ IsSeq(<<"string", "string", "uint32">>) /\ IsSeq(<<"bool", "string", "string">>)
      /\ IsSeq(<<"bool", "uint32", "bool">>) /\ IsSeq(<<"string">>) /\ IsSeq(<<>>)
      /\ IsSeq(<<"string", "uint32">>) /\ IsSeq(<<"string", "bytes">>)
  BY DEF IsSeq
<1>2. t \in 1..10
  BY DEF Handlers
<1>3. CASE t = 1
  BY <1>1, <1>3 DEF Handlers, LoginRequest
<1>4. CASE t = 2
  BY <1>1, <1>4 DEF Handlers, MessageRequest
<1>5. CASE t = 3
  BY <1>1, <1>5 DEF Handlers, WhoElseRequest
<1>6. CASE t = 4
  BY <1>1, <1>6 DEF Handlers, BlockRequest
<1>7. CASE t = 5
  BY <1>1, <1>7 DEF Handlers, UnBlockRequest
<1>8. CASE t = 6
  BY <1>1, <1>8 DEF Handlers, LogOutRequest
<1>9. CASE t = 7
  BY <1>1, <1>9 DEF Handlers, GetIPRequest
<1>10. CASE t = 8
  BY <1>1, <1>10 DEF Handlers, RegisterFileRequest
<1>11. CASE t = 9
  BY <1>1, <1>11 DEF Handlers, RegisterChunkRequest
<1>12. CASE t = 10
  BY <1>1, <1>12 DEF Handlers, SearchFileRequest
<1> QED BY <1>2, <1>3, <1>4, <1>5, <1>6, <1>7, <1>8, <1>9, <1>10, <1>11, <1>12

\* What of a request X the server's loop takes for the request w.
TakenAs(X, m, w) ==
    /\ Whole(X, 2) = Len(m) /\ Len(m) <= Len(X) /\ TypeOf(X) \in DOMAIN Handlers
    /\ <<Handlers[TypeOf(X)][1], Value(X, 2, Handlers[TypeOf(X)][2])>> = w
    /\ Fits(Value(X, 2, Handlers[TypeOf(X)][2]), Handlers[TypeOf(X)][2])

LEMMA RequestIsSeq ==
    ASSUME NEW m, NEW w, Makes(m, w)
    PROVE  IsSeq(m)
<1>1. PICK t \in DOMAIN Handlers : m = IMRequest(t, Encode(Handlers[t][2], w[2]))
  BY DEF Makes
<1>2. PICK v : v = Encode(Handlers[t][2], w[2])
  OBVIOUS
<1>3. IsSeq(v)
  BY <1>2, RequestSchemas, EncodeFact
<1>4. PICK scalars : scalars = <<Unit("uint32", t)>>
  OBVIOUS
<1>5. IsSeq(scalars)
  BY <1>4 DEF IsSeq
<1>6. IsSeq(Outer(scalars, v))
  BY <1>3, <1>5, OuterFact
<1> QED BY <1>1, <1>2, <1>4, <1>6 DEF IMRequest

\* A request is taken for what it was meant to be.
LEMMA RequestIsRead ==
    ASSUME NEW m, NEW w, Makes(m, w), NEW X, IsSeq(X),
           \A u \in 1..Len(m) : u <= Len(X) => X[u] = m[u], Whole(X, 2) > 0
    PROVE  TakenAs(X, m, w)
<1>1. PICK t \in DOMAIN Handlers : /\ w = <<Handlers[t][1], w[2]>> /\ Fits(w[2], Handlers[t][2])
                                   /\ m = IMRequest(t, Encode(Handlers[t][2], w[2]))
  BY DEF Makes
<1>2. PICK schema : schema = Handlers[t][2]
  OBVIOUS
<1>3. PICK fields : fields = w[2]
  OBVIOUS
<1>4. IsSeq(schema) /\ Len(schema) \in 0..3 /\ t \in 1..10
  BY <1>2, RequestSchemas
<1>5. Len(schema) < Word
  <2>1. PICK n \in 0..3 : n = Len(schema)
    BY <1>4
  <2>2. n < Word
    BY TypesFit, WordAssumption
  <2> QED BY <2>1, <2>2
<1>6. PICK scalars : scalars = <<Unit("uint32", t)>>
  OBVIOUS
<1>7. IsSeq(scalars) /\ Len(scalars) = 1
  BY <1>6 DEF IsSeq
<1>8. scalars[1] = <<"varint", t>>
  <2>1. t % Word = t
    BY <1>4, TypesFit, WordAssumption
  <2>2. Unit("uint32", t) = <<"varint", t>>
    BY <2>1 DEF Unit, U32
  <2> QED BY <1>6, <2>2
<1>9. m = Outer(scalars, Encode(schema, fields))
  BY <1>1, <1>2, <1>3, <1>6 DEF IMRequest
<1>10. /\ Whole(X, 2) = Len(m) /\ Len(m) <= Len(X)
       /\ \A i \in 1..1 : X[i] = scalars[i]
       /\ Value(X, 2, schema) = fields
  <2>1. PICK s \in Nat : s = 1
    OBVIOUS
  <2>2. s + 1 = 2 /\ s = Len(scalars)
    BY <1>7, <2>1
  <2>3. Whole(X, s + 1) > 0
    BY <2>2
  <2>4. IsSeq(scalars)
    BY <1>7
  <2>5. IsSeq(schema)
    BY <1>4
  <2>6. Fits(fields, schema)
    BY <1>1, <1>2, <1>3
  <2>7. ReadAs(X, s, m, scalars, schema, fields)
    BY <1>5, <1>9, <2>2, <2>3, <2>4, <2>5, <2>6, FirstMessage
  <2> QED BY <2>1, <2>2, <2>7 DEF ReadAs
<1>11. TypeOf(X) = t
  BY <1>8, <1>10 DEF TypeOf
<1>12. <<Handlers[t][1], fields>> = w
  BY <1>1, <1>3
<1>13. Fits(fields, schema)
  BY <1>1, <1>2, <1>3
<1> QED BY <1>2, <1>10, <1>11, <1>12, <1>13 DEF TakenAs

-----------------------------------------------------------------------------
\* M is the requests that the lines typed make.
Requested(M, lines) == \A i \in 1..Len(lines) : Makes(M[i], lines[i])
RequestsFollow(X, n, lines) ==
    \E M : Requested(M, lines) /\ Follows(X, M, n, Len(lines), TRUE)

\* The invariant: what is in the server's buffer and what is on its way to it are the
\* requests typed and not yet handled, one after the other.
RequestsInv ==
    /\ IsSeq(up) /\ IsSeq(inbuf) /\ IsSeq(meant) /\ IsSeq(handled)
    /\ Len(handled) <= Len(meant) /\ \A i \in 1..Len(handled) : handled[i] = meant[i]
    /\ RequestsFollow(inbuf \o up, Len(handled), meant)

\* A line more.
LEMMA RequestMore ==
    ASSUME NEW c, NEW d, NEW n, NEW lines, NEW w, NEW m, IsSeq(c), IsSeq(d), IsSeq(lines), Makes(m, w),
           RequestsFollow(c \o d, n, lines)
    PROVE  RequestsFollow(c \o (d \o m), n, Append(lines, w)) /\ IsSeq(d \o m)
<1>1. PICK M : Requested(M, lines) /\ Follows(c \o d, M, n, Len(lines), TRUE)
  BY DEF RequestsFollow
<1>2. PICK b \in Nat : b = Len(lines)
  BY DEF IsSeq
<1>3. PICK longer : longer = Append(lines, w)
  OBVIOUS
<1>4. Len(longer) = b + 1 /\ (\A i \in 1..b : longer[i] = lines[i]) /\ longer[b + 1] = w
  BY <1>2, <1>3, AddFact
<1>5. PICK N : N = [i \in 1..(b + 1) |-> IF i <= b THEN M[i] ELSE m]
  OBVIOUS
<1>6. (\A i \in 1..b : N[i] = M[i]) /\ N[b + 1] = m
  BY <1>5
<1>7. Requested(N, longer)
  <2> SUFFICES ASSUME NEW i \in 1..Len(longer) PROVE Makes(N[i], longer[i])
    BY DEF Requested
  <2>1. CASE i = b + 1
    BY <1>4, <1>6, <2>1
  <2>2. CASE i # b + 1
    <3>1. i \in 1..b
      BY <1>4, <2>2
    <3>2. Makes(M[i], lines[i])
      BY <1>1, <1>2, <3>1 DEF Requested
    <3> QED BY <1>4, <1>6, <3>1, <3>2
  <2> QED BY <2>1, <2>2
<1>8. Follows(c \o d, M, n, b, TRUE)
  BY <1>1, <1>2
<1>9. n \in Nat
  BY <1>8 DEF Follows
<1>10. \A i \in (n + 1)..b : N[i] = M[i]
  BY <1>6, <1>9
<1>11. Follows(c \o d, N, n, b, TRUE)
  BY <1>8, <1>10, FollowsSame
<1>12. IsSeq(m)
  BY RequestIsSeq
<1>13. IsSeq(N[b + 1])
  BY <1>6, <1>12
<1>14. Follows((c \o d) \o N[b + 1], N, n, b + 1, TRUE)
  BY <1>11, <1>13, FollowsMore
<1>15. (c \o d) \o m = c \o (d \o m)
  BY <1>12, Associative
<1>16. Follows(c \o (d \o m), N, n, b + 1, TRUE)
  BY <1>6, <1>14, <1>15
<1>17. RequestsFollow(c \o (d \o m), n, longer)
  BY <1>4, <1>7, <1>16 DEF RequestsFollow
<1>18. IsSeq(d \o m)
  BY <1>12, ConcatFact
<1> QED BY <1>3, <1>17, <1>18

\* No request is no request more.
LEMMA NothingMore ==
    ASSUME NEW d, IsSeq(d)
    PROVE  d \o NoRequest = d
<1>1. IsSeq(<<>>) /\ Len(<<>>) = 0
  BY DEF IsSeq
<1>2. IsSeq(d \o <<>>) /\ Len(d \o <<>>) = Len(d) + Len(<<>>) /\ Len(d) \in Nat
      /\ \A i \in 1..Len(d) : (d \o <<>>)[i] = d[i]
  BY <1>1, ConcatFact
<1>3. Len(d \o <<>>) = Len(d)
  BY <1>1, <1>2
<1>4. \A i \in 1..Len(d \o <<>>) : (d \o <<>>)[i] = d[i]
  BY <1>2, <1>3
<1>5. d \o <<>> = d
  BY <1>2, <1>3, <1>4, SameSeq
<1> QED BY <1>5 DEF NoRequest

LEMMA TypeKeeps ==
    ASSUME RequestsInv, NEW l \in Lines, Understood(l), Type(l)
    PROVE  RequestsInv'
<1>1. PICK c : c = inbuf
  OBVIOUS
<1>2. PICK d : d = up
  OBVIOUS
<1>3. PICK lines : lines = meant
  OBVIOUS
<1>4. PICK h : h = handled
  OBVIOUS
<1>5. PICK n : n = Len(h)
  OBVIOUS
<1>6. /\ IsSeq(c) /\ IsSeq(d) /\ IsSeq(lines) /\ IsSeq(h) /\ n <= Len(lines)
      /\ \A i \in 1..n : h[i] = lines[i]
  BY <1>1, <1>2, <1>3, <1>4, <1>5 DEF RequestsInv
<1>7. RequestsFollow(c \o d, n, lines)
  BY <1>1, <1>2, <1>3, <1>4, <1>5 DEF RequestsInv
<1>8. PICK w : w = l.means
  OBVIOUS
<1>9. PICK m : m = ParseCommand(l.text)
  OBVIOUS
<1>10. inbuf' = c /\ handled' = h /\ up' = d \o m
  BY <1>1, <1>2, <1>4, <1>9 DEF Type
<1>11. CASE w = <<>>
  <2>1. m = NoRequest
    BY <1>8, <1>9, <1>11 DEF Understood
  <2>2. up' = d /\ meant' = lines
    BY <1>3, <1>6, <1>8, <1>10, <1>11, <2>1, NothingMore DEF Type
  <2> QED BY <1>5, <1>6, <1>7, <1>10, <2>2 DEF RequestsInv
<1>12. CASE w # <<>>
  <2>1. Makes(m, w)
    BY <1>8, <1>9, <1>12 DEF Understood
  <2>2. RequestsFollow(c \o (d \o m), n, Append(lines, w)) /\ IsSeq(d \o m)
    BY <1>6, <1>7, <2>1, RequestMore
  <2>3. PICK longer : longer = Append(lines, w)
    OBVIOUS
  <2>4. IsSeq(longer) /\ Len(longer) = Len(lines) + 1 /\ Len(lines) \in Nat /\ \A i \in 1..Len(lines) : longer[i] = lines[i]
    BY <1>6, <2>3, AddFact
  <2>5. n \in Nat
    BY <1>5, <1>6 DEF IsSeq
  <2>6. n <= Len(longer) /\ \A i \in 1..n : h[i] = longer[i]
    BY <1>6, <2>4, <2>5
  <2>7. meant' = longer
    BY <1>3, <1>8, <1>12, <2>3 DEF Type
  <2> QED BY <1>5, <1>6, <1>10, <2>2, <2>3, <2>4, <2>6, <2>7 DEF RequestsInv
<1> QED BY <1>11, <1>12

LEMMA ReceiveKeeps ==
    ASSUME RequestsInv, NEW k \in 1..Len(up), Receive(k)
    PROVE  RequestsInv'
<1>1. PICK c : c = inbuf
  OBVIOUS
<1>2. PICK d : d = up
  OBVIOUS
<1>3. IsSeq(c) /\ IsSeq(d) /\ k \in 0..Len(d)
  BY <1>1, <1>2 DEF RequestsInv
<1>4. PICK f : f = c \o SubSeq(d, 1, k)
  OBVIOUS
<1>5. PICK g : g = SubSeq(d, k + 1, Len(d))
  OBVIOUS
<1>6. IsSeq(f) /\ IsSeq(g) /\ f \o g = c \o d
  BY <1>3, <1>4, <1>5, MoveOn
<1>7. inbuf' = f /\ up' = g /\ UNCHANGED <<meant, handled>>
  BY <1>1, <1>2, <1>4, <1>5 DEF Receive
<1> QED BY <1>1, <1>2, <1>6, <1>7 DEF RequestsInv

\* The handlers take one whole request and leave what follows.
LEMMA HandlersTake ==
    ASSUME Handle
    PROVE  /\ Whole(inbuf, 2) > 0 /\ TypeOf(inbuf) \in DOMAIN Handlers /\ Taken
           /\ UNCHANGED <<meant, spent, exited, up, now, online, active>>
<1> USE DEF Asked, Answered, client, lists
<1>1. CASE ServeLogin
  BY <1>1 DEF ServeLogin
<1>2. CASE ServeMessage
  BY <1>2 DEF ServeMessage
<1>3. CASE ServeWhoElse
  BY <1>3 DEF ServeWhoElse
<1>4. CASE ServeBlock
  BY <1>4 DEF ServeBlock
<1>5. CASE ServeUnblock
  BY <1>5 DEF ServeUnblock
<1>6. CASE ServeLogout
  BY <1>6 DEF ServeLogout
<1>7. CASE ServeGetIP
  BY <1>7 DEF ServeGetIP
<1>8. CASE ServeFiles
  BY <1>8 DEF ServeFiles
<1> QED BY <1>1, <1>2, <1>3, <1>4, <1>5, <1>6, <1>7, <1>8 DEF Handle

\* A whole request in the buffer is the next one that was typed.
LEMMA NextRequest ==
    ASSUME NEW c, NEW d, NEW n, NEW lines, IsSeq(c), IsSeq(d), IsSeq(lines),
           RequestsFollow(c \o d, n, lines), Whole(c, 2) > 0
    PROVE  /\ n \in Nat /\ n + 1 \in 1..Len(lines)
           /\ \E m : /\ TakenAs(c, m, lines[n + 1])
                     /\ IsSeq(SubSeq(c, Len(m) + 1, Len(c)))
                     /\ RequestsFollow(SubSeq(c, Len(m) + 1, Len(c)) \o d, n + 1, lines)
<1>1. PICK M : Requested(M, lines) /\ Follows(c \o d, M, n, Len(lines), TRUE)
  BY DEF RequestsFollow
<1>2. PICK X : X = c \o d
  OBVIOUS
<1>3. PICK whole : whole = TRUE
  OBVIOUS
<1>4. Follows(X, M, n, Len(lines), whole)
  BY <1>3, <1>1, <1>2
<1>5. /\ Len(X) = Len(c) + Len(d) /\ Len(c) \in Nat /\ Len(d) \in Nat
      /\ \A i \in 1..Len(c) : X[i] = c[i]
  BY <1>2, ConcatFact
<1>6. Len(c) >= 2
  BY <1>5 DEF Whole
<1>7. Len(X) > 0
  BY <1>5, <1>6
<1>8. n + 1 \in (n + 1)..Len(lines) /\ \A u \in 1..Len(M[n + 1]) : u <= Len(X) => X[u] = M[n + 1][u]
  BY <1>4, <1>7, FollowsFirst
<1>9. n \in Nat /\ Len(lines) \in Nat
  BY <1>4 DEF Follows
<1>10. n + 1 \in 1..Len(lines) /\ n < Len(lines)
  BY <1>8, <1>9
<1>11. PICK m : m = M[n + 1]
  OBVIOUS
<1>12. PICK w : w = lines[n + 1]
  OBVIOUS
<1>13. Makes(m, w)
  BY <1>1, <1>10, <1>11, <1>12 DEF Requested
<1>14. IsSeq(m)
  BY <1>13, RequestIsSeq
<1>15. \A u \in 1..Len(m) : u <= Len(c) => c[u] = m[u]
  <2> SUFFICES ASSUME NEW u \in 1..Len(m), u <= Len(c) PROVE c[u] = m[u]
    OBVIOUS
  <2>1. u \in 1..Len(c) /\ u <= Len(X)
    BY <1>5, <1>14 DEF IsSeq
  <2>2. X[u] = m[u]
    BY <1>8, <1>11, <2>1
  <2> QED BY <1>5, <2>1, <2>2
<1>16. TakenAs(c, m, w)
  BY <1>13, <1>15, RequestIsRead
<1>17. PICK k : k = Len(m)
  OBVIOUS
<1>18. k \in 0..Len(c) /\ k <= Len(X)
  BY <1>5, <1>14, <1>16, <1>17 DEF IsSeq, TakenAs
<1>19. IsSeq(SubSeq(c, k + 1, Len(c)))
  BY <1>18, CutFact
<1>20. SubSeq(c, k + 1, Len(c)) \o d = SubSeq(X, k + 1, Len(X))
  BY <1>2, <1>18, TakeFront
<1>21. k = Len(M[n + 1])
  BY <1>11, <1>17
<1>22. Follows(SubSeq(X, k + 1, Len(X)), M, n + 1, Len(lines), whole)
  <2>1. k <= Len(X)
    BY <1>18
  <2>2. n < Len(lines)
    BY <1>10
  <2> QED BY <1>4, <1>21, <2>1, <2>2, FollowsRest
<1>23. Follows(SubSeq(c, k + 1, Len(c)) \o d, M, n + 1, Len(lines), TRUE)
  BY <1>3, <1>20, <1>22
<1>24. RequestsFollow(SubSeq(c, k + 1, Len(c)) \o d, n + 1, lines)
  BY <1>1, <1>23 DEF RequestsFollow
<1> QED BY <1>9, <1>10, <1>12, <1>16, <1>17, <1>19, <1>24

LEMMA WhatIsTaken ==
    ASSUME RequestsInv, Whole(inbuf, 2) > 0
    PROVE  /\ Len(handled) \in Nat /\ Len(handled) + 1 \in 1..Len(meant)
           /\ \E m : /\ TakenAs(inbuf, m, meant[Len(handled) + 1])
                     /\ IsSeq(SubSeq(inbuf, Len(m) + 1, Len(inbuf)))
                     /\ RequestsFollow(SubSeq(inbuf, Len(m) + 1, Len(inbuf)) \o up, Len(handled) + 1, meant)
<1>1. IsSeq(inbuf) /\ IsSeq(up) /\ IsSeq(meant)
  BY DEF RequestsInv
<1>2. RequestsFollow(inbuf \o up, Len(handled), meant)
  BY DEF RequestsInv
<1>3. PICK n : n = Len(handled)
  OBVIOUS
<1>4. PICK c : c = inbuf
  OBVIOUS
<1>5. PICK d : d = up
  OBVIOUS
<1>6. PICK lines : lines = meant
  OBVIOUS
<1>7. IsSeq(c) /\ IsSeq(d) /\ IsSeq(lines)
  BY <1>1, <1>4, <1>5, <1>6
<1>8. RequestsFollow(c \o d, n, lines) /\ Whole(c, 2) > 0
  BY <1>2, <1>3, <1>4, <1>5, <1>6
<1>9. /\ n \in Nat /\ n + 1 \in 1..Len(lines)
      /\ \E m : /\ TakenAs(c, m, lines[n + 1])
                /\ IsSeq(SubSeq(c, Len(m) + 1, Len(c)))
                /\ RequestsFollow(SubSeq(c, Len(m) + 1, Len(c)) \o d, n + 1, lines)
  BY <1>7, <1>8, NextRequest
<1> QED BY <1>3, <1>4, <1>5, <1>6, <1>9

LEMMA TakenKeeps ==
    ASSUME RequestsInv, Whole(inbuf, 2) > 0, Taken, UNCHANGED <<meant, up>>
    PROVE  RequestsInv'
<1>1. PICK n \in Nat : n = Len(handled)
  BY WhatIsTaken
<1>2. PICK c : c = inbuf
  OBVIOUS
<1>3. PICK d : d = up
  OBVIOUS
<1>4. PICK lines : lines = meant
  OBVIOUS
<1>5. PICK h : h = handled
  OBVIOUS
<1>6. n + 1 \in 1..Len(lines)
  BY <1>1, <1>4, WhatIsTaken
<1>7. PICK m : /\ TakenAs(c, m, lines[n + 1])
               /\ IsSeq(SubSeq(c, Len(m) + 1, Len(c)))
               /\ RequestsFollow(SubSeq(c, Len(m) + 1, Len(c)) \o d, n + 1, lines)
  BY <1>1, <1>2, <1>3, <1>4, WhatIsTaken
<1>8. PICK f : f = SubSeq(c, Len(m) + 1, Len(c))
  OBVIOUS
<1>9. PICK w : w = lines[n + 1]
  OBVIOUS
<1>10. inbuf' = f
  BY <1>2, <1>7, <1>8 DEF Taken, TakenAs
<1>11. handled' = Append(h, w)
  <2>1. handled' = Append(handled, <<Handlers[TypeOf(inbuf)][1], Fields>>)
    BY DEF Taken
  <2>2. <<Handlers[TypeOf(inbuf)][1], Fields>> = w
    BY <1>2, <1>7, <1>9 DEF TakenAs, Fields
  <2> QED BY <1>5, <2>1, <2>2
<1>12. IsSeq(h) /\ IsSeq(lines) /\ IsSeq(d) /\ n = Len(h) /\ \A i \in 1..n : h[i] = lines[i]
  BY <1>1, <1>3, <1>4, <1>5 DEF RequestsInv
<1>13. PICK t : t = Append(h, w)
  OBVIOUS
<1>14. IsSeq(t) /\ Len(t) = n + 1 /\ (\A i \in 1..n : t[i] = h[i]) /\ t[n + 1] = w
  BY <1>12, <1>13, AddFact
<1>15. Len(t) <= Len(lines) /\ \A i \in 1..Len(t) : t[i] = lines[i]
  <2> SUFFICES ASSUME NEW i \in 1..Len(t) PROVE t[i] = lines[i]
    BY <1>6, <1>12, <1>14 DEF IsSeq
  <2>1. i \in 1..n \/ i = n + 1
    BY <1>14
  <2> QED BY <1>9, <1>12, <1>14, <2>1
<1>16. meant' = lines /\ up' = d /\ handled' = t
  BY <1>3, <1>4, <1>11, <1>13
<1> QED BY <1>7, <1>8, <1>10, <1>12, <1>14, <1>15, <1>16 DEF RequestsInv

\* The steps that have to do with no request.
RequestsUnmoved == UNCHANGED <<meant, up, inbuf, handled>>

LEMMA RequestSteps ==
    ASSUME RequestsInv, AllUnderstood, [Next]_vars
    PROVE  RequestsInv'
<1>1. ASSUME RequestsUnmoved PROVE RequestsInv'
  BY <1>1 DEF RequestsUnmoved, RequestsInv
<1>2. ASSUME NEW l \in Lines, Type(l) PROVE RequestsInv'
  <2>1. Understood(l)
    BY DEF AllUnderstood
  <2> QED BY <1>2, <2>1, TypeKeeps
<1>3. ASSUME NEW n \in 1..Len(up), Receive(n) PROVE RequestsInv'
  BY <1>3, ReceiveKeeps
<1>4. CASE Handle
  BY <1>4, HandlersTake, TakenKeeps
<1>5. ASSUME NEW n \in 1..Len(down), Hear(n) PROVE RequestsInv'
  BY <1>1, <1>5 DEF Hear, client, RequestsUnmoved
<1>6. CASE Show
  BY <1>1, <1>6 DEF Show, RequestsUnmoved
<1>7. CASE ServerGone
  BY <1>1, <1>7 DEF ServerGone, RequestsUnmoved
<1>8. CASE Tick
  BY <1>1, <1>8 DEF Tick, client, RequestsUnmoved
<1>9. ASSUME NEW u \in Visitors, Come(u) \/ Leave(u) PROVE RequestsInv'
  BY <1>1, <1>9 DEF Come, Leave, client, RequestsUnmoved
<1>10. CASE UNCHANGED vars
  BY <1>1, <1>10 DEF vars, client, RequestsUnmoved
<1> QED BY <1>2, <1>3, <1>4, <1>5, <1>6, <1>7, <1>8, <1>9, <1>10 DEF Next

LEMMA RequestsInit ==
    ASSUME Init PROVE RequestsInv
<1>1. up = <<>> /\ inbuf = <<>> /\ meant = <<>> /\ handled = <<>>
  BY DEF Init
<1>2. IsSeq(<<>>) /\ Len(<<>>) = 0 /\ <<>> \o <<>> = <<>>
  BY DEF IsSeq
<1>3. Follows(<<>>, <<>>, 0, 0, TRUE)
  BY FollowsEmpty
<1>4. Requested(<<>>, <<>>)
  BY DEF Requested
<1>5. RequestsFollow(<<>>, 0, <<>>)
  BY <1>2, <1>3, <1>4 DEF RequestsFollow
<1>6. IsSeq(up) /\ IsSeq(inbuf) /\ IsSeq(meant) /\ IsSeq(handled)
  BY <1>1, <1>2
<1>7. Len(handled) <= Len(meant) /\ \A i \in 1..Len(handled) : handled[i] = meant[i]
  BY <1>1
<1>8. RequestsFollow(inbuf \o up, Len(handled), meant)
  BY <1>1, <1>2, <1>5
<1> QED BY <1>6, <1>7, <1>8 DEF RequestsInv

-----------------------------------------------------------------------------
(* The block list.                                                         *)

NoneTwice(list) == \A i \in 1..Len(list), j \in 1..Len(list) : list[i] = list[j] => i = j

LEMMA ToSetFact ==
    ASSUME NEW s, IsSeq(s)
    PROVE  /\ DOMAIN s = 1..Len(s) /\ Len(s) \in Nat
           /\ \A x : x \in ToSet(s) <=> \E i \in 1..Len(s) : s[i] = x
<1>1. DOMAIN s = 1..Len(s) /\ Len(s) \in Nat
  BY DEF IsSeq
<1> QED BY <1>1 DEF ToSet

\* A list in which nobody is twice is as long as the set of its elements is large.
LEMMA CountOnce ==
    ASSUME NEW list, IsSeq(list), NoneTwice(list)
    PROVE  Len(list) = Cardinality(ToSet(list))
<1>1. PICK n \in Nat : n = Len(list)
  BY DEF IsSeq
<1>2. PICK T : T = ToSet(list)
  OBVIOUS
<1>3. list = [i \in 1..n |-> list[i]]
  BY <1>1 DEF IsSeq
<1>4. (\A i \in 1..n : list[i] \in T) /\ \A x \in T : \E i \in 1..n : list[i] = x
  BY <1>1, <1>2, ToSetFact
<1>5. list \in [1..n -> T]
  BY <1>3, <1>4
<1>6. \A i, j \in 1..n : list[i] = list[j] => i = j
  BY <1>1 DEF NoneTwice
<1>7. list \in Injection(1..n, T)
  BY <1>5, <1>6 DEF Injection, IsInjective
<1>8. list \in Surjection(1..n, T)
  BY <1>4, <1>5 DEF Surjection
<1>9. ExistsBijection(1..n, T)
  BY <1>7, <1>8 DEF ExistsBijection, Bijection
<1>10. Cardinality(T) = n
  BY <1>9, FS_CountingElements
<1> QED BY <1>1, <1>2, <1>10

\* A new entry is the first one.
LEMMA BlockFact ==
    ASSUME NEW list, IsSeq(list), NoneTwice(list), NEW v, ~HasBlocked(list, v)
    PROVE  /\ IsSeq(BlockUser(list, v)) /\ NoneTwice(BlockUser(list, v))
           /\ \A x : x \in ToSet(BlockUser(list, v)) <=> x = v \/ x \in ToSet(list)
<1>1. PICK one : one = <<v>>
  OBVIOUS
<1>2. IsSeq(one) /\ Len(one) = 1 /\ one[1] = v
  BY <1>1 DEF IsSeq
<1>3. PICK t : t = one \o list
  OBVIOUS
<1>4. BlockUser(list, v) = t
  BY <1>1, <1>3 DEF BlockUser
<1>5. PICK n \in Nat : n = Len(list)
  BY DEF IsSeq
<1>6. /\ IsSeq(t) /\ Len(t) = 1 + n
      /\ \A i \in 1..1 : t[i] = one[i]
      /\ \A i \in 1..n : t[1 + i] = list[i]
  <2>1. /\ IsSeq(t) /\ Len(t) = Len(one) + Len(list)
        /\ \A i \in 1..Len(one) : t[i] = one[i]
        /\ \A i \in 1..Len(list) : t[Len(one) + i] = list[i]
    <3>1. IsSeq(one)
      BY <1>2
    <3> QED BY <1>3, <3>1, ConcatFact
  <2> QED BY <1>2, <1>5, <2>1
<1>7. t[1] = v /\ \A i \in 2..(n + 1) : i - 1 \in 1..n /\ t[i] = list[i - 1]
  <2>1. t[1] = v
    BY <1>2, <1>6
  <2>2. ASSUME NEW i \in 2..(n + 1) PROVE i - 1 \in 1..n /\ t[i] = list[i - 1]
    <3>1. i - 1 \in 1..n /\ 1 + (i - 1) = i
      OBVIOUS
    <3>2. t[1 + (i - 1)] = list[i - 1]
      BY <1>6, <3>1
    <3> QED BY <3>1, <3>2
  <2> QED BY <2>1, <2>2
<1>8. \A i \in 1..n : list[i] # v
  <2>1. DOMAIN list = 1..n
    BY <1>5, ToSetFact
  <2> QED BY <2>1 DEF HasBlocked
<1>9. NoneTwice(t)
  <2> SUFFICES ASSUME NEW i \in 1..(n + 1), NEW j \in 1..(n + 1), t[i] = t[j] PROVE i = j
    BY <1>6 DEF NoneTwice
  <2>1. CASE i = 1 /\ j = 1
    BY <2>1
  <2>2. CASE i = 1 /\ j # 1
    <3>1. j \in 2..(n + 1)
      BY <2>2
    <3> QED BY <1>7, <1>8, <2>2, <3>1
  <2>3. CASE i # 1 /\ j = 1
    <3>1. i \in 2..(n + 1)
      BY <2>3
    <3> QED BY <1>7, <1>8, <2>3, <3>1
  <2>4. CASE i # 1 /\ j # 1
    <3>1. i \in 2..(n + 1) /\ j \in 2..(n + 1)
      BY <2>4
    <3>2. i - 1 \in 1..n /\ j - 1 \in 1..n /\ list[i - 1] = list[j - 1]
      BY <1>7, <3>1
    <3>3. i - 1 = j - 1
      BY <1>5, <3>2 DEF NoneTwice
    <3> QED BY <3>1, <3>3
  <2> QED BY <2>1, <2>2, <2>3, <2>4
<1>10. ASSUME NEW x PROVE x \in ToSet(t) <=> x = v \/ x \in ToSet(list)
  <2>1. x \in ToSet(t) <=> \E i \in 1..(n + 1) : t[i] = x
    BY <1>6, ToSetFact
  <2>2. x \in ToSet(list) <=> \E i \in 1..n : list[i] = x
    BY <1>5, ToSetFact
  <2>3. ASSUME x \in ToSet(t) PROVE x = v \/ x \in ToSet(list)
    <3>1. PICK i \in 1..(n + 1) : t[i] = x
      BY <2>1, <2>3
    <3>2. i = 1 \/ i \in 2..(n + 1)
      OBVIOUS
    <3> QED BY <1>7, <2>2, <3>1, <3>2
  <2>4. ASSUME x = v PROVE x \in ToSet(t)
    BY <1>7, <2>1, <2>4
  <2>5. ASSUME x \in ToSet(list) PROVE x \in ToSet(t)
    <3>1. PICK i \in 1..n : list[i] = x
      BY <2>2, <2>5
    <3>2. 1 + i \in 1..(n + 1) /\ t[1 + i] = x
      BY <1>6, <3>1
    <3> QED BY <2>1, <3>2
  <2> QED BY <2>3, <2>4, <2>5
<1> QED BY <1>4, <1>6, <1>9, <1>10

\* What unblockUser's walk has at every entry, for whoever can say what it is.
Walks(W, list, u, n) ==
    W = [i \in 0..n |-> IF i = 0 THEN [kept |-> <<>>, skip |-> FALSE]
                        ELSE IF ~W[i - 1].skip /\ list[i] = u
                             THEN [kept |-> W[i - 1].kept, skip |-> TRUE]
                        ELSE [kept |-> Append(W[i - 1].kept, list[i]), skip |-> FALSE]]

LEMMA WalkIs ==
    ASSUME NEW list, NEW u, NEW n \in Nat, Len(list) = n, NEW W, Walks(W, list, u, n)
    PROVE  UnblockUser(list, u) = W[n].kept
<1> DEFINE walk == CHOOSE h : h = [i \in 0..n |-> IF i = 0 THEN [kept |-> <<>>, skip |-> FALSE]
                        ELSE IF ~h[i - 1].skip /\ list[i] = u
                             THEN [kept |-> h[i - 1].kept, skip |-> TRUE]
                        ELSE [kept |-> Append(h[i - 1].kept, list[i]), skip |-> FALSE]]
<1>1. Walks(walk, list, u, n)
  BY DEF Walks
<1>2. UnblockUser(list, u) = walk[n].kept
  BY DEF UnblockUser
<1> HIDE DEF walk
<1>3. PICK h : h = walk
  OBVIOUS
<1>4. /\ h[0] = [kept |-> <<>>, skip |-> FALSE] /\ W[0] = [kept |-> <<>>, skip |-> FALSE]
      /\ \A i \in 1..n : h[i] = IF ~h[i - 1].skip /\ list[i] = u
                                THEN [kept |-> h[i - 1].kept, skip |-> TRUE]
                                ELSE [kept |-> Append(h[i - 1].kept, list[i]), skip |-> FALSE]
      /\ \A i \in 1..n : W[i] = IF ~W[i - 1].skip /\ list[i] = u
                                THEN [kept |-> W[i - 1].kept, skip |-> TRUE]
                                ELSE [kept |-> Append(W[i - 1].kept, list[i]), skip |-> FALSE]
  <2>1. Walks(h, list, u, n)
    BY <1>1, <1>3
  <2>2. \A G : Walks(G, list, u, n) =>
           /\ G[0] = [kept |-> <<>>, skip |-> FALSE]
           /\ \A i \in 1..n : G[i] = IF ~G[i - 1].skip /\ list[i] = u
                                     THEN [kept |-> G[i - 1].kept, skip |-> TRUE]
                                     ELSE [kept |-> Append(G[i - 1].kept, list[i]), skip |-> FALSE]
    <3> SUFFICES ASSUME NEW G, Walks(G, list, u, n)
                 PROVE  /\ G[0] = [kept |-> <<>>, skip |-> FALSE]
                        /\ \A i \in 1..n : G[i] = IF ~G[i - 1].skip /\ list[i] = u
                                     THEN [kept |-> G[i - 1].kept, skip |-> TRUE]
                                     ELSE [kept |-> Append(G[i - 1].kept, list[i]), skip |-> FALSE]
      OBVIOUS
    <3>1. \A i \in 0..n : G[i] = IF i = 0 THEN [kept |-> <<>>, skip |-> FALSE]
                                 ELSE IF ~G[i - 1].skip /\ list[i] = u
                                      THEN [kept |-> G[i - 1].kept, skip |-> TRUE]
                                 ELSE [kept |-> Append(G[i - 1].kept, list[i]), skip |-> FALSE]
      BY Zenon DEF Walks
    <3>2. 0 \in 0..n /\ \A i \in 1..n : i \in 0..n /\ i # 0
      OBVIOUS
    <3> QED BY <3>1, <3>2, Zenon
  <2> QED BY <2>1, <2>2, Zenon
<1>5. h[n] = W[n]
  <2> SUFFICES ASSUME h[n] # W[n] PROVE FALSE
    OBVIOUS
  <2> DEFINE D == {j \in Nat : j \in 0..n /\ h[j] # W[j]}
  <2>1. PICK j \in D : \A x \in D : j <= x
    <3>1. D \subseteq Nat /\ n \in D
      OBVIOUS
    <3> HIDE DEF D
    <3> QED BY <3>1, LeastOne
  <2>2. j # 0
    BY <1>4, <2>1
  <2>3. j - 1 \in 0..n /\ j - 1 \notin D
    BY <2>1, <2>2
  <2>4. h[j - 1] = W[j - 1]
    BY <2>3
  <2>5. j \in 1..n /\ h[j] # W[j]
    BY <2>1, <2>2
  <2> QED BY <1>4, <2>4, <2>5
<1> QED BY <1>2, <1>3, <1>5

\* The entry is taken out, the others stay: the one that is passed over is not one to
\* be taken out.
LEMMA UnblockFact ==
    ASSUME NEW list, IsSeq(list), NoneTwice(list), NEW v, HasBlocked(list, v)
    PROVE  /\ IsSeq(UnblockUser(list, v)) /\ NoneTwice(UnblockUser(list, v))
           /\ \A x : x \in ToSet(UnblockUser(list, v)) <=> x # v /\ x \in ToSet(list)
<1>1. PICK n \in Nat : n = Len(list)
  BY DEF IsSeq
<1>2. DOMAIN list = 1..n
  BY <1>1, ToSetFact
<1>3. PICK p \in 1..n : list[p] = v
  BY <1>2 DEF HasBlocked
<1>4. \A i \in 1..n : list[i] = v => i = p
  BY <1>1, <1>3 DEF NoneTwice
<1> DEFINE Left(i) == IF i < p THEN i ELSE i - 1
           Kept(i) == [j \in 1..Left(i) |-> IF j < p THEN list[j] ELSE list[j + 1]]
<1>5. ASSUME NEW i \in 0..n
      PROVE  /\ IsSeq(Kept(i)) /\ Len(Kept(i)) = Left(i) /\ Left(i) \in Nat
             /\ \A j \in 1..Left(i) : Kept(i)[j] = IF j < p THEN list[j] ELSE list[j + 1]
  <2>1. PICK m \in Nat : m = Left(i)
    OBVIOUS
  <2>2. PICK k : k = Kept(i)
    OBVIOUS
  <2>3. k = [j \in 1..m |-> IF j < p THEN list[j] ELSE list[j + 1]]
    BY <2>1, <2>2
  <2>4. Len(k) = m /\ \A j \in 1..m : k[j] = IF j < p THEN list[j] ELSE list[j + 1]
    BY <2>3
  <2>5. k = [j \in 1..Len(k) |-> k[j]]
    BY <2>3, <2>4
  <2>6. IsSeq(k)
    BY <2>4, <2>5 DEF IsSeq
  <2> HIDE DEF Left, Kept
  <2> QED BY <2>1, <2>2, <2>4, <2>6
<1>6. ASSUME NEW i \in 1..n, i # p PROVE Append(Kept(i - 1), list[i]) = Kept(i)
  <2>1. i - 1 \in 0..n /\ i \in 0..n
    OBVIOUS
  <2>2. PICK k : k = Kept(i - 1)
    OBVIOUS
  <2>3. PICK m \in Nat : m = Left(i - 1)
    BY <2>1, <1>5
  <2>4. IsSeq(k) /\ Len(k) = m /\ \A j \in 1..m : k[j] = IF j < p THEN list[j] ELSE list[j + 1]
    BY <1>5, <2>1, <2>2, <2>3
  <2>5. Left(i) = m + 1 /\ (IF m + 1 < p THEN list[m + 1] ELSE list[(m + 1) + 1]) = list[i]
    <3>1. CASE i < p
      BY <3>1, <2>3
    <3>2. CASE i > p
      BY <3>2, <2>3
    <3> QED BY <1>6, <3>1, <3>2
  <2>6. PICK a : a = Append(k, list[i])
    OBVIOUS
  <2>7. IsSeq(a) /\ Len(a) = m + 1 /\ (\A j \in 1..m : a[j] = k[j]) /\ a[m + 1] = list[i]
    BY <2>4, <2>6, AddFact
  <2>8. PICK b : b = Kept(i)
    OBVIOUS
  <2>9. IsSeq(b) /\ Len(b) = m + 1 /\ \A j \in 1..(m + 1) : b[j] = IF j < p THEN list[j] ELSE list[j + 1]
    BY <1>5, <2>1, <2>5, <2>8
  <2>10. Len(a) = Len(b)
    BY <2>7, <2>9
  <2>11. ASSUME NEW j \in 1..Len(a) PROVE a[j] = b[j]
    <3>1. j \in 1..m \/ j = m + 1
      BY <2>7
    <3>2. j \in 1..(m + 1)
      BY <2>7
    <3> QED BY <2>4, <2>5, <2>7, <2>9, <3>1, <3>2
  <2>12. a = b
    BY <2>7, <2>9, <2>10, <2>11, SameSeq
  <2> HIDE DEF Kept
  <2> QED BY <2>2, <2>6, <2>8, <2>12
<1>7. Kept(0) = <<>> /\ Kept(p - 1) = Kept(p)
  <2>1. Left(0) = 0 /\ Left(p - 1) = Left(p)
    BY <1>3
  <2>2. Kept(0) = [j \in 1..0 |-> IF j < p THEN list[j] ELSE list[j + 1]]
    BY <2>1
  <2>3. Kept(0) = <<>>
    BY <2>2
  <2> QED BY <2>1, <2>3
<1> HIDE DEF Kept
<1> DEFINE W == [i \in 0..n |-> [kept |-> Kept(i), skip |-> i = p]]
<1>8. Walks(W, list, v, n)
  <2>1. \A i \in 0..n : W[i] = [kept |-> Kept(i), skip |-> i = p]
    OBVIOUS
  <2>2. W[0] = [kept |-> <<>>, skip |-> FALSE]
    <3>1. 0 \in 0..n /\ (0 = p) = FALSE
      BY <1>3
    <3>2. W[0] = [kept |-> Kept(0), skip |-> 0 = p]
      BY <2>1, <3>1, Zenon
    <3> HIDE DEF W
    <3> QED BY <1>7, <3>1, <3>2, Zenon
  <2>3. ASSUME NEW i \in 1..n
        PROVE  W[i] = IF ~W[i - 1].skip /\ list[i] = v
                      THEN [kept |-> W[i - 1].kept, skip |-> TRUE]
                      ELSE [kept |-> Append(W[i - 1].kept, list[i]), skip |-> FALSE]
    <3>1. W[i] = [kept |-> Kept(i), skip |-> i = p] /\ W[i - 1] = [kept |-> Kept(i - 1), skip |-> i - 1 = p]
      <4>1. i - 1 \in 0..n /\ i \in 0..n
        OBVIOUS
      <4> HIDE DEF W
      <4> QED BY <2>1, <4>1
    <3> HIDE DEF W
    <3>2. CASE i = p
      <4>1. (i = p) = TRUE /\ (i - 1 = p) = FALSE /\ list[i] = v
        BY <1>3, <3>2
      <4>2. Kept(i - 1) = Kept(i)
        BY <1>7, <3>2
      <4>3. W[i] = [kept |-> Kept(i), skip |-> TRUE] /\ W[i - 1] = [kept |-> Kept(i), skip |-> FALSE]
        BY <3>1, <4>1, <4>2, Zenon
      <4>4. W[i - 1].skip = FALSE /\ W[i - 1].kept = Kept(i)
        BY <4>3
      <4> QED BY <4>1, <4>3, <4>4, Zenon
    <3>3. CASE i # p
      <4>1. list[i] # v /\ Append(Kept(i - 1), list[i]) = Kept(i)
        BY <1>4, <1>6, <3>3
      <4>2. (i = p) = FALSE
        BY <3>3
      <4>3. W[i] = [kept |-> Kept(i), skip |-> FALSE]
        BY <3>1, <4>2, Zenon
      <4>4. W[i - 1].kept = Kept(i - 1)
        BY <3>1
      <4> QED BY <4>1, <4>3, <4>4, Zenon
    <3> QED BY <3>2, <3>3
  <2>4. DEFINE V == [i \in 0..n |-> IF i = 0 THEN [kept |-> <<>>, skip |-> FALSE]
                                    ELSE IF ~W[i - 1].skip /\ list[i] = v
                                         THEN [kept |-> W[i - 1].kept, skip |-> TRUE]
                                    ELSE [kept |-> Append(W[i - 1].kept, list[i]), skip |-> FALSE]]
  <2>5. ASSUME NEW i \in 0..n PROVE W[i] = V[i]
    <3> HIDE DEF W
    <3>1. CASE i = 0
      BY <2>2, <3>1
    <3>2. CASE i # 0
      <4>1. i \in 1..n
        BY <3>2
      <4> QED BY <2>3, <3>2, <4>1
    <3> QED BY <3>1, <3>2
  <2>6. W = [i \in 0..n |-> W[i]] /\ V = [i \in 0..n |-> V[i]]
    OBVIOUS
  <2>7. W = V
    <3> HIDE DEF W, V
    <3> QED BY <2>5, <2>6
  <2> HIDE DEF W
  <2> QED BY <2>7 DEF Walks
<1>9. UnblockUser(list, v) = Kept(n)
  <2>1. UnblockUser(list, v) = W[n].kept
    <3> HIDE DEF W
    <3> QED BY <1>1, <1>8, WalkIs
  <2> QED BY <2>1
<1>10. PICK t : t = Kept(n)
  OBVIOUS
<1>11. IsSeq(t) /\ Len(t) = n - 1 /\ \A j \in 1..(n - 1) : t[j] = IF j < p THEN list[j] ELSE list[j + 1]
  <2>1. n \in 0..n /\ Left(n) = n - 1
    BY <1>3
  <2> HIDE DEF Left
  <2> QED BY <1>5, <1>10, <2>1
<1>12. NoneTwice(t)
  <2> SUFFICES ASSUME NEW i \in 1..(n - 1), NEW j \in 1..(n - 1), t[i] = t[j] PROVE i = j
    BY <1>11 DEF NoneTwice
  <2>1. PICK a \in 1..n : a = IF i < p THEN i ELSE i + 1
    OBVIOUS
  <2>2. PICK b \in 1..n : b = IF j < p THEN j ELSE j + 1
    OBVIOUS
  <2>3. t[i] = list[a] /\ t[j] = list[b]
    BY <1>11, <2>1, <2>2
  <2>4. a = b
    BY <1>1, <2>3 DEF NoneTwice
  <2> QED BY <2>1, <2>2, <2>4
<1>13. ASSUME NEW x PROVE x \in ToSet(t) <=> x # v /\ x \in ToSet(list)
  <2>1. x \in ToSet(t) <=> \E i \in 1..(n - 1) : t[i] = x
    BY <1>11, ToSetFact
  <2>2. x \in ToSet(list) <=> \E i \in 1..n : list[i] = x
    BY <1>1, ToSetFact
  <2>3. ASSUME x \in ToSet(t) PROVE x # v /\ x \in ToSet(list)
    <3>1. PICK i \in 1..(n - 1) : t[i] = x
      BY <2>1, <2>3
    <3>2. PICK a \in 1..n : a = IF i < p THEN i ELSE i + 1
      OBVIOUS
    <3>3. list[a] = x /\ a # p
      BY <1>11, <3>1, <3>2
    <3> QED BY <1>4, <2>2, <3>3
  <2>4. ASSUME x # v, x \in ToSet(list) PROVE x \in ToSet(t)
    <3>1. PICK a \in 1..n : list[a] = x
      BY <2>2, <2>4
    <3>2. a # p
      BY <1>3, <2>4, <3>1
    <3>3. PICK i \in 1..(n - 1) : i = IF a < p THEN a ELSE a - 1
      BY <3>2
    <3>4. t[i] = x
      BY <1>11, <3>1, <3>2, <3>3
    <3> QED BY <2>1, <3>4
  <2> QED BY <2>3, <2>4
<1> QED BY <1>9, <1>10, <1>11, <1>12, <1>13

\* By the requests h, u is blocked: there is a block that no unblock follows.
Asks(r, name, u) == r[1] = name /\ r[2] = <<<<u>>>>
Barred(h, u) == \E i \in DOMAIN h : /\ Asks(h[i], "block", u)
                                    /\ \A j \in (i + 1)..Len(h) : ~Asks(h[j], "unblock", u)

BlockInv ==
    /\ IsSeq(blocked) /\ NoneTwice(blocked) /\ ToSet(blocked) \subseteq Others
    /\ IsSeq(handled) /\ session \in BOOLEAN /\ closed \in BOOLEAN
    /\ ~closed => session /\ \A u \in Others : u \in ToSet(blocked) <=> Barred(handled, u)

\* The last request decides, when it is about u.
LEMMA BarredFact ==
    ASSUME NEW h, IsSeq(h), NEW r, NEW u
    PROVE  Barred(Append(h, r), u) <=> Asks(r, "block", u) \/ (Barred(h, u) /\ ~Asks(r, "unblock", u))
<1>1. PICK t : t = Append(h, r)
  OBVIOUS
<1>2. PICK n \in Nat : n = Len(h)
  BY DEF IsSeq
<1>3. IsSeq(t) /\ Len(t) = n + 1 /\ (\A i \in 1..n : t[i] = h[i]) /\ t[n + 1] = r
  BY <1>1, <1>2, AddFact
<1>4. DOMAIN h = 1..n /\ DOMAIN t = 1..(n + 1)
  BY <1>2, <1>3, ToSetFact
<1>5. ASSUME Barred(t, u) PROVE Asks(r, "block", u) \/ (Barred(h, u) /\ ~Asks(r, "unblock", u))
  <2>1. PICK i \in 1..(n + 1) : Asks(t[i], "block", u) /\ \A j \in (i + 1)..(n + 1) : ~Asks(t[j], "unblock", u)
    BY <1>3, <1>4, <1>5 DEF Barred
  <2>2. CASE i = n + 1
    BY <1>3, <2>1, <2>2
  <2>3. CASE i # n + 1
    <3>1. i \in 1..n /\ n + 1 \in (i + 1)..(n + 1)
      BY <2>3
    <3>2. Asks(h[i], "block", u) /\ ~Asks(r, "unblock", u)
      BY <1>3, <2>1, <3>1
    <3>3. ASSUME NEW j \in (i + 1)..n PROVE ~Asks(h[j], "unblock", u)
      <4>1. j \in 1..n /\ j \in (i + 1)..(n + 1)
        BY <3>1
      <4> QED BY <1>3, <2>1, <4>1
    <3> QED BY <1>2, <1>4, <3>1, <3>2, <3>3 DEF Barred
  <2> QED BY <2>2, <2>3
<1>6. ASSUME Asks(r, "block", u) PROVE Barred(t, u)
  <2>1. n + 1 \in 1..(n + 1) /\ \A j \in ((n + 1) + 1)..(n + 1) : FALSE
    BY <1>2
  <2>2. Asks(t[n + 1], "block", u)
    BY <1>3, <1>6
  <2> QED BY <1>3, <1>4, <2>1, <2>2 DEF Barred
<1>7. ASSUME Barred(h, u), ~Asks(r, "unblock", u) PROVE Barred(t, u)
  <2>1. PICK i \in 1..n : Asks(h[i], "block", u) /\ \A j \in (i + 1)..n : ~Asks(h[j], "unblock", u)
    BY <1>2, <1>4, <1>7 DEF Barred
  <2>2. i \in 1..(n + 1) /\ Asks(t[i], "block", u)
    BY <1>3, <2>1
  <2>3. ASSUME NEW j \in (i + 1)..(n + 1) PROVE ~Asks(t[j], "unblock", u)
    <3>1. CASE j = n + 1
      BY <1>3, <1>7, <3>1
    <3>2. CASE j # n + 1
      <4>1. j \in (i + 1)..n /\ j \in 1..n
        BY <3>2
      <4> QED BY <1>3, <2>1, <4>1
    <3> QED BY <3>1, <3>2
  <2> QED BY <1>3, <1>4, <2>2, <2>3 DEF Barred
<1> QED BY <1>1, <1>5, <1>6, <1>7

\* A request that is about no block changes nothing.
LEMMA OtherRequest ==
    ASSUME BlockInv, UNCHANGED <<blocked, session, closed>>, NEW r, handled' = Append(handled, r),
           r[1] # "block", r[1] # "unblock"
    PROVE  BlockInv'
<1>1. PICK h : h = handled
  OBVIOUS
<1>2. IsSeq(h) /\ IsSeq(Append(h, r))
  BY <1>1, AddFact DEF BlockInv
<1>3. ASSUME NEW u PROVE Barred(Append(h, r), u) <=> Barred(h, u)
  <2>1. ~Asks(r, "block", u) /\ ~Asks(r, "unblock", u)
    BY DEF Asks
  <2> QED BY <1>2, <2>1, BarredFact
<1>4. handled' = Append(h, r)
  BY <1>1
<1>5. IsSeq(handled')
  BY <1>2, <1>4
<1>6. ~closed => session /\ \A u \in Others : u \in ToSet(blocked) <=> Barred(handled', u)
  BY <1>1, <1>3, <1>4 DEF BlockInv
<1> QED BY <1>5, <1>6 DEF BlockInv

\* What a request to block or to unblock names.
LEMMA WhoIsNamed ==
    ASSUME NEW name \in {"block", "unblock"}, Asked(name)
    PROVE  /\ Handlers[TypeOf(inbuf)][1] = name
           /\ \A u : Fields = <<<<u>>>> <=> Fields[1] = <<u>>
<1>1. PICK t \in DOMAIN Handlers : t = TypeOf(inbuf)
  BY DEF Asked
<1>2. Handlers[t][1] = name
  BY <1>1 DEF Asked
<1>3. t = 4 \/ t = 5
  BY <1>2 DEF Handlers
<1>4. Handlers[t][2] = <<"string">>
  BY <1>3 DEF Handlers, BlockRequest, UnBlockRequest
<1>5. PICK f : f = Fields
  OBVIOUS
<1>6. PICK x : x = FieldOf("string", inbuf[2 + 1])
  OBVIOUS
<1>7. f = <<x>>
  <2>1. f = [i \in DOMAIN <<"string">> |-> FieldOf(<<"string">>[i], inbuf[2 + i])]
    BY <1>1, <1>4, <1>5 DEF Fields, Value
  <2> QED BY <1>6, <2>1
<1>8. \A u : f = <<<<u>>>> <=> f[1] = <<u>>
  BY <1>7
<1> QED BY <1>1, <1>2, <1>5, <1>8

LEMMA BlockKeeps ==
    ASSUME BlockInv, ServeBlock
    PROVE  BlockInv'
<1>1. PICK h : h = handled
  OBVIOUS
<1>2. PICK r : r = <<Handlers[TypeOf(inbuf)][1], Fields>>
  OBVIOUS
<1>3. PICK f : f = Fields[1]
  OBVIOUS
<1>4. handled' = Append(h, r) /\ UNCHANGED <<session, closed>>
  BY <1>1, <1>2 DEF ServeBlock, Answered, Taken
<1>5. ASSUME NEW u PROVE (Asks(r, "block", u) <=> f = <<u>>) /\ ~Asks(r, "unblock", u)
  <2>1. Asked("block")
    BY DEF ServeBlock
  <2>2. r[1] = "block" /\ r[2] = Fields
    BY <1>2, <2>1, WhoIsNamed
  <2>3. Fields = <<<<u>>>> <=> Fields[1] = <<u>>
    BY <2>1, WhoIsNamed
  <2> QED BY <1>3, <2>2, <2>3 DEF Asks
<1>6. IsSeq(h) /\ IsSeq(Append(h, r))
  BY <1>1, AddFact DEF BlockInv
<1>7. \A u : Barred(Append(h, r), u) <=> f = <<u>> \/ Barred(h, u)
  BY <1>5, <1>6, BarredFact
<1>8. PICK list : list = blocked
  OBVIOUS
<1>9. IsSeq(list) /\ NoneTwice(list) /\ ToSet(list) \subseteq Others
  BY <1>8 DEF BlockInv
<1>10. PICK ok \in BOOLEAN : ok <=> (session /\ \E u \in FindUser(Fields[1]) \ {Me} : ~HasBlocked(blocked, u))
  OBVIOUS
<1>11. blocked' = IF ok THEN BlockUser(list, CHOOSE u \in FindUser(f) : TRUE) ELSE list
  <2>1. PICK new : new = BlockUser(blocked, CHOOSE u \in FindUser(Fields[1]) : TRUE)
    OBVIOUS
  <2>2. blocked' = IF session /\ \E u \in FindUser(Fields[1]) \ {Me} : ~HasBlocked(blocked, u)
                   THEN new ELSE blocked
    <3>1. blocked' = IF session /\ \E u \in FindUser(Fields[1]) \ {Me} : ~HasBlocked(blocked, u)
                     THEN BlockUser(blocked, CHOOSE u \in FindUser(Fields[1]) : TRUE) ELSE blocked
      BY Zenon DEF ServeBlock
    <3> QED BY <2>1, <3>1
  <2>3. ok => blocked' = new
    BY <1>10, <2>2
  <2>4. ~ok => blocked' = blocked
    BY <1>10, <2>2
  <2> QED BY <1>3, <1>8, <2>1, <2>3, <2>4
<1>12. FindUser(f) = {u \in Users : f = <<u>>}
  BY DEF FindUser
<1>13. \A u : HasBlocked(list, u) <=> u \in ToSet(list)
  BY DEF HasBlocked, ToSet
<1>14. CASE ok = TRUE
  <2>1. PICK v \in FindUser(f) \ {Me} : ~HasBlocked(list, v)
    BY <1>3, <1>8, <1>10, <1>14
  <2>2. f = <<v>> /\ v \in Others
    BY <1>12, <2>1 DEF Others
  <2>3. \A u \in FindUser(f) : u = v
    BY <1>12, <2>2
  <2>4. (CHOOSE u \in FindUser(f) : TRUE) = v
    BY <2>1, <2>3
  <2>5. PICK new : new = BlockUser(list, v)
    OBVIOUS
  <2>6. blocked' = new
    BY <1>11, <1>14, <2>4, <2>5
  <2>7. /\ IsSeq(new) /\ NoneTwice(new)
        /\ \A x : x \in ToSet(new) <=> x = v \/ x \in ToSet(list)
    BY <1>9, <2>1, <2>5, BlockFact
  <2>8. \A u : f = <<u>> <=> u = v
    BY <2>2
  <2>9. ToSet(new) \subseteq Others
    BY <1>9, <2>2, <2>7
  <2>10. ~closed => session /\ \A u \in Others : u \in ToSet(new) <=> Barred(Append(h, r), u)
    BY <1>1, <1>7, <1>8, <2>7, <2>8 DEF BlockInv
  <2> QED BY <1>4, <1>6, <2>6, <2>7, <2>9, <2>10 DEF BlockInv
<1>15. CASE ok = FALSE
  <2>1. ~closed => \A u \in Others : f = <<u>> => u \in ToSet(list)
    <3> SUFFICES ASSUME ~closed, NEW u \in Others, f = <<u>> PROVE u \in ToSet(list)
      OBVIOUS
    <3>1. u \in FindUser(f) \ {Me}
      BY <1>12 DEF Others
    <3>2. session
      BY DEF BlockInv
    <3>3. HasBlocked(list, u)
      BY <1>3, <1>8, <1>10, <1>15, <3>1, <3>2
    <3> QED BY <1>13, <3>3
  <2>2. ~closed => session /\ \A u \in Others : u \in ToSet(list) <=> Barred(Append(h, r), u)
    BY <1>1, <1>7, <1>8, <2>1 DEF BlockInv
  <2>3. blocked' = list
    BY <1>11, <1>15
  <2> QED BY <1>4, <1>6, <1>9, <2>2, <2>3 DEF BlockInv
<1> QED BY <1>14, <1>15

LEMMA UnblockKeeps ==
    ASSUME BlockInv, ServeUnblock
    PROVE  BlockInv'
<1>1. PICK h : h = handled
  OBVIOUS
<1>2. PICK r : r = <<Handlers[TypeOf(inbuf)][1], Fields>>
  OBVIOUS
<1>3. PICK f : f = Fields[1]
  OBVIOUS
<1>4. handled' = Append(h, r) /\ UNCHANGED <<session, closed>>
  BY <1>1, <1>2 DEF ServeUnblock, Answered, Taken
<1>5. ASSUME NEW u PROVE (Asks(r, "unblock", u) <=> f = <<u>>) /\ ~Asks(r, "block", u)
  <2>1. Asked("unblock")
    BY DEF ServeUnblock
  <2>2. r[1] = "unblock" /\ r[2] = Fields
    BY <1>2, <2>1, WhoIsNamed
  <2>3. Fields = <<<<u>>>> <=> Fields[1] = <<u>>
    BY <2>1, WhoIsNamed
  <2> QED BY <1>3, <2>2, <2>3 DEF Asks
<1>6. IsSeq(h) /\ IsSeq(Append(h, r))
  BY <1>1, AddFact DEF BlockInv
<1>7. \A u : Barred(Append(h, r), u) <=> f # <<u>> /\ Barred(h, u)
  BY <1>5, <1>6, BarredFact
<1>8. PICK list : list = blocked
  OBVIOUS
<1>9. IsSeq(list) /\ NoneTwice(list) /\ ToSet(list) \subseteq Others
  BY <1>8 DEF BlockInv
<1>10. PICK ok \in BOOLEAN : ok <=> (session /\ \E u \in FindUser(Fields[1]) \ {Me} : HasBlocked(blocked, u))
  OBVIOUS
<1>11. blocked' = IF ok THEN UnblockUser(list, CHOOSE u \in FindUser(f) : TRUE) ELSE list
  <2>1. PICK new : new = UnblockUser(blocked, CHOOSE u \in FindUser(Fields[1]) : TRUE)
    OBVIOUS
  <2>2. blocked' = IF session /\ \E u \in FindUser(Fields[1]) \ {Me} : HasBlocked(blocked, u)
                   THEN new ELSE blocked
    <3>1. blocked' = IF session /\ \E u \in FindUser(Fields[1]) \ {Me} : HasBlocked(blocked, u)
                     THEN UnblockUser(blocked, CHOOSE u \in FindUser(Fields[1]) : TRUE) ELSE blocked
      BY Zenon DEF ServeUnblock
    <3> QED BY <2>1, <3>1
  <2>3. ok => blocked' = new
    BY <1>10, <2>2
  <2>4. ~ok => blocked' = blocked
    BY <1>10, <2>2
  <2> QED BY <1>3, <1>8, <2>1, <2>3, <2>4
<1>12. FindUser(f) = {u \in Users : f = <<u>>}
  BY DEF FindUser
<1>13. \A u : HasBlocked(list, u) <=> u \in ToSet(list)
  BY DEF HasBlocked, ToSet
<1>14. CASE ok = TRUE
  <2>1. PICK v \in FindUser(f) \ {Me} : HasBlocked(list, v)
    BY <1>3, <1>8, <1>10, <1>14
  <2>2. f = <<v>> /\ v \in Others
    BY <1>12, <2>1 DEF Others
  <2>3. \A u \in FindUser(f) : u = v
    BY <1>12, <2>2
  <2>4. (CHOOSE u \in FindUser(f) : TRUE) = v
    BY <2>1, <2>3
  <2>5. PICK new : new = UnblockUser(list, v)
    OBVIOUS
  <2>6. blocked' = new
    BY <1>11, <1>14, <2>4, <2>5
  <2>7. /\ IsSeq(new) /\ NoneTwice(new)
        /\ \A x : x \in ToSet(new) <=> x # v /\ x \in ToSet(list)
    BY <1>9, <2>1, <2>5, UnblockFact
  <2>8. \A u : f = <<u>> <=> u = v
    BY <2>2
  <2>9. ToSet(new) \subseteq Others
    BY <1>9, <2>2, <2>7
  <2>10. ~closed => session /\ \A u \in Others : u \in ToSet(new) <=> Barred(Append(h, r), u)
    BY <1>1, <1>7, <1>8, <2>7, <2>8 DEF BlockInv
  <2> QED BY <1>4, <1>6, <2>6, <2>7, <2>9, <2>10 DEF BlockInv
<1>15. CASE ok = FALSE
  <2>1. ~closed => \A u \in Others : f = <<u>> => u \notin ToSet(list)
    <3> SUFFICES ASSUME ~closed, NEW u \in Others, f = <<u>> PROVE u \notin ToSet(list)
      OBVIOUS
    <3>1. u \in FindUser(f) \ {Me}
      BY <1>12 DEF Others
    <3>2. session
      BY DEF BlockInv
    <3>3. ~HasBlocked(list, u)
      BY <1>3, <1>8, <1>10, <1>15, <3>1, <3>2
    <3> QED BY <1>13, <3>3
  <2>2. ~closed => session /\ \A u \in Others : u \in ToSet(list) <=> Barred(Append(h, r), u)
    BY <1>1, <1>7, <1>8, <2>1 DEF BlockInv
  <2>3. blocked' = list
    BY <1>11, <1>15
  <2> QED BY <1>4, <1>6, <1>9, <2>2, <2>3 DEF BlockInv
<1> QED BY <1>14, <1>15

\* Session and connection go together.
LEMMA LoginKeeps ==
    ASSUME BlockInv, ServeLogin
    PROVE  BlockInv'
<1>1. PICK h : h = handled
  OBVIOUS
<1>2. PICK r : r = <<Handlers[TypeOf(inbuf)][1], Fields>>
  OBVIOUS
<1>3. handled' = Append(h, r) /\ UNCHANGED <<blocked, closed>> /\ session' = TRUE
  BY <1>1, <1>2 DEF ServeLogin, Answered, Taken, lists
<1>4. r[1] = "login"
  BY <1>2 DEF ServeLogin, Asked
<1>5. IsSeq(h) /\ IsSeq(Append(h, r))
  BY <1>1, AddFact DEF BlockInv
<1>6. ASSUME NEW u PROVE Barred(Append(h, r), u) <=> Barred(h, u)
  <2>1. ~Asks(r, "block", u) /\ ~Asks(r, "unblock", u)
    BY <1>4 DEF Asks
  <2> QED BY <1>5, <2>1, BarredFact
<1> QED BY <1>1, <1>3, <1>5, <1>6 DEF BlockInv

LEMMA LogoutKeeps ==
    ASSUME BlockInv, ServeLogout
    PROVE  BlockInv'
<1>1. PICK h : h = handled
  OBVIOUS
<1>2. PICK r : r = <<Handlers[TypeOf(inbuf)][1], Fields>>
  OBVIOUS
<1>3. handled' = Append(h, r) /\ UNCHANGED blocked /\ session' = FALSE
  BY <1>1, <1>2 DEF ServeLogout, Answered, Taken, lists
<1>4. closed' = TRUE
  BY DEF ServeLogout, BlockInv
<1>5. IsSeq(Append(h, r))
  BY <1>1, AddFact DEF BlockInv
<1> QED BY <1>3, <1>4, <1>5 DEF BlockInv

LEMMA BlockListSteps ==
    ASSUME BlockInv, [Next]_vars
    PROVE  BlockInv'
<1>1. ASSUME UNCHANGED <<blocked, handled, session, closed>> PROVE BlockInv'
  BY <1>1 DEF BlockInv
<1>2. ASSUME NEW l \in Lines, Type(l) PROVE BlockInv'
  BY <1>1, <1>2 DEF Type, lists
<1>3. ASSUME NEW n \in 1..Len(up), Receive(n) PROVE BlockInv'
  BY <1>1, <1>3 DEF Receive, lists
<1>4. CASE Handle
  <2>1. ASSUME NEW name, Asked(name), name # "block", name # "unblock", Taken,
               UNCHANGED <<blocked, session, closed>>
        PROVE  BlockInv'
    <3>1. PICK r : r = <<Handlers[TypeOf(inbuf)][1], Fields>>
      OBVIOUS
    <3>2. r[1] # "block" /\ r[1] # "unblock" /\ handled' = Append(handled, r)
      BY <2>1, <3>1 DEF Asked, Taken
    <3> QED BY <2>1, <3>2, OtherRequest
  <2>2. CASE ServeLogin
    BY <2>2, LoginKeeps
  <2>3. CASE ServeMessage
    BY <2>1, <2>3 DEF ServeMessage, Answered, lists
  <2>4. CASE ServeWhoElse
    BY <2>1, <2>4 DEF ServeWhoElse, Answered, lists
  <2>5. CASE ServeBlock
    BY <2>5, BlockKeeps
  <2>6. CASE ServeUnblock
    BY <2>6, UnblockKeeps
  <2>7. CASE ServeLogout
    BY <2>7, LogoutKeeps
  <2>8. CASE ServeGetIP
    BY <2>1, <2>8 DEF ServeGetIP, Answered, lists
  <2>9. CASE ServeFiles
    BY <2>1, <2>9 DEF ServeFiles, Answered, lists
  <2> QED BY <1>4, <2>2, <2>3, <2>4, <2>5, <2>6, <2>7, <2>8, <2>9 DEF Handle
<1>5. ASSUME NEW n \in 1..Len(down), Hear(n) PROVE BlockInv'
  BY <1>1, <1>5 DEF Hear, lists
<1>6. CASE Show
  BY <1>1, <1>6 DEF Show, lists
<1>7. CASE ServerGone
  BY <1>1, <1>7 DEF ServerGone, lists
<1>8. CASE Tick
  BY <1>1, <1>8 DEF Tick
<1>9. ASSUME NEW u \in Visitors, Come(u) \/ Leave(u) PROVE BlockInv'
  BY <1>1, <1>9 DEF Come, Leave
<1>10. CASE UNCHANGED vars
  BY <1>1, <1>10 DEF vars, lists
<1> QED BY <1>2, <1>3, <1>4, <1>5, <1>6, <1>7, <1>8, <1>9, <1>10 DEF Next

LEMMA BlockListInit ==
    ASSUME Init PROVE BlockInv
<1>1. blocked = <<>> /\ handled = <<>> /\ session = TRUE /\ closed = FALSE
  BY DEF Init
<1>2. IsSeq(<<>>) /\ Len(<<>>) = 0 /\ DOMAIN <<>> = {}
  BY DEF IsSeq
<1>3. NoneTwice(<<>>) /\ ToSet(<<>>) = {}
  BY <1>2 DEF NoneTwice, ToSet
<1>4. \A u : ~Barred(<<>>, u)
  BY <1>2 DEF Barred
<1> QED BY <1>1, <1>2, <1>3, <1>4 DEF BlockInv

\* The block list holds, once each, exactly the users whom the requests handled so far
\* have blocked and not unblocked since: unblockUser passes over an entry after the one
\* that it removes, and this is why that does no harm.
THEOREM BlockListIsASet == Spec => []BlockListIsSet
<1>1. Init => BlockInv
  BY BlockListInit
<1>2. BlockInv /\ [Next]_vars => BlockInv'
  BY BlockListSteps
<1>3. BlockInv => BlockListIsSet
  <2> SUFFICES ASSUME BlockInv PROVE BlockListIsSet
    OBVIOUS
  <2>1. IsSeq(blocked) /\ NoneTwice(blocked)
    BY DEF BlockInv
  <2>2. Len(blocked) = Cardinality(ToSet(blocked))
    BY <2>1, CountOnce
  <2>3. \A u \in Others : Barred(handled, u) <=>
              \E i \in DOMAIN handled :
                  /\ Names(i, "block", u)
                  /\ \A j \in (i + 1)..Len(handled) : ~Names(j, "unblock", u)
    BY DEF Barred, Names, Asks
  <2> QED BY <2>2, <2>3 DEF BlockInv, BlockListIsSet
<1> QED BY <1>1, <1>2, <1>3, PTL DEF Spec

-----------------------------------------------------------------------------
(* Types, and what whoelse lists.                                          *)

TimesInv ==
    /\ meant \in Seq({l.means : l \in Lines}) /\ exited \in BOOLEAN
    /\ online \in [Others -> BOOLEAN] /\ active \in [Others -> -1..MaxTime] /\ now \in 0..MaxTime
    /\ \A u \in Others : online[u] => active[u] >= 0

LEMMA TimesInit ==
    ASSUME Init PROVE TimesInv
<1>1. PICK S : S = {l.means : l \in Lines}
  OBVIOUS
<1>2. meant = <<>> /\ exited = FALSE /\ now = 0
  BY DEF Init
<1>3. <<>> \in Seq(S)
  OBVIOUS
<1>4. meant \in Seq({l.means : l \in Lines})
  BY <1>1, <1>2, <1>3
<1>5. MaxTime \in Nat
  BY UsersAssumption
<1>6. now \in 0..MaxTime /\ exited \in BOOLEAN
  <2>1. 0 \in 0..MaxTime
    BY <1>5
  <2> QED BY <1>2, <2>1
<1>7. online = [u \in Others |-> FALSE] /\ active = [u \in Others |-> -1]
  BY DEF Init
<1>8. online \in [Others -> BOOLEAN] /\ \A u \in Others : ~online[u]
  BY <1>7
<1>9. active \in [Others -> -1..MaxTime]
  BY <1>5, <1>7
<1> QED BY <1>4, <1>6, <1>8, <1>9 DEF TimesInv

LEMMA TimesSteps ==
    ASSUME TimesInv, [Next]_vars
    PROVE  TimesInv'
<1>1. ASSUME UNCHANGED <<meant, exited, online, active, now>> PROVE TimesInv'
  BY <1>1 DEF TimesInv
<1>2. ASSUME NEW l \in Lines, Type(l) PROVE TimesInv'
  <2>1. UNCHANGED <<exited, online, active, now>>
    BY <1>2 DEF Type, lists
  <2>2. meant' \in Seq({x.means : x \in Lines})
    <3>1. meant' = meant \/ meant' = Append(meant, l.means)
      BY <1>2 DEF Type
    <3>2. l.means \in {x.means : x \in Lines}
      OBVIOUS
    <3>3. PICK S : S = {x.means : x \in Lines}
      OBVIOUS
    <3>4. meant \in Seq(S) /\ l.means \in S
      BY <3>2, <3>3 DEF TimesInv
    <3>5. meant' \in Seq(S)
      BY <3>1, <3>4
    <3> QED BY <3>3, <3>5
  <2> QED BY <2>1, <2>2 DEF TimesInv
<1>3. ASSUME NEW n \in 1..Len(up), Receive(n) PROVE TimesInv'
  BY <1>1, <1>3 DEF Receive, lists
<1>4. CASE Handle
  BY <1>1, <1>4, HandlersTake
<1>5. ASSUME NEW n \in 1..Len(down), Hear(n) PROVE TimesInv'
  BY <1>1, <1>5 DEF Hear, client, lists
<1>6. CASE Show
  <2>1. UNCHANGED <<meant, online, active, now>> /\ exited' \in BOOLEAN
    BY <1>6 DEF Show, lists
  <2> QED BY <2>1 DEF TimesInv
<1>7. CASE ServerGone
  <2>1. UNCHANGED <<meant, online, active, now>> /\ exited' \in BOOLEAN
    BY <1>7 DEF ServerGone, lists
  <2> QED BY <2>1 DEF TimesInv
<1>8. CASE Tick
  <2>1. UNCHANGED <<meant, exited, online, active>> /\ now < MaxTime /\ now' = now + 1
    BY <1>8 DEF Tick, client
  <2>2. now' \in 0..MaxTime
    BY <2>1, UsersAssumption DEF TimesInv
  <2> QED BY <2>1, <2>2 DEF TimesInv
<1>9. ASSUME NEW u \in Visitors, Come(u) PROVE TimesInv'
  <2>1. UNCHANGED <<meant, exited, now>> /\ u \in Others
    BY <1>9, UsersAssumption DEF Come, client
  <2>2. online' = [online EXCEPT ![u] = TRUE] /\ active' = [active EXCEPT ![u] = now]
    BY <1>9 DEF Come
  <2>3. online' \in [Others -> BOOLEAN]
    BY <2>1, <2>2 DEF TimesInv
  <2>4. now \in -1..MaxTime /\ now >= 0
    BY UsersAssumption DEF TimesInv
  <2>5. active' \in [Others -> -1..MaxTime]
    BY <2>1, <2>2, <2>4 DEF TimesInv
  <2>6. ASSUME NEW x \in Others, online'[x] PROVE active'[x] >= 0
    <3>1. CASE x = u
      BY <2>1, <2>2, <2>4, <3>1 DEF TimesInv
    <3>2. CASE x # u
      BY <2>2, <2>6, <3>2 DEF TimesInv
    <3> QED BY <3>1, <3>2
  <2> QED BY <2>1, <2>3, <2>5, <2>6 DEF TimesInv
<1>10. ASSUME NEW u \in Visitors, Leave(u) PROVE TimesInv'
  <2>1. UNCHANGED <<meant, exited, active, now>> /\ u \in Others
    BY <1>10, UsersAssumption DEF Leave, client
  <2>2. online' = [online EXCEPT ![u] = FALSE]
    BY <1>10 DEF Leave
  <2>3. online' \in [Others -> BOOLEAN]
    BY <2>1, <2>2 DEF TimesInv
  <2>4. ASSUME NEW x \in Others, online'[x] PROVE online[x]
    <3>1. x # u
      BY <2>2, <2>4 DEF TimesInv
    <3> QED BY <2>2, <2>4, <3>1 DEF TimesInv
  <2> QED BY <2>1, <2>3, <2>4 DEF TimesInv
<1>11. CASE UNCHANGED vars
  BY <1>1, <1>11 DEF vars, client, lists
<1> QED BY <1>2, <1>3, <1>4, <1>5, <1>6, <1>7, <1>8, <1>9, <1>10, <1>11 DEF Next

\* All of it.
TypedInv == AnswersIInv /\ RequestsInv /\ BlockInv /\ TimesInv

LEMMA TypedIsOK ==
    ASSUME TypedInv
    PROVE  TypeOK /\ IsPrefix(handled, meant)
<1>1. AnswersIInv /\ RequestsInv /\ BlockInv /\ TimesInv
  BY DEF TypedInv
<1>2. /\ IsSeq(said) /\ IsSeq(handled) /\ IsSeq(meant)
      /\ Len(handled) <= Len(meant) /\ \A i \in 1..Len(handled) : handled[i] = meant[i]
  BY <1>1 DEF AnswersIInv, AnswersInv, RequestsInv
<1>3. IsPrefix(handled, meant)
  BY <1>2, PrefixFact
<1>4. ASSUME NEW i \in DOMAIN said PROVE said[i][1] \in DOMAIN Responses
  <2>1. i \in 1..Len(said)
    BY <1>2, ToSetFact
  <2>2. IsAnswer(said[i])
    BY <1>1, <2>1 DEF AnswersIInv, AnswersInv
  <2>3. said[i][1] \in {1, 2, 3}
    BY <2>2 DEF IsAnswer
  <2> QED BY <2>3 DEF Responses
<1>5. ASSUME NEW i \in DOMAIN handled, handled[i][1] = "whoelse" PROVE handled[i][2][2] \in 0..(Word - 1)
  <2>1. i \in 1..Len(handled) /\ DOMAIN meant = 1..Len(meant) /\ Len(handled) \in Nat /\ Len(meant) \in Nat
    BY <1>2, ToSetFact
  <2>2. i \in 1..Len(meant)
    BY <1>2, <2>1
  <2>3. PICK w : w = handled[i]
    OBVIOUS
  <2>4. w = meant[i]
    BY <1>2, <2>1, <2>3
  <2>5. PICK m : Makes(m, w)
    <3>1. RequestsFollow(inbuf \o up, Len(handled), meant)
      BY <1>1 DEF RequestsInv
    <3>2. PICK M : Requested(M, meant)
      BY <3>1 DEF RequestsFollow
    <3>3. Makes(M[i], w)
      BY <2>2, <2>4, <3>2 DEF Requested
    <3> QED BY <3>3
  <2>6. PICK t \in DOMAIN Handlers : w = <<Handlers[t][1], w[2]>> /\ Fits(w[2], Handlers[t][2])
    BY <2>5 DEF Makes
  <2>7. Handlers[t][1] = "whoelse"
    BY <1>5, <2>3, <2>6
  <2>8. Handlers[t][2] = <<"bool", "uint32", "bool">>
    BY <2>7 DEF Handlers, WhoElseRequest
  <2>9. w[2][2] \in 0..(Word - 1)
    BY <2>6, <2>8 DEF Fits
  <2> QED BY <2>3, <2>9
<1>6. TypeOK
  BY <1>1, <1>4, <1>5 DEF TypeOK, TimesInv, BlockInv
<1> QED BY <1>3, <1>6

\* The requests are handled as they were meant and in the order in which they were
\* typed, however the network cuts the stream, for any users and any lines that make
\* the requests that they mean.
THEOREM HandledAsTyped ==
    ASSUME AllUnderstood
    PROVE  Spec => []AsTyped
<1>1. Init => TypedInv
  BY AnswersInit, RequestsInit, BlockListInit, TimesInit DEF TypedInv
<1>2. TypedInv /\ [Next]_vars => TypedInv'
  BY AnswersSteps, RequestSteps, BlockListSteps, TimesSteps DEF TypedInv
<1>3. TypedInv => AsTyped
  BY TypedIsOK DEF AsTyped
<1> QED BY <1>1, <1>2, <1>3, PTL DEF Spec

\* The units of a request.
Carries(units, t, schema, fields) ==
    /\ units[1] = <<"varint", t>> /\ Len(units) > 0
    /\ \A i \in 1..Len(schema) : units[2 + i] = Unit(schema[i], fields[i])

LEMMA RequestUnits ==
    ASSUME NEW t \in 1..10, NEW schema, IsSeq(schema), NEW fields
    PROVE  Carries(IMRequest(t, Encode(schema, fields)), t, schema, fields)
<1>1. PICK v : v = Encode(schema, fields)
  OBVIOUS
<1>2. /\ IsSeq(v) /\ Len(v) = Len(schema) /\ Len(schema) \in Nat
      /\ \A i \in 1..Len(schema) : v[i] = Unit(schema[i], fields[i])
  BY <1>1, EncodeFact
<1>3. PICK scalars : scalars = <<Unit("uint32", t)>>
  OBVIOUS
<1>4. IsSeq(scalars) /\ Len(scalars) = 1 /\ scalars[1] = <<"varint", t>>
  <2>1. t % Word = t
    BY TypesFit, WordAssumption
  <2>2. Unit("uint32", t) = <<"varint", t>>
    BY <2>1 DEF Unit, U32
  <2>3. IsSeq(scalars) /\ Len(scalars) = 1 /\ scalars[1] = Unit("uint32", t)
    BY <1>3 DEF IsSeq
  <2> QED BY <2>2, <2>3
<1>5. PICK m : m = Outer(scalars, v)
  OBVIOUS
<1>6. /\ Len(m) = Len(scalars) + 1 + Len(v)
      /\ \A i \in 1..Len(scalars) : m[i] = scalars[i]
      /\ \A i \in 1..Len(v) : m[Len(scalars) + 1 + i] = v[i]
  <2>1. IsSeq(scalars)
    BY <1>4
  <2>2. IsSeq(v)
    BY <1>2
  <2> QED BY <1>5, <2>1, <2>2, OuterFact
<1>7. /\ Len(m) > 0 /\ m[1] = <<"varint", t>>
      /\ \A i \in 1..Len(schema) : m[2 + i] = Unit(schema[i], fields[i])
  <2>1. Len(m) = 2 + Len(schema) /\ 1 \in 1..Len(scalars)
    BY <1>2, <1>4, <1>6
  <2>2. m[1] = <<"varint", t>>
    BY <1>4, <1>6, <2>1
  <2>3. ASSUME NEW i \in 1..Len(schema) PROVE m[2 + i] = Unit(schema[i], fields[i])
    <3>1. i \in 1..Len(v) /\ Len(scalars) + 1 + i = 2 + i
      BY <1>2, <1>4
    <3> QED BY <1>2, <1>6, <3>1
  <2> QED BY <1>2, <2>1, <2>2, <2>3
<1>8. IMRequest(t, Encode(schema, fields)) = m
  BY <1>1, <1>3, <1>5 DEF IMRequest
<1> QED BY <1>7, <1>8 DEF Carries

\* Only two commands ask who else is there, one with and one without a time.
LEMMA WhoElseLine ==
    ASSUME NEW line, NEW w, Makes(ParseCommand(line), w), w[1] = "whoelse"
    PROVE  /\ w[2][1] \in BOOLEAN /\ w[2][2] \in 0..(Word - 1) /\ w[2][3] = ~w[2][1]
<1>1. PICK t \in DOMAIN Handlers : /\ w = <<Handlers[t][1], w[2]>> /\ Fits(w[2], Handlers[t][2])
                                   /\ ParseCommand(line) = IMRequest(t, Encode(Handlers[t][2], w[2]))
  BY DEF Makes
<1>2. t = 3
  BY <1>1 DEF Handlers
<1>3. PICK schema : schema = Handlers[3][2]
  OBVIOUS
<1>4. schema = <<"bool", "uint32", "bool">> /\ IsSeq(schema) /\ Len(schema) = 3
  <2>1. schema = <<"bool", "uint32", "bool">>
    BY <1>3 DEF Handlers, WhoElseRequest
  <2> QED BY <2>1 DEF IsSeq
<1>5. PICK a : a = w[2]
  OBVIOUS
<1>6. a[1] \in BOOLEAN /\ a[2] \in 0..(Word - 1) /\ a[3] \in BOOLEAN
  <2>1. Fits(a, schema)
    BY <1>1, <1>2, <1>3, <1>5
  <2> QED BY <1>4, <2>1 DEF Fits
<1>7. PICK units : units = ParseCommand(line)
  OBVIOUS
<1>8. units = IMRequest(3, Encode(schema, a))
  BY <1>1, <1>2, <1>3, <1>5, <1>7
<1>9. /\ units[1] = <<"varint", 3>> /\ Len(units) > 0
      /\ units[3] = Unit("bool", a[1]) /\ units[5] = Unit("bool", a[3])
  <2>1. /\ units[1] = <<"varint", 3>> /\ Len(units) > 0
        /\ \A i \in 1..Len(schema) : units[2 + i] = Unit(schema[i], a[i])
    <3>1. IsSeq(schema)
      BY <1>4
    <3>2. PICK x \in 1..10 : x = 3
      OBVIOUS
    <3>3. units = IMRequest(x, Encode(schema, a))
      BY <1>8, <3>2
    <3>4. Carries(units, x, schema, a)
      BY <3>1, <3>3, RequestUnits
    <3> QED BY <3>2, <3>4 DEF Carries
  <2>2. units[2 + 1] = Unit(schema[1], a[1]) /\ units[2 + 3] = Unit(schema[3], a[3])
    BY <1>4, <2>1
  <2> QED BY <1>4, <2>1, <2>2
<1>10. units # NoRequest
  BY <1>9 DEF NoRequest
<1>11. PICK k, args : units = Run(k, args)
  BY <1>7, <1>10 DEF ParseCommand
<1>12. ASSUME NEW x \in 1..10, NEW sch, IsSeq(sch), NEW fields, units = IMRequest(x, Encode(sch, fields))
       PROVE  x = 3
  <2>1. Carries(units, x, sch, fields)
    BY <1>12, RequestUnits
  <2> QED BY <1>9, <2>1 DEF Carries
<1>13. /\ IsSeq(LoginRequest) /\ IsSeq(MessageRequest) /\ IsSeq(BlockRequest) /\ IsSeq(UnBlockRequest)
       /\ IsSeq(LogOutRequest) /\ IsSeq(GetIPRequest) /\ IsSeq(RegisterFileRequest) /\ IsSeq(SearchFileRequest)
  BY DEF IsSeq, LoginRequest, MessageRequest, BlockRequest, UnBlockRequest, LogOutRequest, GetIPRequest,
         RegisterFileRequest, SearchFileRequest
<1>14. k = 7 \/ k = 8
  <2>1. k # 1
    BY <1>11, <1>12, <1>13 DEF Run, Login
  <2>2. k # 2
    BY <1>10, <1>11, <1>12, <1>13 DEF Run, Message, WithCut
  <2>3. k # 3
    BY <1>11, <1>12, <1>13 DEF Run, Broadcast
  <2>4. k # 4
    BY <1>11, <1>12, <1>13 DEF Run, Block
  <2>5. k # 5
    BY <1>11, <1>12, <1>13 DEF Run, Unblock
  <2>6. k # 6
    BY <1>11, <1>12, <1>13 DEF Run, Logout
  <2>7. k # 9
    BY <1>11, <1>12, <1>13 DEF Run, StartPrivate
  <2>8. k # 12
    BY <1>11, <1>12, <1>13 DEF Run, Register
  <2>9. k # 13
    BY <1>11, <1>12, <1>13 DEF Run, SearchFile
  <2>10. k # 14
    <3> SUFFICES ASSUME k = 14 PROVE FALSE
      OBVIOUS
    <3>1. units = SearchChunk(args)
      BY <1>11 DEF Run
    <3>2. PICK fields : units = IMRequest(10, Encode(SearchFileRequest, fields))
      BY <1>10, <3>1 DEF SearchChunk, WithCut
    <3> QED BY <1>12, <1>13, <3>2
  <2>11. CASE k \notin {1, 2, 3, 4, 5, 6, 7, 8, 9, 12, 13, 14}
    BY <1>10, <1>11, <2>11 DEF Run
  <2> QED BY <2>1, <2>2, <2>3, <2>4, <2>5, <2>6, <2>7, <2>8, <2>9, <2>10, <2>11
<1>15. PICK b \in BOOLEAN : units[3] = Unit("bool", b) /\ units[5] = Unit("bool", ~b)
  <2>1. ASSUME NEW b \in BOOLEAN, NEW secs, units = IMRequest(3, Encode(WhoElseRequest, <<b, secs, ~b>>))
        PROVE  units[3] = Unit("bool", b) /\ units[5] = Unit("bool", ~b)
    <3>1. IsSeq(WhoElseRequest) /\ Len(WhoElseRequest) = 3 /\ WhoElseRequest[1] = "bool" /\ WhoElseRequest[3] = "bool"
      BY DEF IsSeq, WhoElseRequest
    <3>2. PICK f : f = <<b, secs, ~b>>
      OBVIOUS
    <3>3. f[1] = b /\ f[3] = ~b
      BY <3>2
    <3>4. \A i \in 1..Len(WhoElseRequest) : units[2 + i] = Unit(WhoElseRequest[i], f[i])
      <4>1. PICK x \in 1..10 : x = 3
        OBVIOUS
      <4>2. units = IMRequest(x, Encode(WhoElseRequest, f))
        BY <2>1, <3>2, <4>1
      <4>3. IsSeq(WhoElseRequest)
        BY <3>1
      <4>4. Carries(units, x, WhoElseRequest, f)
        BY <4>2, <4>3, RequestUnits
      <4> QED BY <4>4 DEF Carries
    <3>5. units[2 + 1] = Unit("bool", f[1]) /\ units[2 + 3] = Unit("bool", f[3])
      BY <3>1, <3>4
    <3> QED BY <3>3, <3>5
  <2>2. CASE k = 7
    <3>1. units = IMRequest(3, Encode(WhoElseRequest, <<TRUE, Atoi(args), FALSE>>))
      BY <1>11, <2>2 DEF Run, WhoElseSince
    <3> QED BY <2>1, <3>1
  <2>3. CASE k = 8
    <3>1. units = IMRequest(3, Encode(WhoElseRequest, <<FALSE, 0, TRUE>>))
      BY <1>11, <2>3 DEF Run, WhoElse
    <3> QED BY <2>1, <3>1
  <2> QED BY <1>14, <2>2, <2>3
<1>16. \A x \in BOOLEAN, y \in BOOLEAN : Unit("bool", x) = Unit("bool", y) => x = y
  BY DEF Unit
<1>17. a[1] = b /\ a[3] = ~b
  BY <1>6, <1>9, <1>15, <1>16
<1> QED BY <1>5, <1>6, <1>17

LEMMA ThresholdFact ==
    ASSUME TimesInv, NEW a \in BOOLEAN, NEW secs \in 0..(Word - 1), NEW listed,
           listed = LoggedInUsersAfterTime(Threshold(a, secs), ~a)
    PROVE  IF a THEN AsInt(secs) <= now => listed = {u \in Others : Since(u, AsInt(secs))}
           ELSE listed = {u \in Others : online[u]}
<1>1. \A u \in Others : active[u] \in Int /\ (online[u] => active[u] >= 0) /\ now \in Int
  BY UsersAssumption DEF TimesInv
<1>2. CASE a = TRUE
  <2> SUFFICES ASSUME AsInt(secs) <= now PROVE listed = {u \in Others : Since(u, AsInt(secs))}
    BY <1>2
  <2>1. PICK s \in Int : s = AsInt(secs)
    BY WordAssumption DEF AsInt
  <2>2. listed = {u \in Others : active[u] >= now - s}
    BY <1>2, <2>1 DEF LoggedInUsersAfterTime, Threshold
  <2>3. s <= now
    BY <2>1
  <2>4. \A u \in Others : active[u] >= now - s <=> active[u] >= 0 /\ now - active[u] <= s
    BY <1>1, <2>3
  <2>5. {u \in Others : Since(u, AsInt(secs))} = {u \in Others : active[u] >= 0 /\ now - active[u] <= s}
    BY <2>1 DEF Since
  <2> QED BY <2>2, <2>4, <2>5
<1>3. CASE a = FALSE
  <2>1. listed = {u \in Others : active[u] >= 0 /\ online[u]}
    BY <1>3 DEF LoggedInUsersAfterTime, Threshold
  <2> QED BY <1>1, <1>3, <2>1
<1> QED BY <1>2, <1>3

\* A request that the server takes for whoelse asks for one of two things.
LEMMA WhoElseAsked ==
    ASSUME AllUnderstood, RequestsInv, TimesInv, Asked("whoelse")
    PROVE  Fields[1] \in BOOLEAN /\ Fields[2] \in 0..(Word - 1) /\ Fields[3] = ~Fields[1]
<1>1. PICK n \in Nat : n = Len(handled)
  BY WhatIsTaken DEF Asked
<1>2. n + 1 \in 1..Len(meant)
  BY <1>1, WhatIsTaken DEF Asked
<1>3. PICK w : w = meant[n + 1]
  OBVIOUS
<1>4. PICK m : TakenAs(inbuf, m, w)
  BY <1>1, <1>3, WhatIsTaken DEF Asked
<1>5. w = <<Handlers[TypeOf(inbuf)][1], Fields>>
  BY <1>4 DEF TakenAs, Fields
<1>6. w[1] = "whoelse" /\ w[2] = Fields
  BY <1>5 DEF Asked
<1>7. PICK l \in Lines : w = l.means
  <2>1. PICK S : S = {l.means : l \in Lines}
    OBVIOUS
  <2>2. meant \in Seq(S)
    BY <2>1 DEF TimesInv
  <2>3. w \in S
    BY <1>2, <1>3, <2>2
  <2> QED BY <2>1, <2>3
<1>8. w # <<>>
  BY <1>5
<1>9. Makes(ParseCommand(l.text), w)
  <2>1. Understood(l)
    BY DEF AllUnderstood
  <2> QED BY <1>7, <1>8, <2>1 DEF Understood
<1> QED BY <1>6, <1>9, WhoElseLine

\* What whoelse answers is who is online, and what whoelsesince answers is whose last
\* activity is not longer ago, at every time and for any seconds typed that are not
\* more than there have been.
THEOREM WhoElseAnswers ==
    ASSUME AllUnderstood
    PROVE  Spec => WhoElseIsTrue
<1> DEFINE Act == ServeWhoElse /\ session =>
          LET seconds == AsInt(Fields[2])
              listed  == said'[Len(said')][3][1][2]
          IN  IF Fields[1] THEN seconds <= now => listed = {u \in Others : Since(u, seconds)}
              ELSE listed = {u \in Others : online[u]}
<1>1. Init => TypedInv
  BY AnswersInit, RequestsInit, BlockListInit, TimesInit DEF TypedInv
<1>2. TypedInv /\ [Next]_vars => TypedInv'
  BY AnswersSteps, RequestSteps, BlockListSteps, TimesSteps DEF TypedInv
<1>3. TypedInv => Act
  <2> SUFFICES ASSUME TypedInv, ServeWhoElse, session PROVE Act
    BY Zenon
  <2>1. PICK f : f = Fields
    OBVIOUS
  <2>2. PICK a \in BOOLEAN, secs \in 0..(Word - 1) : a = f[1] /\ secs = f[2] /\ f[3] = ~a
    BY <2>1, WhoElseAsked DEF ServeWhoElse, TypedInv
  <2>3. PICK list : list = LoggedInUsersAfterTime(Threshold(a, secs), ~a)
    OBVIOUS
  <2>4. list = LoggedInUsersAfterTime(Threshold(Fields[1], Fields[2]), Fields[3])
    BY <2>1, <2>2, <2>3
  <2>5. PICK s : s = said
    OBVIOUS
  <2>6. PICK b \in BOOLEAN : b <=> list # {}
    OBVIOUS
  <2>7. PICK x : x = Text(b, <<"users", list>>)
    OBVIOUS
  <2>8. said' = Append(s, x)
    <3>1. Answered(IF ~session THEN NotLoggedIn ELSE Text(list # {}, <<"users", list>>))
      BY <2>4 DEF ServeWhoElse
    <3>2. Answered(x)
      BY <2>6, <2>7, <3>1
    <3>3. x # NoAnswer
      BY <2>7 DEF Text, NoAnswer
    <3> QED BY <2>5, <3>2, <3>3 DEF Answered
  <2>9. IsSeq(s)
    BY <2>5 DEF TypedInv, AnswersIInv, AnswersInv
  <2>10. Append(s, x)[Len(Append(s, x))] = x
    BY <2>9, AddFact
  <2>11. said'[Len(said')] = x
    BY <2>8, <2>10
  <2>12. x[3][1][2] = list
    BY <2>7 DEF Text
  <2>13. said'[Len(said')][3][1][2] = list
    BY <2>11, <2>12
  <2>14. IF a THEN AsInt(secs) <= now => list = {u \in Others : Since(u, AsInt(secs))}
         ELSE list = {u \in Others : online[u]}
    BY <2>3, ThresholdFact DEF TypedInv
  <2>15. CASE a
    BY <2>1, <2>2, <2>13, <2>14, <2>15
  <2>16. CASE ~a
    BY <2>1, <2>2, <2>13, <2>14, <2>16
  <2> QED BY <2>15, <2>16
<1>4. TypedInv /\ [Next]_vars => [Act]_vars
  BY <1>3
<1> QED BY <1>1, <1>2, <1>4, PTL DEF Spec, WhoElseIsTrue

-----------------------------------------------------------------------------
(* The command line.                                                       *)

\* What a line that begins with p has in its first places.
LEMMA BeginsWith ==
    ASSUME NEW p, NEW s, IsSeq(p), IsSeq(s)
    PROVE  IsPrefix(p, s) <=> Len(p) <= Len(s) /\ \A i \in 1..Len(p) : s[i] = p[i]
<1>1. ASSUME Len(p) <= Len(s), \A i \in 1..Len(p) : s[i] = p[i] PROVE IsPrefix(p, s)
  BY <1>1, PrefixFact
<1>2. ASSUME IsPrefix(p, s) PROVE Len(p) <= Len(s) /\ \A i \in 1..Len(p) : s[i] = p[i]
  <2>1. Len(p) <= Len(s) /\ SubSeq(p, 1, Len(p)) = SubSeq(s, 1, Len(p))
    BY <1>2 DEF IsPrefix
  <2>2. Len(p) \in 0..Len(p) /\ Len(p) \in 0..Len(s)
    BY <2>1 DEF IsSeq
  <2>3. \A i \in 1..Len(p) : SubSeq(p, 1, Len(p))[i] = p[i]
    BY <2>2, CutFact
  <2>4. \A i \in 1..Len(p) : SubSeq(s, 1, Len(p))[i] = s[i]
    BY <2>2, CutFact
  <2> QED BY <2>1, <2>3, <2>4
<1> QED BY <1>1, <1>2

LEMMA TableRange ==
    ASSUME NEW k \in DOMAIN CommandTable
    PROVE  k \in 1..14
BY DEF CommandTable

\* The pieces that the prefixes of the table begin with.
FirstPiece(k, x) ==
    \/ k = 1 /\ x = "log"
    \/ k = 2 /\ x = "message"
    \/ k = 3 /\ x = "broadcast"
    \/ k = 4 /\ x = "block"
    \/ k = 5 /\ x = "un"
    \/ k = 6 /\ x = "log"
    \/ k = 7 /\ x = "whoelse"
    \/ k = 8 /\ x = "whoelse"
    \/ k = 9 /\ x = "start"
    \/ k = 10 /\ x = "private"
    \/ k = 11 /\ x = "stop"
    \/ k = 12 /\ x = "register"
    \/ k = 13 /\ x = "search"
    \/ k = 14 /\ x = "search"

LEMMA Tuples ==
    ASSUME NEW p, (\E a : p = <<a>>) \/ (\E a, b : p = <<a, b>>) \/ (\E a, b, c : p = <<a, b, c>>)
    PROVE  IsSeq(p) /\ Len(p) \in 1..3
<1>1. ASSUME NEW a, p = <<a>> PROVE IsSeq(p) /\ Len(p) = 1
  BY <1>1 DEF IsSeq
<1>2. ASSUME NEW a, NEW b, p = <<a, b>> PROVE IsSeq(p) /\ Len(p) = 2
  BY <1>2 DEF IsSeq
<1>3. ASSUME NEW a, NEW b, NEW c, p = <<a, b, c>> PROVE IsSeq(p) /\ Len(p) = 3
  BY <1>3 DEF IsSeq
<1> QED BY <1>1, <1>2, <1>3

LEMMA TablePieces ==
    ASSUME NEW k \in DOMAIN CommandTable, NEW p, p = CommandTable[k]
    PROVE  IsSeq(p) /\ Len(p) \in 1..3 /\ FirstPiece(k, p[1])
<1>1. k \in 1..14
  BY TableRange
<1>2. PICK sp : sp = " "
  OBVIOUS
<1>3. CASE k = 1
  <2>1. p = <<"log", "in">>
    BY <1>3 DEF CommandTable
  <2>2. Len(p) = 2 /\ p[1] = "log"
    BY <2>1
  <2>3. FirstPiece(k, p[1])
    BY <1>3, <2>2 DEF FirstPiece
  <2> QED BY <2>1, <2>3, Tuples
<1>4. CASE k = 2
  <2>1. p = <<"message", sp>>
    BY <1>4, <1>2 DEF CommandTable
  <2>2. Len(p) = 2 /\ p[1] = "message"
    BY <2>1
  <2>3. FirstPiece(k, p[1])
    BY <1>4, <2>2 DEF FirstPiece
  <2> QED BY <2>1, <2>3, Tuples
<1>5. CASE k = 3
  <2>1. p = <<"broadcast", sp>>
    BY <1>5, <1>2 DEF CommandTable
  <2>2. Len(p) = 2 /\ p[1] = "broadcast"
    BY <2>1
  <2>3. FirstPiece(k, p[1])
    BY <1>5, <2>2 DEF FirstPiece
  <2> QED BY <2>1, <2>3, Tuples
<1>6. CASE k = 4
  <2>1. p = <<"block", sp>>
    BY <1>6, <1>2 DEF CommandTable
  <2>2. Len(p) = 2 /\ p[1] = "block"
    BY <2>1
  <2>3. FirstPiece(k, p[1])
    BY <1>6, <2>2 DEF FirstPiece
  <2> QED BY <2>1, <2>3, Tuples
<1>7. CASE k = 5
  <2>1. p = <<"un", "block", sp>>
    BY <1>7, <1>2 DEF CommandTable
  <2>2. Len(p) = 3 /\ p[1] = "un"
    BY <2>1
  <2>3. FirstPiece(k, p[1])
    BY <1>7, <2>2 DEF FirstPiece
  <2> QED BY <2>1, <2>3, Tuples
<1>8. CASE k = 6
  <2>1. p = <<"log", "out">>
    BY <1>8 DEF CommandTable
  <2>2. Len(p) = 2 /\ p[1] = "log"
    BY <2>1
  <2>3. FirstPiece(k, p[1])
    BY <1>8, <2>2 DEF FirstPiece
  <2> QED BY <2>1, <2>3, Tuples
<1>9. CASE k = 7
  <2>1. p = <<"whoelse", "since", sp>>
    BY <1>9, <1>2 DEF CommandTable
  <2>2. Len(p) = 3 /\ p[1] = "whoelse"
    BY <2>1
  <2>3. FirstPiece(k, p[1])
    BY <1>9, <2>2 DEF FirstPiece
  <2> QED BY <2>1, <2>3, Tuples
<1>10. CASE k = 8
  <2>1. p = <<"whoelse">>
    BY <1>10 DEF CommandTable
  <2>2. Len(p) = 1 /\ p[1] = "whoelse"
    BY <2>1
  <2>3. FirstPiece(k, p[1])
    BY <1>10, <2>2 DEF FirstPiece
  <2> QED BY <2>1, <2>3, Tuples
<1>11. CASE k = 9
  <2>1. p = <<"start", "private", sp>>
    BY <1>11, <1>2 DEF CommandTable
  <2>2. Len(p) = 3 /\ p[1] = "start"
    BY <2>1
  <2>3. FirstPiece(k, p[1])
    BY <1>11, <2>2 DEF FirstPiece
  <2> QED BY <2>1, <2>3, Tuples
<1>12. CASE k = 10
  <2>1. p = <<"private", sp>>
    BY <1>12, <1>2 DEF CommandTable
  <2>2. Len(p) = 2 /\ p[1] = "private"
    BY <2>1
  <2>3. FirstPiece(k, p[1])
    BY <1>12, <2>2 DEF FirstPiece
  <2> QED BY <2>1, <2>3, Tuples
<1>13. CASE k = 11
  <2>1. p = <<"stop", "private", sp>>
    BY <1>13, <1>2 DEF CommandTable
  <2>2. Len(p) = 3 /\ p[1] = "stop"
    BY <2>1
  <2>3. FirstPiece(k, p[1])
    BY <1>13, <2>2 DEF FirstPiece
  <2> QED BY <2>1, <2>3, Tuples
<1>14. CASE k = 12
  <2>1. p = <<"register">>
    BY <1>14 DEF CommandTable
  <2>2. Len(p) = 1 /\ p[1] = "register"
    BY <2>1
  <2>3. FirstPiece(k, p[1])
    BY <1>14, <2>2 DEF FirstPiece
  <2> QED BY <2>1, <2>3, Tuples
<1>15. CASE k = 13
  <2>1. p = <<"search", "File", sp>>
    BY <1>15, <1>2 DEF CommandTable
  <2>2. Len(p) = 3 /\ p[1] = "search"
    BY <2>1
  <2>3. FirstPiece(k, p[1])
    BY <1>15, <2>2 DEF FirstPiece
  <2> QED BY <2>1, <2>3, Tuples
<1>16. CASE k = 14
  <2>1. p = <<"search", "Chunk", sp>>
    BY <1>16, <1>2 DEF CommandTable
  <2>2. Len(p) = 3 /\ p[1] = "search"
    BY <2>1
  <2>3. FirstPiece(k, p[1])
    BY <1>16, <2>2 DEF FirstPiece
  <2> QED BY <2>1, <2>3, Tuples
<1> QED BY <1>1, <1>3, <1>4, <1>5, <1>6, <1>7, <1>8, <1>9, <1>10, <1>11, <1>12, <1>13, <1>14, <1>15, <1>16

LEMMA SameFirstPiece ==
    ASSUME NEW j \in Int, NEW k \in Int, NEW x, FirstPiece(j, x), FirstPiece(k, x), j < k
    PROVE  (j = 1 /\ k = 6) \/ (j = 7 /\ k = 8) \/ (j = 13 /\ k = 14)
<1>1. CASE x = "log"
  BY <1>1 DEF FirstPiece
<1>2. CASE x = "whoelse"
  BY <1>2 DEF FirstPiece
<1>3. CASE x = "search"
  BY <1>3 DEF FirstPiece
<1>4. CASE x \notin {"log", "whoelse", "search"}
  BY <1>4 DEF FirstPiece
<1> QED BY <1>1, <1>2, <1>3, <1>4

\* A line that has a prefix of the table begins with its pieces.
LEMMA MatchFact ==
    ASSUME NEW line, IsSeq(line), NEW k \in Matches(line), NEW p, p = CommandTable[k]
    PROVE  /\ k \in 1..14 /\ Len(p) <= Len(line)
           /\ \A i \in 1..Len(p) : line[i] = p[i]
           /\ FirstPiece(k, line[1])
<1>1. k \in DOMAIN CommandTable /\ IsPrefix(p, line)
  BY DEF Matches
<1>2. IsSeq(p) /\ Len(p) \in 1..3 /\ FirstPiece(k, p[1])
  BY <1>1, TablePieces
<1>3. Len(p) <= Len(line) /\ \A i \in 1..Len(p) : line[i] = p[i]
  BY <1>1, <1>2, BeginsWith
<1>4. 1 \in 1..Len(p)
  BY <1>2
<1>5. k \in 1..14
  BY <1>1, TableRange
<1> QED BY <1>2, <1>3, <1>4, <1>5

\* A line has the prefixes of two commands only when it is a whoelsesince.
LEMMA OneCommand ==
    ASSUME NEW line, IsSeq(line), NEW j \in Matches(line), NEW k \in Matches(line), j < k
    PROVE  j = 7 /\ k = 8
<1>1. PICK p : p = CommandTable[j]
  OBVIOUS
<1>2. PICK q : q = CommandTable[k]
  OBVIOUS
<1>3. j \in 1..14 /\ FirstPiece(j, line[1]) /\ \A i \in 1..Len(p) : line[i] = p[i]
  BY <1>1, MatchFact
<1>4. k \in 1..14 /\ FirstPiece(k, line[1]) /\ \A i \in 1..Len(q) : line[i] = q[i]
  BY <1>2, MatchFact
<1>5. (j = 1 /\ k = 6) \/ (j = 7 /\ k = 8) \/ (j = 13 /\ k = 14)
  <2>1. j \in Int /\ k \in Int
    BY <1>3, <1>4
  <2> QED BY <1>3, <1>4, <2>1, SameFirstPiece
<1>6. ~(j = 1 /\ k = 6)
  <2> SUFFICES ASSUME j = 1, k = 6 PROVE FALSE
    OBVIOUS
  <2>1. p = <<"log", "in">> /\ q = <<"log", "out">>
    BY <1>1, <1>2 DEF CommandTable
  <2>2. Len(p) = 2 /\ Len(q) = 2 /\ p[2] = "in" /\ q[2] = "out"
    BY <2>1
  <2> QED BY <1>3, <1>4, <2>2
<1>7. ~(j = 13 /\ k = 14)
  <2> SUFFICES ASSUME j = 13, k = 14 PROVE FALSE
    OBVIOUS
  <2>1. p = <<"search", "File", " ">> /\ q = <<"search", "Chunk", " ">>
    BY <1>1, <1>2 DEF CommandTable
  <2>2. Len(p) = 3 /\ Len(q) = 3 /\ p[2] = "File" /\ q[2] = "Chunk"
    BY <2>1
  <2> QED BY <1>3, <1>4, <2>2
<1> QED BY <1>5, <1>6, <1>7

AsksSince(args) == IsPrefix(<<"since", " ">>, args)

\* Whatever follows a prefix of the table, the line runs its command on what follows,
\* except that "whoelse" with "since " after it is the other command.  A command that
\* the table had put after one whose name begins as its own would never be found.
THEOREM CommandIsFound ==
    ASSUME NEW k \in DOMAIN CommandTable, NEW args, IsSeq(args),
           k = 8 => ~AsksSince(args)
    PROVE  ParseCommand(CommandTable[k] \o args) = Run(k, args)
<1>1. PICK p : p = CommandTable[k]
  OBVIOUS
<1>2. IsSeq(p) /\ Len(p) \in 1..3 /\ k \in 1..14
  BY <1>1, TablePieces, TableRange
<1>3. PICK line : line = p \o args
  OBVIOUS
<1>4. /\ IsSeq(line) /\ Len(line) = Len(p) + Len(args) /\ Len(args) \in Nat
      /\ \A i \in 1..Len(p) : line[i] = p[i]
      /\ \A i \in 1..Len(args) : line[Len(p) + i] = args[i]
  BY <1>2, <1>3, ConcatFact
<1>5. k \in Matches(line)
  <2>1. Len(p) <= Len(line)
    BY <1>2, <1>4
  <2>2. IsPrefix(p, line)
    BY <1>2, <1>4, <2>1, BeginsWith
  <2> QED BY <1>1, <2>2 DEF Matches
<1>6. \A j \in Matches(line) : k <= j
  <2> SUFFICES ASSUME NEW j \in Matches(line), j < k PROVE FALSE
    <3>1. \A j \in Matches(line) : j \in 1..14
      BY TableRange DEF Matches
    <3> QED BY <1>2, <3>1
  <2>1. j = 7 /\ k = 8
    BY <1>4, <1>5, OneCommand
  <2>2. PICK q : q = CommandTable[j]
    OBVIOUS
  <2>3. p = <<"whoelse">> /\ q = <<"whoelse", "since", " ">>
    BY <1>1, <2>1, <2>2 DEF CommandTable
  <2>4. Len(p) = 1 /\ Len(q) = 3 /\ q[2] = "since" /\ q[3] = " "
    BY <2>3
  <2>5. Len(line) >= 3 /\ line[2] = "since" /\ line[3] = " "
    <3>1. Len(q) <= Len(line) /\ \A i \in 1..Len(q) : line[i] = q[i]
      BY <1>4, <2>2, MatchFact
    <3>2. Len(line) \in Int
      BY <1>4 DEF IsSeq
    <3>3. Len(q) = 3
      BY <2>4
    <3>4. 2 \in 1..Len(q) /\ 3 \in 1..Len(q)
      BY <3>3
    <3>5. Len(line) >= 3
      BY <3>1, <3>2, <3>3
    <3>6. line[2] = q[2] /\ line[3] = q[3]
      BY <3>1, <3>4
    <3> QED BY <2>4, <3>5, <3>6
  <2>6. PICK n \in Nat : n = Len(args)
    BY <1>4
  <2>7. n >= 2
    <3>1. Len(line) = Len(p) + Len(args)
      BY <1>4
    <3>2. Len(p) = 1
      BY <2>4
    <3>3. Len(line) >= 3
      BY <2>5
    <3> QED BY <2>6, <3>1, <3>2, <3>3
  <2>8. 1 \in 1..n /\ 2 \in 1..n
    BY <2>7
  <2>9. line[1 + 1] = args[1] /\ line[1 + 2] = args[2]
    BY <1>4, <2>4, <2>6, <2>8
  <2>10. args[1] = "since" /\ args[2] = " "
    <3>1. line[1 + 1] = line[2] /\ line[1 + 2] = line[3]
      OBVIOUS
    <3>2. line[2] = "since" /\ line[3] = " "
      BY <2>5
    <3> QED BY <2>9, <3>1, <3>2
  <2>11. AsksSince(args)
    <3>1. PICK r : r = <<"since", " ">>
      OBVIOUS
    <3>2. Len(r) = 2 /\ r[1] = "since" /\ r[2] = " "
      BY <3>1
    <3>3. IsSeq(r)
      BY <3>1, Tuples
    <3>4. Len(r) <= Len(args)
      BY <2>6, <2>7, <3>2
    <3>5. ASSUME NEW i \in 1..Len(r) PROVE args[i] = r[i]
      <4>1. Len(r) = 2
        BY <3>2
      <4>2. i = 1 \/ i = 2
        BY <4>1
      <4> QED BY <2>10, <3>2, <4>2
    <3>6. IsPrefix(r, args)
      BY <3>3, <3>4, <3>5, BeginsWith
    <3> QED BY <3>1, <3>6 DEF AsksSince
  <2> QED BY <2>1, <2>11
<1>7. (CHOOSE x \in Matches(line) : \A j \in Matches(line) : x <= j) = k
  <2>1. \A x \in Matches(line) : x \in Int
    BY TableRange DEF Matches
  <2>2. \A x \in Matches(line) : (\A j \in Matches(line) : x <= j) => x = k
    BY <1>2, <1>5, <1>6, <2>1
  <2> QED BY <1>5, <1>6, <2>2
<1>8. SubSeq(line, Len(p) + 1, Len(line)) = args
  <2>1. PICK t : t = SubSeq(line, Len(p) + 1, Len(line))
    OBVIOUS
  <2>2. Len(p) \in 0..Len(line)
    BY <1>2, <1>4
  <2>3. IsSeq(t) /\ Len(t) = Len(line) - Len(p) /\ \A i \in 1..(Len(line) - Len(p)) : t[i] = line[Len(p) + i]
    BY <1>4, <2>1, <2>2, CutFact
  <2>4. Len(line) - Len(p) = Len(args)
    BY <1>2, <1>4
  <2>5. Len(t) = Len(args) /\ \A i \in 1..Len(t) : t[i] = args[i]
    BY <1>4, <2>3, <2>4
  <2>6. t = args
    BY <2>3, <2>5, SameSeq
  <2> QED BY <2>1, <2>6
<1>9. ParseCommand(line) = Run(k, args)
  BY <1>1, <1>5, <1>7, <1>8 DEF ParseCommand
<1> QED BY <1>1, <1>3, <1>9

LEMMA WordFact ==
    ASSUME NEW v \in Int
    PROVE  U32(v) \in 0..(Word - 1) /\ U32(U32(v)) = U32(v)
<1>1. Word \in Nat /\ Word > 0
  BY WordAssumption
<1> QED BY <1>1 DEF U32

LEMMA AtoiIsInt ==
    ASSUME NEW args
    PROVE  Atoi(args) \in Int
BY NumeralAssumption DEF Atoi

LEMMA MakesRequest ==
    ASSUME NEW t \in DOMAIN Handlers, NEW fields, NEW name, NEW schema,
           Handlers[t] = <<name, schema>>, Fits(fields, schema)
    PROVE  Makes(IMRequest(t, Encode(schema, fields)), <<name, fields>>)
<1>1. PICK w : w = <<name, fields>>
  OBVIOUS
<1>2. w[2] = fields /\ Handlers[t][1] = name /\ Handlers[t][2] = schema
  BY <1>1
<1>3. w = <<Handlers[t][1], w[2]>>
  BY <1>1, <1>2
<1>4. Fits(w[2], Handlers[t][2]) /\ IMRequest(t, Encode(schema, fields)) = IMRequest(t, Encode(Handlers[t][2], w[2]))
  BY <1>2
<1>5. Makes(IMRequest(t, Encode(schema, fields)), w)
  BY <1>3, <1>4 DEF Makes
<1> QED BY <1>1, <1>5

\* A sequence is cut at the first place of x.
Firsts(x, args) == {k \in DOMAIN args : args[k] = x /\ \A j \in 1..(k - 1) : args[j] # x}
CutsAt(x, args) ==
    {<<SubSeq(args, 1, i - 1), SubSeq(args, i + 1, Len(args))>> : i \in Firsts(x, args)}

LEMMA FirstCut ==
    ASSUME NEW x, NEW name, NEW text, IsSeq(name), IsSeq(text), \A i \in 1..Len(name) : name[i] # x
    PROVE  CutsAt(x, (name \o <<x>>) \o text) = {<<name, text>>}
<1>1. PICK s : s = <<x>>
  OBVIOUS
<1>2. IsSeq(s) /\ Len(s) = 1 /\ s[1] = x
  BY <1>1 DEF IsSeq
<1>3. PICK h : h = name \o s
  OBVIOUS
<1>4. PICK n \in Nat : n = Len(name)
  BY DEF IsSeq
<1>5. /\ IsSeq(h) /\ Len(h) = n + 1 /\ \A i \in 1..n : h[i] = name[i]
      /\ h[n + 1] = x
  <2>1. IsSeq(s)
    BY <1>2
  <2>2. /\ IsSeq(h) /\ Len(h) = Len(name) + Len(s)
        /\ \A i \in 1..Len(name) : h[i] = name[i]
        /\ \A i \in 1..Len(s) : h[Len(name) + i] = s[i]
    BY <1>3, <2>1, ConcatFact
  <2>3. Len(s) = 1 /\ s[1] = x
    BY <1>2
  <2>4. 1 \in 1..Len(s)
    BY <2>3
  <2>5. h[n + 1] = s[1]
    BY <1>4, <2>2, <2>4
  <2> QED BY <1>4, <2>2, <2>3, <2>5
<1>6. PICK args : args = h \o text
  OBVIOUS
<1>7. args = (name \o <<x>>) \o text
  BY <1>1, <1>3, <1>6
<1>8. PICK m \in Nat : m = Len(text)
  BY DEF IsSeq
<1>9. /\ IsSeq(args) /\ Len(args) = n + 1 + m
      /\ \A i \in 1..(n + 1) : args[i] = h[i]
      /\ \A i \in 1..m : args[n + 1 + i] = text[i]
  <2>1. IsSeq(h)
    BY <1>5
  <2>2. /\ IsSeq(args) /\ Len(args) = Len(h) + Len(text)
        /\ \A i \in 1..Len(h) : args[i] = h[i]
        /\ \A i \in 1..Len(text) : args[Len(h) + i] = text[i]
    BY <1>6, <2>1, ConcatFact
  <2>3. Len(h) = n + 1
    BY <1>5
  <2> QED BY <1>8, <2>2, <2>3
<1>10. args[n + 1] = x /\ \A i \in 1..n : args[i] # x
  <2>1. n + 1 \in 1..(n + 1) /\ \A i \in 1..n : i \in 1..(n + 1)
    OBVIOUS
  <2>2. \A i \in 1..n : name[i] # x
    BY <1>4
  <2> QED BY <1>5, <1>9, <2>1, <2>2
<1>11. DOMAIN args = 1..(n + 1 + m)
  BY <1>9 DEF IsSeq
<1>12. PICK p \in Nat : p = n + 1
  OBVIOUS
<1>13. Firsts(x, args) = {p}
  <2>1. \A j \in 1..(p - 1) : j \in 1..n
    BY <1>12
  <2>2. p \in 1..(n + 1 + m)
    BY <1>12
  <2>3. p \in Firsts(x, args)
    BY <1>10, <1>11, <1>12, <2>1, <2>2 DEF Firsts
  <2>4. ASSUME NEW k \in Firsts(x, args) PROVE k = p
    <3>1. k \in 1..(n + 1 + m) /\ args[k] = x /\ \A j \in 1..(k - 1) : args[j] # x
      BY <1>11 DEF Firsts
    <3>2. k \in Int /\ k >= 1
      BY <3>1
    <3>3. ~(k <= n)
      <4>1. k <= n => k \in 1..n
        BY <3>2
      <4> QED BY <1>10, <3>1, <4>1
    <3>4. ~(p < k)
      <4>1. p < k => p \in 1..(k - 1)
        BY <1>12, <3>2
      <4> QED BY <1>10, <1>12, <3>1, <4>1
    <3> QED BY <1>12, <3>2, <3>3, <3>4
  <2> QED BY <2>3, <2>4
<1>14. SubSeq(args, 1, n) = name /\ SubSeq(args, n + 2, Len(args)) = text
  <2>1. n \in 0..Len(args) /\ n + 1 \in 0..Len(args)
    BY <1>9
  <2>2. SubSeq(args, 1, n) = name
    <3>1. PICK a : a = SubSeq(args, 1, n)
      OBVIOUS
    <3>2. IsSeq(a) /\ Len(a) = n /\ \A i \in 1..n : a[i] = args[i]
      BY <1>9, <2>1, <3>1, CutFact
    <3>3. Len(a) = Len(name)
      BY <1>4, <3>2
    <3>4. \A i \in 1..Len(a) : a[i] = name[i]
      <4>1. \A i \in 1..n : i \in 1..(n + 1)
        OBVIOUS
      <4> QED BY <1>5, <1>9, <3>2, <4>1
    <3>5. a = name
      BY <3>2, <3>3, <3>4, SameSeq
    <3> QED BY <3>1, <3>5
  <2>3. SubSeq(args, n + 2, Len(args)) = text
    <3>1. PICK q \in Nat : q = n + 1
      OBVIOUS
    <3>2. PICK a : a = SubSeq(args, q + 1, Len(args))
      OBVIOUS
    <3>3. IsSeq(args)
      BY <1>9
    <3>4. q \in 0..Len(args)
      BY <2>1, <3>1
    <3>5. IsSeq(a) /\ Len(a) = Len(args) - q /\ \A i \in 1..(Len(args) - q) : a[i] = args[q + i]
      BY <3>2, <3>3, <3>4, CutFact
    <3>6. Len(args) - q = m
      BY <1>9, <3>1
    <3>7. Len(a) = Len(text)
      BY <1>8, <3>5, <3>6
    <3>8. \A i \in 1..Len(a) : a[i] = text[i]
      BY <1>9, <3>1, <3>5, <3>6
    <3>9. a = text
      BY <3>5, <3>7, <3>8, SameSeq
    <3>10. n + 2 = q + 1
      BY <3>1
    <3> QED BY <3>2, <3>9, <3>10
  <2> QED BY <2>2, <2>3
<1>15. p - 1 = n /\ p + 1 = n + 2
  BY <1>12
<1>16. CutsAt(x, args) = {<<SubSeq(args, 1, p - 1), SubSeq(args, p + 1, Len(args))>>}
  BY <1>13 DEF CutsAt
<1> QED BY <1>14, <1>15, <1>16, <1>7

\* The name before the first space and the text after it.
LEMMA CutIs ==
    ASSUME NEW name, NEW text, IsSeq(name), IsSeq(text), \A i \in 1..Len(name) : name[i] # " "
    PROVE  Cuts((name \o <<" ">>) \o text) = {<<name, text>>}
<1>1. CutsAt(" ", (name \o <<" ">>) \o text) = {<<name, text>>}
  BY FirstCut, Zenon
<1>2. Cuts((name \o <<" ">>) \o text) = CutsAt(" ", (name \o <<" ">>) \o text)
  BY Zenon DEF Cuts, CutsAt, Firsts
<1> QED BY <1>1, <1>2, Zenon

\* What a command means when it is written before args.  A name or a text is whatever
\* follows; of a number, what is left of it in 32 bits.
HasNoSpace(name) == \A i \in 1..Len(name) : name[i] # " "
Spaced(name, text) == (name \o <<" ">>) \o text
MeansTo(name, text, means) == means = <<"message", <<FALSE, name, text>> >>
MeansToAll(text, means)    == means = <<"message", <<TRUE, <<>>, text>> >>
MeansSince(args, means)    == means = <<"whoelse", <<TRUE, U32(Atoi(args)), FALSE>> >>
MeansNow(means)            == means = <<"whoelse", <<FALSE, 0, TRUE>> >>
Means(k, args, means) ==
    \/ k = 2 /\ \E name, text : /\ IsSeq(name) /\ IsSeq(text) /\ HasNoSpace(name)
                                /\ args = Spaced(name, text) /\ MeansTo(name, text, means)
    \/ k = 3 /\ MeansToAll(args, means)
    \/ k = 4 /\ means = <<"block", <<args>> >>
    \/ k = 5 /\ means = <<"unblock", <<args>> >>
    \/ k = 6 /\ means = <<"logout", <<>> >>
    \/ k = 7 /\ MeansSince(args, means)
    \/ k = 8 /\ MeansNow(means)
    \/ k = 9 /\ means = <<"getip", <<args>> >>
    \/ k = 10 /\ means = <<>>
    \/ k = 11 /\ means = <<>>
    \/ k = 13 /\ means = <<"searchfile", <<args, <<>> >> >>

LEMMA OneAndTwo ==
    ASSUME NEW a, NEW b, NEW c
    PROVE  <<a>> \o <<b, c>> = <<a, b, c>>
<1>1. PICK p, q, r : p = <<a>> /\ q = <<b, c>> /\ r = <<a, b, c>>
  OBVIOUS
<1>2. IsSeq(p) /\ IsSeq(q) /\ IsSeq(r)
  BY <1>1, Tuples
<1>3. Len(p) = 1 /\ Len(q) = 2 /\ Len(r) = 3
  BY <1>1
<1>4. p[1] = r[1] /\ q[1] = r[2] /\ q[2] = r[3]
  BY <1>1
<1>5. PICK t : t = p \o q
  OBVIOUS
<1>6. /\ IsSeq(t) /\ Len(t) = Len(p) + Len(q)
      /\ \A i \in 1..Len(p) : t[i] = p[i]
      /\ \A i \in 1..Len(q) : t[Len(p) + i] = q[i]
  BY <1>2, <1>5, ConcatFact
<1>7. Len(t) = Len(r)
  BY <1>3, <1>6
<1>8. t[1] = r[1]
  BY <1>3, <1>4, <1>6
<1>9. t[1 + 1] = r[2] /\ t[1 + 2] = r[3]
  <2>1. 1 \in 1..Len(q) /\ 2 \in 1..Len(q)
    BY <1>3
  <2>2. t[Len(p) + 1] = q[1] /\ t[Len(p) + 2] = q[2]
    BY <1>6, <2>1
  <2> QED BY <1>3, <1>4, <2>2
<1>10. ASSUME NEW i \in 1..Len(t) PROVE t[i] = r[i]
  <2>1. Len(t) = 3
    BY <1>3, <1>7
  <2>2. i = 1 \/ i = 1 + 1 \/ i = 1 + 2
    BY <2>1
  <2>3. 1 + 1 = 2 /\ 1 + 2 = 3
    OBVIOUS
  <2> QED BY <1>8, <1>9, <2>2, <2>3
<1>11. t = r
  BY <1>2, <1>6, <1>7, <1>10, SameSeq
<1> QED BY <1>1, <1>5, <1>11

LEMMA MessageFields ==
    ASSUME NEW name, NEW text, IsSeq(name), IsSeq(text), HasNoSpace(name),
           NEW args, args = Spaced(name, text)
    PROVE  Message(args) = IMRequest(2, Encode(MessageRequest, <<FALSE, name, text>>))
<1>1. Cuts(args) = {<<name, text>>}
  BY CutIs, Zenon DEF HasNoSpace, Spaced
<1>2. Cuts(args) # {} /\ TheCut(args) = <<name, text>>
  BY <1>1 DEF TheCut
<1>3. ASSUME NEW b PROVE <<b>> \o <<name, text>> = <<b, name, text>>
  BY OneAndTwo
<1>4. PICK b : b = FALSE
  OBVIOUS
<1>5. <<b>> \o TheCut(args) = <<b, name, text>>
  BY <1>2, <1>3
<1>6. Message(args) = IMRequest(2, Encode(MessageRequest, <<b>> \o TheCut(args)))
  BY <1>2, <1>4, Zenon DEF Message, WithCut
<1> QED BY <1>4, <1>5, <1>6, Zenon

\* A number is cut to 32 bits when it is sent.
LEMMA SinceFields ==
    ASSUME NEW v \in Int
    PROVE  Encode(WhoElseRequest, <<TRUE, v, FALSE>>) = Encode(WhoElseRequest, <<TRUE, U32(v), FALSE>>)
<1>1. PICK x \in 0..(Word - 1) : x = U32(v) /\ U32(x) = U32(v)
  BY WordFact
<1>2. PICK t, e : t = TRUE /\ e = FALSE
  OBVIOUS
<1>3. PICK a : a = <<t, v, e>>
  OBVIOUS
<1>4. PICK b : b = <<t, x, e>>
  OBVIOUS
<1>5. ASSUME NEW i \in 1..3 PROVE Unit(WhoElseRequest[i], a[i]) = Unit(WhoElseRequest[i], b[i])
  <2>1. CASE i = 2
    <3>1. WhoElseRequest[i] = "uint32" /\ a[i] = v /\ b[i] = x
      BY <1>3, <1>4, <2>1 DEF WhoElseRequest
    <3> QED BY <1>1, <3>1 DEF Unit
  <2>2. CASE i # 2
    <3>1. a[i] = b[i]
      BY <1>3, <1>4, <2>2
    <3> QED BY <3>1
  <2> QED BY <2>1, <2>2
<1>6. DOMAIN WhoElseRequest = 1..3
  BY DEF WhoElseRequest
<1>7. Encode(WhoElseRequest, a) = Encode(WhoElseRequest, b)
  BY <1>5, <1>6 DEF Encode
<1>8. a = <<TRUE, v, FALSE>> /\ b = <<TRUE, U32(v), FALSE>>
  BY <1>1, <1>3, <1>4, <1>2, Zenon
<1> QED BY <1>7, <1>8, Zenon

LEMMA FieldsFit ==
    ASSUME NEW b \in BOOLEAN, NEW x, NEW y
    PROVE  /\ Fits(<<b, x, y>>, MessageRequest)
           /\ x \in 0..(Word - 1) /\ y \in BOOLEAN => Fits(<<b, x, y>>, WhoElseRequest)
<1>1. PICK f : f = <<b, x, y>>
  OBVIOUS
<1>2. f = [i \in 1..3 |-> f[i]] /\ f[1] \in BOOLEAN /\ f[2] = x /\ f[3] = y
  BY <1>1
<1>3. Fits(f, MessageRequest)
  BY <1>2 DEF Fits, MessageRequest
<1>4. x \in 0..(Word - 1) /\ y \in BOOLEAN => Fits(f, WhoElseRequest)
  BY <1>2 DEF Fits, WhoElseRequest
<1> QED BY <1>1, <1>3, <1>4

LEMMA RunMakes ==
    ASSUME NEW k, NEW args, NEW means, Means(k, args, means), means # <<>>
    PROVE  Makes(Run(k, args), means)
<1>1. CASE k = 2
  <2>1. PICK name, text : /\ IsSeq(name) /\ IsSeq(text) /\ HasNoSpace(name)
                          /\ args = Spaced(name, text) /\ MeansTo(name, text, means)
    BY <1>1 DEF Means
  <2>2. PICK fields : fields = <<FALSE, name, text>>
    OBVIOUS
  <2>3. means = <<"message", fields>>
    BY <2>1, <2>2, Zenon DEF MeansTo
  <2>4. Fits(fields, MessageRequest)
    BY <2>2, FieldsFit, Zenon
  <2>5. 2 \in DOMAIN Handlers /\ Handlers[2] = <<"message", MessageRequest>>
    BY DEF Handlers
  <2>6. Makes(IMRequest(2, Encode(MessageRequest, fields)), means)
    BY <2>3, <2>4, <2>5, MakesRequest
  <2>7. Run(k, args) = Message(args)
    BY <1>1 DEF Run
  <2>8. Message(args) = IMRequest(2, Encode(MessageRequest, fields))
    BY <2>1, <2>2, MessageFields, Zenon
  <2> QED BY <2>6, <2>7, <2>8
<1>2. CASE k = 3
  <2>1. MeansToAll(args, means)
    BY <1>2 DEF Means
  <2>2. PICK fields : fields = <<TRUE, <<>>, args>>
    OBVIOUS
  <2>3. means = <<"message", fields>>
    BY <2>1, <2>2, Zenon DEF MeansToAll
  <2>4. Fits(fields, MessageRequest)
    BY <2>2, FieldsFit, Zenon
  <2>5. 2 \in DOMAIN Handlers /\ Handlers[2] = <<"message", MessageRequest>>
    BY DEF Handlers
  <2>6. Makes(IMRequest(2, Encode(MessageRequest, fields)), means)
    BY <2>3, <2>4, <2>5, MakesRequest
  <2>7. Run(k, args) = Broadcast(args)
    BY <1>2 DEF Run
  <2>8. Broadcast(args) = IMRequest(2, Encode(MessageRequest, fields))
    BY <2>2, Zenon DEF Broadcast
  <2> QED BY <2>6, <2>7, <2>8
<1>3. CASE k = 4
  <2>1. PICK fields : fields = <<args>>
    OBVIOUS
  <2>2. means = <<"block", fields>>
    BY <1>3, <2>1 DEF Means
  <2>3. Fits(fields, BlockRequest)
    BY <2>1 DEF Fits, BlockRequest
  <2>4. 4 \in DOMAIN Handlers /\ Handlers[4] = <<"block", BlockRequest>>
    BY DEF Handlers
  <2>5. Makes(IMRequest(4, Encode(BlockRequest, fields)), means)
    BY <2>2, <2>3, <2>4, MakesRequest
  <2>6. Run(k, args) = IMRequest(4, Encode(BlockRequest, fields))
    BY <1>3, <2>1 DEF Run, Block
  <2> QED BY <2>5, <2>6
<1>4. CASE k = 5
  <2>1. PICK fields : fields = <<args>>
    OBVIOUS
  <2>2. means = <<"unblock", fields>>
    BY <1>4, <2>1 DEF Means
  <2>3. Fits(fields, UnBlockRequest)
    BY <2>1 DEF Fits, UnBlockRequest
  <2>4. 5 \in DOMAIN Handlers /\ Handlers[5] = <<"unblock", UnBlockRequest>>
    BY DEF Handlers
  <2>5. Makes(IMRequest(5, Encode(UnBlockRequest, fields)), means)
    BY <2>2, <2>3, <2>4, MakesRequest
  <2>6. Run(k, args) = IMRequest(5, Encode(UnBlockRequest, fields))
    BY <1>4, <2>1 DEF Run, Unblock
  <2> QED BY <2>5, <2>6
<1>5. CASE k = 6
  <2>1. PICK fields : fields = <<>>
    OBVIOUS
  <2>2. means = <<"logout", fields>>
    BY <1>5, <2>1 DEF Means
  <2>3. Fits(fields, LogOutRequest)
    BY <2>1 DEF Fits, LogOutRequest
  <2>4. 6 \in DOMAIN Handlers /\ Handlers[6] = <<"logout", LogOutRequest>>
    BY DEF Handlers
  <2>5. Makes(IMRequest(6, Encode(LogOutRequest, fields)), means)
    BY <2>2, <2>3, <2>4, MakesRequest
  <2>6. Run(k, args) = IMRequest(6, Encode(LogOutRequest, fields))
    BY <1>5, <2>1 DEF Run, Logout
  <2> QED BY <2>5, <2>6
<1>6. CASE k = 7
  <2>1. MeansSince(args, means)
    BY <1>6 DEF Means
  <2>2. PICK fields : fields = <<TRUE, U32(Atoi(args)), FALSE>>
    OBVIOUS
  <2>3. means = <<"whoelse", fields>>
    BY <2>1, <2>2, Zenon DEF MeansSince
  <2>4. Fits(fields, WhoElseRequest)
    <3>1. U32(Atoi(args)) \in 0..(Word - 1)
      BY AtoiIsInt, WordFact
    <3> QED BY <2>2, <3>1, FieldsFit, Zenon
  <2>5. 3 \in DOMAIN Handlers /\ Handlers[3] = <<"whoelse", WhoElseRequest>>
    BY DEF Handlers
  <2>6. Makes(IMRequest(3, Encode(WhoElseRequest, fields)), means)
    BY <2>3, <2>4, <2>5, MakesRequest
  <2>7. Run(k, args) = WhoElseSince(args)
    BY <1>6 DEF Run
  <2>8. WhoElseSince(args) = IMRequest(3, Encode(WhoElseRequest, fields))
    <3>1. Atoi(args) \in Int
      BY AtoiIsInt
    <3>2. Encode(WhoElseRequest, <<TRUE, Atoi(args), FALSE>>) = Encode(WhoElseRequest, <<TRUE, U32(Atoi(args)), FALSE>>)
      BY <3>1, SinceFields, Zenon
    <3> QED BY <2>2, <3>2, Zenon DEF WhoElseSince
  <2> QED BY <2>6, <2>7, <2>8
<1>7. CASE k = 8
  <2>1. MeansNow(means)
    BY <1>7 DEF Means
  <2>2. PICK fields : fields = <<FALSE, 0, TRUE>>
    OBVIOUS
  <2>3. means = <<"whoelse", fields>>
    BY <2>1, <2>2, Zenon DEF MeansNow
  <2>4. Fits(fields, WhoElseRequest)
    <3>1. 0 \in 0..(Word - 1)
      BY WordAssumption
    <3> QED BY <2>2, <3>1, FieldsFit, Zenon
  <2>5. 3 \in DOMAIN Handlers /\ Handlers[3] = <<"whoelse", WhoElseRequest>>
    BY DEF Handlers
  <2>6. Makes(IMRequest(3, Encode(WhoElseRequest, fields)), means)
    BY <2>3, <2>4, <2>5, MakesRequest
  <2>7. Run(k, args) = WhoElse
    BY <1>7 DEF Run
  <2>8. WhoElse = IMRequest(3, Encode(WhoElseRequest, fields))
    BY <2>2, Zenon DEF WhoElse
  <2> QED BY <2>6, <2>7, <2>8
<1>8. CASE k = 9
  <2>1. PICK fields : fields = <<args>>
    OBVIOUS
  <2>2. means = <<"getip", fields>>
    BY <1>8, <2>1 DEF Means
  <2>3. Fits(fields, GetIPRequest)
    BY <2>1 DEF Fits, GetIPRequest
  <2>4. 7 \in DOMAIN Handlers /\ Handlers[7] = <<"getip", GetIPRequest>>
    BY DEF Handlers
  <2>5. Makes(IMRequest(7, Encode(GetIPRequest, fields)), means)
    BY <2>2, <2>3, <2>4, MakesRequest
  <2>6. Run(k, args) = IMRequest(7, Encode(GetIPRequest, fields))
    BY <1>8, <2>1 DEF Run, StartPrivate
  <2> QED BY <2>5, <2>6
<1>9. CASE k = 13
  <2>1. PICK fields : fields = <<args, <<>> >>
    OBVIOUS
  <2>2. means = <<"searchfile", fields>>
    BY <1>9, <2>1 DEF Means
  <2>3. Fits(fields, SearchFileRequest)
    BY <2>1 DEF Fits, SearchFileRequest
  <2>4. 10 \in DOMAIN Handlers /\ Handlers[10] = <<"searchfile", SearchFileRequest>>
    BY DEF Handlers
  <2>5. Makes(IMRequest(10, Encode(SearchFileRequest, fields)), means)
    BY <2>2, <2>3, <2>4, MakesRequest
  <2>6. Run(k, args) = IMRequest(10, Encode(SearchFileRequest, fields))
    BY <1>9, <2>1 DEF Run, SearchFile
  <2> QED BY <2>5, <2>6
<1>10. k \in {2, 3, 4, 5, 6, 7, 8, 9, 13}
  BY DEF Means
<1> QED BY <1>1, <1>2, <1>3, <1>4, <1>5, <1>6, <1>7, <1>8, <1>9, <1>10

\* A line that is spelled as its command asks.
Spelled(l) == \E k \in DOMAIN CommandTable : \E args :
                  /\ IsSeq(args) /\ l.text = CommandTable[k] \o args /\ Means(k, args, l.means)
                  /\ k = 8 => ~AsksSince(args)

\* makes the request that it means: what follows the prefix reaches the request as it
\* is, spaces included, except that a message ends its recipient at the first one.
THEOREM SpelledIsUnderstood ==
    ASSUME NEW l, Spelled(l)
    PROVE  Understood(l)
<1>1. PICK k \in DOMAIN CommandTable : \E args :
                  /\ IsSeq(args) /\ l.text = CommandTable[k] \o args /\ Means(k, args, l.means)
                  /\ k = 8 => ~AsksSince(args)
  BY DEF Spelled
<1>2. PICK args : /\ IsSeq(args) /\ l.text = CommandTable[k] \o args /\ Means(k, args, l.means)
                  /\ k = 8 => ~AsksSince(args)
  BY <1>1
<1>3. ParseCommand(l.text) = Run(k, args)
  BY <1>2, CommandIsFound
<1>4. PICK means : means = l.means
  OBVIOUS
<1>5. Means(k, args, means)
  BY <1>2, <1>4
<1>6. CASE means # <<>>
  <2>1. Makes(Run(k, args), means)
    BY <1>5, <1>6, RunMakes
  <2> QED BY <1>3, <1>4, <1>6, <2>1 DEF Understood
<1>7. CASE means = <<>>
  <2>1. \A x, y : <<x, y>> # <<>>
    OBVIOUS
  <2>2. /\ \A name, text : ~MeansTo(name, text, means)
        /\ ~MeansToAll(args, means) /\ ~MeansSince(args, means) /\ ~MeansNow(means)
    BY <1>7, <2>1, Zenon DEF MeansTo, MeansToAll, MeansSince, MeansNow
  <2>3. k = 10 \/ k = 11
    BY <1>5, <1>7, <2>2 DEF Means
  <2>4. Run(k, args) = NoRequest
    BY <2>3 DEF Run
  <2> QED BY <1>3, <1>4, <1>7, <2>4 DEF Understood
<1> QED BY <1>6, <1>7
=============================================================================
