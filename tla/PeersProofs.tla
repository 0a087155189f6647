----------------------------- MODULE PeersProofs -----------------------------
(***************************************************************************)
(* Type correctness and NoDangling of Peers, for any number of sessions:   *)
(* user->client is an open connection that knows its user, whatever the    *)
(* two threads of each client do.  Then when a thread can fail, and that   *)
(* both sides agree in the end.                                            *)
(***************************************************************************)
EXTENDS Peers, TLAPS

\* Every connection comes from an answer to a startprivate command.
Counted == \A c, d \in Clients : c # d => answers[c] + answers[d] + conns <= starts

\* Connections are numbered as they are made.
Made == \A j \in Conns, c \in Clients : end[j][c] # "none" => j <= conns

\* What the input thread has read before it closes or sends.
Aimed ==
    \A c \in Clients : /\ input[c] = "closing" => target[c] # 0
                       /\ input[c] = "send" => sent[c] < MaxSent

IInv == TypeOK /\ NoDangling /\ Counted /\ Made /\ Aimed

-----------------------------------------------------------------------------
\* Each client has a peer, and it is another one.
LEMMA OtherOne == \A c \in Clients : Peer(c) \in Clients /\ Peer(c) # c
  BY TwoAssumption DEF Peer

\* What Init establishes.
LEMMA InitIInv == Init => IInv
PROOF
  <1> SUFFICES ASSUME Init PROVE IInv
    OBVIOUS
  <1> USE BoundsAssumption DEF Conns
  <1>1. TypeOK
    <2>1. starts \in 0..MaxStarts /\ conns \in 0..starts
      BY DEF Init
    <2>2. answers \in [Clients -> 0..MaxStarts] /\ sent \in [Clients -> 0..MaxSent]
      BY DEF Init
    <2>3. bound \in [Clients -> 0..conns] /\ target \in [Clients -> 0..conns]
      BY DEF Init
    <2>4. end \in [Conns -> [Clients -> {"none", "backlog", "open", "closed"}]]
      BY DEF Init
    <2>5. tag \in [Conns -> [Clients -> BOOLEAN]] /\ twice \in BOOLEAN /\ overlap \in BOOLEAN
      BY Zenon DEF Init
    <2>6. /\ input \in [Clients -> {"idle", "unhook", "close", "closing", "send"}]
          /\ network \in [Clients -> {"loop", "register"}] /\ failed \in {"no", "null", "again"}
      BY DEF Init
    <2> QED
      BY <2>1, <2>2, <2>3, <2>4, <2>5, <2>6 DEF TypeOK
  <1>2. NoDangling
    BY DEF Init, NoDangling
  <1>3. Counted
    BY DEF Init, Counted
  <1>4. Made
    BY DEF Init, Made
  <1>5. Aimed
    BY DEF Init, Aimed
  <1> QED
    BY <1>1, <1>2, <1>3, <1>4, <1>5 DEF IInv

\* The other steps leave the bindings and the ends as they are, and invent no answer.
LEMMA Elsewhere ==
    ASSUME IInv, UNCHANGED <<end, tag, bound, conns>>,
           answers' \in [Clients -> 0..MaxStarts], starts' \in conns..MaxStarts,
           \A c, d \in Clients : c # d => answers'[c] + answers'[d] + conns <= starts',
           target' \in [Clients -> 0..conns],
           input' \in [Clients -> {"idle", "unhook", "close", "closing", "send"}],
           network' \in [Clients -> {"loop", "register"}], failed' \in {"no", "null", "again"},
           sent' \in [Clients -> 0..MaxSent], Aimed', twice' \in BOOLEAN, overlap' \in BOOLEAN
    PROVE  IInv'
  BY BoundsAssumption DEF IInv, TypeOK, NoDangling, Counted, Made, Conns

\* A failure changes nothing else.
LEMMA FailStep == ASSUME IInv, NEW how \in {"null", "again"}, Fail(how) PROVE IInv'
  BY BoundsAssumption DEF IInv, TypeOK, NoDangling, Counted, Made, Aimed, Conns, Fail, connVars

\* close_socket unbinds whatever the user has, so a connection that is still bound
\* afterwards is not the one that was closed.
LEMMA CloseStep ==
    ASSUME IInv, NEW c \in Clients, NEW j \in 1..conns, CloseSocket(c, j)
    PROVE  /\ end' \in [Conns -> [Clients -> {"none", "backlog", "open", "closed"}]]
           /\ tag' \in [Conns -> [Clients -> BOOLEAN]]
           /\ bound' \in [Clients -> 0..conns]
           /\ \A d \in Clients : bound'[d] # 0 => end'[bound'[d]][d] = "open" /\ tag'[bound'[d]][d]
           /\ \A k \in Conns, d \in Clients : end'[k][d] # "none" => k <= conns
           /\ answers' = answers /\ conns' = conns
PROOF
  <1> USE BoundsAssumption DEF IInv, TypeOK, NoDangling, Made, Conns
  <1>1. end' = [end EXCEPT ![j][c] = "closed"] /\ answers' = answers /\ conns' = conns
    BY DEF CloseSocket
  <1>2. j \in Conns /\ conns \in Nat
    OBVIOUS
  <1>3. end' \in [Conns -> [Clients -> {"none", "backlog", "open", "closed"}]]
    BY <1>1, <1>2
  <1>4. \A k \in Conns, d \in Clients : end'[k][d] # "none" => k <= conns
    BY <1>1, <1>2
  <1>5. CASE tag[j][c] /\ bound[c] # 0
    <2>1. tag' = [tag EXCEPT ![bound[c]][c] = FALSE] /\ bound' = [bound EXCEPT ![c] = 0]
      BY <1>5 DEF CloseSocket
    <2>2. bound[c] \in Conns
      BY <1>5
    <2>3. tag' \in [Conns -> [Clients -> BOOLEAN]] /\ bound' \in [Clients -> 0..conns]
      BY <2>1, <2>2
    <2>4. ASSUME NEW d \in Clients, bound'[d] # 0
          PROVE  end'[bound'[d]][d] = "open" /\ tag'[bound'[d]][d]
      <3>1. d # c /\ bound'[d] = bound[d] /\ bound[d] \in Conns
        BY <2>1, <2>4
      <3> QED
        BY <1>1, <1>2, <2>1, <2>2, <3>1
    <2> QED
      BY <1>1, <1>3, <1>4, <2>3, <2>4
  <1>6. CASE ~(tag[j][c] /\ bound[c] # 0)
    <2>1. UNCHANGED <<tag, bound>>
      BY <1>6 DEF CloseSocket
    <2>2. bound[c] # j
      <3>1. SUFFICES ASSUME bound[c] = j PROVE FALSE
        OBVIOUS
      <3>2. bound[c] # 0
        BY <3>1
      <3>3. tag[bound[c]][c]
        BY <3>2
      <3> QED
        BY <1>6, <3>1, <3>2, <3>3
    <2>3. ASSUME NEW d \in Clients, bound[d] # 0 PROVE end'[bound[d]][d] = "open"
      <3>1. bound[d] \in Conns /\ end[bound[d]][d] = "open"
        BY <2>3
      <3> QED
        BY <1>1, <1>2, <2>2, <3>1
    <2> QED
      BY <1>1, <1>3, <1>4, <2>1, <2>3
  <1> QED
    BY <1>5, <1>6

\* Binding an open connection that exists.
LEMMA BindStep ==
    ASSUME NEW c \in Clients, NEW j \in Conns, Bind(c, j),
           bound \in [Clients -> Nat], tag \in [Conns -> [Clients -> BOOLEAN]],
           twice \in BOOLEAN, overlap \in BOOLEAN
    PROVE  /\ bound' = [bound EXCEPT ![c] = j]
           /\ tag' = [tag EXCEPT ![j][c] = TRUE]
           /\ tag' \in [Conns -> [Clients -> BOOLEAN]]
           /\ twice' \in BOOLEAN /\ overlap' \in BOOLEAN
  BY DEF Bind

-----------------------------------------------------------------------------
\* The input thread.
LEMMA InputStep ==
    ASSUME IInv, NEW c \in Clients, Start(c) \/ Stop(c) \/ Private(c) \/ Input(c)
    PROVE  IInv'
PROOF
  <1> USE BoundsAssumption
  <1>1. CASE Start(c)
    <2>1. /\ \A d \in Clients : c # d => answers[c] + answers[d] + conns <= starts
          /\ answers \in [Clients -> 0..MaxStarts] /\ starts \in 0..MaxStarts /\ conns \in 0..starts
          /\ starts < MaxStarts
      BY <1>1 DEF IInv, TypeOK, Counted, Aimed, Start
    <2>2. answers[c] + answers[Peer(c)] + conns <= starts
      BY <2>1, OtherOne
    <2>3. answers' = [answers EXCEPT ![c] = @ + 1] /\ starts' = starts + 1
      BY <1>1 DEF Start
    <2>4. answers[c] + 1 \in 0..MaxStarts /\ starts' \in conns..MaxStarts
      BY <2>1, <2>2, <2>3, OtherOne
    <2>5. \A d, e \in Clients : d # e => answers'[d] + answers'[e] + conns <= starts'
      BY <2>1, <2>3 DEF IInv, Counted
    <2> QED
      BY <1>1, <2>1, <2>3, <2>4, <2>5, Elsewhere DEF IInv, TypeOK, Aimed, Start
  <1>2. CASE Stop(c)
    BY <1>2, Elsewhere DEF IInv, TypeOK, Counted, Aimed, Stop, Goto, connVars
  <1>3. CASE Private(c)
    BY <1>3, Elsewhere DEF IInv, TypeOK, Counted, Aimed, Private, Goto, connVars
  <1>4. CASE Unhook(c)
    BY <1>4, FailStep, Elsewhere DEF IInv, TypeOK, Counted, Aimed, Unhook, Goto, connVars
  <1>5. CASE Argument(c)
    BY <1>5, Elsewhere DEF IInv, TypeOK, Counted, Aimed, Argument, Goto, connVars
  <1>6. CASE StopClose(c)
    <2>1. CASE end[target[c]][c] = "closed"
      BY <1>6, <2>1, FailStep DEF StopClose
    <2>2. CASE end[target[c]][c] # "closed"
      <3>1. CloseSocket(c, target[c])
        BY <1>6, <2>2 DEF StopClose
      <3>2. target[c] \in 1..conns
        BY <1>6 DEF IInv, TypeOK, Aimed, StopClose
      <3>3. /\ input' = [input EXCEPT ![c] = "idle"] /\ target' = [target EXCEPT ![c] = 0]
            /\ overlap' = (overlap \/ network[c] # "loop")
            /\ UNCHANGED <<starts, network, failed, sent, twice>>
        BY <1>6, <2>2 DEF StopClose, Goto
      <3>4. /\ end' \in [Conns -> [Clients -> {"none", "backlog", "open", "closed"}]]
            /\ tag' \in [Conns -> [Clients -> BOOLEAN]]
            /\ bound' \in [Clients -> 0..conns]
            /\ NoDangling' /\ Made'
            /\ answers' = answers /\ conns' = conns
        BY <3>1, <3>2, CloseStep DEF NoDangling, Made
      <3>5. TypeOK'
        <4>1. overlap' \in BOOLEAN
          BY <3>3, Zenon
        <4>2. input' \in [Clients -> {"idle", "unhook", "close", "closing", "send"}]
          BY <3>3 DEF IInv, TypeOK
        <4>3. target' \in [Clients -> 0..conns]
          BY <3>3 DEF IInv, TypeOK
        <4> QED
          BY <3>3, <3>4, <4>1, <4>2, <4>3 DEF IInv, TypeOK
      <3>6. Counted' /\ Aimed'
        BY <3>3, <3>4 DEF IInv, TypeOK, Counted, Aimed
      <3> QED
        BY <3>4, <3>5, <3>6 DEF IInv
    <2> QED
      BY <2>1, <2>2
  <1>7. CASE PrivateSend(c)
    <2>1. CASE bound[c] = 0
      BY <1>7, <2>1, FailStep DEF PrivateSend
    <2>2. CASE bound[c] # 0
      <3>1. /\ sent' = [sent EXCEPT ![c] = @ + 1] /\ input' = [input EXCEPT ![c] = "idle"]
            /\ UNCHANGED <<starts, answers, conns, end, tag, bound, target, network, failed,
                           twice, overlap>>
        BY <1>7, <2>2 DEF PrivateSend, Goto
      <3>2. sent[c] \in 0..MaxSent /\ sent[c] < MaxSent
        BY <1>7 DEF IInv, TypeOK, Aimed, PrivateSend
      <3>3. sent' \in [Clients -> 0..MaxSent] /\ Aimed'
        BY <3>1, <3>2 DEF IInv, TypeOK, Aimed
      <3>4. IInv
        OBVIOUS
      <3> QED
        BY <3>1, <3>3, <3>4, Elsewhere DEF IInv, TypeOK, Counted
    <2> QED
      BY <2>1, <2>2
  <1> QED
    BY <1>1, <1>2, <1>3, <1>4, <1>5, <1>6, <1>7 DEF Input

-----------------------------------------------------------------------------
\* The network thread.
LEMMA NetworkStep ==
    ASSUME IInv, NEW c \in Clients, Network(c)
    PROVE  IInv'
PROOF
  <1> USE BoundsAssumption
  <1>1. CASE GotIP(c)
    <2>1. /\ conns \in Nat /\ starts \in 0..MaxStarts
          /\ answers \in [Clients -> 0..MaxStarts] /\ answers[c] > 0
          /\ \A d \in Clients : c # d => answers[c] + answers[d] + conns <= starts
      BY <1>1 DEF IInv, TypeOK, Counted, GotIP
    <2>2. conns + 1 \in Conns /\ conns + 1 <= starts
      BY <2>1, OtherOne DEF Conns
    <2>3. /\ conns' = conns + 1 /\ answers' = [answers EXCEPT ![c] = @ - 1]
          /\ end' = [end EXCEPT ![conns + 1] = [d \in Clients |-> IF d = c THEN "open" ELSE "backlog"]]
          /\ Bind(c, conns + 1) /\ network' = [network EXCEPT ![c] = "register"]
          /\ UNCHANGED <<starts, input, target, failed, sent>>
      BY <1>1 DEF GotIP
    <2>4. /\ bound' = [bound EXCEPT ![c] = conns + 1]
          /\ tag' = [tag EXCEPT ![conns + 1][c] = TRUE]
          /\ tag' \in [Conns -> [Clients -> BOOLEAN]] /\ twice' \in BOOLEAN /\ overlap' \in BOOLEAN
      <3>1. Bind(c, conns + 1) /\ conns + 1 \in Conns
        BY <2>2, <2>3
      <3>2. /\ bound \in [Clients -> Nat] /\ tag \in [Conns -> [Clients -> BOOLEAN]]
            /\ twice \in BOOLEAN /\ overlap \in BOOLEAN
        BY DEF IInv, TypeOK
      <3> QED
        BY <3>1, <3>2, BindStep
    <2>5. TypeOK'
      <3>1. end' \in [Conns -> [Clients -> {"none", "backlog", "open", "closed"}]]
        BY <2>2, <2>3 DEF IInv, TypeOK
      <3>2. answers' \in [Clients -> 0..MaxStarts]
        BY <2>1, <2>3
      <3>3. bound' \in [Clients -> 0..conns'] /\ target' \in [Clients -> 0..conns']
        BY <2>1, <2>3, <2>4 DEF IInv, TypeOK
      <3>4. network' \in [Clients -> {"loop", "register"}]
        BY <2>3 DEF IInv, TypeOK
      <3>5. conns' \in 0..starts'
        BY <2>1, <2>2, <2>3
      <3> QED
        BY <2>3, <2>4, <3>1, <3>2, <3>3, <3>4, <3>5 DEF IInv, TypeOK
    <2>6. NoDangling'
      <3>1. SUFFICES ASSUME NEW d \in Clients, bound'[d] # 0
                     PROVE  end'[bound'[d]][d] = "open" /\ tag'[bound'[d]][d]
        BY DEF NoDangling
      <3>2. CASE d = c
        BY <2>2, <2>3, <2>4, <3>2 DEF IInv, TypeOK
      <3>3. CASE d # c
        <4>1. bound'[d] = bound[d] /\ bound[d] \in Conns /\ bound[d] # conns + 1
          BY <2>1, <2>4, <3>1, <3>3 DEF IInv, TypeOK, Conns
        <4>2. end[bound[d]][d] = "open" /\ tag[bound[d]][d]
          BY <3>1, <4>1 DEF IInv, NoDangling
        <4> QED
          BY <2>2, <2>3, <2>4, <4>1, <4>2 DEF IInv, TypeOK
      <3> QED
        BY <3>2, <3>3
    <2>7. Counted'
      <3>1. SUFFICES ASSUME NEW d \in Clients, NEW e \in Clients, d # e
                     PROVE  answers'[d] + answers'[e] + conns' <= starts'
        BY DEF Counted
      <3>2. answers[d] + answers[e] + conns <= starts /\ answers[d] \in Nat /\ answers[e] \in Nat
        BY <2>1, <3>1 DEF IInv, Counted
      <3>3. d = c \/ e = c
        BY <3>1, TwoAssumption
      <3> QED
        BY <2>1, <2>3, <3>1, <3>2, <3>3
    <2>8. Made'
      <3>1. SUFFICES ASSUME NEW k \in Conns, NEW d \in Clients, end'[k][d] # "none"
                     PROVE  k <= conns + 1
        BY <2>3 DEF Made
      <3>2. k = conns + 1 \/ end'[k][d] = end[k][d]
        BY <2>2, <2>3 DEF IInv, TypeOK
      <3> QED
        BY <2>1, <3>1, <3>2 DEF IInv, Made, Conns
    <2> QED
      BY <2>3, <2>5, <2>6, <2>7, <2>8 DEF IInv, Aimed
  <1>2. CASE Register(c)
    BY <1>2, FailStep, Elsewhere DEF IInv, TypeOK, Counted, Aimed, Register
  <1>3. ASSUME NEW j \in Conns, Accept(c, j) PROVE IInv'
    <2>1. /\ end' = [end EXCEPT ![j][c] = "open"] /\ end[j][c] = "backlog"
          /\ UNCHANGED <<starts, answers, conns, tag, bound, input, target, network, failed,
                         sent, twice, overlap>>
      BY <1>3 DEF Accept
    <2>2. end' \in [Conns -> [Clients -> {"none", "backlog", "open", "closed"}]]
      BY <2>1 DEF IInv, TypeOK
    <2>3. \A k \in Conns, d \in Clients :
              end'[k][d] = end[k][d] \/ (k = j /\ d = c /\ end'[k][d] = "open")
      <3>1. end \in [Conns -> [Clients -> {"none", "backlog", "open", "closed"}]]
        BY DEF IInv, TypeOK
      <3>2. ASSUME NEW k \in Conns, k # j PROVE end'[k] = end[k]
        BY <2>1, <3>1, <3>2
      <3>3. end'[j] = [end[j] EXCEPT ![c] = "open"]
        BY <2>1, <3>1
      <3>4. end[j] \in [Clients -> {"none", "backlog", "open", "closed"}]
        BY <3>1
      <3>5. \A d \in Clients : end'[j][d] = IF d = c THEN "open" ELSE end[j][d]
        BY <3>3, <3>4
      <3>6. SUFFICES ASSUME NEW k \in Conns, NEW d \in Clients
                     PROVE  end'[k][d] = end[k][d] \/ (k = j /\ d = c /\ end'[k][d] = "open")
        OBVIOUS
      <3>7. CASE k = j
        BY <3>5, <3>7
      <3>8. CASE k # j
        BY <3>2, <3>8
      <3> QED
        BY <3>7, <3>8
    <2>4. Made'
      BY <2>1, <2>3 DEF IInv, Made
    <2>5. NoDangling'
      <3>1. \A d \in Clients : bound[d] # 0 => bound[d] \in Conns
        BY DEF IInv, TypeOK, Conns
      <3>2. SUFFICES ASSUME NEW d \in Clients, bound[d] # 0
                     PROVE  end'[bound[d]][d] = "open" /\ tag[bound[d]][d]
        BY <2>1 DEF NoDangling
      <3>3. end[bound[d]][d] = "open" /\ tag[bound[d]][d]
        BY <3>2 DEF IInv, NoDangling
      <3> QED
        BY <2>3, <3>1, <3>2, <3>3
    <2>6. TypeOK'
      BY <2>1, <2>2 DEF IInv, TypeOK
    <2>7. Counted' /\ Aimed'
      BY <2>1 DEF IInv, Counted, Aimed
    <2> QED
      BY <2>4, <2>5, <2>6, <2>7 DEF IInv
  <1>4. ASSUME NEW j \in Conns, Registered(c, j) PROVE IInv'
    <2>1. j <= conns /\ end[j][c] = "open"
      BY <1>4 DEF IInv, Made, Registered, Readable
    <2>2. /\ bound' = [bound EXCEPT ![c] = j]
          /\ tag' = [tag EXCEPT ![j][c] = TRUE]
          /\ tag' \in [Conns -> [Clients -> BOOLEAN]] /\ twice' \in BOOLEAN /\ overlap' \in BOOLEAN
      <3>1. Bind(c, j) /\ j \in Conns
        BY <1>4 DEF Registered
      <3>2. /\ bound \in [Clients -> Nat] /\ tag \in [Conns -> [Clients -> BOOLEAN]]
            /\ twice \in BOOLEAN /\ overlap \in BOOLEAN
        BY DEF IInv, TypeOK
      <3> QED
        BY <3>1, <3>2, BindStep
    <2>3. UNCHANGED <<starts, answers, conns, end, input, target, network, failed, sent>>
      BY <1>4 DEF Registered
    <2>4. NoDangling'
      <3>1. SUFFICES ASSUME NEW d \in Clients, bound'[d] # 0
                     PROVE  end[bound'[d]][d] = "open" /\ tag'[bound'[d]][d]
        BY <2>3 DEF NoDangling
      <3>2. CASE d = c
        BY <2>1, <2>2, <3>2 DEF IInv, TypeOK
      <3>3. CASE d # c
        <4>1. bound'[d] = bound[d] /\ bound[d] \in Conns
          BY <2>2, <3>1, <3>3 DEF IInv, TypeOK, Conns
        <4>2. end[bound[d]][d] = "open" /\ tag[bound[d]][d]
          BY <3>1, <4>1 DEF IInv, NoDangling
        <4> QED
          BY <2>2, <4>1, <4>2 DEF IInv, TypeOK
      <3> QED
        BY <3>2, <3>3
    <2>5. bound' \in [Clients -> 0..conns]
      BY <2>1, <2>2 DEF IInv, TypeOK, Conns
    <2> QED
      BY <2>2, <2>3, <2>4, <2>5 DEF IInv, TypeOK, Counted, Made, Aimed
  <1>5. ASSUME NEW j \in Conns, Show(c, j) PROVE IInv'
    <2>1. UNCHANGED <<starts, answers, conns, end, tag, bound, input, target, network, failed,
                      sent, twice, overlap>>
      BY <1>5 DEF Show
    <2> QED
      BY <2>1, Elsewhere DEF IInv, TypeOK, Counted, Aimed
  <1>6. ASSUME NEW j \in Conns, Ended(c, j) PROVE IInv'
    <2>1. j \in 1..conns
      BY <1>6 DEF IInv, TypeOK, Made, Ended, Readable, Conns
    <2> QED
      BY <1>6, <2>1, CloseStep DEF IInv, TypeOK, NoDangling, Counted, Made, Aimed, Ended
  <1> QED
    BY <1>1, <1>2, <1>3, <1>4, <1>5, <1>6 DEF Network

-----------------------------------------------------------------------------
\* Every reachable state satisfies IInv.
THEOREM SessionInvariant == Spec => []IInv
PROOF
  <1>1. IInv /\ [Next]_vars => IInv'
    <2>1. ASSUME IInv, Next PROVE IInv'
      BY <2>1, InputStep, NetworkStep DEF Next
    <2>2. ASSUME IInv, UNCHANGED vars PROVE IInv'
      BY <2>2 DEF vars, connVars, IInv, TypeOK, NoDangling, Counted, Made, Aimed
    <2> QED
      BY <2>1, <2>2
  <1> QED
    BY InitIInv, <1>1, PTL DEF Spec

\* Type correctness: answers, connections and bindings stay within what the
\* startprivate commands account for.
THEOREM SessionTypes == Spec => []TypeOK
  BY SessionInvariant, PTL DEF IInv

\* The network thread binds, both threads close, and cmd_private and cmd_stopprivate
\* use user->client without a lock: whatever the interleaving and however many
\* sessions have crossed, it is never a connection that has been closed.
THEOREM BoundIsOpen == Spec => []NoDangling
  BY SessionInvariant, PTL DEF IInv

-----------------------------------------------------------------------------
(***************************************************************************)
(* Failures.  As long as neither thread of a client has bound or closed    *)
(* under the other, what a thread has tested still holds when it goes on.  *)
(***************************************************************************)
Steady(c) ==
    /\ input[c] \in {"unhook", "close", "closing", "send"} => bound[c] # 0
    /\ input[c] = "closing" => target[c] = bound[c]
    /\ network[c] = "register" => bound[c] # 0

SteadyInv == ~overlap => failed = "no" /\ \A c \in Clients : Steady(c)

\* A step of one client leaves what the other one has tested.
LEMMA Apart ==
    ASSUME NEW c \in Clients, NEW d \in Clients, d # c, Steady(d),
           input'[d] = input[d], bound'[d] = bound[d], target'[d] = target[d],
           network'[d] = network[d]
    PROVE  Steady(d)'
BY DEF Steady

\* What a thread has tested it finds again, or the other one was at work meanwhile.
LEMMA NextSteady == IInv /\ SteadyInv /\ [Next]_vars => SteadyInv'
PROOF
  <1> SUFFICES ASSUME IInv, SteadyInv, [Next]_vars, ~overlap' PROVE failed' = "no" /\ \A d \in Clients : Steady(d)'
    BY DEF SteadyInv
  <1>1. CASE UNCHANGED vars
    BY <1>1 DEF vars, SteadyInv, Steady
  <1>2. ASSUME NEW c \in Clients, failed = "no",
               Start(c) \/ Stop(c) \/ Private(c) \/ Input(c) \/ Network(c)
        PROVE  failed' = "no" /\ \A d \in Clients : Steady(d)'
    <2>1. ~overlap
      BY <1>2 DEF Start, Stop, Private, Input, Network, Unhook, Argument, StopClose, PrivateSend, GotIP,
                  Register, Accept, Registered, Show, Ended, Bind, Fail
    <2>2. \A d \in Clients : Steady(d)
      BY <2>1 DEF SteadyInv
    <2>3. \A d \in Clients : d # c =>
              /\ input'[d] = input[d] /\ bound'[d] = bound[d]
              /\ target'[d] = target[d] /\ network'[d] = network[d]
      BY <1>2 DEF Start, Stop, Private, Input, Network, Unhook, Argument, StopClose, PrivateSend, GotIP,
                  Register, Accept, Registered, Show, Ended, Bind, Fail, Goto, CloseSocket, IInv, TypeOK
    <2>4. failed' = "no" /\ Steady(c)'
      <3>1. Steady(c)
        BY <2>2
      <3> USE DEF IInv, TypeOK, Steady
      <3>2. CASE Start(c) \/ Stop(c) \/ Private(c)
        BY <1>2, <3>1, <3>2 DEF Start, Stop, Private, Goto
      <3>3. CASE Unhook(c) \/ Argument(c)
        BY <1>2, <3>1, <3>3 DEF Unhook, Argument, Goto
      <3>4. CASE PrivateSend(c)
        BY <1>2, <3>1, <3>4 DEF PrivateSend, Goto
      <3>5. CASE StopClose(c)
        <4>1. end[target[c]][c] = "open"
          BY <3>1, <3>5 DEF StopClose, NoDangling
        <4>2. network[c] = "loop" /\ UNCHANGED <<network, failed>> /\ input'[c] = "idle"
          BY <3>5, <4>1 DEF StopClose, Goto
        <4> QED BY <1>2, <4>2
      <3>6. CASE Network(c)
        <4>1. CASE GotIP(c)
          <5>1. input[c] = "idle" /\ UNCHANGED <<input, failed>>
            BY <4>1 DEF GotIP, Bind
          <5>2. bound'[c] = conns + 1 /\ conns \in Nat
            BY <4>1, BoundsAssumption DEF GotIP, Bind
          <5> QED BY <1>2, <5>1, <5>2
        <4>2. CASE Register(c)
          BY <1>2, <3>1, <4>2 DEF Register
        <4>3. ASSUME NEW j \in Conns, Accept(c, j) \/ Show(c, j)
              PROVE  failed' = "no" /\ Steady(c)'
          BY <1>2, <3>1, <4>3 DEF Accept, Show
        <4>4. ASSUME NEW j \in Conns, Registered(c, j) \/ Ended(c, j)
              PROVE  failed' = "no" /\ Steady(c)'
          <5>1. input'[c] = "idle" /\ network'[c] = "loop" /\ failed' = failed
            BY <4>4 DEF Registered, Ended, Readable, Bind
          <5> QED BY <1>2, <5>1
        <4> QED BY <3>6, <4>1, <4>2, <4>3, <4>4 DEF Network
      <3> QED BY <1>2, <3>2, <3>3, <3>4, <3>5, <3>6 DEF Input
    <2>5. ASSUME NEW d \in Clients, d # c PROVE Steady(d)'
      BY <2>2, <2>3, <2>5, Apart
    <2> QED BY <2>4, <2>5
  <1> QED BY <1>1, <1>2 DEF Next

\* No null pointer is followed and no socket is closed twice, unless one thread of a
\* client has bound or closed a connection in the middle of what the other does.
THEOREM FailuresNeedOverlap == Spec => []FailsOnlyByOverlap
PROOF
  <1>1. Init => SteadyInv
    BY DEF Init, SteadyInv, Steady
  <1>2. IInv /\ SteadyInv => FailsOnlyByOverlap
    BY DEF SteadyInv, FailsOnlyByOverlap
  <1> QED
    BY SessionInvariant, <1>1, <1>2, NextSteady, PTL DEF Spec

-----------------------------------------------------------------------------
(***************************************************************************)
(* Agreement.  A client who has a session either shares it with the other  *)
(* one, or its end is on the way to him, or his registration is on the way *)
(* to the other one.                                                       *)
(***************************************************************************)
\* m is on its way.
Holds(s, m) == \E i \in 1..Len(s) : s[i] = m

Signals == {"text", "registration", "end"}
QueueOK == queue \in [Conns -> [Clients -> Seq(Signals)]]

\* Whoever has closed his end has told the other one.
EndSeen == \A j \in Conns, c \in Clients :
               end[j][Peer(c)] = "closed" /\ end[j][c] # "closed" => Holds(queue[j][c], "end")

\* A connection that knows its user is the one that he knows.
OneTag == \A j \in Conns, c \in Clients : tag[j][c] => bound[c] = j

\* j is what the other client has, or c will be told that it is over.
Answered(j, c) == bound[Peer(c)] = j \/ Holds(queue[j][c], "end")

Sought == \A j \in Conns, c \in Clients :
              bound[c] = j => \/ Answered(j, c) \/ network[c] = "register"
                              \/ Holds(queue[j][Peer(c)], "registration")

\* A registration comes from somebody who has the connection.
Vouched == \A j \in Conns, c \in Clients :
               Holds(queue[j][c], "registration") => Answered(j, c)

Talk == QueueOK /\ EndSeen /\ (twice \/ (OneTag /\ Sought /\ Vouched))

LEMMA HoldsAppend ==
    ASSUME NEW s \in Seq(Signals), NEW a \in Signals, NEW m
    PROVE  Append(s, a) \in Seq(Signals) /\ (Holds(Append(s, a), m) <=> Holds(s, m) \/ m = a)
<1>1. /\ Len(s) \in Nat /\ Append(s, a) \in Seq(Signals) /\ Len(Append(s, a)) = Len(s) + 1
      /\ Append(s, a)[Len(s) + 1] = a /\ \A i \in 1..Len(s) : Append(s, a)[i] = s[i]
  OBVIOUS
<1>2. \A i \in 1..(Len(s) + 1) : i \in 1..Len(s) \/ i = Len(s) + 1
  BY <1>1
<1>3. Len(s) + 1 \in 1..(Len(s) + 1) /\ \A i \in 1..Len(s) : i \in 1..(Len(s) + 1)
  BY <1>1
<1> QED BY <1>1, <1>2, <1>3 DEF Holds

LEMMA HoldsTail ==
    ASSUME NEW s \in Seq(Signals), s # <<>>, NEW m, Head(s) # m
    PROVE  Tail(s) \in Seq(Signals) /\ (Holds(Tail(s), m) <=> Holds(s, m))
<1>1. /\ Len(s) \in Nat /\ Len(s) >= 1 /\ Tail(s) \in Seq(Signals) /\ Len(Tail(s)) = Len(s) - 1
      /\ Head(s) = s[1] /\ \A i \in 1..(Len(s) - 1) : Tail(s)[i] = s[i + 1]
  OBVIOUS
<1>2. ASSUME Holds(Tail(s), m) PROVE Holds(s, m)
  <2>1. PICK i \in 1..(Len(s) - 1) : s[i + 1] = m
    BY <1>1, <1>2 DEF Holds
  <2>2. i + 1 \in 1..Len(s)
    BY <1>1
  <2> QED BY <2>1, <2>2 DEF Holds
<1>3. ASSUME Holds(s, m) PROVE Holds(Tail(s), m)
  <2>1. PICK i \in 1..Len(s) : s[i] = m
    BY <1>3 DEF Holds
  <2>2. i # 1
    BY <1>1, <2>1
  <2>3. i - 1 \in 1..(Len(s) - 1) /\ (i - 1) + 1 = i
    BY <1>1, <2>2
  <2>4. Tail(s)[i - 1] = m
    BY <1>1, <2>1, <2>3
  <2> QED BY <1>1, <2>3, <2>4 DEF Holds
<1> QED BY <1>1, <1>2, <1>3

LEMMA HoldsCut ==
    ASSUME NEW s \in Seq(Signals), NEW n \in 0..Len(s)
    PROVE  /\ SubSeq(s, 1, n) \o <<"end">> \in Seq(Signals)
           /\ Holds(SubSeq(s, 1, n) \o <<"end">>, "end")
<1> DEFINE t == SubSeq(s, 1, n)
<1>1. t \in Seq(Signals) /\ Len(t) = n /\ n \in Nat
  OBVIOUS
<1>2. <<"end">> \in Seq(Signals) /\ Len(<<"end">>) = 1 /\ <<"end">>[1] = "end"
  BY DEF Signals
<1> HIDE DEF t
<1>3. /\ t \o <<"end">> \in Seq(Signals) /\ Len(t \o <<"end">>) = n + 1
      /\ (t \o <<"end">>)[n + 1] = "end"
  BY <1>1, <1>2
<1>4. n + 1 \in 1..(n + 1)
  BY <1>1
<1> QED BY <1>3, <1>4 DEF Holds, t

\* The other one of the other one.
LEMMA Back == \A c \in Clients : Peer(Peer(c)) = c
  BY TwoAssumption, OtherOne

LEMMA TalkInit == Init => Talk
<1> SUFFICES ASSUME Init PROVE Talk
  OBVIOUS
<1>1. QueueOK
  BY DEF Init, QueueOK
<1>2. \A j \in Conns, c \in Clients : ~Holds(queue[j][c], "registration")
  BY DEF Init, Holds
<1>3. EndSeen
  BY OtherOne DEF Init, EndSeen
<1>4. OneTag
  BY DEF Init, OneTag
<1>5. Sought
  BY BoundsAssumption DEF Init, Sought, Conns
<1> QED BY <1>1, <1>2, <1>3, <1>4, <1>5 DEF Talk, Vouched

\* Nothing happens that matters here.
LEMMA SameTalk ==
    ASSUME Talk, QueueOK', UNCHANGED <<tag, bound, network, twice>>,
           \A j \in Conns, c \in Clients : end'[j][c] = "closed" <=> end[j][c] = "closed",
           \A j \in Conns, c \in Clients, m \in {"registration", "end"} :
               Holds(queue'[j][c], m) <=> Holds(queue[j][c], m)
    PROVE  Talk'
<1>1. EndSeen'
  BY OtherOne DEF Talk, EndSeen
<1>2. ASSUME OneTag, Sought, Vouched PROVE OneTag' /\ Sought' /\ Vouched'
  <2>1. OneTag'
    BY <1>2 DEF OneTag
  <2>2. \A j \in Conns, c \in Clients : Answered(j, c)' <=> Answered(j, c)
    BY DEF Answered
  <2>3. Sought'
    BY <1>2, <2>2, OtherOne DEF Sought
  <2>4. Vouched'
    BY <1>2, <2>2 DEF Vouched
  <2> QED BY <2>1, <2>3, <2>4
<1> QED BY <1>1, <1>2 DEF Talk

\* One entry of a table changes.
LEMMA OneEntry ==
    ASSUME NEW S, NEW f \in [Conns -> [Clients -> S]], NEW j \in Conns, NEW c \in Clients, NEW v,
           NEW g, g = [f EXCEPT ![j][c] = v]
    PROVE  /\ \A k \in Conns, e \in Clients : g[k][e] = IF k = j /\ e = c THEN v ELSE f[k][e]
           /\ v \in S => g \in [Conns -> [Clients -> S]]
<1>1. g[j] = [f[j] EXCEPT ![c] = v] /\ \A k \in Conns : k # j => g[k] = f[k]
  OBVIOUS
<1>2. \A e \in Clients : g[j][e] = IF e = c THEN v ELSE f[j][e]
  BY <1>1
<1>3. v \in S => g \in [Conns -> [Clients -> S]]
  OBVIOUS
<1> QED BY <1>1, <1>2, <1>3

\* The same for tag, of which only what is set matters.
LEMMA OneUntagged ==
    ASSUME NEW t \in [Conns -> [Clients -> BOOLEAN]], NEW j \in Conns, NEW c \in Clients,
           NEW g, g = [t EXCEPT ![j][c] = FALSE], NEW k \in Conns, NEW e \in Clients, g[k][e]
    PROVE  t[k][e] /\ ~(k = j /\ e = c)
<1>1. g[j] = [t[j] EXCEPT ![c] = FALSE] /\ (k # j => g[k] = t[k])
  OBVIOUS
<1> QED BY <1>1

LEMMA OneTagged ==
    ASSUME NEW t \in [Conns -> [Clients -> BOOLEAN]], NEW j \in Conns, NEW c \in Clients,
           NEW g, g = [t EXCEPT ![j][c] = TRUE], NEW k \in Conns, NEW e \in Clients, g[k][e]
    PROVE  t[k][e] \/ (k = j /\ e = c)
<1>1. g[j] = [t[j] EXCEPT ![c] = TRUE] /\ (k # j => g[k] = t[k])
  OBVIOUS
<1> QED BY <1>1

\* What send_response_to_client adds.
LEMMA PutFact ==
    ASSUME QueueOK, NEW c \in Clients, NEW j \in Conns, NEW m \in Signals, Put(c, j, m)
    PROVE  /\ QueueOK'
           /\ \A k \in Conns, e \in Clients, x \in {"registration", "end"} :
                  Holds(queue'[k][e], x) <=>
                      \/ Holds(queue[k][e], x)
                      \/ /\ x = m /\ k = j /\ e = Peer(c)
                         /\ end[j][c] = "open" /\ end[j][Peer(c)] # "closed"
<1> DEFINE d == Peer(c)
<1>1. d \in Clients
  BY OtherOne
<1>2. \A k \in Conns, e \in Clients : queue[k][e] \in Seq(Signals)
  BY DEF QueueOK
<1>3. CASE ~(end[j][c] = "open" /\ end[j][d] # "closed")
  BY <1>3 DEF Put, QueueOK
<1>4. CASE end[j][c] = "open" /\ end[j][d] # "closed"
  <2>1. queue' = [queue EXCEPT ![j][d] = Append(queue[j][d], m)]
    BY <1>4 DEF Put
  <2>2. Append(queue[j][d], m) \in Seq(Signals)
    BY <1>1, <1>2
  <2> HIDE DEF d
  <2>3. /\ \A k \in Conns, e \in Clients :
               queue'[k][e] = IF k = j /\ e = d THEN Append(queue[j][d], m) ELSE queue[k][e]
        /\ QueueOK'
    BY <1>1, <2>1, <2>2, OneEntry DEF QueueOK
  <2>4. \A x : Holds(Append(queue[j][d], m), x) <=> Holds(queue[j][d], x) \/ x = m
    BY <1>1, <1>2, HoldsAppend
  <2> QED BY <1>4, <2>3, <2>4 DEF d
<1> QED BY <1>3, <1>4

\* What reading removes.
LEMMA TailQueue ==
    ASSUME QueueOK, NEW c \in Clients, NEW j \in Conns, queue[j][c] # <<>>,
           queue' = [queue EXCEPT ![j][c] = Tail(@)]
    PROVE  /\ QueueOK'
           /\ \A x : \A k \in Conns, e \in Clients :
                  k # j \/ e # c \/ x # Head(queue[j][c]) =>
                      (Holds(queue'[k][e], x) <=> Holds(queue[k][e], x))
<1>1. queue[j][c] \in Seq(Signals)
  BY DEF QueueOK
<1>2. Tail(queue[j][c]) \in Seq(Signals)
  BY <1>1
<1>3. /\ \A k \in Conns, e \in Clients :
             queue'[k][e] = IF k = j /\ e = c THEN Tail(queue[j][c]) ELSE queue[k][e]
      /\ QueueOK'
  BY <1>2, OneEntry DEF QueueOK
<1>4. \A x : x # Head(queue[j][c]) => (Holds(Tail(queue[j][c]), x) <=> Holds(queue[j][c], x))
  BY <1>1, HoldsTail
<1> QED BY <1>3, <1>4

\* Closing tells the other one, and unbinds the connection if it was bound.
LEMMA CloseTalk ==
    ASSUME IInv, Talk, NEW c \in Clients, NEW j \in Conns, CloseSocket(c, j),
           UNCHANGED <<network, twice>>
    PROVE  Talk'
<1> DEFINE d == Peer(c)
<1>1. d \in Clients /\ d # c /\ Peer(d) = c
  BY OtherOne, Back
<1>2. \A k \in Conns, e \in Clients : queue[k][e] \in Seq(Signals)
  BY DEF Talk, QueueOK
<1>3. PICK n \in 0..Len(queue[j][d]) :
          queue' = [queue EXCEPT ![j][c] = <<>>, ![j][d] =
                        IF end[j][d] = "closed" THEN <<>> ELSE SubSeq(@, 1, n) \o <<"end">>]
  BY DEF CloseSocket
<1> DEFINE rest == IF end[j][d] = "closed" THEN <<>> ELSE SubSeq(queue[j][d], 1, n) \o <<"end">>
<1>4. rest \in Seq(Signals) /\ (end[j][d] # "closed" => Holds(rest, "end"))
  BY <1>1, <1>2, HoldsCut
<1>5. end[j][d] = "closed" => \A x : ~Holds(rest, x)
  BY DEF Holds
<1>6. /\ QueueOK'
      /\ \A k \in Conns, e \in Clients :
             queue'[k][e] = IF k = j /\ e = c THEN <<>> ELSE IF k = j /\ e = d THEN rest
                            ELSE queue[k][e]
  <2> DEFINE half == [queue EXCEPT ![j][c] = <<>>]
  <2>1. half[j][d] = queue[j][d]
    BY <1>1 DEF Talk, QueueOK
  <2>2. queue' = [half EXCEPT ![j][d] = rest]
    BY <1>3, <2>1
  <2>3. /\ half \in [Conns -> [Clients -> Seq(Signals)]]
        /\ \A k \in Conns, e \in Clients :
               half[k][e] = IF k = j /\ e = c THEN <<>> ELSE queue[k][e]
    <3>1. <<>> \in Seq(Signals)
      OBVIOUS
    <3>2. queue \in [Conns -> [Clients -> Seq(Signals)]]
      BY DEF Talk, QueueOK
    <3> HIDE DEF d
    <3> QED BY <3>1, <3>2, OneEntry
  <2> HIDE DEF half, rest, d
  <2>4. /\ queue' \in [Conns -> [Clients -> Seq(Signals)]]
        /\ \A k \in Conns, e \in Clients :
               queue'[k][e] = IF k = j /\ e = d THEN rest ELSE half[k][e]
    BY <1>1, <1>4, <2>2, <2>3, OneEntry
  <2> QED BY <1>1, <2>3, <2>4 DEF QueueOK
<1>7. \A k \in Conns, e \in Clients : end'[k][e] = IF k = j /\ e = c THEN "closed" ELSE end[k][e]
  <2>1. end' = [end EXCEPT ![j][c] = "closed"]
    BY DEF CloseSocket
  <2>2. end \in [Conns -> [Clients -> {"none", "backlog", "open", "closed"}]]
    BY DEF IInv, TypeOK
  <2> QED BY <2>1, <2>2, OneEntry
<1> HIDE DEF rest, d
<1>8. EndSeen'
  <2> SUFFICES ASSUME NEW k \in Conns, NEW e \in Clients,
                      end'[k][Peer(e)] = "closed", end'[k][e] # "closed"
               PROVE  Holds(queue'[k][e], "end")
    BY DEF EndSeen
  <2>1. ~(k = j /\ e = c) /\ end[k][e] # "closed" /\ Peer(e) \in Clients
    BY <1>7, OtherOne
  <2>2. CASE k = j /\ e = d
    BY <1>1, <1>4, <1>6, <2>1, <2>2
  <2>3. CASE ~(k = j /\ e = d)
    <3>1. ~(k = j /\ Peer(e) = c)
      BY <2>3, Back DEF d
    <3>2. end[k][Peer(e)] = "closed"
      BY <1>7, <2>1, <3>1
    <3>3. Holds(queue[k][e], "end")
      BY <2>1, <3>2 DEF Talk, EndSeen
    <3> QED BY <1>6, <2>1, <2>3, <3>3
  <2> QED BY <2>2, <2>3
<1>9. ASSUME OneTag, Sought, Vouched PROVE OneTag' /\ Sought' /\ Vouched'
  <2>1. bound \in [Clients -> 0..conns] /\ tag \in [Conns -> [Clients -> BOOLEAN]] /\ 0 \notin Conns
    BY BoundsAssumption DEF IInv, TypeOK, Conns
  <2>2. /\ bound[c] = j => bound' = [bound EXCEPT ![c] = 0] /\ tag' = [tag EXCEPT ![j][c] = FALSE]
        /\ bound[c] # j => UNCHANGED <<bound, tag>>
    <3>1. bound[c] = j => tag[j][c] /\ bound[c] # 0
      BY <2>1 DEF IInv, NoDangling
    <3>2. bound[c] # j => ~tag[j][c]
      BY <1>9 DEF OneTag
    <3> QED BY <3>1, <3>2 DEF CloseSocket
  <2>3. \A e \in Clients : bound'[e] = IF e = c /\ bound[c] = j THEN 0 ELSE bound[e]
    BY <2>1, <2>2
  <2>4. OneTag'
    <3> SUFFICES ASSUME NEW k \in Conns, NEW e \in Clients, tag'[k][e] PROVE bound'[e] = k
      BY DEF OneTag
    <3>1. tag[k][e] /\ ~(bound[c] = j /\ k = j /\ e = c)
      <4>1. CASE bound[c] = j
        <5>1. tag' = [tag EXCEPT ![j][c] = FALSE]
          BY <2>2, <4>1
        <5> QED BY <2>1, <5>1, OneUntagged
      <4>2. CASE bound[c] # j
        BY <2>2, <4>2
      <4> QED BY <4>1, <4>2
    <3>2. bound[e] = k
      BY <1>9, <3>1 DEF OneTag
    <3> QED BY <2>3, <3>1, <3>2
  <2>5. ASSUME NEW k \in Conns, NEW e \in Clients, ~(k = j /\ e = c), Answered(k, e)
        PROVE  Answered(k, e)' \/ (k = j /\ e = d /\ end[j][d] = "closed")
    <3>1. CASE k = j /\ e = d
      BY <1>1, <1>4, <1>6, <3>1 DEF Answered
    <3>2. CASE ~(k = j /\ e = d)
      <4>1. queue'[k][e] = queue[k][e]
        BY <1>6, <2>5, <3>2
      <4>2. Peer(e) \in Clients /\ ~(k = j /\ Peer(e) = c)
        BY <3>2, OtherOne, Back DEF d
      <4> QED BY <2>3, <2>5, <4>1, <4>2 DEF Answered
    <3> QED BY <3>1, <3>2
  <2>6. Vouched'
    <3> SUFFICES ASSUME NEW k \in Conns, NEW e \in Clients, Holds(queue'[k][e], "registration")
                 PROVE  Answered(k, e)'
      BY DEF Vouched
    <3>1. ~(k = j /\ e = c)
      BY <1>6 DEF Holds
    <3>2. CASE k = j /\ e = d
      BY <1>1, <1>4, <1>5, <1>6, <3>2 DEF Answered
    <3>3. CASE ~(k = j /\ e = d)
      <4>1. Answered(k, e)
        BY <1>6, <1>9, <3>1, <3>3 DEF Vouched
      <4> QED BY <2>5, <3>1, <3>3, <4>1
    <3> QED BY <3>2, <3>3
  <2>7. Sought'
    <3> SUFFICES ASSUME NEW k \in Conns, NEW e \in Clients, bound'[e] = k
                 PROVE  \/ Answered(k, e)' \/ network[e] = "register"
                        \/ Holds(queue'[k][Peer(e)], "registration")
      BY DEF Sought
    <3>1. bound[e] = k /\ ~(k = j /\ e = c)
      BY <2>1, <2>3
    <3>2. end[k][e] = "open"
      BY <2>1, <3>1 DEF IInv, NoDangling
    <3>3. CASE k = j /\ e = d
      BY <1>1, <1>4, <1>6, <3>2, <3>3 DEF Answered
    <3>4. CASE ~(k = j /\ e = d)
      <4>1. Answered(k, e) \/ network[e] = "register" \/ Holds(queue[k][Peer(e)], "registration")
        BY <1>9, <3>1 DEF Sought
      <4>2. queue'[k][Peer(e)] = queue[k][Peer(e)]
        <5>1. Peer(e) \in Clients /\ Peer(Peer(e)) = e /\ e \in {c, d}
          BY OtherOne, Back, TwoAssumption DEF d
        <5>2. k # j
          BY <3>1, <3>4, <5>1
        <5> QED BY <1>6, <5>1, <5>2
      <4>3. Answered(k, e) => Answered(k, e)'
        BY <2>5, <3>1, <3>4
      <4> QED BY <4>1, <4>2, <4>3
    <3> QED BY <3>3, <3>4
  <2> QED BY <2>4, <2>6, <2>7
<1> QED BY <1>6, <1>8, <1>9 DEF Talk

\* A client who binds has no session, or twice is noted.
LEMMA BindTalk ==
    ASSUME IInv, NEW c \in Clients, NEW j \in Conns, Bind(c, j), ~twice'
    PROVE  /\ ~twice /\ bound[c] = 0
           /\ \A e \in Clients : bound'[e] = IF e = c THEN j ELSE bound[e]
           /\ OneTag => OneTag'
<1>1. /\ bound \in [Clients -> 0..conns] /\ tag \in [Conns -> [Clients -> BOOLEAN]] /\ 0 \notin Conns
  BY BoundsAssumption DEF IInv, TypeOK, Conns
<1>2. ~twice /\ bound[c] = 0
  BY DEF Bind
<1>3. \A e \in Clients : bound'[e] = IF e = c THEN j ELSE bound[e]
  BY <1>1 DEF Bind
<1>4. ASSUME OneTag, NEW k \in Conns, NEW e \in Clients, tag'[k][e] PROVE bound'[e] = k
  <2>1. tag' = [tag EXCEPT ![j][c] = TRUE]
    BY DEF Bind
  <2>2. tag[k][e] \/ (k = j /\ e = c)
    BY <1>1, <1>4, <2>1, OneTagged
  <2>3. tag[k][e] => bound[e] = k
    BY <1>4 DEF OneTag
  <2> QED BY <1>1, <1>2, <1>3, <2>2, <2>3
<1> QED BY <1>2, <1>3, <1>4 DEF OneTag

\* A GetIPResponse: the network thread is about to register.
LEMMA GotIPTalk ==
    ASSUME IInv, IInv', Talk, NEW c \in Clients, GotIP(c)
    PROVE  Talk'
<1> DEFINE j == conns + 1
<1>1. /\ Bind(c, j) /\ queue' = queue /\ network' = [network EXCEPT ![c] = "register"]
      /\ end' = [end EXCEPT ![j] = [d \in Clients |-> IF d = c THEN "open" ELSE "backlog"]]
  BY DEF GotIP
<1>2. j \in Conns /\ 0 \notin Conns
  <2>1. /\ conns \in Nat /\ starts' \in 0..MaxStarts /\ conns' \in 0..starts' /\ conns' = conns + 1
    BY DEF IInv, TypeOK, GotIP
  <2> QED BY <2>1, BoundsAssumption DEF Conns
<1> HIDE DEF j
<1>3. QueueOK'
  BY <1>1 DEF Talk, QueueOK
<1>4. EndSeen'
  <2>1. \A e \in Clients : end'[j][e] # "closed"
    BY <1>1, <1>2 DEF IInv, TypeOK
  <2>2. \A k \in Conns : k # j => end'[k] = end[k]
    BY <1>1 DEF IInv, TypeOK
  <2> QED BY <1>1, <2>1, <2>2, OtherOne DEF Talk, EndSeen
<1>5. ASSUME ~twice' PROVE OneTag' /\ Sought' /\ Vouched'
  <2>1. /\ ~twice /\ bound[c] = 0 /\ \A e \in Clients : bound'[e] = IF e = c THEN j ELSE bound[e]
        /\ OneTag => OneTag'
    BY <1>1, <1>2, <1>5, BindTalk
  <2>2. OneTag /\ Sought /\ Vouched
    BY <2>1 DEF Talk
  <2>3. \A k \in Conns, e \in Clients : Answered(k, e) => Answered(k, e)'
    BY <1>1, <1>2, <2>1, OtherOne DEF Answered
  <2>4. Vouched'
    BY <1>1, <2>2, <2>3 DEF Vouched
  <2>5. \A e \in Clients : network'[e] = IF e = c THEN "register" ELSE network[e]
    BY <1>1 DEF IInv, TypeOK
  <2>6. Sought'
    BY <1>1, <2>1, <2>2, <2>3, <2>5 DEF Sought
  <2> QED BY <2>1, <2>2, <2>4, <2>6
<1> QED BY <1>3, <1>4, <1>5 DEF Talk

\* The registration goes out, or the other one has closed the connection already.
LEMMA RegisterTalk ==
    ASSUME IInv, Talk, NEW c \in Clients, Register(c)
    PROVE  Talk'
<1>1. CASE bound[c] = 0
  <2>1. UNCHANGED <<queue, end, tag, bound, network, twice>>
    BY <1>1 DEF Register, Fail, connVars
  <2> QED BY <2>1, SameTalk DEF Talk, QueueOK
<1>2. CASE bound[c] # 0
  <2> DEFINE j == bound[c]
             d == Peer(c)
  <2>1. /\ Put(c, j, "registration") /\ network' = [network EXCEPT ![c] = "loop"]
        /\ UNCHANGED <<end, tag, bound, twice>>
    BY <1>2 DEF Register
  <2>2. j \in Conns /\ end[j][c] = "open"
    BY <1>2, BoundsAssumption DEF IInv, TypeOK, NoDangling, Conns
  <2>3. d \in Clients /\ d # c /\ Peer(d) = c
    BY OtherOne, Back
  <2> HIDE DEF j
  <2>4. /\ QueueOK'
        /\ \A k \in Conns, e \in Clients, x \in {"registration", "end"} :
               Holds(queue'[k][e], x) <=>
                   \/ Holds(queue[k][e], x)
                   \/ /\ x = "registration" /\ k = j /\ e = Peer(c)
                      /\ end[j][c] = "open" /\ end[j][Peer(c)] # "closed"
    <3>1. "registration" \in Signals /\ QueueOK
      BY DEF Signals, Talk
    <3> QED BY <2>1, <2>2, <3>1, PutFact
  <2>5. /\ \A k \in Conns, e \in Clients : Holds(queue'[k][e], "end") <=> Holds(queue[k][e], "end")
        /\ \A k \in Conns, e \in Clients :
               Holds(queue'[k][e], "registration") <=>
                   Holds(queue[k][e], "registration") \/ (k = j /\ e = d /\ end[j][d] # "closed")
    BY <2>2, <2>4
  <2> HIDE DEF d
  <2>6. EndSeen'
    BY <2>1, <2>5 DEF Talk, EndSeen
  <2>7. ASSUME OneTag, Sought, Vouched PROVE OneTag' /\ Sought' /\ Vouched'
    <3>1. OneTag'
      BY <2>1, <2>7 DEF OneTag
    <3>2. \A k \in Conns, e \in Clients : Answered(k, e)' <=> Answered(k, e)
      BY <2>1, <2>5 DEF Answered
    <3>3. Vouched'
      <4>1. Answered(j, d)
        BY <2>3 DEF Answered, j
      <4> QED BY <2>5, <2>7, <3>2, <4>1 DEF Vouched
    <3>4. Sought'
      <4> SUFFICES ASSUME NEW k \in Conns, NEW e \in Clients, bound[e] = k
                   PROVE  \/ Answered(k, e)' \/ network'[e] = "register"
                          \/ Holds(queue'[k][Peer(e)], "registration")
        BY <2>1 DEF Sought
      <4>1. CASE e = c
        <5>1. k = j
          BY <4>1 DEF j
        <5>2. CASE end[j][d] = "closed"
          <6>1. Holds(queue[j][c], "end")
            BY <2>2, <5>2 DEF Talk, EndSeen, d
          <6>2. Answered(j, c)
            BY <6>1 DEF Answered
          <6> QED BY <3>2, <4>1, <5>1, <6>2
        <5>3. CASE end[j][d] # "closed"
          <6>1. Holds(queue'[j][d], "registration")
            BY <2>2, <2>3, <2>5, <5>3
          <6> QED BY <4>1, <5>1, <6>1 DEF d
        <5> QED BY <5>2, <5>3
      <4>2. CASE e # c
        <5>1. network'[e] = network[e]
          BY <2>1, <4>2 DEF IInv, TypeOK
        <5>2. Answered(k, e) \/ network[e] = "register" \/ Holds(queue[k][Peer(e)], "registration")
          BY <2>7 DEF Sought
        <5> QED BY <2>5, <3>2, <5>1, <5>2, OtherOne
      <4> QED BY <4>1, <4>2
    <3> QED BY <3>1, <3>3, <3>4
  <2> QED BY <2>1, <2>4, <2>6, <2>7 DEF Talk
<1> QED BY <1>1, <1>2

\* A registration arrives: whoever sent it has the connection, or has closed it.
LEMMA RegisteredTalk ==
    ASSUME IInv, Talk, NEW c \in Clients, NEW j \in Conns, Registered(c, j)
    PROVE  Talk'
<1> DEFINE d == Peer(c)
<1>1. /\ Bind(c, j) /\ queue' = [queue EXCEPT ![j][c] = Tail(@)]
      /\ queue[j][c] # <<>> /\ Head(queue[j][c]) = "registration"
      /\ UNCHANGED <<end, network>>
  BY DEF Registered, Readable
<1>2. d \in Clients /\ d # c /\ Peer(d) = c /\ 0 \notin Conns
  BY OtherOne, Back DEF Conns
<1>3. /\ QueueOK'
      /\ \A x : \A k \in Conns, e \in Clients :
             k # j \/ e # c \/ x # "registration" =>
                 (Holds(queue'[k][e], x) <=> Holds(queue[k][e], x))
  <2>1. QueueOK
    BY DEF Talk
  <2> QED BY <1>1, <2>1, TailQueue
<1>4. \A k \in Conns, e \in Clients : Holds(queue'[k][e], "end") <=> Holds(queue[k][e], "end")
  BY <1>3
<1>5. \A k \in Conns, e \in Clients :
          k # j \/ e # c => (Holds(queue'[k][e], "registration") <=> Holds(queue[k][e], "registration"))
  BY <1>3
<1> HIDE DEF d
<1>6. EndSeen'
  BY <1>1, <1>4 DEF Talk, EndSeen
<1>7. Holds(queue[j][c], "registration")
  <2>1. queue[j][c] \in Seq(Signals)
    BY DEF Talk, QueueOK
  <2>2. 1 \in 1..Len(queue[j][c]) /\ queue[j][c][1] = "registration"
    BY <1>1, <2>1
  <2> QED BY <2>2 DEF Holds
<1>8. ASSUME ~twice' PROVE OneTag' /\ Sought' /\ Vouched'
  <2>1. /\ ~twice /\ bound[c] = 0 /\ \A e \in Clients : bound'[e] = IF e = c THEN j ELSE bound[e]
        /\ OneTag => OneTag'
    BY <1>1, <1>8, BindTalk
  <2>2. OneTag /\ Sought /\ Vouched
    BY <2>1 DEF Talk
  <2>3. \A k \in Conns, e \in Clients : Answered(k, e) => Answered(k, e)'
    BY <1>2, <1>4, <2>1, OtherOne DEF Answered
  <2>4. Vouched'
    <3> SUFFICES ASSUME NEW k \in Conns, NEW e \in Clients, Holds(queue'[k][e], "registration")
                 PROVE  Answered(k, e)'
      BY DEF Vouched
    <3>1. Holds(queue[k][e], "registration")
      BY <1>5, <1>7
    <3> QED BY <2>2, <2>3, <3>1 DEF Vouched
  <2>5. Sought'
    <3> SUFFICES ASSUME NEW k \in Conns, NEW e \in Clients, bound'[e] = k
                 PROVE  \/ Answered(k, e)' \/ network'[e] = "register"
                        \/ Holds(queue'[k][Peer(e)], "registration")
      BY DEF Sought
    <3>1. CASE e = c
      <4>1. k = j
        BY <2>1, <3>1
      <4>2. Answered(j, c)
        BY <1>7, <2>2 DEF Vouched
      <4> QED BY <2>3, <3>1, <4>1, <4>2
    <3>2. CASE e # c
      <4>1. bound[e] = k /\ Peer(e) \in Clients
        BY <2>1, <3>2, OtherOne
      <4>2. Answered(k, e) \/ network[e] = "register" \/ Holds(queue[k][Peer(e)], "registration")
        BY <2>2, <4>1 DEF Sought
      <4>3. CASE k = j /\ Peer(e) = c
        BY <2>1, <4>3 DEF Answered
      <4>4. CASE k # j \/ Peer(e) # c
        BY <1>1, <1>5, <2>3, <4>1, <4>2, <4>4
      <4> QED BY <4>3, <4>4
    <3> QED BY <3>1, <3>2
  <2> QED BY <2>1, <2>2, <2>4, <2>5
<1> QED BY <1>3, <1>6, <1>8 DEF Talk

\* Steps that leave the connections and the bindings alone.
LEMMA ElsewhereTalk ==
    ASSUME Talk, UNCHANGED <<queue, end, tag, bound, network, twice>>
    PROVE  Talk'
BY SameTalk DEF Talk, QueueOK

LEMMA InputTalk ==
    ASSUME IInv, Talk, NEW c \in Clients, Start(c) \/ Stop(c) \/ Private(c) \/ Input(c)
    PROVE  Talk'
<1>1. CASE Start(c) \/ Stop(c) \/ Private(c) \/ Unhook(c) \/ Argument(c)
  <2>1. UNCHANGED <<queue, end, tag, bound, network, twice>>
    BY <1>1 DEF Start, Stop, Private, Unhook, Argument, Fail, connVars
  <2> QED BY <2>1, ElsewhereTalk
<1>2. CASE StopClose(c)
  <2>1. CASE end[target[c]][c] = "closed"
    <3>1. UNCHANGED <<queue, end, tag, bound, network, twice>>
      BY <1>2, <2>1 DEF StopClose, Fail, connVars
    <3> QED BY <3>1, ElsewhereTalk
  <2>2. CASE end[target[c]][c] # "closed"
    <3>1. CloseSocket(c, target[c]) /\ UNCHANGED <<network, twice>>
      BY <1>2, <2>2 DEF StopClose
    <3>2. target[c] \in Conns
      BY <1>2, BoundsAssumption DEF IInv, TypeOK, Aimed, StopClose, Conns
    <3> QED BY <3>1, <3>2, CloseTalk
  <2> QED BY <2>1, <2>2
<1>3. CASE PrivateSend(c)
  <2>1. CASE bound[c] = 0
    <3>1. UNCHANGED <<queue, end, tag, bound, network, twice>>
      BY <1>3, <2>1 DEF PrivateSend, Fail, connVars
    <3> QED BY <3>1, ElsewhereTalk
  <2>2. CASE bound[c] # 0
    <3>1. Put(c, bound[c], "text") /\ UNCHANGED <<end, tag, bound, network, twice>>
      BY <1>3, <2>2 DEF PrivateSend
    <3>2. bound[c] \in Conns /\ "text" \in Signals /\ QueueOK
      BY <2>2, BoundsAssumption DEF IInv, TypeOK, Conns, Signals, Talk
    <3>3. /\ QueueOK'
          /\ \A k \in Conns, e \in Clients, x \in {"registration", "end"} :
                 Holds(queue'[k][e], x) <=>
                     \/ Holds(queue[k][e], x)
                     \/ /\ x = "text" /\ k = bound[c] /\ e = Peer(c)
                        /\ end[bound[c]][c] = "open" /\ end[bound[c]][Peer(c)] # "closed"
      BY <3>1, <3>2, PutFact
    <3>4. \A k \in Conns, e \in Clients, x \in {"registration", "end"} :
              Holds(queue'[k][e], x) <=> Holds(queue[k][e], x)
      BY <3>3
    <3> QED BY <3>1, <3>3, <3>4, SameTalk
  <2> QED BY <2>1, <2>2
<1> QED BY <1>1, <1>2, <1>3 DEF Input

LEMMA NetworkTalk ==
    ASSUME IInv, IInv', Talk, NEW c \in Clients, Network(c)
    PROVE  Talk'
<1>1. ASSUME NEW j \in Conns, Accept(c, j) PROVE Talk'
  <2>1. /\ end' = [end EXCEPT ![j][c] = "open"] /\ end[j][c] = "backlog"
        /\ UNCHANGED <<queue, tag, bound, network, twice>>
    BY <1>1 DEF Accept
  <2>2. end \in [Conns -> [Clients -> {"none", "backlog", "open", "closed"}]]
    BY DEF IInv, TypeOK
  <2>3. \A k \in Conns, e \in Clients : end'[k][e] = IF k = j /\ e = c THEN "open" ELSE end[k][e]
    BY <2>1, <2>2, OneEntry
  <2>4. \A k \in Conns, e \in Clients : end'[k][e] = "closed" <=> end[k][e] = "closed"
    BY <2>1, <2>3
  <2>5. QueueOK'
    BY <2>1 DEF Talk, QueueOK
  <2> QED BY <2>1, <2>4, <2>5, SameTalk
<1>2. ASSUME NEW j \in Conns, Show(c, j) PROVE Talk'
  <2>1. /\ queue' = [queue EXCEPT ![j][c] = Tail(@)] /\ queue[j][c] # <<>>
        /\ Head(queue[j][c]) = "text" /\ UNCHANGED <<end, tag, bound, network, twice>>
    BY <1>2 DEF Show, Readable
  <2>2. QueueOK
    BY DEF Talk
  <2>3. /\ QueueOK'
        /\ \A x : \A k \in Conns, e \in Clients :
               k # j \/ e # c \/ x # "text" => (Holds(queue'[k][e], x) <=> Holds(queue[k][e], x))
    BY <2>1, <2>2, TailQueue
  <2>4. \A k \in Conns, e \in Clients, x \in {"registration", "end"} :
            Holds(queue'[k][e], x) <=> Holds(queue[k][e], x)
    BY <2>3
  <2> QED BY <2>1, <2>3, <2>4, SameTalk
<1>3. ASSUME NEW j \in Conns, Ended(c, j) PROVE Talk'
  BY <1>3, CloseTalk DEF Ended
<1> QED BY <1>1, <1>2, <1>3, GotIPTalk, RegisterTalk, RegisteredTalk DEF Network

\* When nothing is on its way and no client had two connections at a time, both have
\* the same session or none: startprivate, stopprivate and the loss of a connection
\* reach the other side, whatever is read in between.
THEOREM SessionsAgree == Spec => []Agreement
<1>1. IInv /\ IInv' /\ Talk /\ [Next]_vars => Talk'
  <2>1. ASSUME IInv, IInv', Talk, Next PROVE Talk'
    BY <2>1, InputTalk, NetworkTalk DEF Next
  <2>2. ASSUME Talk, UNCHANGED vars PROVE Talk'
    BY <2>2, ElsewhereTalk DEF vars, connVars
  <2> QED BY <2>1, <2>2
<1>2. IInv /\ Talk => Agreement
  <2> SUFFICES ASSUME IInv, Talk, Quiet, ~twice, NEW c \in Clients, bound[c] # 0
               PROVE  bound[Peer(c)] = bound[c]
    <3>1. \A c, d \in Clients : d = c \/ d = Peer(c)
      BY TwoAssumption, OtherOne
    <3>2. (\A c \in Clients : bound[c] # 0 => bound[Peer(c)] = bound[c])
          => \A c, d \in Clients : bound[c] = bound[d]
      BY <3>1, OtherOne, Back
    <3> QED BY <3>2 DEF Agreement
  <2>1. bound[c] \in Conns /\ Peer(c) \in Clients
    BY OtherOne, BoundsAssumption DEF IInv, TypeOK, Conns
  <2>2. \A m : \A j \in Conns, d \in Clients : ~Holds(queue[j][d], m)
    BY DEF Quiet, Holds
  <2>3. network[c] # "register"
    BY DEF Quiet
  <2> QED BY <2>1, <2>2, <2>3 DEF Talk, Sought, Answered
<1> QED BY SessionInvariant, TalkInit, <1>1, <1>2, PTL DEF Spec
=============================================================================
