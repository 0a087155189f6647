-------------------------------- MODULE Peers --------------------------------
(***************************************************************************)
(* Private sessions between two clients: startprivate asks the server for  *)
(* the address of the other one and connects to him, the first message on  *)
(* the connection tells him who it is, and either side closes it with      *)
(* stopprivate.  Each client knows the other one as a user with at most    *)
(* one connection (user->client), and a connection as that of the user     *)
(* (client->user).                                                         *)
(*                                                                         *)
(* The network thread binds and closes; so does the input thread, which    *)
(* reads user->client again at every step of private and stopprivate       *)
(* without a lock.  close_socket is one step, its lock makes it one for    *)
(* each connection.                                                        *)
(***************************************************************************)
EXTENDS Naturals, Sequences, FiniteSets

CONSTANTS
    Clients,    \* the two of them
    MaxStarts,  \* bound: startprivate commands
    MaxSent     \* bound: private messages of each client

ASSUME TwoAssumption == \E x, y \in Clients : x # y /\ Clients = {x, y}
ASSUME BoundsAssumption == MaxStarts \in Nat /\ MaxSent \in Nat

VARIABLES
    starts,   \* startprivate commands so far
    answers,  \* answers[c]: GetIPResponses on their way to c
    conns,    \* connections made so far
    end,      \* end[j][c]: c's end of connection j: none, backlog, open, closed
    tag,      \* tag[j][c]: client->user is set at c's end of j
    queue,    \* queue[j][c]: what is on its way to c over j
    bound,    \* bound[c]: user->client at c, 0 is NULL
    input,    \* input[c]: where the input thread is
    target,   \* target[c]: the connection that stopprivate closes
    network,  \* network[c]: loop, or register between two steps of a GetIPResponse
    failed,   \* no; null: a null pointer is followed; again: a socket is closed twice
    sent,     \* sent[c]: private messages so far
    twice,    \* history: a client has bound one connection while it had another
    overlap   \* history: a thread bound or closed a connection while the other was busy

connVars == <<answers, conns, end, tag, queue>>
vars == <<starts, connVars, bound, input, target, network, failed, sent, twice, overlap>>

Conns == 1..MaxStarts
Peer(c) == CHOOSE d \in Clients : d # c

Init ==
    /\ starts = 0 /\ answers = [c \in Clients |-> 0] /\ conns = 0
    /\ end = [j \in Conns |-> [c \in Clients |-> "none"]]
    /\ tag = [j \in Conns |-> [c \in Clients |-> FALSE]]
    /\ queue = [j \in Conns |-> [c \in Clients |-> <<>>]]
    /\ bound = [c \in Clients |-> 0] /\ input = [c \in Clients |-> "idle"]
    /\ target = [c \in Clients |-> 0] /\ network = [c \in Clients |-> "loop"]
    /\ failed = "no" /\ sent = [c \in Clients |-> 0]
    /\ twice = FALSE /\ overlap = FALSE

Fail(how) ==
    /\ failed' = how
    /\ UNCHANGED <<starts, connVars, bound, input, target, network, sent, twice, overlap>>

\* user->client = client and client->user = user, in the network thread.
Bind(c, j) ==
    /\ bound' = [bound EXCEPT ![c] = j]
    /\ tag' = [tag EXCEPT ![j][c] = TRUE]
    /\ twice' = (twice \/ bound[c] # 0)
    /\ overlap' = (overlap \/ input[c] # "idle")

\* Faulty: user->client keeps the connection.
CloseKeepingBound(c, j) ==
    /\ end[j][c] # "closed"
    /\ end' = [end EXCEPT ![j][c] = "closed"]
    /\ tag' = [tag EXCEPT ![j][c] = FALSE]
    /\ \E n \in 0..Len(queue[j][Peer(c)]) :
          queue' = [queue EXCEPT ![j][c] = <<>>, ![j][Peer(c)] =
                        IF end[j][Peer(c)] = "closed" THEN <<>>
                        ELSE SubSeq(@, 1, n) \o <<"end">>]
    /\ UNCHANGED <<bound, answers, conns>>

\* close_socket with logoutUser, which unbinds whatever connection the user has.
\* What is still in the output buffer is not sent, and unread input can make the
\* kernel drop more.
CloseSocket(c, j) ==
    /\ end[j][c] # "closed"
    /\ end' = [end EXCEPT ![j][c] = "closed"]
    /\ IF tag[j][c] /\ bound[c] # 0
       THEN tag' = [tag EXCEPT ![bound[c]][c] = FALSE] /\ bound' = [bound EXCEPT ![c] = 0]
       ELSE UNCHANGED <<tag, bound>>
    /\ \E n \in 0..Len(queue[j][Peer(c)]) :
          queue' = [queue EXCEPT ![j][c] = <<>>, ![j][Peer(c)] =
                        IF end[j][Peer(c)] = "closed" THEN <<>>
                        ELSE SubSeq(@, 1, n) \o <<"end">>]
    /\ UNCHANGED <<answers, conns>>

\* send_response_to_client
Put(c, j, m) ==
    queue' = IF end[j][c] = "open" /\ end[j][Peer(c)] # "closed"
             THEN [queue EXCEPT ![j][Peer(c)] = Append(@, m)] ELSE queue

-----------------------------------------------------------------------------
(* The input thread.                                                       *)

\* cmd_startprivate, and the server, which has no objection.
Start(c) ==
    /\ input[c] = "idle" /\ starts < MaxStarts
    /\ starts' = starts + 1 /\ answers' = [answers EXCEPT ![c] = @ + 1]
    /\ UNCHANGED <<conns, end, tag, queue, bound, input, target, network, failed, sent, twice, overlap>>

Goto(c, pc) == input' = [input EXCEPT ![c] = pc]

\* Faulty: stopprivate tests only that there is such a user.
StopUntested(c) ==
    /\ input[c] = "idle" /\ Goto(c, "unhook")
    /\ UNCHANGED <<starts, connVars, bound, target, network, failed, sent, twice, overlap>>

\* cmd_stopprivate: the test of user->client,
Stop(c) ==
    /\ input[c] = "idle" /\ bound[c] # 0 /\ Goto(c, "unhook")
    /\ UNCHANGED <<starts, connVars, bound, target, network, failed, sent, twice, overlap>>

\* user->client->close_prehook = NULL,
Unhook(c) ==
    /\ input[c] = "unhook"
    /\ IF bound[c] = 0 THEN Fail("null")
       ELSE /\ Goto(c, "close")
            /\ UNCHANGED <<starts, connVars, bound, target, network, failed, sent, twice, overlap>>

\* the argument of close_socket, which may be NULL,
Argument(c) ==
    /\ input[c] = "close"
    /\ target' = [target EXCEPT ![c] = bound[c]]
    /\ Goto(c, IF bound[c] = 0 THEN "idle" ELSE "closing")
    /\ UNCHANGED <<starts, connVars, bound, network, failed, sent, twice, overlap>>

\* and close_socket.
StopClose(c) ==
    /\ input[c] = "closing"
    /\ IF end[target[c]][c] = "closed" THEN Fail("again")
       ELSE /\ CloseSocket(c, target[c])
            /\ Goto(c, "idle") /\ target' = [target EXCEPT ![c] = 0]
            /\ overlap' = (overlap \/ network[c] # "loop")
            /\ UNCHANGED <<starts, network, failed, sent, twice>>

\* cmd_private: the test of user->client,
Private(c) ==
    /\ input[c] = "idle" /\ bound[c] # 0 /\ sent[c] < MaxSent /\ Goto(c, "send")
    /\ UNCHANGED <<starts, connVars, bound, target, network, failed, sent, twice, overlap>>

\* and the message.
PrivateSend(c) ==
    /\ input[c] = "send"
    /\ IF bound[c] = 0 THEN Fail("null")
       ELSE /\ Put(c, bound[c], "text")
            /\ sent' = [sent EXCEPT ![c] = @ + 1] /\ Goto(c, "idle")
            /\ UNCHANGED <<starts, answers, conns, end, tag, bound, target, network, failed, twice, overlap>>

-----------------------------------------------------------------------------
(* The network thread.                                                     *)

\* GetIPResponse: connect and bind,
GotIP(c) ==
    /\ network[c] = "loop" /\ answers[c] > 0
    /\ conns' = conns + 1 /\ answers' = [answers EXCEPT ![c] = @ - 1]
    /\ end' = [end EXCEPT ![conns + 1] = [d \in Clients |-> IF d = c THEN "open" ELSE "backlog"]]
    /\ Bind(c, conns + 1)
    /\ network' = [network EXCEPT ![c] = "register"]
    /\ UNCHANGED <<starts, queue, input, target, failed, sent>>

\* Faulty: each side waits for the other one to register first.
RegisterSecond(c) ==
    /\ network[c] = "register" /\ bound[c] # 0 /\ bound[Peer(c)] = bound[c]
    /\ network' = [network EXCEPT ![c] = "loop"]
    /\ UNCHANGED <<starts, connVars, bound, input, target, failed, sent, twice, overlap>>

\* then PrivateRegistrationResponse, to nu->client.
Register(c) ==
    /\ network[c] = "register"
    /\ IF bound[c] = 0 THEN Fail("null")
       ELSE /\ Put(c, bound[c], "registration")
            /\ network' = [network EXCEPT ![c] = "loop"]
            /\ UNCHANGED <<starts, answers, conns, end, tag, bound, input, target, failed, sent,
                           twice, overlap>>

\* The listening socket.
Accept(c, j) ==
    /\ network[c] = "loop" /\ end[j][c] = "backlog"
    /\ end' = [end EXCEPT ![j][c] = "open"]
    /\ UNCHANGED <<starts, answers, conns, tag, queue, bound, input, target, network, failed, sent,
                   twice, overlap>>

Readable(c, j, what) ==
    /\ network[c] = "loop" /\ end[j][c] = "open"
    /\ queue[j][c] # <<>> /\ Head(queue[j][c]) = what

\* PrivateRegistrationResponse
Registered(c, j) ==
    /\ Readable(c, j, "registration")
    /\ Bind(c, j)
    /\ queue' = [queue EXCEPT ![j][c] = Tail(@)]
    /\ UNCHANGED <<starts, answers, conns, end, input, target, network, failed, sent>>

\* TextResponse
Show(c, j) ==
    /\ Readable(c, j, "text")
    /\ queue' = [queue EXCEPT ![j][c] = Tail(@)]
    /\ UNCHANGED <<starts, answers, conns, end, tag, bound, input, target, network, failed, sent,
                   twice, overlap>>

\* Faulty: the end of the connection is read and nothing closed.
EndedUnnoticed(c, j) ==
    /\ Readable(c, j, "end")
    /\ queue' = [queue EXCEPT ![j][c] = Tail(@)]
    /\ UNCHANGED <<starts, answers, conns, end, tag, bound, input, target, network, failed, sent,
                   twice, overlap>>

\* recv returns 0, or EPOLLHUP: close_socket, with pm_close_connection before it.
Ended(c, j) ==
    /\ Readable(c, j, "end")
    /\ CloseSocket(c, j)
    /\ overlap' = (overlap \/ input[c] # "idle")
    /\ UNCHANGED <<starts, input, target, network, failed, sent, twice>>

Network(c) ==
    GotIP(c) \/ Register(c)
    \/ \E j \in Conns : Accept(c, j) \/ Registered(c, j) \/ Show(c, j) \/ Ended(c, j)

Input(c) == Unhook(c) \/ Argument(c) \/ StopClose(c) \/ PrivateSend(c)

Next ==
    /\ failed = "no"
    /\ \E c \in Clients : Start(c) \/ Stop(c) \/ Private(c) \/ Input(c) \/ Network(c)

Spec == Init /\ [][Next]_vars

\* Threads run; users type what they like.
FairSpec == Spec /\ \A c \in Clients : WF_vars(failed = "no" /\ Input(c))
                                       /\ WF_vars(failed = "no" /\ Network(c))

-----------------------------------------------------------------------------
(* Properties.                                                             *)

TypeOK ==
    /\ starts \in 0..MaxStarts /\ conns \in 0..starts
    /\ answers \in [Clients -> 0..MaxStarts]
    /\ end \in [Conns -> [Clients -> {"none", "backlog", "open", "closed"}]]
    /\ tag \in [Conns -> [Clients -> BOOLEAN]]
    /\ bound \in [Clients -> 0..conns] /\ target \in [Clients -> 0..conns]
    /\ input \in [Clients -> {"idle", "unhook", "close", "closing", "send"}]
    /\ network \in [Clients -> {"loop", "register"}]
    /\ failed \in {"no", "null", "again"}
    /\ sent \in [Clients -> 0..MaxSent] /\ twice \in BOOLEAN /\ overlap \in BOOLEAN

\* user->client is never a closed connection, and it knows its user: the next private
\* message goes out, and closing either leaves nothing behind.
NoDangling ==
    \A c \in Clients : bound[c] # 0 => end[bound[c]][c] = "open" /\ tag[bound[c]][c]

\* No null pointer is followed and no socket closed twice, except when one thread of
\* a client has bound or closed a connection in the middle of what the other does.
FailsOnlyByOverlap == failed # "no" => overlap

Quiet ==
    /\ \A c \in Clients : answers[c] = 0 /\ input[c] = "idle" /\ network[c] = "loop"
    /\ \A j \in Conns, c \in Clients : queue[j][c] = <<>> /\ end[j][c] # "backlog"

\* When nothing is on its way, both sides have the same session or none, whoever
\* started and stopped it.  The exception: somewhere a second connection was bound
\* while there was one, by crossing or repeated commands or because the end of a
\* session came after the start of the next.
Agreement ==
    Quiet /\ ~twice /\ failed = "no" => \A c, d \in Clients : bound[c] = bound[d]

\* A session that one side has is one for the other side in the end, or is over.
Established ==
    \A c \in Clients, j \in Conns :
        bound[c] = j ~> bound[Peer(c)] = j \/ bound[c] # j \/ twice \/ failed # "no"
=============================================================================
