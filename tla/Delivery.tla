------------------------------ MODULE Delivery ------------------------------
(***************************************************************************)
(* How what the server has to say reaches its users: messages, notices and *)
(* replies, the output buffer of a connection, the mailbox of a user who   *)
(* is away, and the EPOLLOUT event that empties both.                      *)
(*                                                                         *)
(* A user has at most one connection here and a handler is one action;     *)
(* Sessions is about what happens when neither is so.  Flushing a          *)
(* connection takes two actions, because it takes two calls of send and    *)
(* the peer may read, and so make room, between them.                      *)
(***************************************************************************)
EXTENDS Naturals, Sequences, FiniteSets

CONSTANTS
    Users,
    NoUser,
    Room,      \* messages that fit in the socket's buffer
    MaxSteps   \* bound: logins and requests while the system runs

ASSUME NoUserAssumption == NoUser \notin Users
ASSUME BoundsAssumption == Room \in Nat \ {0} /\ MaxSteps \in Nat

VARIABLES
    sess,     \* closed; open: no user bound; idle: bound, timed out; here: logged in
    out,      \* out[u]: the outbuffer of u's connection
    mail,     \* mail[u]: user->buffer
    armed,    \* armed[u]: EPOLLOUT is among the events of the connection
    wire,     \* wire[u]: sent and not yet read by the peer
    blocked,  \* the pairs <<by, whom>>
    turn,     \* the connection between its two sends, or NoUser
    steps,    \* logins and requests so far
    inbox,    \* history: the messages u has read
    due,      \* history: the messages accepted for u
    lost,     \* history: the messages that were in a connection when it closed
    short     \* history: the last flush left something behind, for want of room

queueVars == <<out, mail, armed, wire>>
histVars  == <<inbox, due, lost, short>>
vars == <<sess, queueVars, blocked, turn, steps, histVars>>

\* A message is the number of the request that sent it; replies and notices are
\* all alike.
Note == 0
Messages(q) == {q[i] : i \in DOMAIN q} \ {Note}

Here(u) == sess[u] = "here"
Free == turn = NoUser

Init ==
    /\ sess = [u \in Users |-> "closed"]
    /\ out = [u \in Users |-> <<>>] /\ mail = [u \in Users |-> <<>>]
    /\ armed = [u \in Users |-> FALSE]
    /\ wire = [u \in Users |-> <<>>]
    /\ blocked = {} /\ turn = NoUser /\ steps = 0
    /\ inbox = [u \in Users |-> <<>>] /\ due = [u \in Users |-> {}]
    /\ lost = [u \in Users |-> {}] /\ short = [u \in Users |-> FALSE]

-----------------------------------------------------------------------------
(* Putting something in the buffers.                                       *)

\* Faulty: send_response alone, which does not ask for EPOLLOUT.
ReplyUnarmed(to, m) ==
    /\ out' = [u \in Users |-> IF u \in to THEN Append(out[u], m) ELSE out[u]]
    /\ UNCHANGED armed

\* send_response_to_client, to the connections of the users in to.
Reply(to, m) ==
    /\ out' = [u \in Users |-> IF u \in to THEN Append(out[u], m) ELSE out[u]]
    /\ armed' = [u \in Users |-> armed[u] \/ u \in to]

\* send_response_to_user: to the connection when the user is logged in, else to
\* the mailbox.
Post(to, m) ==
    /\ Reply({u \in to : Here(u)}, m)
    /\ mail' = [u \in Users |-> IF u \in to /\ ~Here(u) THEN Append(mail[u], m) ELSE mail[u]]

\* Who is told that u comes or goes: login and logoutUser.
Watchers(u) == {v \in Users \ {u} : Here(v) /\ <<u, v>> \notin blocked}

Counted == Free /\ steps < MaxSteps /\ steps' = steps + 1

-----------------------------------------------------------------------------
(* Sessions.                                                               *)

\* A new connection and a successful login on it: the notices, and "Welcome".
Login(u) ==
    /\ Counted /\ sess[u] = "closed"
    /\ sess' = [sess EXCEPT ![u] = "here"]
    /\ Reply(Watchers(u) \cup {u}, Note)
    /\ UNCHANGED <<mail, wire, blocked, turn, histVars>>

\* last_active + login_timeout has passed.
Expire(u) ==
    /\ Here(u)
    /\ sess' = [sess EXCEPT ![u] = "idle"]
    /\ UNCHANGED <<queueVars, blocked, turn, steps, histVars>>

\* time_thread: logoutUser, then "You are automatically logged off".
Reap(u) ==
    /\ Free /\ sess[u] = "idle"
    /\ sess' = [sess EXCEPT ![u] = "open"]
    /\ Reply(Watchers(u) \cup {u}, Note)
    /\ UNCHANGED <<mail, wire, blocked, turn, steps, histVars>>

\* close_socket, on a hangup or on the logout command: what the connection still
\* holds goes with it, what is in the mailbox stays.
Close(u) ==
    /\ Free /\ sess[u] # "closed"
    /\ sess' = [sess EXCEPT ![u] = "closed"]
    /\ LET told == IF sess[u] = "open" THEN {} ELSE Watchers(u)
       IN  /\ out' = [v \in Users |-> IF v = u THEN <<>>
                                      ELSE IF v \in told THEN Append(out[v], Note) ELSE out[v]]
           /\ armed' = [v \in Users |-> v # u /\ (armed[v] \/ v \in told)]
    /\ wire' = [wire EXCEPT ![u] = <<>>]
    /\ lost' = [lost EXCEPT ![u] = @ \cup Messages(out[u]) \cup Messages(wire[u])]
    /\ short' = [short EXCEPT ![u] = FALSE]
    /\ UNCHANGED <<mail, blocked, turn, steps, inbox, due>>

-----------------------------------------------------------------------------
(* Requests.                                                               *)

\* "You are not logged in", or the reply to whoelse, getip and every request that
\* changes nothing here.
Ask(u) ==
    /\ Counted /\ sess[u] # "closed"
    /\ Reply({u}, Note)
    /\ UNCHANGED <<sess, mail, wire, blocked, turn, histVars>>

\* cmd_message to one user: no reply but when the recipient has blocked the sender.
Message(a, b) ==
    /\ Counted /\ Here(a)
    /\ IF <<b, a>> \in blocked
       THEN Reply({a}, Note) /\ UNCHANGED <<mail, due>>
       ELSE /\ Post({b}, steps + 1)
            /\ due' = [due EXCEPT ![b] = @ \cup {steps + 1}]
    /\ UNCHANGED <<sess, wire, blocked, turn, inbox, lost, short>>

\* cmd_message to everyone who is logged in; one reply if any of them has blocked
\* the sender.
Broadcast(a) ==
    /\ Counted /\ Here(a)
    /\ LET all  == {u \in Users \ {a} : Here(u)}
           deaf == {u \in all : <<u, a>> \in blocked}
           m(u) == IF u = a THEN Note ELSE steps + 1
           to   == (all \ deaf) \cup (IF deaf = {} THEN {} ELSE {a})
       IN  /\ out' = [u \in Users |-> IF u \in to THEN Append(out[u], m(u)) ELSE out[u]]
           /\ armed' = [u \in Users |-> armed[u] \/ u \in to]
           /\ due' = [u \in Users |-> IF u \in all \ deaf THEN due[u] \cup {steps + 1}
                                      ELSE due[u]]
    /\ UNCHANGED <<sess, mail, wire, blocked, turn, inbox, lost, short>>

Block(a, b) ==
    /\ Counted /\ Here(a) /\ a # b
    /\ blocked' = blocked \cup {<<a, b>>}
    /\ Reply({a}, Note)
    /\ UNCHANGED <<sess, mail, wire, turn, histVars>>

Unblock(a, b) ==
    /\ Counted /\ Here(a) /\ a # b
    /\ blocked' = blocked \ {<<a, b>>}
    /\ Reply({a}, Note)
    /\ UNCHANGED <<sess, mail, wire, turn, histVars>>

-----------------------------------------------------------------------------
(* EPOLLOUT: im_send_buffer on the outbuffer, then on the mailbox.  Each   *)
(* call that leaves its own buffer empty gives EPOLLOUT up, whatever there *)
(* is in the other one.                                                    *)

Fits(u, q) == IF Len(q) <= Room - Len(wire[u]) THEN Len(q) ELSE Room - Len(wire[u])
Rest(q, n) == SubSeq(q, n + 1, Len(q))

FlushOut(u) ==
    /\ Free /\ sess[u] # "closed" /\ armed[u] /\ Len(wire[u]) < Room
    /\ LET n == Fits(u, out[u])
       IN  /\ wire' = [wire EXCEPT ![u] = @ \o SubSeq(out[u], 1, n)]
           /\ out' = [out EXCEPT ![u] = Rest(@, n)]
           /\ armed' = [armed EXCEPT ![u] = n < Len(out[u])]
    /\ short' = [short EXCEPT ![u] = out'[u] # <<>>]
    /\ turn' = u
    /\ UNCHANGED <<sess, mail, blocked, steps, inbox, due, lost>>

\* Faulty: buffer_start does not move with what was sent.
FlushMailAgain(u) ==
    /\ turn = u /\ turn' = NoUser
    /\ IF Here(u)
       THEN wire' = [wire EXCEPT ![u] = @ \o SubSeq(mail[u], 1, Fits(u, mail[u]))]
       ELSE UNCHANGED wire
    /\ UNCHANGED <<sess, out, mail, armed, blocked, steps, histVars>>

\* Faulty: the mailbox is not looked at.
FlushMailNever(u) ==
    /\ turn = u /\ turn' = NoUser
    /\ UNCHANGED <<sess, queueVars, blocked, steps, histVars>>

\* Faulty: the mailbox is sent to a session that has timed out.
FlushMailIdle(u) ==
    /\ turn = u /\ turn' = NoUser
    /\ IF sess[u] # "open"
       THEN LET n == Fits(u, mail[u])
            IN  /\ wire' = [wire EXCEPT ![u] = @ \o SubSeq(mail[u], 1, n)]
                /\ mail' = [mail EXCEPT ![u] = Rest(@, n)]
                /\ armed' = [armed EXCEPT ![u] = @ /\ n < Len(mail[u])]
                /\ short' = [short EXCEPT ![u] = @ \/ n < Len(mail[u])]
       ELSE UNCHANGED <<wire, mail, armed, short>>
    /\ UNCHANGED <<sess, out, blocked, steps, inbox, due, lost>>

\* With no room left send returns -1 and the events stay as they are.
FlushMail(u) ==
    /\ turn = u /\ turn' = NoUser
    /\ IF Here(u)
       THEN LET n == Fits(u, mail[u])
            IN  /\ wire' = [wire EXCEPT ![u] = @ \o SubSeq(mail[u], 1, n)]
                /\ mail' = [mail EXCEPT ![u] = Rest(@, n)]
                /\ armed' = [armed EXCEPT ![u] = @ /\ n < Len(mail[u])]
                /\ short' = [short EXCEPT ![u] = @ \/ n < Len(mail[u])]
       ELSE UNCHANGED <<wire, mail, armed, short>>
    /\ UNCHANGED <<sess, out, blocked, steps, inbox, due, lost>>

\* The peer reads.
Read(u) ==
    /\ wire[u] # <<>>
    /\ wire' = [wire EXCEPT ![u] = Tail(@)]
    /\ inbox' = [inbox EXCEPT ![u] = IF Head(wire[u]) = Note THEN @ ELSE Append(@, Head(wire[u]))]
    /\ UNCHANGED <<sess, out, mail, armed, blocked, turn, steps, due, lost, short>>

Next == \E u \in Users :
            \/ Login(u) \/ Expire(u) \/ Reap(u) \/ Close(u)
            \/ Ask(u) \/ Broadcast(u)
            \/ \E v \in Users : Message(u, v) \/ Block(u, v) \/ Unblock(u, v)
            \/ FlushOut(u) \/ FlushMail(u) \/ Read(u)

Spec == Init /\ [][Next]_vars

\* The network thread handles the events it is given, and peers read.
Fairness == \A u \in Users : /\ WF_vars(FlushOut(u)) /\ WF_vars(FlushMail(u))
                             /\ WF_vars(Read(u))
FairSpec == Spec /\ Fairness

-----------------------------------------------------------------------------
(* Properties.                                                             *)

TypeOK ==
    /\ sess \in [Users -> {"closed", "open", "idle", "here"}]
    /\ armed \in [Users -> BOOLEAN] /\ short \in [Users -> BOOLEAN]
    /\ blocked \subseteq Users \X Users
    /\ turn \in Users \cup {NoUser} /\ steps \in 0..MaxSteps
    /\ DOMAIN out = Users /\ DOMAIN mail = Users /\ DOMAIN wire = Users
    /\ \A u \in Users : /\ Len(wire[u]) <= Room
                        /\ sess[u] = "closed" => out[u] = <<>> /\ ~armed[u]
                        /\ due[u] \subseteq 1..steps /\ lost[u] \subseteq due[u]

\* What was read by, sent to and kept for u, in the order in which it is to arrive.
Trail(u) == inbox[u] \o wire[u] \o out[u] \o mail[u]

\* Whatever route a message takes, it is in one place at a time and read at most
\* once; it disappears only with a connection that closes while holding it.
Once(q) == \A i, j \in DOMAIN q : q[i] # Note /\ q[i] = q[j] => i = j
ExactlyOnce ==
    TypeOK /\ \A u \in Users : Messages(Trail(u)) = due[u] \ lost[u] /\ Once(Trail(u))

\* Messages go out in the order in which they came, through two buffers, short sends,
\* timeouts and new connections.  The one step that can break the order is a message
\* to somebody who is logged in and has not yet been sent all of his mailbox: it
\* goes to the outbuffer, which is sent first.
InOrder(q) == \A i, j \in DOMAIN q : i < j /\ Note \notin {q[i], q[j]} => q[i] < q[j]
OvertakenByPostOnly ==
    [][\A u \in Users : InOrder(Trail(u)) /\ ~InOrder(Trail(u)') =>
          Here(u) /\ mail[u] # <<>> /\ Len(out'[u]) > Len(out[u])]_vars

\* Between events, output that waits for a connection has EPOLLOUT to wait for.
\* The one exception is a flush that found no room: it gives EPOLLOUT up when one
\* of the two buffers is empty, though the other is not.
Waiting(u) == sess[u] # "closed" /\ (out[u] # <<>> \/ (Here(u) /\ mail[u] # <<>>))
NeverForgotten == \A u \in Users : Waiting(u) /\ turn # u => armed[u] \/ short[u]

\* A user who logs in gets what was left in the mailbox, and an open connection
\* what was put in its buffer, unless a flush finds no room.
OutputGoesOut == \A u \in Users : Waiting(u) ~> ~Waiting(u) \/ short[u]
=============================================================================
