------------------------------ MODULE Sessions ------------------------------
(***************************************************************************)
(* Login sessions of the chat server: who is logged in, on which           *)
(* connection, since when, and who is locked out.                          *)
(*                                                                         *)
(* Two threads share this state without a common lock.  The network thread *)
(* (server.c, network_thread) accepts connections, runs one request at a   *)
(* time to completion and closes sockets.  The timer thread (server.c,     *)
(* time_thread) walks the connection table every second and logs out the   *)
(* users who have issued no command for LoginTimeout seconds.  A session   *)
(* is a pair of pointers, client->user and user->client, that both threads *)
(* write one assignment at a time: the model has one action per assignment *)
(* the other thread can come between.                                      *)
(***************************************************************************)
EXTENDS Integers, FiniteSets

CONSTANTS
    Users,         \* the users of credentials.txt
    NoUser,        \* a NULL user_t pointer
    MaxConns,      \* bound: connections open at once (clients[] never checks its 256)
    LoginTimeout,  \* UserDb.login_timeout, in seconds
    BlockDuration, \* UserDb.block_duration, in seconds
    MaxTime,       \* bound: the clock stops here
    Passwords,     \* what login requests carry: a subset of {"right", "wrong"}
    Orderly        \* TRUE: every peer is an unhurried bundled client (see Asks, Answered)

ASSUME NoUserAssumption == NoUser \notin Users
ASSUME MaxConnsAssumption == MaxConns \in 1..256
ASSUME TimingAssumption == LoginTimeout \in Nat /\ BlockDuration \in Nat /\ MaxTime \in Nat
ASSUME PasswordsAssumption == Passwords \subseteq {"right", "wrong"}
ASSUME OrderlyAssumption == Orderly \in BOOLEAN

(***************************************************************************)
(* A connection is its slot of clients[].  The kernel hands out the lowest *)
(* free descriptor and pick_client keeps one slot per descriptor, so slots *)
(* are filled in order and a slot is reused by the next connection.        *)
(***************************************************************************)
Conns == 1..MaxConns
NoConn == 0

VARIABLES
    now,          \* time(NULL)
    client,       \* client[u]: user->client
    lastActive,   \* lastActive[u]: user->last_active
    lastBlocked,  \* lastBlocked[u]: user->last_blocked, the end of the lockout
    attempts,     \* attempts[u]: user->attempts, wrong passwords in a row
    open,         \* open[c]: the socket of slot c is open
    bound,        \* bound[c]: client->user
    auth,         \* auth[c]: the users whose password was accepted on connection c
    nclients,     \* slots in use
    crashed,      \* a NULL pointer was dereferenced: the process is gone
    netPc, cur, arg, todo, dst, via,   \* the network thread
    timPc, idx, targ, ttodo, tdst      \* the timer thread

sessVars  == <<client, bound, lastActive>>
lockVars  == <<lastBlocked, attempts>>
connVars  == <<open, auth, nclients>>
netVars   == <<netPc, cur, arg, todo, dst, via>>
timerVars == <<timPc, idx, targ, ttodo, tdst>>
vars == <<now, sessVars, lockVars, connVars, crashed, netVars, timerVars>>

\* isUserLoggedIn: a connection is attached and the user is not idle.
Active(u) == lastActive[u] + LoginTimeout > now
LoggedIn(u) == u # NoUser /\ client[u] # NoConn /\ Active(u)

\* close_socket holds client->lock from before logoutUser until after close().
Closing == {"unlinkConn", "unlinkUser", "part", "shut", "stuck"}
Locked(c) == cur = c /\ netPc \in Closing

NetPcs == {"wait", "drain", "parse", "serve", "greet", "bindConn", "bindUser",
           "check", "touch"} \cup Closing
TimPcs == {"sleep", "scan", "judge", "enter", "unlinkConn", "unlinkUser", "part", "tell"}

Init ==
    /\ now = 0
    /\ client = [u \in Users |-> NoConn]
    /\ lastActive = [u \in Users |-> -1]
    /\ lastBlocked = [u \in Users |-> -1]
    /\ attempts = [u \in Users |-> 0]
    /\ open = [c \in Conns |-> FALSE]
    /\ bound = [c \in Conns |-> NoUser]
    /\ auth = [c \in Conns |-> {}]
    /\ nclients = 0 /\ crashed = FALSE
    /\ netPc = "wait" /\ cur = NoConn /\ arg = NoUser
    /\ todo = {} /\ dst = NoUser /\ via = "none"
    /\ timPc = "sleep" /\ idx = 1 /\ targ = NoUser /\ ttodo = {} /\ tdst = NoUser

-----------------------------------------------------------------------------
(* The network thread waiting in epoll_wait: one event at a time.          *)

NetWaits == ~crashed /\ netPc = "wait"
NetAt(pc) == ~crashed /\ netPc = pc

\* Faulty: the slot of a reused descriptor is not found again.
AcceptInNewSlot(c) ==
    /\ NetWaits
    /\ ~open[c] /\ \A d \in Conns : d < c => open[d]
    /\ open' = [open EXCEPT ![c] = TRUE]
    /\ bound' = [bound EXCEPT ![c] = NoUser]
    /\ auth' = [auth EXCEPT ![c] = {}]
    /\ nclients' = nclients + 1
    /\ UNCHANGED <<now, client, lastActive, lockVars, crashed, netVars, timerVars>>

\* Faulty: the im_client_t of a reused slot is not a fresh one.
AcceptInOldClient(c) ==
    /\ NetWaits
    /\ ~open[c] /\ \A d \in Conns : d < c => open[d]
    /\ open' = [open EXCEPT ![c] = TRUE]
    /\ auth' = [auth EXCEPT ![c] = {}]
    /\ nclients' = IF c > nclients THEN c ELSE nclients
    /\ UNCHANGED <<now, sessVars, lockVars, crashed, netVars, timerVars>>

\* accept(): the lowest free descriptor; a reused slot gets a fresh im_client_t.
Accept(c) ==
    /\ NetWaits
    /\ ~open[c] /\ \A d \in Conns : d < c => open[d]
    /\ open' = [open EXCEPT ![c] = TRUE]
    /\ bound' = [bound EXCEPT ![c] = NoUser]
    /\ auth' = [auth EXCEPT ![c] = {}]
    /\ nclients' = IF c > nclients THEN c ELSE nclients
    /\ UNCHANGED <<now, client, lastActive, lockVars, crashed, netVars, timerVars>>

\* EPOLLIN with bytes: im_receive_command starts parsing what arrived.
Receive(c) ==
    /\ NetWaits /\ open[c]
    /\ netPc' = "parse" /\ cur' = c
    /\ UNCHANGED <<now, sessVars, lockVars, connVars, crashed,
                   arg, todo, dst, via, timerVars>>

\* Faulty: close_socket forgets logoutUser.
CloseWithoutLogout(c) == arg' = bound[c] /\ netPc' = "shut"

\* close_socket takes the lock and reads client->user; logoutUser returns at
\* once when that is NULL or the user has no connection.
BeginClose(c) ==
    /\ arg' = bound[c]
    /\ netPc' = IF bound[c] # NoUser /\ client[bound[c]] # NoConn
                THEN "unlinkConn" ELSE "shut"

\* EPOLLHUP or EPOLLERR, or recv returning 0: the peer is gone.
Hangup(c) ==
    /\ NetWaits /\ open[c]
    /\ BeginClose(c)
    /\ cur' = c /\ via' = "hangup"
    /\ UNCHANGED <<now, sessVars, lockVars, connVars, crashed, todo, dst, timerVars>>

\* EPOLLOUT: the user's offline buffer is sent too when he is active.
Flush(c) ==
    /\ NetWaits /\ open[c]
    /\ bound[c] # NoUser /\ Active(bound[c])
    /\ netPc' = "drain" /\ cur' = c
    /\ UNCHANGED <<now, sessVars, lockVars, connVars, crashed,
                   arg, todo, dst, via, timerVars>>

Idle == /\ netPc' = "wait" /\ cur' = NoConn /\ arg' = NoUser
        /\ todo' = {} /\ dst' = NoUser /\ via' = "none"

\* Reading client->user a second time, for its buffer.
Drain ==
    /\ NetAt("drain")
    /\ crashed' = (bound[cur] = NoUser)
    /\ Idle
    /\ UNCHANGED <<now, sessVars, lockVars, connVars, timerVars>>

-----------------------------------------------------------------------------
(* login() and cmd_login.                                                  *)

\* The bundled client keeps the user name it was given first: its login command
\* can be typed again, and then asks for the same user.
Asks(u) == NetAt("parse") /\ (Orderly => auth[cur] \subseteq {u})

Refused ==
    /\ netPc' = "check"
    /\ UNCHANGED <<now, sessVars, connVars, crashed, cur, arg, todo, dst, via, timerVars>>

\* Code 2 while the lockout lasts, whatever the password.
LoginLocked(u) ==
    /\ Asks(u) /\ Passwords # {}
    /\ now < lastBlocked[u]
    /\ UNCHANGED lockVars
    /\ Refused

\* Faulty: wrong passwords count during a lockout.
LoginWrongWhileLocked(u) ==
    /\ Asks(u) /\ "wrong" \in Passwords
    /\ IF attempts[u] + 1 = 3
       THEN /\ lastBlocked' = [lastBlocked EXCEPT ![u] = now + BlockDuration]
            /\ attempts' = [attempts EXCEPT ![u] = 0]
       ELSE /\ attempts' = [attempts EXCEPT ![u] = @ + 1]
            /\ UNCHANGED lastBlocked
    /\ Refused

\* Codes 3 and 2: the third wrong password in a row starts a lockout.
LoginWrong(u) ==
    /\ Asks(u) /\ "wrong" \in Passwords
    /\ now >= lastBlocked[u]
    /\ IF attempts[u] + 1 = 3
       THEN /\ lastBlocked' = [lastBlocked EXCEPT ![u] = now + BlockDuration]
            /\ attempts' = [attempts EXCEPT ![u] = 0]
       ELSE /\ attempts' = [attempts EXCEPT ![u] = @ + 1]
            /\ UNCHANGED lastBlocked
    /\ Refused

\* Code 4: another session is in place.
LoginElsewhere(u) ==
    /\ Asks(u) /\ "right" \in Passwords
    /\ now >= lastBlocked[u]
    /\ LoggedIn(u)
    /\ UNCHANGED lockVars
    /\ Refused

\* Faulty: the right password ends a lockout.
LoginRightWhileLocked(u) ==
    /\ Asks(u) /\ "right" \in Passwords
    /\ ~LoggedIn(u)
    /\ attempts' = [attempts EXCEPT ![u] = 0]
    /\ lastActive' = [lastActive EXCEPT ![u] = now]
    /\ auth' = [auth EXCEPT ![cur] = @ \cup {u}]
    /\ netPc' = "greet" /\ arg' = u /\ todo' = Users \ {u}
    /\ UNCHANGED <<now, client, bound, lastBlocked, open, nclients, crashed,
                   cur, dst, via, timerVars>>

\* Code 0: the clock is set before the others are told and before the binding.
LoginRight(u) ==
    /\ Asks(u) /\ "right" \in Passwords
    /\ now >= lastBlocked[u]
    /\ ~LoggedIn(u)
    /\ attempts' = [attempts EXCEPT ![u] = 0]
    /\ lastActive' = [lastActive EXCEPT ![u] = now]
    /\ auth' = [auth EXCEPT ![cur] = @ \cup {u}]
    /\ netPc' = "greet" /\ arg' = u /\ todo' = Users \ {u}
    /\ UNCHANGED <<now, client, bound, lastBlocked, open, nclients, crashed,
                   cur, dst, via, timerVars>>

\* cmd_login: client->user = user ...
BindConn ==
    /\ NetAt("bindConn")
    /\ bound' = [bound EXCEPT ![cur] = arg]
    /\ netPc' = "bindUser"
    /\ UNCHANGED <<now, client, lastActive, lockVars, connVars, crashed,
                   cur, arg, todo, dst, via, timerVars>>

\* ... then user->client = client.
BindUser ==
    /\ NetAt("bindUser")
    /\ client' = [client EXCEPT ![arg] = cur]
    /\ netPc' = "check"
    /\ UNCHANGED <<now, bound, lastActive, lockVars, connVars, crashed,
                   cur, arg, todo, dst, via, timerVars>>

-----------------------------------------------------------------------------
(* Every other request, and the activity mark of parse_command.            *)

\* A command that is refused before it reads its user: not logged in, or it
\* names a user who does not exist.
Reject ==
    /\ NetAt("parse")
    /\ netPc' = "check"
    /\ UNCHANGED <<now, sessVars, lockVars, connVars, crashed,
                   cur, arg, todo, dst, via, timerVars>>

\* Faulty: a command does not check that its user is logged in.
CommandUnchecked ==
    /\ NetAt("parse")
    /\ netPc' = "serve"
    /\ UNCHANGED <<now, sessVars, lockVars, connVars, crashed,
                   cur, arg, todo, dst, via, timerVars>>

Command ==
    /\ NetAt("parse") /\ LoggedIn(bound[cur])
    /\ netPc' = "serve"
    /\ UNCHANGED <<now, sessVars, lockVars, connVars, crashed,
                   cur, arg, todo, dst, via, timerVars>>

\* The command body reads client->user again; message and block dereference
\* it, searchfile and getip do not.
Serve ==
    /\ NetAt("serve")
    /\ \/ crashed' = (bound[cur] = NoUser)
       \/ UNCHANGED crashed
    /\ netPc' = "check"
    /\ UNCHANGED <<now, sessVars, lockVars, connVars, cur, arg, todo, dst, via, timerVars>>

\* The next request of the same buffer, or back to epoll_wait.  Requests that
\* come together can as well be separate, but for those after a logout: an
\* unhurried client sends none.
Answered ==
    \/ Idle
    \/ /\ ~Orderly
       /\ netPc' = "parse" /\ arg' = NoUser /\ via' = "none" /\ UNCHANGED <<cur, todo, dst>>

\* No command runs: the request is incomplete, or of an unknown type.
Skip ==
    /\ NetAt("parse")
    /\ Answered
    /\ UNCHANGED <<now, sessVars, lockVars, connVars, crashed, timerVars>>

\* parse_command: if (isUserLoggedIn(db, client->user)) ...
Check ==
    /\ NetAt("check")
    /\ IF LoggedIn(bound[cur])
       THEN netPc' = "touch" /\ UNCHANGED <<cur, arg, todo, dst, via>>
       ELSE Answered
    /\ UNCHANGED <<now, sessVars, lockVars, connVars, crashed, timerVars>>

\* ... client->user->last_active = time(NULL).
Touch ==
    /\ NetAt("touch")
    /\ crashed' = (bound[cur] = NoUser)
    /\ lastActive' = IF bound[cur] = NoUser THEN lastActive
                     ELSE [lastActive EXCEPT ![bound[cur]] = now]
    /\ Answered
    /\ UNCHANGED <<now, client, bound, lockVars, connVars, timerVars>>

-----------------------------------------------------------------------------
(* logoutUser and close_socket on the network thread.                      *)

Logout ==
    /\ NetAt("parse") /\ LoggedIn(bound[cur])
    /\ BeginClose(cur)
    /\ via' = "logout"
    /\ UNCHANGED <<now, sessVars, lockVars, connVars, crashed, cur, todo, dst, timerVars>>

\* user->client->user = NULL
UnlinkConn ==
    /\ NetAt("unlinkConn")
    /\ crashed' = (client[arg] = NoConn)
    /\ bound' = IF client[arg] = NoConn THEN bound
                ELSE [bound EXCEPT ![client[arg]] = NoUser]
    /\ netPc' = "unlinkUser"
    /\ UNCHANGED <<now, client, lastActive, lockVars, connVars, cur, arg, todo, dst, via,
                   timerVars>>

\* Faulty: user->client stays.
UnlinkUserForgotten ==
    /\ NetAt("unlinkUser")
    /\ netPc' = "part" /\ todo' = Users \ {arg}
    /\ UNCHANGED <<now, sessVars, lockVars, connVars, crashed,
                   cur, arg, dst, via, timerVars>>

\* user->client = NULL
UnlinkUser ==
    /\ NetAt("unlinkUser")
    /\ client' = [client EXCEPT ![arg] = NoConn]
    /\ netPc' = "part" /\ todo' = Users \ {arg}
    /\ UNCHANGED <<now, bound, lastActive, lockVars, connVars, crashed,
                   cur, arg, dst, via, timerVars>>

\* close(): a logout command goes on to the activity mark of parse_command.
Shut ==
    /\ NetAt("shut")
    /\ open' = [open EXCEPT ![cur] = FALSE]
    /\ IF via = "logout"
       THEN netPc' = "check" /\ UNCHANGED <<cur, arg, todo, dst, via>>
       ELSE Idle
    /\ UNCHANGED <<now, sessVars, lockVars, auth, nclients, crashed, timerVars>>

-----------------------------------------------------------------------------
(* "... has logged in" and "... has logged out" to the other online users. *)
(* A user who is blocked gets no notice; block lists are not part of this  *)
(* module, so any recipient may be skipped.                                *)

\* Faulty: curr = curr->next is forgotten.
NotifySame(v) ==
    /\ ~crashed /\ netPc \in {"greet", "part"}
    /\ dst = NoUser /\ v \in todo
    /\ (LoggedIn(v) /\ dst' = v) \/ UNCHANGED dst
    /\ UNCHANGED <<now, sessVars, lockVars, connVars, crashed,
                   netPc, cur, arg, todo, via, timerVars>>

NotifyPick(v) ==
    /\ ~crashed /\ netPc \in {"greet", "part"}
    /\ dst = NoUser /\ v \in todo
    /\ todo' = todo \ {v}
    /\ (LoggedIn(v) /\ dst' = v) \/ UNCHANGED dst
    /\ UNCHANGED <<now, sessVars, lockVars, connVars, crashed,
                   netPc, cur, arg, via, timerVars>>

\* send_response_to_user reads user->client again and locks that connection,
\* for ever if this thread holds the lock already.
NotifySend ==
    /\ ~crashed /\ netPc \in {"greet", "part"} /\ dst # NoUser
    /\ crashed' = (client[dst] = NoConn)
    /\ netPc' = IF client[dst] # NoConn /\ Locked(client[dst]) THEN "stuck" ELSE netPc
    /\ dst' = NoUser
    /\ UNCHANGED <<now, sessVars, lockVars, connVars, cur, arg, todo, via, timerVars>>

NotifyDone ==
    /\ ~crashed /\ netPc \in {"greet", "part"}
    /\ dst = NoUser /\ todo = {}
    /\ netPc' = IF netPc = "greet" THEN "bindConn" ELSE "shut"
    /\ UNCHANGED <<now, sessVars, lockVars, connVars, crashed,
                   cur, arg, todo, dst, via, timerVars>>

-----------------------------------------------------------------------------
(* The timer thread.  It holds no lock while it walks clients[].           *)

TimAt(pc) == ~crashed /\ timPc = pc

TimWake ==
    /\ TimAt("sleep")
    /\ timPc' = "scan" /\ idx' = 1
    /\ UNCHANGED <<now, sessVars, lockVars, connVars, crashed, netVars,
                   targ, ttodo, tdst>>

NextSlot == /\ timPc' = "scan" /\ idx' = idx + 1
            /\ targ' = NoUser /\ ttodo' = {} /\ tdst' = NoUser

\* Faulty: the last slot is left out.
TimScanShort ==
    /\ TimAt("scan")
    /\ \/ /\ idx >= nclients
          /\ timPc' = "sleep" /\ idx' = 1 /\ UNCHANGED <<targ, ttodo, tdst>>
       \/ idx < nclients /\ bound[idx] = NoUser /\ NextSlot
       \/ /\ idx < nclients /\ bound[idx] # NoUser
          /\ timPc' = "judge" /\ UNCHANGED <<idx, targ, ttodo, tdst>>
    /\ UNCHANGED <<now, sessVars, lockVars, connVars, crashed, netVars>>

\* clients[i]->user != NULL && ...
TimScan ==
    /\ TimAt("scan")
    /\ \/ /\ idx > nclients
          /\ timPc' = "sleep" /\ idx' = 1 /\ UNCHANGED <<targ, ttodo, tdst>>
       \/ idx <= nclients /\ bound[idx] = NoUser /\ NextSlot
       \/ /\ idx <= nclients /\ bound[idx] # NoUser
          /\ timPc' = "judge" /\ UNCHANGED <<idx, targ, ttodo, tdst>>
    /\ UNCHANGED <<now, sessVars, lockVars, connVars, crashed, netVars>>

\* Faulty: a session ends one second early.
TimJudgeEarly ==
    /\ TimAt("judge")
    /\ IF LoggedIn(bound[idx]) /\ lastActive[bound[idx]] + LoginTimeout > now + 1 THEN NextSlot
       ELSE timPc' = "enter" /\ UNCHANGED <<idx, targ, ttodo, tdst>>
    /\ UNCHANGED <<now, sessVars, lockVars, connVars, crashed, netVars>>

\* ... !isUserLoggedIn(db, clients[i]->user), which is true of NULL.
TimJudge ==
    /\ TimAt("judge")
    /\ IF LoggedIn(bound[idx]) THEN NextSlot
       ELSE timPc' = "enter" /\ UNCHANGED <<idx, targ, ttodo, tdst>>
    /\ UNCHANGED <<now, sessVars, lockVars, connVars, crashed, netVars>>

\* logoutUser(db, epollfd, clients[i]->user)
TimEnter ==
    /\ TimAt("enter")
    /\ targ' = bound[idx]
    /\ timPc' = IF bound[idx] # NoUser /\ client[bound[idx]] # NoConn
                THEN "unlinkConn" ELSE "tell"
    /\ UNCHANGED <<now, sessVars, lockVars, connVars, crashed, netVars,
                   idx, ttodo, tdst>>

TimUnlinkConn ==
    /\ TimAt("unlinkConn")
    /\ crashed' = (client[targ] = NoConn)
    /\ bound' = IF client[targ] = NoConn THEN bound
                ELSE [bound EXCEPT ![client[targ]] = NoUser]
    /\ timPc' = "unlinkUser"
    /\ UNCHANGED <<now, client, lastActive, lockVars, connVars, netVars,
                   idx, targ, ttodo, tdst>>

TimUnlinkUser ==
    /\ TimAt("unlinkUser")
    /\ client' = [client EXCEPT ![targ] = NoConn]
    /\ timPc' = "part" /\ ttodo' = Users \ {targ}
    /\ UNCHANGED <<now, bound, lastActive, lockVars, connVars, crashed, netVars,
                   idx, targ, tdst>>

TimPick(v) ==
    /\ TimAt("part") /\ tdst = NoUser /\ v \in ttodo
    /\ ttodo' = ttodo \ {v}
    /\ (LoggedIn(v) /\ tdst' = v) \/ UNCHANGED tdst
    /\ UNCHANGED <<now, sessVars, lockVars, connVars, crashed, netVars,
                   timPc, idx, targ>>

\* Waits while the network thread is closing the recipient's connection.
TimSend ==
    /\ TimAt("part") /\ tdst # NoUser
    /\ client[tdst] # NoConn => ~Locked(client[tdst])
    /\ crashed' = (client[tdst] = NoConn)
    /\ tdst' = NoUser
    /\ UNCHANGED <<now, sessVars, lockVars, connVars, netVars,
                   timPc, idx, targ, ttodo>>

TimParted ==
    /\ TimAt("part") /\ tdst = NoUser /\ ttodo = {}
    /\ timPc' = "tell"
    /\ UNCHANGED <<now, sessVars, lockVars, connVars, crashed, netVars,
                   idx, targ, ttodo, tdst>>

\* send_response_to_client(epollfd, clients[i], rsp), to whoever has slot i now: the
\* message itself is left out, the lock it waits for is not.
TimTell ==
    /\ TimAt("tell") /\ ~Locked(idx)
    /\ NextSlot
    /\ UNCHANGED <<now, sessVars, lockVars, connVars, crashed, netVars>>

Tick ==
    /\ ~crashed /\ now < MaxTime
    /\ now' = now + 1
    /\ UNCHANGED <<sessVars, lockVars, connVars, crashed, netVars, timerVars>>

-----------------------------------------------------------------------------
NetEvent == \E c \in Conns : Accept(c) \/ Receive(c) \/ Hangup(c) \/ Flush(c)

Request == \/ \E u \in Users : \/ LoginLocked(u) \/ LoginWrong(u)
                               \/ LoginElsewhere(u) \/ LoginRight(u)
           \/ Skip \/ Reject \/ Command \/ Logout

NetStep == \/ Drain \/ BindConn \/ BindUser \/ Serve \/ Check \/ Touch
           \/ UnlinkConn \/ UnlinkUser \/ Shut
           \/ (\E v \in Users : NotifyPick(v)) \/ NotifySend \/ NotifyDone

TimStep == \/ TimWake \/ TimScan \/ TimJudge \/ TimEnter
           \/ TimUnlinkConn \/ TimUnlinkUser
           \/ (\E v \in Users : TimPick(v)) \/ TimSend \/ TimParted \/ TimTell

Next == NetEvent \/ Request \/ NetStep \/ TimStep \/ Tick

Spec == Init /\ [][Next]_vars

\* The behaviours in which no handler of one thread is interrupted by the other,
\* as if one lock were held by a network event and by the treatment of one slot.
TimQuiet == timPc \in {"sleep", "scan"}
SerialNext == \/ TimQuiet /\ (NetEvent \/ Request \/ NetStep)
              \/ netPc = "wait" /\ TimStep
              \/ Tick
SerialSpec == Init /\ [][SerialNext]_vars

\* Each thread keeps running; nothing obliges a peer to connect or to send.
Fairness == WF_vars(Request \/ NetStep) /\ WF_vars(TimStep)
FairSpec == Spec /\ Fairness
SerialFairSpec == SerialSpec /\ Fairness
-----------------------------------------------------------------------------
(* Properties.                                                             *)

TypeOK ==
    /\ now \in 0..MaxTime
    /\ client \in [Users -> Conns \cup {NoConn}]
    /\ lastActive \in [Users -> -1..MaxTime]
    /\ lastBlocked \in [Users -> -1..(MaxTime + BlockDuration)]
    /\ attempts \in [Users -> 0..2]
    /\ open \in [Conns -> BOOLEAN]
    /\ bound \in [Conns -> Users \cup {NoUser}]
    /\ auth \in [Conns -> SUBSET Users]
    /\ nclients \in 0..MaxConns /\ crashed \in BOOLEAN
    /\ netPc \in NetPcs /\ cur \in Conns \cup {NoConn} /\ arg \in Users \cup {NoUser}
    /\ todo \subseteq Users /\ dst \in Users \cup {NoUser}
    /\ via \in {"none", "hangup", "logout"}
    /\ timPc \in TimPcs /\ idx \in 1..(MaxConns + 1) /\ targ \in Users \cup {NoUser}
    /\ ttodo \subseteq Users /\ tdst \in Users \cup {NoUser}

\* A thread has cleared client->user of u's connection and not yet u->client.
MidLogout(u) == \/ netPc = "unlinkUser" /\ arg = u
                \/ timPc = "unlinkUser" /\ targ = u

\* user->client never outlives its connection: it points to an open connection
\* that points back, but for the instant between the two assignments of a
\* logout.  (Every way out of a session, hangup, logout command or timer, has to
\* undo both halves, whatever the other thread is doing to the same session.)
NoDanglingClient ==
    ~crashed => \A u \in Users : client[u] # NoConn =>
        \/ open[client[u]] /\ bound[client[u]] = u
        \/ MidLogout(u)

\* A connection speaks for a user only if that user's password was accepted on
\* this very connection: nothing is inherited with a reused descriptor or slot.
NothingInherited == \A c \in Conns : bound[c] \in auth[c] \cup {NoUser}

\* No session starts during a lockout: not even one whose password was checked
\* before, since nothing the server does between the check and the binding can
\* start a lockout.
NoSessionWhileLocked ==
    [][\A u \in Users :
          client'[u] # client[u] /\ client'[u] # NoConn => now >= lastBlocked[u]]_vars

\* A lockout runs its full length: it is not shortened, extended or restarted
\* before it is over, however many connections keep guessing.
LockoutNotExtended ==
    [][\A u \in Users : lastBlocked'[u] # lastBlocked[u] =>
          lastBlocked[u] <= now /\ lastBlocked'[u] >= now + BlockDuration]_vars

\* The process does not die of a NULL pointer and the network thread does not
\* wait for a lock it holds.  True of SerialSpec only: each handler is sound by
\* itself, it is the missing lock between the two threads that lets one clear
\* the pointer that the other has just tested.
Failed == crashed \/ netPc = "stuck"
NeverFails == ~Failed

\* Code 4 is the truth: a login refused with "another session is in place" met
\* a session on an open connection, or one the timer thread is just ending.
RefusalIsTrue ==
    [][\A u \in Users : LoginElsewhere(u) => open[client[u]] \/ MidLogout(u)]_vars

\* server.c, time_thread: "You haven't issued any command for a while. You are
\* automatically logged off." - the timer ends the sessions of idle users only.
OnlyIdleLoggedOff ==
    [][\A u \in Users : TimUnlinkUser /\ targ = u => ~Active(u)]_vars

\* An abandoned session does not last: the timer ends it, unless a command (or a
\* new login) makes the user active again or the process fails first.
IdleIsReaped ==
    \A u \in Users :
        client[u] # NoConn /\ ~Active(u) ~> client[u] = NoConn \/ Active(u) \/ Failed

\* The network thread always comes back to epoll_wait: the lock it holds while
\* it closes a socket, and those it takes for the notices, cannot block it for
\* ever, unless it ends up waiting for the one it holds.
NetReturns == netPc # "wait" ~> netPc = "wait" \/ Failed
=============================================================================
