---------------------------- MODULE ClientLogin -----------------------------
(***************************************************************************)
(* How the bundled client logs in.  The input thread asks for a password,  *)
(* sends it and waits on loginlock; the network thread unlocks loginlock   *)
(* after every input on any connection, and leaves in lastresponse whether *)
(* the last answer it parsed was a success.  Nothing ties an unlock to the *)
(* answer the input thread waits for: an input may hold only a part of it. *)
(*                                                                         *)
(* loginlock is locked by one thread and unlocked by the other.  POSIX     *)
(* leaves that undefined for a mutex of the default kind; the C library in *)
(* use makes it a binary semaphore, and so does the model.  The handshake  *)
(* is over when the input thread goes on to commands.  What Requests also  *)
(* has a name for is named after the login here.                           *)
(***************************************************************************)
EXTENDS Naturals, Sequences, FiniteSets

CONSTANTS
    MaxLogins   \* bound: passwords the user types

ASSUME MaxLoginsAssumption == MaxLogins \in Nat \ {0}

VARIABLES
    inPc,     \* input thread: lock, test, ask, send, ready
    netPc,    \* network thread: wait, unlock
    locked,   \* loginlock is held
    last,     \* lastresponse
    loginUp,  \* login requests on their way, by their password
    loginDown, \* answers on their way, in order
    bound,    \* the server has a session on this connection
    gone,     \* why the client is gone, or "no"
    asked,    \* passwords typed, and login requests sent, so far
    done,     \* history: answers to login requests that were parsed
    welcome,  \* history: one of them was a success
    early     \* history: an input without the end of an answer undid loginlock

loginClient == <<inPc, netPc, locked, last, gone, asked>>
net         == <<loginUp, loginDown, bound>>
hist        == <<done, welcome, early>>
loginVars   == <<loginClient, net, hist>>

Passwords == {"right", "wrong"}

\* What the server may say: the results of a login, a notice or message for a
\* user who is logged in, and the end of an idle session.
LoginAnswers == {"welcome", "wrong", "blocked", "elsewhere"}
Answers  == LoginAnswers \cup {"notice", "idle"}
Successes == {"welcome", "notice"}           \* IMResponse.success
Exits == {"blocked", "elsewhere", "idle"}    \* ExitResponse: the client exits

LoginInit ==
    /\ inPc = "lock" /\ netPc = "wait" /\ locked = FALSE /\ last = FALSE
    /\ loginUp = <<>> /\ loginDown = <<>> /\ bound = FALSE
    /\ gone = "no" /\ asked = 0
    /\ done = 0 /\ welcome = FALSE /\ early = FALSE

Running == gone = "no"

-----------------------------------------------------------------------------
(* The input thread.                                                       *)

\* pthread_mutex_lock(&loginlock)
Lock ==
    /\ Running /\ inPc = "lock" /\ ~locked
    /\ locked' = TRUE /\ inPc' = "test"
    /\ UNCHANGED <<netPc, last, gone, asked, net, hist>>

\* Faulty: the first answer ends the handshake, whatever it says.
TestAny ==
    /\ Running /\ inPc = "test"
    /\ inPc' = IF last \/ done > 0 THEN "ready" ELSE "ask"
    /\ UNCHANGED <<netPc, locked, last, gone, asked, net, hist>>

\* if (lastresponse) break;
Test ==
    /\ Running /\ inPc = "test"
    /\ inPc' = IF last THEN "ready" ELSE "ask"
    /\ UNCHANGED <<netPc, locked, last, gone, asked, net, hist>>

\* Faulty: the loop asks again without taking loginlock.
AskUnlocked(p) ==
    /\ Running /\ inPc = "ask" /\ asked < MaxLogins
    /\ asked' = asked + 1
    /\ loginUp' = Append(loginUp, p)
    /\ inPc' = "test"
    /\ UNCHANGED <<netPc, locked, last, gone, loginDown, bound, done, welcome, early>>

\* cmd_login_impl: fgets waits for the user, who gives his name the first time
\* only; then send_request and epoll_do_send_buffer.
Ask(p) ==
    /\ Running /\ inPc = "ask" /\ asked < MaxLogins
    /\ asked' = asked + 1
    /\ loginUp' = Append(loginUp, p)
    /\ inPc' = "lock"
    /\ UNCHANGED <<netPc, locked, last, gone, loginDown, bound, done, welcome, early>>

-----------------------------------------------------------------------------
(* The server, as its login handler and its timer thread answer.           *)

\* The results of login() for a user of credentials.txt: other connections may
\* have locked him out, or have logged in as him.
Results(p) == IF p = "wrong" THEN {"wrong", "blocked"}
              ELSE {"blocked", "elsewhere"} \cup (IF bound THEN {} ELSE {"welcome"})

Serve(r) ==
    /\ loginUp # <<>> /\ r \in Results(Head(loginUp))
    /\ loginUp' = Tail(loginUp) /\ loginDown' = Append(loginDown, r)
    /\ bound' = (bound \/ r = "welcome")
    /\ UNCHANGED <<loginClient, hist>>

\* Somebody comes, goes or writes; one at a time is enough.
Notify ==
    /\ bound /\ \A i \in DOMAIN loginDown : loginDown[i] # "notice"
    /\ loginDown' = Append(loginDown, "notice")
    /\ UNCHANGED <<loginClient, loginUp, bound, hist>>

\* time_thread: "You are automatically logged off".
Reap ==
    /\ bound /\ bound' = FALSE
    /\ loginDown' = Append(loginDown, "idle")
    /\ UNCHANGED <<loginClient, loginUp, hist>>

-----------------------------------------------------------------------------
(* The network thread.                                                     *)

\* The answers of one input that are parsed: exit(0) stops at the first ExitResponse.
Parsed(n) ==
    LET ends == {i \in 1..n : loginDown[i] \in Exits}
    IN  IF ends = {} THEN n ELSE CHOOSE i \in ends : \A j \in ends : i <= j

\* lastresponse = imrsp->success, for each answer in turn
LastAfter(k) == IF k = 0 THEN last ELSE loginDown[k] \in Successes

ExitAfter(k) == IF k > 0 /\ loginDown[k] \in Exits THEN loginDown[k] ELSE "no"

\* im_receive_command with parse_response: n whole answers, and perhaps a part of
\* the next one, which parse_response leaves in the buffer.
Read(n, more) ==
    /\ Running /\ netPc = "wait"
    /\ (n > 0 \/ more) /\ (more => n < Len(loginDown))
    /\ LET k == Parsed(n)
       IN  /\ last' = LastAfter(k) /\ gone' = ExitAfter(k)
           /\ done' = done + Cardinality({i \in 1..k : loginDown[i] \in LoginAnswers})
           /\ welcome' = (welcome \/ \E i \in 1..k : loginDown[i] = "welcome")
    /\ loginDown' = SubSeq(loginDown, n + 1, Len(loginDown))
    /\ netPc' = "unlock" /\ early' = (early \/ n = 0)
    /\ UNCHANGED <<inPc, locked, asked, loginUp, bound>>

\* Faulty: loginlock is undone only by an answer that is a success.
UnlockOnSuccess ==
    /\ Running /\ netPc = "unlock"
    /\ locked' = (locked /\ ~last) /\ netPc' = "wait"
    /\ UNCHANGED <<inPc, last, gone, asked, net, hist>>

\* pthread_mutex_unlock(&loginlock), after every input
Unlock ==
    /\ Running /\ netPc = "unlock"
    /\ locked' = FALSE /\ netPc' = "wait"
    /\ UNCHANGED <<inPc, last, gone, asked, net, hist>>

-----------------------------------------------------------------------------
Input   == Lock \/ Test \/ \E p \in Passwords : Ask(p)
Network == (\E n \in 0..Len(loginDown), more \in BOOLEAN : Read(n, more)) \/ Unlock
Server  == (\E r \in LoginAnswers : Serve(r)) \/ Notify \/ Reap

LoginNext == Input \/ Network \/ Server

LoginSpec == LoginInit /\ [][LoginNext]_loginVars

\* The threads run, the server serves and what is sent arrives in the end; the
\* user need not type and the server need not write on its own.
LoginFairness ==
    /\ WF_loginVars(Lock) /\ WF_loginVars(Test)
    /\ WF_loginVars(\E r \in LoginAnswers : Serve(r))
    /\ WF_loginVars(\E n \in 1..Len(loginDown) : Read(n, FALSE)) /\ WF_loginVars(Unlock)
FairLogin == LoginSpec /\ LoginFairness

-----------------------------------------------------------------------------
(* Properties.                                                             *)

LoginTypeOK ==
    /\ inPc \in {"lock", "test", "ask", "ready"} /\ netPc \in {"wait", "unlock"}
    /\ locked \in BOOLEAN /\ last \in BOOLEAN /\ bound \in BOOLEAN
    /\ loginUp \in Seq(Passwords) /\ loginDown \in Seq(Answers)
    /\ gone \in Exits \cup {"no"} /\ asked \in 0..MaxLogins
    /\ done \in 0..MaxLogins
    /\ welcome \in BOOLEAN /\ early \in BOOLEAN

\* The user is asked for a password again only when the one before has been
\* answered: loginlock keeps the input thread away from the keyboard meanwhile.
\* And a login that succeeds is not followed by another one: the client is not told
\* "another session is in place" because of the session it has just got.  The one
\* exception is an answer that arrives in pieces, whose first piece undoes the lock.
OneLoginAtATime ==
    /\ LoginTypeOK
    /\ asked > done + 1 \/ (inPc = "ask" /\ (asked # done \/ bound)) => early

\* The input thread goes on to commands only after a login that succeeded, even
\* though lastresponse is that of whatever came last.
ReadyIsWelcome == inPc = "ready" => welcome

\* Every answer is acted on: the client goes on to commands, asks again or exits.
EveryAnswerActedOn ==
    asked > done ~> inPc = "ready" \/ (inPc = "ask" /\ asked = done) \/ ~Running \/ early
=============================================================================
