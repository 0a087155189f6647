--------------------------- MODULE SessionsProofs ---------------------------
(* What holds of Sessions for every value of its constants. *)
EXTENDS Sessions, TLAPS

(***************************************************************************)
(* Type correctness.  The types alone are not inductive: an action that    *)
(* writes bound[cur] or client[arg] needs cur to be a connection and arg a *)
(* user, which depends on where the thread is.                             *)
(***************************************************************************)
ControlOK ==
    /\ netPc # "wait" => cur \in Conns
    /\ netPc \in {"greet", "bindConn", "bindUser", "unlinkConn", "unlinkUser", "part"}
           => arg \in Users
    /\ timPc \in TimPcs \ {"sleep", "scan"} => idx \in Conns
    /\ timPc \in {"unlinkConn", "unlinkUser", "part"} => targ \in Users

TypeInv == TypeOK /\ ControlOK

USE NoUserAssumption, MaxConnsAssumption, TimingAssumption

\* The initial state is well typed.
LEMMA InitTypeInv == Init => TypeInv
  <1> SUFFICES ASSUME Init PROVE TypeInv
    OBVIOUS
  <1>1. /\ client \in [Users -> Conns \cup {NoConn}]
        /\ lastActive \in [Users -> -1..MaxTime]
        /\ lastBlocked \in [Users -> -1..(MaxTime + BlockDuration)]
        /\ attempts \in [Users -> 0..2]
    BY DEF Init
  <1>2. /\ open \in [Conns -> BOOLEAN]
        /\ bound \in [Conns -> Users \cup {NoUser}]
        /\ auth \in [Conns -> SUBSET Users]
    BY DEF Init
  <1>3. ControlOK
    BY DEF Init, ControlOK
  <1>4. /\ now \in 0..MaxTime
        /\ nclients \in 0..MaxConns /\ idx \in 1..(MaxConns + 1)
    BY DEF Init
  <1>5. /\ netPc \in NetPcs /\ cur \in Conns \cup {NoConn} /\ arg \in Users \cup {NoUser}
        /\ todo \subseteq Users /\ dst \in Users \cup {NoUser}
        /\ via \in {"none", "hangup", "logout"}
        /\ timPc \in TimPcs /\ targ \in Users \cup {NoUser}
        /\ ttodo \subseteq Users /\ tdst \in Users \cup {NoUser}
    BY DEF Init, NetPcs, TimPcs
  <1>6. crashed \in BOOLEAN
    BY DEF Init
  <1> QED
    BY <1>1, <1>2, <1>3, <1>4, <1>5, <1>6 DEF TypeInv, TypeOK

\* Events that the network thread takes from epoll_wait keep the types.
LEMMA NetEventTypeInv == TypeInv /\ NetEvent => TypeInv'
  <1> SUFFICES ASSUME TypeInv, NEW c \in Conns,
                      Accept(c) \/ Receive(c) \/ Hangup(c) \/ Flush(c)
               PROVE  TypeInv'
    BY DEF NetEvent
  <1> USE DEF TypeInv, TypeOK, ControlOK, NetPcs, TimPcs, Closing, sessVars, lockVars,
              connVars, netVars, timerVars, NetWaits
  <1>1. CASE Accept(c)
    BY <1>1 DEF Accept, Conns
  <1>2. CASE Receive(c)
    BY <1>2 DEF Receive
  <1>3. CASE Hangup(c)
    BY <1>3 DEF Hangup, BeginClose
  <1>4. CASE Flush(c)
    BY <1>4 DEF Flush
  <1> QED
    BY <1>1, <1>2, <1>3, <1>4

\* Requests keep the types.
LEMMA RequestTypeInv == TypeInv /\ Request => TypeInv'
  <1> SUFFICES ASSUME TypeInv, Request PROVE TypeInv'
    OBVIOUS
  <1> USE DEF TypeInv, TypeOK, ControlOK, NetPcs, TimPcs, Closing, sessVars, lockVars,
              connVars, netVars, timerVars, NetAt, Asks
  <1>1. ASSUME NEW u \in Users, LoginLocked(u) PROVE TypeInv'
    BY <1>1 DEF LoginLocked, Refused
  <1>2. ASSUME NEW u \in Users, LoginWrong(u) PROVE TypeInv'
    BY <1>2 DEF LoginWrong, Refused
  <1>3. ASSUME NEW u \in Users, LoginElsewhere(u) PROVE TypeInv'
    BY <1>3 DEF LoginElsewhere, Refused
  <1>4. ASSUME NEW u \in Users, LoginRight(u) PROVE TypeInv'
    BY <1>4 DEF LoginRight
  <1>5. CASE Reject
    BY <1>5 DEF Reject
  <1>6. CASE Command
    BY <1>6 DEF Command
  <1>7. CASE Logout
    BY <1>7 DEF Logout, BeginClose
  <1>8. CASE Skip
    BY <1>8 DEF Skip, Answered, Idle
  <1> QED
    BY <1>1, <1>2, <1>3, <1>4, <1>5, <1>6, <1>7, <1>8 DEF Request

\* The other steps of the network thread keep the types.
LEMMA NetStepTypeInv == TypeInv /\ NetStep => TypeInv'
  <1> SUFFICES ASSUME TypeInv, NetStep PROVE TypeInv'
    OBVIOUS
  <1> USE DEF TypeInv, TypeOK, ControlOK, NetPcs, TimPcs, Closing, sessVars, lockVars,
              connVars, netVars, timerVars, NetAt, Idle, Answered
  <1>1. CASE Drain
    BY <1>1 DEF Drain
  <1>2. CASE BindConn
    BY <1>2 DEF BindConn
  <1>3. CASE BindUser
    BY <1>3 DEF BindUser
  <1>4. CASE Serve
    <2>1. /\ crashed' \in BOOLEAN /\ netPc' = "check" /\ netPc = "serve"
          /\ UNCHANGED <<now, sessVars, lockVars, connVars, cur, arg, todo, dst, via, timerVars>>
      BY <1>4 DEF Serve
    <2> QED
      BY <2>1, SMTT(30)
  <1>5. CASE Check
    BY <1>5 DEF Check
  <1>6. CASE Touch
    BY <1>6 DEF Touch
  <1>7. CASE UnlinkConn
    BY <1>7 DEF UnlinkConn
  <1>8. CASE UnlinkUser
    BY <1>8 DEF UnlinkUser, NoConn
  <1>9. CASE Shut
    BY <1>9 DEF Shut
  <1>10. ASSUME NEW v \in Users, NotifyPick(v) PROVE TypeInv'
    BY <1>10 DEF NotifyPick
  <1>11. CASE NotifySend
    BY <1>11 DEF NotifySend
  <1>12. CASE NotifyDone
    BY <1>12 DEF NotifyDone
  <1> QED
    BY <1>1, <1>2, <1>3, <1>4, <1>5, <1>6, <1>7, <1>8, <1>9, <1>10, <1>11, <1>12
       DEF NetStep

\* The timer thread keeps the types.
LEMMA TimStepTypeInv == TypeInv /\ TimStep => TypeInv'
  <1> SUFFICES ASSUME TypeInv, TimStep PROVE TypeInv'
    OBVIOUS
  <1> USE DEF TypeInv, TypeOK, ControlOK, NetPcs, TimPcs, Closing, sessVars, lockVars,
              connVars, netVars, timerVars, TimAt, NextSlot, Conns, NoConn
  <1>1. CASE TimWake
    BY <1>1 DEF TimWake
  <1>2. CASE TimScan
    BY <1>2, SMTT(30) DEF TimScan
  <1>3. CASE TimJudge
    <2>1. /\ timPc = "judge" /\ idx \in 1..MaxConns /\ idx + 1 \in 1..(MaxConns + 1)
          /\ UNCHANGED <<now, sessVars, lockVars, connVars, crashed, netVars>>
      BY <1>3, SMTT(30) DEF TimJudge
    <2>2. CASE LoggedIn(bound[idx])
      BY <1>3, <2>1, <2>2, SMTT(30) DEF TimJudge
    <2>3. CASE ~LoggedIn(bound[idx])
      BY <1>3, <2>1, <2>3, SMTT(30) DEF TimJudge
    <2> QED
      BY <2>2, <2>3
  <1>4. CASE TimEnter
    BY <1>4, SMTT(30) DEF TimEnter
  <1>5. CASE TimUnlinkConn
    BY <1>5 DEF TimUnlinkConn
  <1>6. CASE TimUnlinkUser
    BY <1>6 DEF TimUnlinkUser
  <1>7. ASSUME NEW v \in Users, TimPick(v) PROVE TypeInv'
    BY <1>7 DEF TimPick
  <1>8. CASE TimSend
    BY <1>8 DEF TimSend
  <1>9. CASE TimParted
    BY <1>9 DEF TimParted
  <1>10. CASE TimTell
    BY <1>10 DEF TimTell
  <1> QED
    BY <1>1, <1>2, <1>3, <1>4, <1>5, <1>6, <1>7, <1>8, <1>9, <1>10 DEF TimStep

\* Every step keeps the types.
LEMMA NextTypeInv == TypeInv /\ [Next]_vars => TypeInv'
  <1> SUFFICES ASSUME TypeInv, [Next]_vars PROVE TypeInv'
    OBVIOUS
  <1>1. CASE NetEvent
    BY <1>1, NetEventTypeInv
  <1>2. CASE Request
    BY <1>2, RequestTypeInv
  <1>3. CASE NetStep
    BY <1>3, NetStepTypeInv
  <1>4. CASE TimStep
    BY <1>4, TimStepTypeInv
  <1>5. CASE Tick
    BY <1>5 DEF Tick, TypeInv, TypeOK, ControlOK, sessVars, lockVars, connVars, netVars,
                timerVars
  <1>6. CASE UNCHANGED vars
    BY <1>6 DEF vars, TypeInv, TypeOK, ControlOK, sessVars, lockVars, connVars, netVars,
                timerVars
  <1> QED
    BY <1>1, <1>2, <1>3, <1>4, <1>5, <1>6 DEF Next

\* The state of sessions, lockouts, connections and both threads stays well
\* typed: in particular neither thread acts on a slot or user that is not there.
THEOREM TypeCorrect == Spec => []TypeOK
  <1>1. Spec => []TypeInv
    BY InitTypeInv, NextTypeInv, PTL DEF Spec
  <1>2. TypeInv => TypeOK
    BY DEF TypeInv
  <1> QED
    BY <1>1, <1>2, PTL

-----------------------------------------------------------------------------
(***************************************************************************)
(* A connection acts only for users who proved their password on it.  The  *)
(* binding comes several steps after the password check, so the invariant  *)
(* also says what the network thread carries in between.                   *)
(***************************************************************************)
ProvedInv == /\ NothingInherited
             /\ netPc \in {"greet", "bindConn"} => arg \in auth[cur]

\* Only Accept and LoginRight write auth, only Accept, BindConn and the two
\* logouts write bound: every other step leaves the invariant alone.
LEMMA NextProvedInv == TypeInv /\ ProvedInv /\ [Next]_vars => ProvedInv'
  <1> SUFFICES ASSUME TypeInv, ProvedInv, [Next]_vars PROVE ProvedInv'
    OBVIOUS
  <1> USE DEF TypeInv, TypeOK, ControlOK, ProvedInv, NothingInherited, Closing, sessVars,
              lockVars, connVars, netVars, timerVars, NetAt, NetWaits, TimAt
  <1>1. CASE NetEvent
    <2>1. ASSUME NEW c \in Conns, Accept(c) PROVE ProvedInv'
      BY <2>1 DEF Accept
    <2>2. ASSUME NEW c \in Conns, Receive(c) \/ Hangup(c) \/ Flush(c) PROVE ProvedInv'
      BY <2>2 DEF Receive, Hangup, Flush, BeginClose
    <2> QED
      BY <1>1, <2>1, <2>2 DEF NetEvent
  <1>2. CASE Request
    <2>1. ASSUME NEW u \in Users, LoginRight(u) PROVE ProvedInv'
      BY <2>1 DEF LoginRight, Asks
    <2>2. ASSUME NEW u \in Users, LoginLocked(u) \/ LoginWrong(u) \/ LoginElsewhere(u)
          PROVE  ProvedInv'
      BY <2>2 DEF LoginLocked, LoginWrong, LoginElsewhere, Refused
    <2>3. CASE Skip \/ Reject \/ Command \/ Logout
      BY <2>3 DEF Skip, Answered, Idle, Reject, Command, Logout, BeginClose
    <2> QED
      BY <1>2, <2>1, <2>2, <2>3 DEF Request
  <1>3. CASE NetStep
    <2>1. CASE BindConn
      BY <2>1 DEF BindConn
    <2>2. CASE UnlinkConn
      BY <2>2 DEF UnlinkConn
    <2>3. CASE Drain \/ BindUser \/ Serve \/ Check \/ Touch \/ UnlinkUser \/ Shut
      BY <2>3 DEF Drain, BindUser, Serve, Check, Touch, UnlinkUser, Shut, Idle, Answered
    <2>4. CASE (\E v \in Users : NotifyPick(v)) \/ NotifySend \/ NotifyDone
      BY <2>4 DEF NotifyPick, NotifySend, NotifyDone
    <2> QED
      BY <1>3, <2>1, <2>2, <2>3, <2>4 DEF NetStep
  <1>4. CASE TimStep
    <2>1. CASE TimUnlinkConn
      BY <2>1 DEF TimUnlinkConn
    <2>2. CASE TimWake \/ TimScan \/ TimJudge \/ TimEnter \/ TimUnlinkUser
      BY <2>2 DEF TimWake, TimScan, TimJudge, TimEnter, TimUnlinkUser, NextSlot
    <2>3. CASE (\E v \in Users : TimPick(v)) \/ TimSend \/ TimParted \/ TimTell
      BY <2>3 DEF TimPick, TimSend, TimParted, TimTell, NextSlot
    <2> QED
      BY <1>4, <2>1, <2>2, <2>3 DEF TimStep
  <1>5. CASE Tick
    BY <1>5 DEF Tick
  <1>6. CASE UNCHANGED vars
    BY <1>6 DEF vars
  <1> QED
    BY <1>1, <1>2, <1>3, <1>4, <1>5, <1>6 DEF Next

\* A connection on a reused descriptor and slot inherits no session: client->user
\* is NULL or a user whose password was accepted on this connection.
THEOREM InheritsNothing == Spec => []NothingInherited
  <1>1. Init => ProvedInv
    BY DEF Init, ProvedInv, NothingInherited
  <1>2. Spec => [](TypeInv /\ ProvedInv)
    BY <1>1, InitTypeInv, NextTypeInv, NextProvedInv, PTL DEF Spec
  <1>3. ProvedInv => NothingInherited
    BY DEF ProvedInv
  <1> QED
    BY <1>2, <1>3, PTL

-----------------------------------------------------------------------------
(***************************************************************************)
(* No session starts during a lockout.  lastBlocked is checked when the    *)
(* request is read and the session starts when user->client is written;    *)
(* in between only the clock moves, and it moves away from the lockout.    *)
(***************************************************************************)
LockInv == netPc \in {"greet", "bindConn", "bindUser"} => now >= lastBlocked[arg]

\* LoginRight establishes the invariant and LoginWrong, the only step that
\* starts a lockout, is not possible while a login is under way.
LEMMA NextLockInv == TypeInv /\ LockInv /\ [Next]_vars => LockInv'
  <1> SUFFICES ASSUME TypeInv, LockInv, [Next]_vars PROVE LockInv'
    OBVIOUS
  <1> USE DEF TypeInv, TypeOK, ControlOK, LockInv, Closing, sessVars, lockVars,
              connVars, netVars, timerVars, NetAt, NetWaits, TimAt
  <1>1. CASE NetEvent
    BY <1>1 DEF NetEvent, Accept, Receive, Hangup, Flush, BeginClose
  <1>2. CASE Request
    <2>1. ASSUME NEW u \in Users, LoginRight(u) PROVE LockInv'
      BY <2>1 DEF LoginRight, Asks
    <2>2. ASSUME NEW u \in Users, LoginLocked(u) \/ LoginWrong(u) \/ LoginElsewhere(u)
          PROVE  LockInv'
      BY <2>2 DEF LoginLocked, LoginWrong, LoginElsewhere, Refused
    <2>3. CASE Skip \/ Reject \/ Command \/ Logout
      BY <2>3 DEF Skip, Answered, Idle, Reject, Command, Logout, BeginClose
    <2> QED
      BY <1>2, <2>1, <2>2, <2>3 DEF Request
  <1>3. CASE NetStep
    <2>1. CASE BindConn \/ BindUser
      BY <2>1 DEF BindConn, BindUser
    <2>2. CASE Drain \/ Serve \/ Check \/ Touch
      BY <2>2 DEF Drain, Serve, Check, Touch, Idle, Answered
    <2>3. CASE UnlinkConn \/ UnlinkUser \/ Shut
      BY <2>3 DEF UnlinkConn, UnlinkUser, Shut, Idle
    <2>4. CASE (\E v \in Users : NotifyPick(v)) \/ NotifySend \/ NotifyDone
      BY <2>4 DEF NotifyPick, NotifySend, NotifyDone
    <2> QED
      BY <1>3, <2>1, <2>2, <2>3, <2>4 DEF NetStep
  <1>4. CASE TimStep
    <2>1. UNCHANGED <<now, lockVars, netVars>>
      BY <1>4 DEF TimStep, TimWake, TimScan, TimJudge, TimEnter, TimUnlinkConn,
                  TimUnlinkUser, TimPick, TimSend, TimParted, TimTell
    <2> QED
      BY <2>1
  <1>5. CASE Tick
    BY <1>5 DEF Tick
  <1>6. CASE UNCHANGED vars
    BY <1>6 DEF vars
  <1> QED
    BY <1>1, <1>2, <1>3, <1>4, <1>5, <1>6 DEF Next

\* BindUser is the only step that attaches a user to a connection.
LEMMA OnlyBindUserAttaches ==
    ASSUME TypeInv, [Next]_vars, NEW u \in Users,
           client'[u] # client[u], client'[u] # NoConn
    PROVE  BindUser /\ u = arg
  <1> USE DEF TypeInv, TypeOK, ControlOK, sessVars
  <1>1. CASE UNCHANGED vars \/ Tick \/ NetEvent
    BY <1>1 DEF vars, Tick, NetEvent, Accept, Receive, Hangup, Flush
  <1>2. CASE Request
    BY <1>2 DEF Request, LoginLocked, LoginWrong, LoginElsewhere, LoginRight, Refused,
                Skip, Reject, Command, Logout
  <1>3. CASE NetStep
    BY <1>3 DEF NetStep, NetAt, Drain, BindConn, BindUser, Serve, Check, Touch, UnlinkConn,
                UnlinkUser, Shut, NotifyPick, NotifySend, NotifyDone
  <1>4. CASE TimStep
    BY <1>4 DEF TimStep, TimAt, TimWake, TimScan, TimJudge, TimEnter, TimUnlinkConn,
                TimUnlinkUser, TimPick, TimSend, TimParted, TimTell
  <1> QED
    BY <1>1, <1>2, <1>3, <1>4 DEF Next

\* During a lockout no session of the user starts, on any connection, whatever
\* password is given and whenever it was checked.
THEOREM LockoutHolds == Spec => NoSessionWhileLocked
  <1>1. Init => LockInv
    BY DEF Init, LockInv
  <1>2. Spec => [](TypeInv /\ LockInv)
    BY <1>1, InitTypeInv, NextTypeInv, NextLockInv, PTL DEF Spec
  <1>3. TypeInv /\ LockInv /\ [Next]_vars =>
            [\A u \in Users : client'[u] # client[u] /\ client'[u] # NoConn
                => now >= lastBlocked[u]]_vars
    BY OnlyBindUserAttaches DEF LockInv, BindUser, NetAt
  <1> QED
    BY <1>2, <1>3, PTL DEF Spec, NoSessionWhileLocked

\* The third wrong password in a row is the only step that starts a lockout.
LEMMA OnlyLoginWrongLocks ==
    ASSUME TypeInv, [Next]_vars, lastBlocked' # lastBlocked
    PROVE  \E u \in Users : LoginWrong(u)
  <1>1. CASE UNCHANGED vars \/ Tick \/ NetEvent
    BY <1>1 DEF vars, lockVars, Tick, NetEvent, Accept, Receive, Hangup, Flush, BeginClose
  <1>2. CASE Request
    BY <1>2 DEF Request, lockVars, LoginLocked, LoginElsewhere, LoginRight, Skip, Answered,
                Reject, Command, Logout, BeginClose
  <1>3. CASE NetStep
    BY <1>3 DEF NetStep, lockVars, NetAt, Drain, BindConn, BindUser, Serve, Check, Touch,
                UnlinkConn, UnlinkUser, Shut, NotifyPick, NotifySend, NotifyDone
  <1>4. CASE TimStep
    BY <1>4 DEF TimStep, lockVars, TimAt, TimWake, TimScan, TimJudge, TimEnter, TimUnlinkConn,
                TimUnlinkUser, TimPick, TimSend, TimParted, TimTell
  <1> QED
    BY <1>1, <1>2, <1>3, <1>4 DEF Next

\* A lockout begins only when the one before is over, and lasts its full time: guesses
\* on any number of connections neither prolong nor shorten it.
THEOREM LockoutRunsOut == Spec => LockoutNotExtended
  <1>1. Spec => []TypeInv
    BY InitTypeInv, NextTypeInv, PTL DEF Spec
  <1>2. TypeInv /\ [Next]_vars =>
            [\A u \in Users : lastBlocked'[u] # lastBlocked[u] =>
                lastBlocked[u] <= now /\ lastBlocked'[u] >= now + BlockDuration]_vars
    <2> SUFFICES ASSUME TypeInv, [Next]_vars,
                        NEW u \in Users, lastBlocked'[u] # lastBlocked[u]
                 PROVE  lastBlocked[u] <= now /\ lastBlocked'[u] >= now + BlockDuration
      OBVIOUS
    <2>1. PICK v \in Users : LoginWrong(v)
      BY OnlyLoginWrongLocks
    <2>2. v = u /\ now >= lastBlocked[u] /\ lastBlocked'[u] = now + BlockDuration
      BY <2>1 DEF LoginWrong, TypeInv, TypeOK
    <2>3. now \in Int /\ lastBlocked[u] \in Int /\ BlockDuration \in Int
      BY TimingAssumption DEF TypeInv, TypeOK
    <2> QED
      BY <2>2, <2>3
  <1> QED
    BY <1>1, <1>2, PTL DEF Spec, LockoutNotExtended

-----------------------------------------------------------------------------
(***************************************************************************)
(* The handlers one at a time.  If no handler of one thread were           *)
(* interrupted by the other, and every peer were the bundled client, then  *)
(* user->client would never dangle, no NULL pointer would be dereferenced, *)
(* the network thread would not lock itself out and the timer would log    *)
(* off idle users only.  Linked is the heart of the invariant: both halves *)
(* of a session agree.  NetSerial and TimSerial say what each thread knows *)
(* at each point of its handler.                                           *)
(***************************************************************************)
Linked == \A u \in Users : client[u] # NoConn =>
              \/ open[client[u]] /\ bound[client[u]] = u
              \/ MidLogout(u)

NetSerial ==
    /\ netPc \in {"drain", "serve", "touch"} => bound[cur] # NoUser
    /\ netPc \notin {"wait", "check", "touch"} => open[cur]
    /\ netPc \in {"greet", "bindConn"} => bound[cur] \in {arg, NoUser}
    /\ netPc = "bindUser" => bound[cur] = arg
    /\ netPc \in Closing => bound[cur] \in {arg, NoUser}
    /\ netPc = "unlinkConn" => client[arg] # NoConn
    /\ netPc \in {"part", "shut"} => arg = NoUser \/ client[arg] = NoConn
    /\ netPc \in {"greet", "part"} => arg \notin todo /\ dst # arg
    /\ netPc \in {"greet", "part"} /\ dst # NoUser => client[dst] # NoConn
    /\ netPc \notin {"greet", "part"} => dst = NoUser

TimSerial ==
    /\ timPc \in {"judge", "enter"} => bound[idx] # NoUser
    /\ timPc = "enter" => ~LoggedIn(bound[idx])
    /\ timPc \in {"unlinkConn", "unlinkUser"} => ~Active(targ)
    /\ timPc = "unlinkConn" => client[targ] # NoConn
    /\ timPc = "part" /\ tdst # NoUser => client[tdst] # NoConn
    /\ timPc # "part" => tdst = NoUser

SerialInv == /\ NeverFails
             /\ netPc = "wait" \/ TimQuiet
             /\ Linked
             /\ NetSerial
             /\ TimSerial

\* An event of epoll_wait, while the timer thread is between two slots.
LEMMA SerialNetEvent ==
    ASSUME Orderly, TypeInv, ProvedInv, SerialInv, TimQuiet, NetEvent
    PROVE  SerialInv'
  <1> USE DEF SerialInv, ProvedInv, NothingInherited, Linked, NetSerial, TimSerial,
              MidLogout, NeverFails, Failed, TimQuiet, TypeInv, TypeOK, ControlOK, NetPcs, Closing, LoggedIn, Active,
              NoConn, Conns, sessVars, lockVars, connVars, netVars, timerVars, NetWaits
  <1>1. ASSUME NEW c \in Conns, Accept(c) PROVE SerialInv'
    BY <1>1 DEF Accept
  <1>2. ASSUME NEW c \in Conns, Receive(c) PROVE SerialInv'
    BY <1>2 DEF Receive
  <1>3. ASSUME NEW c \in Conns, Hangup(c) PROVE SerialInv'
    BY <1>3 DEF Hangup, BeginClose
  <1>4. ASSUME NEW c \in Conns, Flush(c) PROVE SerialInv'
    BY <1>4 DEF Flush
  <1> QED
    BY <1>1, <1>2, <1>3, <1>4 DEF NetEvent

\* A request of a bundled client.
LEMMA SerialRequest ==
    ASSUME Orderly, TypeInv, ProvedInv, SerialInv, TimQuiet, Request
    PROVE  SerialInv'
  <1> USE DEF SerialInv, ProvedInv, NothingInherited, Linked, NetSerial, TimSerial,
              MidLogout, NeverFails, Failed, TimQuiet, TypeInv, TypeOK, ControlOK, NetPcs, Closing, LoggedIn, Active,
              NoConn, Conns, sessVars, lockVars, connVars, netVars, timerVars, NetAt, Asks
  <1>1. ASSUME NEW u \in Users, LoginLocked(u) \/ LoginWrong(u) \/ LoginElsewhere(u)
        PROVE  SerialInv'
    <2>1. UNCHANGED <<now, sessVars, connVars, crashed, cur, arg, todo, dst, via,
                      timerVars>> /\ netPc' = "check" /\ netPc = "parse"
      BY <1>1 DEF LoginLocked, LoginWrong, LoginElsewhere, Refused
    <2> QED
      BY <2>1
  <1>2. ASSUME NEW u \in Users, LoginRight(u) PROVE SerialInv'
    BY <1>2 DEF LoginRight
  <1>3. CASE Skip \/ Reject \/ Command
    <2>1. CASE Reject
      BY <2>1 DEF Reject
    <2>2. CASE Command
      BY <2>2 DEF Command
    <2>3. CASE Skip
      BY <2>3 DEF Skip, Answered, Idle
    <2> QED
      BY <1>3, <2>1, <2>2, <2>3
  <1>4. CASE Logout
    BY <1>4 DEF Logout, BeginClose
  <1> QED
    BY <1>1, <1>2, <1>3, <1>4 DEF Request

\* A later step of the network thread's handler.
LEMMA SerialNetStep ==
    ASSUME Orderly, TypeInv, ProvedInv, SerialInv, TimQuiet, NetStep
    PROVE  SerialInv'
  <1> USE DEF SerialInv, ProvedInv, NothingInherited, Linked, NetSerial, TimSerial,
              MidLogout, NeverFails, Failed, TimQuiet, TypeInv, TypeOK, ControlOK, NetPcs, Closing, LoggedIn, Active,
              NoConn, Conns, sessVars, lockVars, connVars, netVars, timerVars, NetAt
  <1>1. CASE Drain
    BY <1>1 DEF Drain, Idle
  <1>2. CASE BindConn
    <2>1. bound[cur] \in {arg, NoUser} /\ cur \in Conns /\ arg \in auth[cur]
      BY <1>2 DEF BindConn
    <2>2. Linked'
      BY <1>2, <2>1 DEF BindConn
    <2>3. (NetSerial /\ TimSerial /\ NeverFails /\ (netPc = "wait" \/ TimQuiet))'
      BY <1>2, <2>1 DEF BindConn
    <2> QED
      BY <2>2, <2>3
  <1>3. CASE BindUser
    BY <1>3 DEF BindUser
  <1>4. CASE Serve
    BY <1>4 DEF Serve
  <1>5. CASE Check
    BY <1>5 DEF Check, Idle, Answered
  <1>6. CASE Touch
    BY <1>6 DEF Touch, Idle, Answered
  <1>7. CASE UnlinkConn
    BY <1>7, SMTT(30) DEF UnlinkConn
  <1>8. CASE UnlinkUser
    BY <1>8 DEF UnlinkUser
  <1>9. CASE Shut
    BY <1>9, SMTT(30) DEF Shut, Idle
  <1>10. ASSUME NEW v \in Users, NotifyPick(v) PROVE SerialInv'
    BY <1>10 DEF NotifyPick
  <1>11. CASE NotifySend
    BY <1>11, SMTT(30) DEF NotifySend, Locked
  <1>12. CASE NotifyDone
    BY <1>12 DEF NotifyDone
  <1> QED
    BY <1>1, <1>2, <1>3, <1>4, <1>5, <1>6, <1>7, <1>8, <1>9, <1>10, <1>11, <1>12 DEF NetStep

\* A step of the timer thread, while the network thread waits.
LEMMA SerialTimStep ==
    ASSUME Orderly, TypeInv, ProvedInv, SerialInv, netPc = "wait", TimStep
    PROVE  SerialInv'
  <1> USE DEF SerialInv, ProvedInv, NothingInherited, Linked, NetSerial, TimSerial,
              MidLogout, NeverFails, Failed, TimQuiet, TypeInv, TypeOK, ControlOK, NetPcs, Closing, LoggedIn, Active,
              NoConn, Conns, sessVars, lockVars, connVars, netVars, timerVars, TimAt, NextSlot, TimPcs
  <1>1. CASE TimWake
    BY <1>1 DEF TimWake
  <1>2. CASE TimScan
    BY <1>2 DEF TimScan
  <1>3. CASE TimJudge
    BY <1>3 DEF TimJudge
  <1>4. CASE TimEnter
    BY <1>4 DEF TimEnter
  <1>5. CASE TimUnlinkConn
    BY <1>5 DEF TimUnlinkConn
  <1>6. CASE TimUnlinkUser
    BY <1>6 DEF TimUnlinkUser
  <1>7. ASSUME NEW v \in Users, TimPick(v) PROVE SerialInv'
    BY <1>7 DEF TimPick
  <1>8. CASE TimSend
    BY <1>8 DEF TimSend
  <1>9. CASE TimParted
    BY <1>9 DEF TimParted
  <1>10. CASE TimTell
    BY <1>10 DEF TimTell
  <1> QED
    BY <1>1, <1>2, <1>3, <1>4, <1>5, <1>6, <1>7, <1>8, <1>9, <1>10 DEF TimStep

\* Every step of SerialSpec is one of Sessions.
LEMMA SerialNextIsNext == [SerialNext]_vars => [Next]_vars
  BY DEF SerialNext, Next

\* The invariant of the serial behaviours is inductive.
LEMMA SerialInductive ==
    ASSUME Orderly, TypeInv, ProvedInv, SerialInv, [SerialNext]_vars
    PROVE  SerialInv'
  <1>1. CASE TimQuiet /\ (NetEvent \/ Request \/ NetStep)
    BY <1>1, SerialNetEvent, SerialRequest, SerialNetStep
  <1>2. CASE netPc = "wait" /\ TimStep
    BY <1>2, SerialTimStep
  <1>3. CASE Tick
    BY <1>3 DEF Tick, SerialInv, Linked, NetSerial, TimSerial, MidLogout, NeverFails, Failed,
                TimQuiet, LoggedIn, Active, TypeInv, TypeOK, ControlOK, TimPcs, sessVars,
                lockVars, connVars, netVars, timerVars
  <1>4. CASE UNCHANGED vars
    BY <1>4 DEF vars, SerialInv, Linked, NetSerial, TimSerial, MidLogout, NeverFails, Failed,
                TimQuiet, LoggedIn, Active, sessVars, lockVars, connVars, netVars, timerVars
  <1> QED
    BY <1>1, <1>2, <1>3, <1>4 DEF SerialNext

\* The invariants hold along every serial behaviour of bundled clients.
LEMMA SerialInvariance ==
    ASSUME Orderly
    PROVE  SerialSpec => [](TypeInv /\ ProvedInv /\ SerialInv)
  <1>1. Init => ProvedInv /\ SerialInv
    BY DEF Init, ProvedInv, NothingInherited, SerialInv, NeverFails, Failed, TimQuiet, Linked,
           NetSerial, TimSerial, Closing
  <1>2. TypeInv /\ ProvedInv /\ SerialInv /\ [SerialNext]_vars
            => (TypeInv /\ ProvedInv /\ SerialInv)'
    BY SerialInductive, SerialNextIsNext, NextTypeInv, NextProvedInv
  <1> QED
    BY <1>1, <1>2, InitTypeInv, PTL DEF SerialSpec

\* With handlers that do not interrupt each other, user->client never points to
\* a closed connection or to one that is another user's.
THEOREM SerialNoDangling ==
    ASSUME Orderly
    PROVE  SerialSpec => []NoDanglingClient
  <1>1. SerialInv => NoDanglingClient
    BY DEF SerialInv, Linked, NoDanglingClient
  <1> QED
    BY <1>1, SerialInvariance, PTL

\* ... no NULL pointer is dereferenced and the network thread never waits for a
\* lock it holds: each of these failures takes an interruption of one thread's
\* handler by the other.
THEOREM SerialNeverFails ==
    ASSUME Orderly
    PROVE  SerialSpec => []NeverFails
  <1>1. SerialInv => NeverFails
    BY DEF SerialInv
  <1> QED
    BY <1>1, SerialInvariance, PTL

\* ... and the timer thread logs off idle users only.
THEOREM SerialOnlyIdle ==
    ASSUME Orderly
    PROVE  SerialSpec => OnlyIdleLoggedOff
  <1>1. SerialInv /\ [SerialNext]_vars
            => [\A u \in Users : TimUnlinkUser /\ targ = u => ~Active(u)]_vars
    BY DEF SerialInv, TimSerial, TimUnlinkUser, TimAt
  <1> QED
    BY <1>1, SerialInvariance, PTL DEF SerialSpec, OnlyIdleLoggedOff

\* ... and whoever is refused with "another session is in place" has been refused
\* because of a session on an open connection.
THEOREM SerialRefusals ==
    ASSUME Orderly
    PROVE  SerialSpec => RefusalIsTrue
  <1>1. SerialInv /\ [SerialNext]_vars
            => [\A u \in Users : LoginElsewhere(u) => open[client[u]] \/ MidLogout(u)]_vars
    BY DEF SerialInv, Linked, LoginElsewhere, LoggedIn
  <1> QED
    BY <1>1, SerialInvariance, PTL DEF SerialSpec, RefusalIsTrue
=============================================================================
