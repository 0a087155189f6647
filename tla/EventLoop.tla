------------------------------ MODULE EventLoop ------------------------------
(***************************************************************************)
(* network_thread of the server: epoll_wait, the batch of events it gives, *)
(* accept, and the table clients[] that leads from a descriptor to its     *)
(* connection.  What a request does is in Sessions, Delivery and Requests; *)
(* here it only puts output in some connections.                           *)
(*                                                                         *)
(* The kernel is external: its list of ready descriptors is a queue, a     *)
(* connection goes back to its end when it is reported (level-triggered),  *)
(* the listening socket does not (edge-triggered), and a new descriptor is *)
(* the lowest free number.                                                 *)
(***************************************************************************)
EXTENDS Naturals, Sequences, FiniteSets

CONSTANTS
    NFds,        \* descriptors the process may have
    MaxEvents,   \* MAX_EVENTS
    MaxBacklog   \* bound: connection requests that wait at a time

ASSUME SizesAssumption == NFds \in Nat \ {0} /\ MaxEvents \in Nat \ {0} /\ MaxBacklog \in Nat

VARIABLES
    backlog,   \* connection requests that have not been accepted
    ready,     \* the kernel's list of ready descriptors
    open,      \* descriptors of accepted connections
    input,     \* input[f]: none, data, end (the peer has closed) or error
    armed,     \* armed[f]: EPOLLOUT is among the events of f
    batch,     \* the events of the last epoll_wait that are still to be handled
    slots,     \* slots[i]: clients[i]->fd, of nclients slots; 0 is no client
    new,       \* the descriptor that accept has returned and no slot has yet
    peak,      \* history: the most descriptors there have been at a time
    fresh,     \* history: descriptors opened or closed since the last epoll_wait
    missed     \* history: why a request may go unanswered

Fds    == 1..NFds
master == 0   \* masterfd

connVars  == <<open, input, armed>>
tableVars == <<slots, new, peak>>
vars == <<backlog, ready, connVars, batch, tableVars, fresh, missed>>

\* What s has at the positions I, in the order of s.
At(s, I) ==
    [j \in 1..Cardinality(I) |-> s[CHOOSE i \in I : Cardinality({x \in I : x <= i}) = j]]

Without(s, f) == At(s, {i \in DOMAIN s : s[i] # f})
Queued(s, f)  == \E i \in DOMAIN s : s[i] = f
Least(S)      == CHOOSE x \in S : \A y \in S : x <= y

Init ==
    /\ backlog = 0 /\ ready = <<>> /\ open = {} /\ batch = <<>> /\ slots = <<>>
    /\ input = [f \in Fds |-> "none"] /\ armed = [f \in Fds |-> FALSE]
    /\ new = 0 /\ peak = 0 /\ fresh = {} /\ missed = {}

-----------------------------------------------------------------------------
(* The kernel and the peers.                                               *)

IsReady(f) == IF f = master THEN backlog > 0 ELSE input[f] # "none" \/ armed[f]

\* The events that are reported of f.
EventsOf(f) == (IF input[f] # "none" THEN {"in"} ELSE {}) \cup (IF armed[f] THEN {"out"} ELSE {})
                 \cup (IF input[f] = "error" THEN {"err"} ELSE {})

Enqueue(s, f) == IF Queued(s, f) THEN s ELSE Append(s, f)

\* A connection request: an edge of the listening socket, unless one is queued.
Request ==
    /\ backlog < MaxBacklog /\ backlog' = backlog + 1
    /\ ready' = Enqueue(ready, master)
    /\ missed' = IF Queued(ready, master) THEN missed \cup {"merged"} ELSE missed
    /\ UNCHANGED <<connVars, batch, tableVars, fresh>>

\* Bytes, the end (seen when they have been read) or a reset from the peer of f.
Arrive(f, what) ==
    /\ f \in open \ {new} /\ input[f] # "error"
    /\ input[f] = "none" \/ what = "error"
    /\ input' = [input EXCEPT ![f] = what]
    /\ ready' = Enqueue(ready, f)
    /\ UNCHANGED <<backlog, open, armed, batch, tableVars, fresh, missed>>

-----------------------------------------------------------------------------
(* The thread.                                                             *)

Waiting == batch = <<>> /\ new = 0

\* How much of the list epoll_wait looks at.
Looked ==
    LET count(k) == Cardinality({i \in 1..k : IsReady(ready[i])})
        enough   == {k \in DOMAIN ready : count(k) = MaxEvents}
    IN  IF enough = {} THEN Len(ready) ELSE Least(enough)

Found == At(ready, {i \in 1..Looked : IsReady(ready[i])})

\* The array events[] that epoll_wait fills.
Reported(found) ==
    [i \in DOMAIN found |->
        [fd |-> found[i], ev |-> IF found[i] = master THEN {"in"} ELSE EventsOf(found[i])]]

\* Faulty: the sockets of connections are edge-triggered as well.
EpollWaitEdges ==
    /\ Waiting /\ Found # <<>>
    /\ batch' = Reported(Found)
    /\ ready' = SubSeq(ready, Looked + 1, Len(ready))
    /\ fresh' = {}
    /\ UNCHANGED <<backlog, connVars, tableVars, missed>>

EpollWait ==
    /\ Waiting /\ Found # <<>>
    /\ batch' = Reported(Found)
    /\ ready' = SubSeq(ready, Looked + 1, Len(ready)) \o Without(Found, master)
    /\ fresh' = {}
    /\ UNCHANGED <<backlog, connVars, tableVars, missed>>

\* pick_client without createNew.
Lookup(f) == {i \in DOMAIN slots : slots[i] = f}

Event == Head(batch)

\* send_response_to_client, for what a handler has to say to the connections to.
Arm(to) == armed' = [f \in Fds |-> armed[f] \/ f \in to]

\* EPOLL_CTL_MOD queues the descriptors it finds ready.
Woken(s, to) == At([f \in Fds |-> f], {f \in to : ~Queued(s, f)})

\* close_socket; the slot keeps the client until the descriptor comes back.
CloseSocket(f, to) ==
    /\ open' = open \ {f}
    /\ input' = [input EXCEPT ![f] = "none"]
    /\ armed' = [g \in Fds |-> g # f /\ (armed[g] \/ g \in to)]
    /\ ready' = LET left == Without(ready, f) IN left \o Woken(left, to \ {f})
    /\ fresh' = fresh \cup {f}

\* "break" drops the rest of the batch, and the edge of the listening socket.
Break ==
    /\ batch' = <<>>
    /\ missed' = IF \E i \in 2..Len(batch) : batch[i].fd = master
                 THEN missed \cup {"dropped"} ELSE missed

\* Faulty: leaves the loop as the other branches do.
HangUpBreaks ==
    /\ batch # <<>> /\ new = 0 /\ Event.fd # master /\ "err" \in Event.ev
    /\ Lookup(Event.fd) # {}
    /\ \E to \in SUBSET (open \ {Event.fd}) : CloseSocket(Event.fd, to)
    /\ batch' = <<>>
    /\ UNCHANGED <<backlog, tableVars, missed>>

\* EPOLLERR or EPOLLHUP: the loop goes on with the next event.
HangUp ==
    /\ batch # <<>> /\ new = 0 /\ Event.fd # master /\ "err" \in Event.ev
    /\ Lookup(Event.fd) # {}
    /\ \E to \in SUBSET (open \ {Event.fd}) : CloseSocket(Event.fd, to)
    /\ batch' = Tail(batch)
    /\ UNCHANGED <<backlog, tableVars, missed>>

\* accept fails for want of a descriptor; the request stays in the backlog.
AcceptFails ==
    /\ batch # <<>> /\ new = 0 /\ Event.fd = master /\ open = Fds
    /\ batch' = Tail(batch)
    /\ missed' = missed \cup {"failed"}
    /\ UNCHANGED <<backlog, ready, connVars, tableVars, fresh>>

\* Faulty: every connection gets a slot of its own.
PickSlotAlways(f) == Append(slots, 0)

\* pick_client with createNew: the slot of an earlier client with this descriptor,
\* who is freed, or one more; the slot has no client yet.
PickSlot(f) == IF Lookup(f) = {} THEN Append(slots, 0)
               ELSE [slots EXCEPT ![Least(Lookup(f))] = 0]

\* accept and pick_client.
Accept ==
    /\ batch # <<>> /\ new = 0 /\ Event.fd = master /\ open # Fds
    /\ LET f == Least(Fds \ open)
       IN  /\ new' = f /\ open' = open \cup {f} /\ fresh' = fresh \cup {f}
           /\ slots' = PickSlot(f)
    /\ backlog' = backlog - 1
    /\ missed' = IF backlog = 1 THEN {} ELSE missed
    /\ peak' = IF Cardinality(open') > peak THEN Cardinality(open') ELSE peak
    /\ UNCHANGED <<ready, input, armed, batch>>

\* im_connection_accept, and the client is put in the slot.  The peer may have been
\* quick.
Fill ==
    /\ new # 0
    /\ slots' = [i \in DOMAIN slots |-> IF slots[i] = 0 THEN new ELSE slots[i]]
    /\ \E what \in {"none", "data", "end", "error"} :
          /\ input' = [input EXCEPT ![new] = what]
          /\ ready' = IF what = "none" THEN ready ELSE Append(ready, new)
    /\ new' = 0 /\ batch' = Tail(batch)
    /\ UNCHANGED <<backlog, open, armed, peak, fresh, missed>>

\* Faulty: EPOLLIN and EPOLLOUT of one descriptor are both handled.
ReadOn ==
    /\ batch # <<>> /\ new = 0 /\ Event.fd # master
    /\ "in" \in Event.ev /\ "err" \notin Event.ev /\ Lookup(Event.fd) # {}
    /\ LET f == Event.fd
       IN  \E to \in SUBSET open :
             IF input[f] = "end"
             THEN CloseSocket(f, to)
             ELSE /\ input' = [input EXCEPT ![f] = IF @ = "data" THEN "none" ELSE @]
                  /\ Arm(to) /\ ready' = ready \o Woken(ready, to)
                  /\ UNCHANGED <<open, fresh>>
    /\ IF "out" \in Event.ev
       THEN batch' = <<[Event EXCEPT !.ev = {"out"}]>> \o Tail(batch) /\ UNCHANGED missed
       ELSE Break
    /\ UNCHANGED <<backlog, tableVars>>

\* EPOLLIN: recv returns bytes, 0 or -1 (the error has come after epoll_wait), the
\* handler has something to say to some connections, and the loop ends.
Read ==
    /\ batch # <<>> /\ new = 0 /\ Event.fd # master
    /\ "in" \in Event.ev /\ "err" \notin Event.ev /\ Lookup(Event.fd) # {}
    /\ LET f == Event.fd
       IN  \E to \in SUBSET open :
             IF input[f] = "end"
             THEN CloseSocket(f, to)
             ELSE /\ input' = [input EXCEPT ![f] = IF @ = "data" THEN "none" ELSE @]
                  /\ Arm(to) /\ ready' = ready \o Woken(ready, to)
                  /\ UNCHANGED <<open, fresh>>
    /\ Break
    /\ UNCHANGED <<backlog, tableVars>>

\* EPOLLOUT alone: everything is sent, or the rest stays, and the loop ends.
Write ==
    /\ batch # <<>> /\ new = 0 /\ Event.fd # master
    /\ Event.ev = {"out"} /\ Lookup(Event.fd) # {}
    /\ \/ armed' = [armed EXCEPT ![Event.fd] = FALSE]
       \/ UNCHANGED armed
    /\ Break
    /\ UNCHANGED <<backlog, ready, open, input, tableVars, fresh>>

\* No event leads to "couldn't find im_client", see EventsAreCurrent.
Loop == EpollWait \/ HangUp \/ AcceptFails \/ Accept \/ Fill \/ Read \/ Write

\* The timer thread tells the client of slot i that he is logged off.
Notice(i) ==
    /\ slots[i] \in open \ {new}
    /\ Arm({slots[i]}) /\ ready' = ready \o Woken(ready, {slots[i]})
    /\ UNCHANGED <<backlog, open, input, batch, tableVars, fresh, missed>>

Next ==
    \/ Loop
    \/ Request
    \/ \E f \in Fds, what \in {"data", "end", "error"} : Arrive(f, what)
    \/ \E i \in DOMAIN slots : Notice(i)

Spec == Init /\ [][Next]_vars

\* The thread runs; nothing is assumed of peers and of the timer thread.
FairSpec == Spec /\ WF_vars(Loop)

-----------------------------------------------------------------------------
(* Properties.                                                             *)

TypeOK ==
    /\ backlog \in 0..MaxBacklog /\ ready \in Seq(0..NFds) /\ open \subseteq Fds
    /\ input \in [Fds -> {"none", "data", "end", "error"}] /\ armed \in [Fds -> BOOLEAN]
    /\ batch \in Seq([fd : 0..NFds, ev : SUBSET {"in", "out", "err"}])
    /\ slots \in Seq(0..NFds) /\ new \in 0..NFds /\ peak \in 0..NFds
    /\ fresh \subseteq Fds /\ missed \subseteq {"merged", "dropped", "failed"}

\* Whatever connections come and go, whoever asks for a descriptor in use gets its
\* client and no other: no two slots have the same descriptor, and every connection
\* has one.  A slot without a client, which the timer thread may come upon, exists
\* only while accept is under way.  And the table has no more slots than there were
\* descriptors at a time: clients[] is for MAX_CLIENTS connections at once, not for as
\* many in all.
TableOK ==
    /\ Len(slots) <= peak
    /\ \A i, j \in DOMAIN slots : slots[i] = slots[j] => i = j
    /\ \A f \in open \ {new} : Lookup(f) # {}
    /\ Lookup(0) # {} <=> new # 0

\* An event is handled for the connection it was reported for: none was closed, or
\* closed and replaced by a new one with its descriptor, since epoll_wait.
EventsAreCurrent ==
    TypeOK /\ \A i \in DOMAIN batch : batch[i].fd # master => batch[i].fd \in open \ fresh

\* While connection requests wait, one after the other is answered.  The exceptions:
\* an edge met another one in the list, or was in a batch that a read or a write cut
\* short, or no descriptor was free; from then on requests are left behind.
RequestAnswered == []<>(backlog = 0 \/ new # 0 \/ missed # {})

\* Input is read although the loop drops events, unless some other source is ready
\* again and again.
ReadInTheEnd ==
    \A f \in Fds : <>[](input[f] # "none") => \E g \in 0..NFds \ {f} : []<>IsReady(g)
=============================================================================
