------------------------------ MODULE Requests ------------------------------
(***************************************************************************)
(* What becomes of the lines that a user types: commands turn them into    *)
(* requests, the stream delivers these in pieces of any size, the server   *)
(* takes whole requests off its input buffer and dispatches them by type,  *)
(* and the answers come back in the same way.                              *)
(*                                                                         *)
(* The handlers that own their data are here: block lists and whoelse.  Of *)
(* the others (Sessions, Delivery and FileRegistry are about them) only    *)
(* the kind of the answer is kept.                                         *)
(***************************************************************************)
EXTENDS Commands

CONSTANTS
    Users,     \* the users of the list db->first
    Me,        \* the user who types; his session does not time out
    Lines,     \* what he may type: [text, means, cost], means is <<>> for no request
    Visitors,  \* bound: the others who come and go
    Budget,    \* bound: what the lines typed may cost together
    MaxTime    \* bound: the clock

Others == Users \ {Me}

ASSUME UsersAssumption == Me \in Users /\ Visitors \subseteq Others /\ Budget \in Nat /\ MaxTime \in Nat

\* The types of the messages are told apart in a uint32_t.
ASSUME TypesFit == Word > 10

VARIABLES
    meant,     \* history: what the lines typed mean, those that make no request left out
    spent,     \* what the lines typed cost together
    exited,    \* the client has exited
    up,        \* requests on their way
    inbuf,     \* client->inbuffer at the server
    handled,   \* history: requests handled, as <<handler, fields>>
    session,   \* client->user is set
    closed,    \* the server has closed the connection
    blocked,   \* Me's block list, from its first entry
    online,    \* online[u]: isUserLoggedIn(u)
    active,    \* active[u]: last_active
    now,       \* time(NULL)
    said,      \* history: answers given, as <<type, success, fields>>
    down,      \* answers on their way
    cin,       \* the client's input buffer
    shown      \* history: answers parsed

client == <<meant, spent, exited, up>>
lists  == <<blocked, online, active, now>>
back   == <<cin, shown>>
vars   == <<client, inbuf, handled, session, closed, lists, said, down, back>>

Init ==
    /\ meant = <<>> /\ spent = 0 /\ exited = FALSE /\ up = <<>> /\ inbuf = <<>> /\ handled = <<>>
    /\ session = TRUE /\ closed = FALSE
    /\ blocked = <<>> /\ now = 0
    /\ online = [u \in Others |-> FALSE] /\ active = [u \in Others |-> -1]
    /\ said = <<>> /\ down = <<>> /\ cin = <<>> /\ shown = <<>>

-----------------------------------------------------------------------------
(* The client types, and shows what it is told.                            *)

TypeOf(units) == units[1][2]

\* got_command, parse_command, send_request
Type(l) ==
    /\ ~exited /\ spent + l.cost <= Budget
    /\ spent' = spent + l.cost
    /\ meant' = IF l.means = <<>> THEN meant ELSE Append(meant, l.means)
    /\ up' = up \o ParseCommand(l.text)
    /\ UNCHANGED <<exited, inbuf, handled, session, closed, lists, said, down, back>>

\* im_receive_command at the client: a piece of the stream.
Hear(n) ==
    /\ ~exited /\ Whole(cin, 3) = 0
    /\ cin' = cin \o SubSeq(down, 1, n) /\ down' = SubSeq(down, n + 1, Len(down))
    /\ UNCHANGED <<client, inbuf, handled, session, closed, lists, said, shown>>

Responses == <<TextResponse, ExitResponse, GetIPResponse, PrivateRegistrationResponse,
               ChunkDataRequest, ChunkDataResponse>>

\* parse_response, once; an ExitResponse ends the client.
Show ==
    /\ ~exited /\ Whole(cin, 3) > 0
    /\ shown' = Append(shown, <<TypeOf(cin), cin[2][2] # 0, Value(cin, 3, Responses[TypeOf(cin)])>>)
    /\ cin' = SubSeq(cin, Whole(cin, 3) + 1, Len(cin))
    /\ exited' = (TypeOf(cin) = 2)
    /\ UNCHANGED <<meant, spent, up, inbuf, handled, session, closed, lists, said, down>>

\* recv returns 0: server_close_connection exits.
ServerGone ==
    /\ ~exited /\ closed /\ down = <<>> /\ Whole(cin, 3) = 0
    /\ exited' = TRUE
    /\ UNCHANGED <<meant, spent, up, inbuf, handled, session, closed, lists, said, down, back>>

-----------------------------------------------------------------------------
(* The server reads.                                                       *)

\* im_receive_command: what recv returns is added to what is left in the buffer.
Receive(n) ==
    /\ ~closed /\ Whole(inbuf, 2) = 0
    /\ inbuf' = inbuf \o SubSeq(up, 1, n) /\ up' = SubSeq(up, n + 1, Len(up))
    /\ UNCHANGED <<meant, spent, exited, handled, session, closed, lists, said, down, back>>

\* The types of the commands in the server's table, with their parsers.
Handlers == << <<"login", LoginRequest>>, <<"message", MessageRequest>>,
               <<"whoelse", WhoElseRequest>>, <<"block", BlockRequest>>,
               <<"unblock", UnBlockRequest>>, <<"logout", LogOutRequest>>,
               <<"getip", GetIPRequest>>, <<"regfile", RegisterFileRequest>>,
               <<"regchunk", RegisterChunkRequest>>, <<"searchfile", SearchFileRequest>> >>

\* A whole request for this handler is at the head of the buffer.
Asked(name) == /\ Whole(inbuf, 2) > 0 /\ TypeOf(inbuf) \in DOMAIN Handlers
               /\ Handlers[TypeOf(inbuf)][1] = name
Fields == Value(inbuf, 2, Handlers[TypeOf(inbuf)][2])

NoAnswer == <<>>
Text(success, text) == <<1, success, <<text>> >>
Exit(success, text) == <<2, success, <<text>> >>

\* Faulty: the request stays in the buffer.
TakenAgain ==
    /\ UNCHANGED inbuf
    /\ handled' = Append(handled, <<Handlers[TypeOf(inbuf)][1], Fields>>)

\* One turn of the loop: the request is consumed.
Taken ==
    /\ inbuf' = SubSeq(inbuf, Whole(inbuf, 2) + 1, Len(inbuf))
    /\ handled' = Append(handled, <<Handlers[TypeOf(inbuf)][1], Fields>>)

\* Faulty: a new answer goes in front of those that wait.
AnsweredFirst(a) ==
    /\ Taken
    /\ said' = IF a = NoAnswer THEN said ELSE Append(said, a)
    /\ down' = IF a = NoAnswer \/ closed THEN down
               ELSE IMResponse(a[1], a[2], Encode(Responses[a[1]], a[3])) \o down

\* Its answer goes out; nothing is sent on a closed descriptor.
Answered(a) ==
    /\ Taken
    /\ said' = IF a = NoAnswer THEN said ELSE Append(said, a)
    /\ down' = IF a = NoAnswer \/ closed THEN down ELSE down \o IMResponse(a[1], a[2], Encode(Responses[a[1]], a[3]))

NotLoggedIn == Text(FALSE, <<"You are not logged in">>)

-----------------------------------------------------------------------------
(* The handlers.                                                           *)

\* findUser: the users with this name, one or none.
FindUser(name) == {u \in Users : name = <<u>>}

\* cmd_login for Me, with the right password; Sessions has the rest.
ServeLogin ==
    /\ Asked("login")
    /\ Answered(IF session THEN Exit(FALSE, <<"another session is in place">>)
                ELSE Text(TRUE, <<"Welcome">>))
    /\ session' = TRUE
    /\ UNCHANGED <<client, closed, lists, back>>

\* cmd_logout: close_socket.  What has not been sent by then is lost.
ServeLogout ==
    /\ Asked("logout")
    /\ IF session
       THEN /\ Taken /\ UNCHANGED said
            /\ \E k \in 0..Len(down) : down' = SubSeq(down, 1, k)
       ELSE Answered(NotLoggedIn)
    /\ session' = FALSE /\ closed' = (closed \/ session)
    /\ UNCHANGED <<client, lists, back>>

\* The linked list of blocked users.
HasBlocked(list, u) == \E i \in DOMAIN list : list[i] = u

BlockUser(list, u) == IF HasBlocked(list, u) THEN list ELSE <<u>> \o list

\* Faulty: what follows the entry goes with it.
UnblockAll(list, u) ==
    SubSeq(list, 1, Cardinality({i \in DOMAIN list : \A j \in 1..i : list[j] # u}))

\* unblockUser: after an entry is taken out, the one that follows it is passed over.
UnblockUser(list, u) ==
    LET walk[i \in 0..Len(list)] ==
            IF i = 0 THEN [kept |-> <<>>, skip |-> FALSE]
            ELSE IF ~walk[i - 1].skip /\ list[i] = u
                 THEN [kept |-> walk[i - 1].kept, skip |-> TRUE]
            ELSE [kept |-> Append(walk[i - 1].kept, list[i]), skip |-> FALSE]
    IN  walk[Len(list)].kept

\* cmd_block
ServeBlock ==
    /\ Asked("block")
    /\ LET found == FindUser(Fields[1])
           ok    == session /\ \E u \in found \ {Me} : ~HasBlocked(blocked, u)
       IN  /\ Answered(IF session THEN Text(ok, <<"block">>) ELSE NotLoggedIn)
           /\ blocked' = IF ok THEN BlockUser(blocked, CHOOSE u \in found : TRUE) ELSE blocked
    /\ UNCHANGED <<client, session, closed, online, active, now, back>>

\* cmd_unblock
ServeUnblock ==
    /\ Asked("unblock")
    /\ LET found == FindUser(Fields[1])
           ok    == session /\ \E u \in found \ {Me} : HasBlocked(blocked, u)
       IN  /\ Answered(IF session THEN Text(ok, <<"unblock">>) ELSE NotLoggedIn)
           /\ blocked' = IF ok THEN UnblockUser(blocked, CHOOSE u \in found : TRUE) ELSE blocked
    /\ UNCHANGED <<client, session, closed, online, active, now, back>>

\* Faulty: everybody who has ever been active is listed.
LoggedInEver(threshold, currentlyOnline) ==
    {u \in Others : active[u] >= 0 /\ (~currentlyOnline \/ online[u])}

\* loggedInUsersAfterTime; their order, that of db->first, is left out.
LoggedInUsersAfterTime(threshold, currentlyOnline) ==
    {u \in Others : active[u] >= threshold /\ (~currentlyOnline \/ online[u])}

\* loggedInUsersInPastSeconds, loggedInUsers
Threshold(limitTime, pastSeconds) == IF limitTime THEN now - AsInt(pastSeconds) ELSE 0

\* cmd_whoelse
ServeWhoElse ==
    /\ Asked("whoelse")
    /\ LET list == LoggedInUsersAfterTime(Threshold(Fields[1], Fields[2]), Fields[3])
       IN  Answered(IF ~session THEN NotLoggedIn ELSE Text(list # {}, <<"users", list>>))
    /\ UNCHANGED <<client, session, closed, lists, back>>

\* cmd_getip: the address is that of the user's connection.
ServeGetIP ==
    /\ Asked("getip")
    /\ LET found == FindUser(Fields[1]) \ {Me}
       IN  Answered(IF session /\ \E u \in found : online[u]
                    THEN <<3, TRUE, <<Fields[1], <<"address">> >> >>
                    ELSE Text(FALSE, <<"startprivate">>))
    /\ UNCHANGED <<client, session, closed, lists, back>>

\* cmd_message: no answer unless it fails.
ServeMessage ==
    /\ Asked("message")
    /\ Answered(IF ~session THEN NotLoggedIn
                ELSE IF Fields[1] \/ FindUser(Fields[2]) # {} THEN NoAnswer
                ELSE Text(FALSE, <<"Recipient">>))
    /\ UNCHANGED <<client, session, closed, lists, back>>

\* cmd_regfile, cmd_searchfile
ServeFiles ==
    /\ \E name \in {"regfile", "searchfile"} : Asked(name)
    /\ Answered(IF session THEN Text(TRUE, <<"file">>) ELSE NotLoggedIn)
    /\ UNCHANGED <<client, session, closed, lists, back>>

-----------------------------------------------------------------------------
(* The other users come, act and go.                                       *)

Tick == /\ now < MaxTime /\ now' = now + 1
        /\ UNCHANGED <<client, inbuf, handled, session, closed, blocked, online, active,
                       said, down, back>>

Come(u) == /\ online' = [online EXCEPT ![u] = TRUE] /\ active' = [active EXCEPT ![u] = now]
           /\ UNCHANGED <<client, inbuf, handled, session, closed, blocked, now, said, down, back>>

Leave(u) == /\ online' = [online EXCEPT ![u] = FALSE]
            /\ UNCHANGED <<client, inbuf, handled, session, closed, blocked, active, now,
                           said, down, back>>

-----------------------------------------------------------------------------
Handle == \/ ServeLogin \/ ServeMessage \/ ServeWhoElse \/ ServeBlock \/ ServeUnblock
          \/ ServeLogout \/ ServeGetIP \/ ServeFiles
Next == \/ \E l \in Lines : Type(l)
        \/ \E n \in 1..Len(up) : Receive(n)
        \/ Handle
        \/ \E n \in 1..Len(down) : Hear(n)
        \/ Show \/ ServerGone
        \/ Tick \/ \E u \in Visitors : Come(u) \/ Leave(u)

Spec == Init /\ [][Next]_vars

\* The server's network thread runs and the network delivers; nobody has to type.
FairSpec == Spec /\ WF_vars(\E n \in 1..Len(up) : Receive(n)) /\ WF_vars(Handle)

-----------------------------------------------------------------------------
(* Properties.                                                             *)

TypeOK ==
    /\ meant \in Seq({l.means : l \in Lines}) /\ exited \in BOOLEAN /\ session \in BOOLEAN /\ closed \in BOOLEAN
    /\ ToSet(blocked) \subseteq Others /\ online \in [Others -> BOOLEAN]
    /\ active \in [Others -> -1..MaxTime] /\ now \in 0..MaxTime
    /\ \A i \in DOMAIN said : said[i][1] \in DOMAIN Responses
    /\ \A i \in DOMAIN handled :
          handled[i][1] = "whoelse" => handled[i][2][2] \in 0..(Word - 1)

\* A line makes the request that it means, as the server's parsers read it, or none.
Fits(fields, schema) ==
    /\ fields = [i \in DOMAIN schema |-> fields[i]]
    /\ \A i \in DOMAIN schema : /\ schema[i] = "uint32" => fields[i] \in 0..(Word - 1)
                                /\ schema[i] = "bool" => fields[i] \in BOOLEAN
Makes(units, means) ==
    \E t \in DOMAIN Handlers :
        /\ means = <<Handlers[t][1], means[2]>> /\ Fits(means[2], Handlers[t][2])
        /\ units = IMRequest(t, Encode(Handlers[t][2], means[2]))
Understood(l) == IF l.means = <<>> THEN ParseCommand(l.text) = NoRequest
                 ELSE Makes(ParseCommand(l.text), l.means)
AllUnderstood == \A l \in Lines : Understood(l)

\* The requests are handled as they were meant and in the order in which they
\* were typed, whatever the pieces in which they arrive: the command of a line is
\* found although prefixes overlap, the request reaches its handler through two
\* tables and two encodings, and its fields hold what was typed (a number, what
\* is left of it in 32 bits).
AsTyped ==
    /\ TypeOK
    /\ AllUnderstood
    /\ IsPrefix(handled, meant)

\* The block list is the set that the requests handled so far make of it: blocking
\* twice, removing an entry anywhere and unblocking who is not there included.
\* (unblockUser passes over the entry after the one it removes; that is harmless
\* only as long as nobody is in the list twice.)
Names(i, name, u) == handled[i][1] = name /\ handled[i][2] = <<<<u>>>>
BlockListIsSet ==
    /\ Len(blocked) = Cardinality(ToSet(blocked))
    /\ ~closed => \A u \in Others :
          u \in ToSet(blocked) <=>
              \E i \in DOMAIN handled :
                  /\ Names(i, "block", u)
                  /\ \A j \in (i + 1)..Len(handled) : ~Names(j, "unblock", u)

\* "whoelse" lists exactly the other users who are online, "whoelsesince" those
\* whose last activity is not longer ago than the seconds typed, negative ones
\* included.  The exception are more seconds than have passed since 1970: then
\* even users who have never logged in are listed.
Since(u, seconds) == active[u] >= 0 /\ now - active[u] <= seconds
WhoElseIsTrue ==
    [][ServeWhoElse /\ session =>
          LET seconds == AsInt(Fields[2])
              listed  == said'[Len(said')][3][1][2]
          IN  IF Fields[1] THEN seconds <= now => listed = {u \in Others : Since(u, seconds)}
              ELSE listed = {u \in Others : online[u]}]_vars

\* The user sees the answers in the order in which the server gave them, whole
\* and unaltered, whatever the pieces in which they arrive.
AnswersInOrder == IsPrefix(shown, said)

\* Every request is handled in the end, unless the connection ends first: none is
\* left in the buffer behind another one.
AllHandled == Len(handled) < Len(meant) ~> Len(handled) = Len(meant) \/ closed \/ exited
=============================================================================
