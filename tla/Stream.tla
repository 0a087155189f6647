------------------------------- MODULE Stream -------------------------------
(***************************************************************************)
(* A connection byte by byte, from the output buffer of its sender         *)
(* (OutBuffer) over the network to the input buffer of its receiver, where *)
(* im_receive_command makes room, receives what is there and hands whole   *)
(* messages to the handler.                                                *)
(*                                                                         *)
(* Bytes have the numbers they got when they were put in.  ends tells      *)
(* where messages end, which the decoder reads from their lengths.         *)
(***************************************************************************)
EXTENDS OutBuffer, FiniteSets

CONSTANT InCap   \* MSG_LIMIT in the code

ASSUME InCapAssumption == InCap \in Nat \ {0}

VARIABLES
    ends,      \* numbers of the bytes that end a message
    wire,      \* bytes on their way
    imem,      \* imem[i]: the byte at inbuffer.buffer[i], 0 where none waits
    icap,      \* inbuffer.buffer_capacity
    istart,    \* inbuffer.buffer_start
    iend,      \* inbuffer.buffer_end
    parsed,    \* history: bytes of the messages that were handled
    state,     \* the receiver: open, reset (recv failed), dropped (recv returned 0),
               \* runaway (buffer_end has wrapped)
    overlap    \* history: overlapping regions have been moved

inbuffer == <<imem, icap, istart, iend, parsed, state>>
allVars  == <<vars, ends, wire, inbuffer, overlap>>

StreamInit ==
    /\ Init /\ ends = {} /\ wire = <<>>
    /\ imem = [i \in 0..(InCap - 1) |-> 0] /\ icap = InCap /\ istart = 0 /\ iend = 0
    /\ parsed = <<>> /\ state = "open" /\ overlap = FALSE

Put(n) ==
    /\ SendResponse(n)
    /\ ends' = ends \cup {accepted + n}
    /\ overlap' = (overlap \/ (start' = 0 /\ Overlaps))
    /\ UNCHANGED <<wire, inbuffer>>

Flow(n) ==
    /\ Send(n)
    /\ wire' = wire \o [i \in 1..n |-> mem[start + i - 1]]
    /\ UNCHANGED <<ends, inbuffer, overlap>>

-----------------------------------------------------------------------------
ILive == iend - istart
IOverlaps == istart # 0 /\ istart < ILive

\* Faulty: buffer_start is cleared before the memcpy that reads it.
IMovedNothing == {imem}

\* reset_buffer_start, with a memcpy that goes up or down.
IMoved ==
    LET up   == [i \in DOMAIN imem |-> IF i < ILive THEN imem[i + istart] ELSE imem[i]]
        down == [i \in DOMAIN imem |-> IF i < ILive
                    THEN imem[i + istart * ((ILive - 1 - i) \div istart + 1)] ELSE imem[i]]
    IN  IF IOverlaps THEN {up, down} ELSE {up}

\* Faulty: the memory grows only when there is no room at all.
GrownWhenFull(end_) == IF end_ > icap THEN 2 * icap ELSE icap

\* At least half of the memory is to be free.
Grown(end_) == IF 2 * end_ > icap THEN 2 * icap ELSE icap

\* Faulty: the handler gets one message of each input.
HandledOne(m, e) ==
    LET last == {j \in 1..e : m[j - 1] \in ends}
    IN  IF last = {} THEN 0 ELSE CHOOSE j \in last : \A k \in last : j <= k

\* The loop over the handler: how many of the bytes m[0], .., m[e - 1] belong to
\* whole messages.
Handled(m, e) ==
    LET last == {j \in 1..e : m[j - 1] \in ends}
    IN  IF last = {} THEN 0 ELSE CHOOSE j \in last : \A k \in last : k <= j

\* recv has a piece of the stream; none fits when there is no room, and recv
\* returns 0, which means that the peer has closed.
Receive(n) ==
    /\ state = "open" /\ wire # <<>>
    /\ icap' = Grown(ILive)
    /\ n = 0 <=> icap' = ILive
    /\ n <= icap' - ILive
    /\ overlap' = (overlap \/ IOverlaps)
    /\ iend' = ILive + n
    /\ \E m \in IMoved :
          LET all == [i \in 0..(icap' - 1) |-> IF i < ILive THEN m[i]
                                               ELSE IF i < iend' THEN wire[i - ILive + 1] ELSE 0]
          IN  /\ istart' = Handled(all, iend')
              /\ parsed' = parsed \o [i \in 1..istart' |-> all[i - 1]]
              /\ imem' = [i \in DOMAIN all |-> IF i < istart' THEN 0 ELSE all[i]]
    /\ wire' = SubSeq(wire, n + 1, Len(wire))
    /\ state' = IF n = 0 THEN "dropped" ELSE "open"
    /\ UNCHANGED <<vars, ends>>

\* Faulty: recv's result is kept in sixteen bits before it is added.
ReceiveFailsNarrow ==
    /\ state = "open"
    /\ icap' = Grown(ILive)
    /\ \E m \in IMoved : imem' = [i \in 0..(icap' - 1) |-> IF i < ILive THEN m[i] ELSE 0]
    /\ overlap' = (overlap \/ IOverlaps)
    /\ istart' = 0 /\ iend' = ILive + 2^16 - 1 /\ state' = "reset"
    /\ UNCHANGED <<vars, ends, wire, parsed>>

\* The connection is reset after epoll_wait has reported it as readable: recv
\* returns -1, which is added to buffer_end.
ReceiveFails ==
    /\ state = "open"
    /\ icap' = Grown(ILive)
    /\ \E m \in IMoved : imem' = [i \in 0..(icap' - 1) |-> IF i < ILive THEN m[i] ELSE 0]
    /\ overlap' = (overlap \/ IOverlaps)
    /\ istart' = 0
    /\ iend' = IF ILive = 0 THEN 0 ELSE ILive - 1
    /\ state' = IF ILive = 0 THEN "runaway" ELSE "reset"
    /\ UNCHANGED <<vars, ends, wire, parsed>>

-----------------------------------------------------------------------------
StreamNext ==
    \/ \E n \in Lengths : Put(n)
    \/ \E n \in 1..Live : Flow(n)
    \/ \E n \in 0..Len(wire) : Receive(n)
    \/ ReceiveFails

StreamSpec == StreamInit /\ [][StreamNext]_allVars

\* The two network threads run, the network delivers.
FairStream == StreamSpec /\ WF_allVars(\E n \in 1..Live : Flow(n))
                         /\ WF_allVars(\E n \in 0..Len(wire) : Receive(n))

-----------------------------------------------------------------------------
Longest == CHOOSE n \in Lengths : \A k \in Lengths : k <= n

InTypeOK ==
    /\ ends \subseteq 1..MaxBytes /\ wire \in Seq(0..MaxBytes) /\ parsed \in Seq(0..MaxBytes)
    /\ icap \in Nat \ {0} /\ imem \in [0..(icap - 1) -> 0..MaxBytes]
    /\ istart \in 0..iend /\ iend \in 0..icap
    /\ state \in {"open", "reset", "dropped", "runaway"} /\ overlap \in BOOLEAN

\* recv is never called without room: it would return 0 then, and a connection with
\* a long message on its way would be closed as if the peer had gone.  Yet the input
\* buffer stays within four times the longest message: a stream of requests does not
\* make it grow.  The exception for its size are moves of overlapping regions, which
\* can overwrite the end of a message that is partly on its way.
InputHasRoom == state # "dropped" /\ (overlap \/ icap <= InCap \/ icap < 4 * Longest)

\* The handler gets the bytes that were put in at the other end, in their order,
\* none lost, repeated or altered by moving, doubling and short sends and receives
\* on both sides.  The one exception are moves of overlapping regions.
EndToEnd == TypeOK /\ InTypeOK /\ (overlap \/ \A i \in DOMAIN parsed : parsed[i] = i)

\* A failing recv counts bytes that are not there only when it meets an empty
\* buffer; with a part of a message in it the handler waits for the rest.
FailureIsWaiting ==
    [][ReceiveFails /\ ILive > 0 => iend' < icap' /\ (Handled(imem', iend') = 0 \/ overlap')]_allVars

\* Every message is handled in the end.
AllArrive ==
    \A k \in 1..MaxBytes :
        k \in ends ~> Len(parsed) >= k \/ overlap \/ state # "open"
=============================================================================
