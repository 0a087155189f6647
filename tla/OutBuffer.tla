----------------------------- MODULE OutBuffer ------------------------------
(***************************************************************************)
(* An im_buffer_t as the senders use it: send_response (the server) and    *)
(* send_request (the client) append a message, im_send_buffer sends what   *)
(* the socket takes.  The buffer is not a ring: the bytes that wait are    *)
(* moved to the front when the end is reached or half of it is behind      *)
(* them, and the memory is doubled when that is not enough.                *)
(*                                                                         *)
(* The move is a memcpy.  When the regions overlap C leaves it undefined:  *)
(* a copy that goes up moves the bytes correctly and one that goes down    *)
(* does not, and either may be the one of the C library.                   *)
(***************************************************************************)
EXTENDS Naturals, Sequences

CONSTANTS
    InitCap,   \* BUFSIZ in the code
    Lengths,   \* lengths of the encoded messages
    MaxBytes   \* bound: bytes put in while the system runs

ASSUME InitCapAssumption == InitCap \in Nat \ {0}
ASSUME LengthsAssumption == MaxBytes \in Nat /\ Lengths \subseteq 1..MaxBytes

VARIABLES
    mem,       \* mem[i]: the byte at buffer[i], by its number; 0 is garbage
    cap,       \* buffer_capacity
    start,     \* buffer_start
    end,       \* buffer_end
    accepted   \* number of bytes put in so far

vars == <<mem, cap, start, end, accepted>>

Live == end - start

Init == /\ cap = InitCap /\ start = 0 /\ end = 0
        /\ mem = [i \in 0..(InitCap - 1) |-> 0]
        /\ accepted = 0

\* reset_buffer_start: memcpy(buffer, buffer + start, end - start).
Upward == [i \in DOMAIN mem |-> IF i < Live THEN mem[i + start] ELSE mem[i]]

\* Going down, a byte that was written is read again start places below.
Clobbered ==
    [i \in DOMAIN mem |->
        IF i < Live THEN mem[i + start * ((Live - 1 - i) \div start + 1)] ELSE mem[i]]

Overlaps == start # 0 /\ start < Live

Moved == IF Overlaps THEN {Upward, Clobbered} ELSE {Upward}

\* 1 << k
Shifted[k \in Nat] == IF k = 0 THEN 1 ELSE 2 * Shifted[k - 1]

\* The capacity after "while (end + len >= capacity) capacity <<= 1".
Doubled(c, need) ==
    CHOOSE d \in {c * Shifted[k] : k \in 0..need} : d > need /\ (d = c \/ d <= 2 * need)

SendResponse(n) ==
    /\ accepted + n <= MaxBytes
    /\ LET full == end + n >= cap
           e    == IF full THEN Live ELSE end
       IN  /\ start' = IF full THEN 0 ELSE start
           /\ end' = e + n
           /\ cap' = Doubled(cap, e + n)
           /\ \E m \in IF full THEN Moved ELSE {mem} :
                mem' = [i \in 0..(cap' - 1) |->
                            IF i \in e..(e + n - 1) THEN accepted + 1 + (i - e)
                            ELSE IF i < cap THEN m[i] ELSE 0]
    /\ accepted' = accepted + n

\* Faulty: buffer_end stays where it was when the bytes are moved.
SendKeepingEnd(n) ==
    /\ n \in 1..Live
    /\ IF 2 * (start + n) >= cap
       THEN /\ start' = 0
            /\ mem' = [i \in DOMAIN mem |-> IF i < Live - n THEN mem[i + start + n] ELSE mem[i]]
       ELSE start' = start + n /\ UNCHANGED mem
    /\ UNCHANGED <<end, cap, accepted>>

\* The socket takes n bytes; send returning -1 leaves the buffer as it is.
Send(n) ==
    /\ n \in 1..Live
    /\ IF 2 * (start + n) >= cap
       THEN /\ start' = 0 /\ end' = Live - n
            /\ mem' = [i \in DOMAIN mem |-> IF i < Live - n THEN mem[i + start + n] ELSE mem[i]]
       ELSE start' = start + n /\ UNCHANGED <<end, mem>>
    /\ UNCHANGED <<cap, accepted>>

Next == (\E n \in Lengths : SendResponse(n)) \/ (\E n \in 1..Live : Send(n))

Spec == Init /\ [][Next]_vars

-----------------------------------------------------------------------------
TypeOK == /\ cap \in Nat \ {0} /\ mem \in [0..(cap - 1) -> 0..MaxBytes]
          /\ start \in 0..end /\ end \in 0..(cap - 1) /\ accepted \in 0..MaxBytes

\* The buffer is a queue of bytes: none is lost, repeated, altered or overtaken,
\* through any sequence of short sends, moves and doublings.  The one exception is
\* an append that moves overlapping regions.  The move after a send is always of
\* disjoint ones, at least half of the memory is behind the bytes that wait; so Send
\* can ignore the direction of memcpy.
Queue == INSTANCE ByteQueue WITH queue <- [i \in 1..Live |-> mem[start + i - 1]]
SentApart == accepted' = accepted /\ start' = 0 => 2 * (end' - start') <= end
IsQueue ==
    /\ Queue!Init
    /\ [][SentApart /\ (Queue!Next \/ (Overlaps /\ start' = 0 /\ accepted' > accepted))]_vars
=============================================================================
