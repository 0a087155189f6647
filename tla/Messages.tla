------------------------------ MODULE Messages ------------------------------
(***************************************************************************)
(* The protocol messages: one schema per generated file of src/proto, the  *)
(* types of the fields in the order of their numbers.  A message on a      *)
(* stream is a run of units, the smallest pieces that tell anything apart: *)
(* the outer message (IMRequest, IMResponse) gives one to each of its      *)
(* scalars, one to the length of its value and one to each field of the    *)
(* message in it.  Scalars are varints, a bool is 0 or 1.                  *)
(***************************************************************************)
EXTENDS Integers, Sequences

CONSTANT Word   \* 2^32: the values of a uint32_t

ASSUME WordAssumption == Word \in Nat /\ \E h \in 1..Word : Word = 2 * h

U32(v) == v % Word                                         \* any integer to uint32_t
AsInt(v) == IF v >= Word \div 2 THEN v - Word ELSE v       \* and back to int

\* Requests, type 1 to 10.
LoginRequest        == <<"string", "string", "uint32">>    \* username, password, port
MessageRequest      == <<"bool", "string", "string">>      \* broadcast, username, msg
WhoElseRequest      == <<"bool", "uint32", "bool">>   \* limitTime, pastSeconds, currentlyOnline
BlockRequest        == <<"string">>
UnBlockRequest      == <<"string">>
LogOutRequest       == <<>>
GetIPRequest        == <<"string">>
RegisterFileRequest == <<"string", "uint32">>              \* filename, chunks
RegisterChunkRequest == <<"string", "bytes">>              \* filename, packed chunks
SearchFileRequest   == <<"string", "bytes">>

\* Responses, type 1 to 6.
TextResponse        == <<"string">>
ExitResponse        == <<"string">>
GetIPResponse       == <<"string", "bytes">>               \* username, addr
PrivateRegistrationResponse == <<"string">>
ChunkDataRequest    == <<"string", "uint32">>              \* filename, chunk
ChunkDataResponse   == <<"string", "uint32", "bytes">>     \* filename, chunk, data

\* A field as it is sent.
Unit(type, v) == CASE type = "uint32" -> <<"varint", U32(v)>>
                   [] type = "bool" -> <<"varint", IF v THEN 1 ELSE 0>>
                   [] OTHER -> <<type, v>>

\* And as it is read.
FieldOf(type, unit) == IF type = "bool" THEN unit[2] # 0 ELSE unit[2]

Encode(schema, fields) == [i \in DOMAIN schema |-> Unit(schema[i], fields[i])]

\* The outer messages: scalars, then the length of the value and the value.
Outer(scalars, value) == scalars \o <<Unit("uint32", Len(value))>> \o value
IMRequest(type, value) == Outer(<<Unit("uint32", type)>>, value)
IMResponse(type, success, value) == Outer(<<Unit("uint32", type), Unit("bool", success)>>, value)

\* Faulty: a message is taken only when something follows it.
WholeBefore(units, n) ==
    IF Len(units) < n \/ Len(units) <= n + units[n][2] THEN 0 ELSE n + units[n][2]

\* How many units the first message takes, whose last one of n fields is its
\* value; 0 when it is not there as a whole.
Whole(units, n) == IF Len(units) < n \/ Len(units) < n + units[n][2] THEN 0 ELSE n + units[n][2]

\* The value of that message, read as the schema says.
Value(units, n, schema) == [i \in DOMAIN schema |-> FieldOf(schema[i], units[n + i])]
=============================================================================
