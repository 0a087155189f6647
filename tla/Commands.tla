------------------------------ MODULE Commands ------------------------------
(***************************************************************************)
(* The client's command line: a line typed by the user becomes a request,  *)
(* or none.  A line is a sequence of pieces of text, cut so that prefixes  *)
(* of commands end between two of them.  The numerals among the pieces are *)
(* the domain of Numeral, which gives what atoi or strtol makes of them.   *)
(***************************************************************************)
EXTENDS Messages, SequencesExt

CONSTANT Numeral

ASSUME NumeralAssumption == \A s \in DOMAIN Numeral : Numeral[s] \in Int

NoRequest == <<>>

\* enabled_commands with their prefixes; "whoelse" is a prefix of "whoelsesince ".
CommandTable ==
    << <<"log", "in">>, <<"message", " ">>, <<"broadcast", " ">>, <<"block", " ">>,
       <<"un", "block", " ">>, <<"log", "out">>, <<"whoelse", "since", " ">>, <<"whoelse">>,
       <<"start", "private", " ">>, <<"private", " ">>, <<"stop", "private", " ">>,
       <<"register">>, <<"search", "File", " ">>, <<"search", "Chunk", " ">> >>

\* cmd_login_impl: the name and the password are asked for.  The port is the
\* client's own; the user knows it as the last piece.
Login(args) == IMRequest(1, Encode(LoginRequest, <<args[1], args[2], Numeral[args[3]]>>))

\* The text before the first space and the text after it, or no cut.
Cuts(args) == {<<SubSeq(args, 1, i - 1), SubSeq(args, i + 1, Len(args))>> :
                  i \in {k \in DOMAIN args : args[k] = " " /\ \A j \in 1..(k - 1) : args[j] # " "}}

\* A command that needs two arguments makes no request when there is one.
WithCut(args, request) == IF Cuts(args) = {} THEN NoRequest ELSE request
TheCut(args) == CHOOSE c \in Cuts(args) : TRUE

Message(args) ==
    WithCut(args, IMRequest(2, Encode(MessageRequest, <<FALSE>> \o TheCut(args))))

Broadcast(args) == IMRequest(2, Encode(MessageRequest, <<TRUE, <<>>, args>>))

Block(args) == IMRequest(4, Encode(BlockRequest, <<args>>))

Unblock(args) == IMRequest(5, Encode(UnBlockRequest, <<args>>))

Logout == IMRequest(6, Encode(LogOutRequest, <<>>))

\* atoi of something that is not a number is 0.
Atoi(args) == IF args # <<>> /\ args[1] \in DOMAIN Numeral THEN Numeral[args[1]] ELSE 0

WhoElseSince(args) == IMRequest(3, Encode(WhoElseRequest, <<TRUE, Atoi(args), FALSE>>))

WhoElse == IMRequest(3, Encode(WhoElseRequest, <<FALSE, 0, TRUE>>))

StartPrivate(args) == IMRequest(7, Encode(GetIPRequest, <<args>>))

\* The dialogue of cmd_regfile_impl and the splitting are in ChunkTransfer: here
\* the pieces are the name and the number of chunks it ends with.
Register(args) == IMRequest(8, Encode(RegisterFileRequest, <<args[1], Numeral[args[2]]>>))

SearchFile(args) == IMRequest(10, Encode(SearchFileRequest, <<args, <<>>>>))

\* pack_repeated_uint32_from_str: strtol skips the spaces in front of a number and
\* fails on anything else, a space at the end included.  No numbers is a failure.
PackRepeated(text) ==
    IF text # <<>> /\ text[Len(text)] # " " /\ \A i \in DOMAIN text : text[i] \in DOMAIN Numeral \cup {" "}
    THEN LET numbers == SelectSeq(text, LAMBDA t : t # " ")
         IN  [i \in DOMAIN numbers |-> U32(Numeral[numbers[i]])]
    ELSE <<>>

SearchChunk(args) ==
    WithCut(args, LET c == TheCut(args)
                      indices == PackRepeated(c[2])
                  IN  IF indices = <<>> THEN NoRequest
                      ELSE IMRequest(10, Encode(SearchFileRequest, <<c[1], indices>>)))

\* The commands in the order of the table.  Those of private sessions send
\* nothing to the server.
Run(command, args) ==
    CASE command = 1  -> Login(args)        [] command = 2  -> Message(args)
      [] command = 3  -> Broadcast(args)    [] command = 4  -> Block(args)
      [] command = 5  -> Unblock(args)      [] command = 6  -> Logout
      [] command = 7  -> WhoElseSince(args) [] command = 8  -> WhoElse
      [] command = 9  -> StartPrivate(args) [] command = 12 -> Register(args)
      [] command = 13 -> SearchFile(args)   [] command = 14 -> SearchChunk(args)
      [] OTHER -> NoRequest

Matches(line) == {k \in DOMAIN CommandTable : IsPrefix(CommandTable[k], line)}

\* parse_command: the first command of the table whose prefix the line has.
ParseCommand(line) ==
    IF Matches(line) = {} THEN NoRequest
    ELSE LET k == CHOOSE k \in Matches(line) : \A j \in Matches(line) : k <= j
         IN  Run(k, SubSeq(line, Len(CommandTable[k]) + 1, Len(line)))
=============================================================================
