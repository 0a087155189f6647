----------------------------- MODULE MCRequests -----------------------------
(* Requests, instantiated for TLC: what a user may type, and what he means by it. *)
EXTENDS Requests

MCNumeral == [s \in {"0", "1", "-1", "9"} |->
                 CASE s = "0" -> 0 [] s = "1" -> 1 [] s = "-1" -> -1 [] s = "9" -> 9]

\* Several of these lines matter together, one of the others at a time does.
List(text, means) == [text |-> text, means |-> means, cost |-> 1]
Other(text, means) == [text |-> text, means |-> means, cost |-> 2]

MCLines ==
    {List(<<"block", " ", u>>, <<"block", << <<u>> >> >>) : u \in {"bob", "carol"}}
    \cup {List(<<"un", "block", " ", u>>, <<"unblock", << <<u>> >> >>) : u \in {"bob", "carol"}}
    \cup {List(<<"whoelse">>, <<"whoelse", <<FALSE, 0, TRUE>> >>),
          Other(<<"whoelse", "since", " ", "0">>, <<"whoelse", <<TRUE, 0, FALSE>> >>),
          Other(<<"whoelse", "since", " ", "-1">>, <<"whoelse", <<TRUE, Word - 1, FALSE>> >>),
          Other(<<"whoelse", "since", " ", "1">>, <<"whoelse", <<TRUE, 1, FALSE>> >>),
          Other(<<"whoelse", "since", " ", "x">>, <<"whoelse", <<TRUE, 0, FALSE>> >>),
          Other(<<"block", " ", "alice">>, <<"block", << <<"alice">> >> >>),
          Other(<<"block", " ", "bob", " ", "carol">>, <<"block", << <<"bob", " ", "carol">> >> >>),
          Other(<<"log", "in", "alice", "secret", "1">>, <<"login", <<"alice", "secret", 1>> >>),
          Other(<<"log", "out">>, <<"logout", <<>> >>),
          Other(<<"message", " ", "bob", " ", "hi", " ", "you">>,
                <<"message", <<FALSE, <<"bob">>, <<"hi", " ", "you">> >> >>),
          Other(<<"message", " ", "nobody", " ", "hi">>,
                <<"message", <<FALSE, <<"nobody">>, <<"hi">> >> >>),
          Other(<<"message", " ", "bob">>, <<>>),
          Other(<<"broadcast", " ", "hi">>, <<"message", <<TRUE, <<>>, <<"hi">> >> >>),
          Other(<<"start", "private", " ", "bob">>, <<"getip", << <<"bob">> >> >>),
          Other(<<"private", " ", "bob", " ", "hi">>, <<>>),
          Other(<<"stop", "private", " ", "bob">>, <<>>),
          Other(<<"register", "file", "9">>, <<"regfile", <<"file", 9>> >>),
          Other(<<"search", "File", " ", "file">>, <<"searchfile", << <<"file">>, <<>> >> >>),
          Other(<<"search", "Chunk", " ", "file", " ", "0", " ", " ", "9">>,
                <<"searchfile", << <<"file">>, <<0, 9>> >> >>),
          Other(<<"search", "Chunk", " ", "file", " ", "-1">>,
                <<"searchfile", << <<"file">>, <<Word - 1>> >> >>),
          Other(<<"search", "Chunk", " ", "file", " ", "1", " ">>, <<>>),
          Other(<<"search", "Chunk", " ", "file">>, <<>>),
          Other(<<"who">>, <<>>)}
=============================================================================
