--------------------------- MODULE MCRequestHead ---------------------------
(* Buffers of a few bytes, every line over bytes of every kind.            *)
EXTENDS RequestHead

MCOthers == {"?", "/", ".", "-", "a", "c", "d", "L", ":", "1", "5"}
MCDigit == [b \in {"1", "5"} |-> IF b = "1" THEN 1 ELSE 5]

\* "c" is listed twice, like "sh" in mimetypes.h, "c.a" like "tar.gz".
MCMimeTypes == << << <<"a">>, "text">>, << <<"c">>, "shell">>, << <<"c", ".", "a">>, "tar">>,
                  << <<"d">>, "cgi">>, << <<"c">>, "cgi">> >>
MCBase == <<"/">>
MCIndex == <<"a", ".", "a">>
MCAlias == <<"/", "d">>
MCAliasPath == <<"/", "d", ".", "d">>
MCName == <<"L", ":">>

Line(first, n) ==
  {<<first>> \o s \o e : s \in BoundedSeq({Blank, "?", "/", ".", "c", "d"}, n), e \in {<<>>, <<LF>>}}
MCRequestLines == Line(GET, 5) \cup Line(POST, 3) \cup Line("a", 1) \cup {<<>>, <<LF>>}

MCValues == {<<>>, <<Blank>>, <<Blank, "5">>, <<Blank, "1", "5">>, <<"5">>, <<"1", "5">>,
             <<Blank, "-", "1">>, <<Blank, "-", "5">>}
MCHeaders == [name : {TRUE}, value : MCValues, cut : BOOLEAN]
             \cup [name : {FALSE}, value : {<<>>, <<"1", "1", "5", "5">>}, cut : {FALSE}]
=============================================================================
