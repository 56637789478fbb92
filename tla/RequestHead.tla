---------------------------- MODULE RequestHead ----------------------------
(***************************************************************************)
(* What the server makes of a request's bytes: httpd_accept_request's      *)
(* loops over the request line, the lookups that decide whether the path   *)
(* is a script, and the header loop of httpd_execute_cgi that looks for    *)
(* Content-Length.  httpd_get_line has left one line in a buffer of zeros, *)
(* or after earlier lines in one that still holds their ends.              *)
(*                                                                         *)
(* Bytes are compared without case, as the code does wherever the case of  *)
(* a letter could matter.  GET and POST are one byte each, the name        *)
(* "Content-Length:" is the sequence Name.                                 *)
(***************************************************************************)
EXTENDS CStrings

CONSTANTS LF, Blank,         \* Blank: the other byte isspace accepts
          GET, POST,
          Others,            \* the bytes that are none of these
          BufSize,           \* SERVER_BUFF_SZ
          MethodSize,        \* sizeof(method)
          UrlSize,           \* sizeof(url)
          EnvSize, EnvName,  \* sizeof(query_env), the length of "QUERY_STRING="
          Base, Index,       \* SERVER_BASEDIR, SERVER_INDEX
          Alias, AliasPath,  \* the entry of ALIAS_URL
          MimeTypes,         \* MINE_TYPES: pairs of a suffix and a type
          Name,              \* "Content-Length:"
          Digit,             \* the value of each digit
          RequestLines,      \* the request lines considered
          Headers,           \* the header lines considered
          MaxHeaders         \* bound: header lines of a request

Byte == {NUL, LF, Blank, GET, POST} \cup Others
IsSpace(b) == b \in {LF, Blank}

\* value: what follows the name; cut: the stream ended before the newline.
Header == [name : BOOLEAN, value : Seq(Byte), cut : BOOLEAN]

ASSUME RequestAssumption ==
  /\ NUL \notin {LF, Blank} /\ {GET, POST} \cap {NUL, LF, Blank, "?"} = {} /\ GET # POST
  /\ {"?", "/", ".", "-"} \subseteq Others /\ Others \cap {NUL, LF, Blank, GET, POST} = {}
  /\ BufSize \in Nat /\ MethodSize \in Nat /\ UrlSize \in Nat
  /\ 2 < MethodSize /\ MethodSize < BufSize /\ 1 < UrlSize /\ UrlSize < BufSize
  /\ EnvSize \in Nat /\ EnvName \in Nat /\ EnvName < EnvSize
  /\ RequestLines \subseteq Seq(Byte \ {NUL}) /\ \A l \in RequestLines : Len(l) < BufSize
  /\ {Base, Index, Alias, AliasPath} \subseteq Seq(Byte) /\ Base # <<>>
  /\ MimeTypes \in Seq((Seq(Byte) \ {<<>>}) \X STRING)
  /\ Name \in Seq(Others) /\ Name # <<>> /\ Len(Name) + 1 < BufSize
  /\ Headers \subseteq Header /\ \A h \in Headers : Len(h.value) + Len(Name) + 1 < BufSize
  /\ DOMAIN Digit \subseteq Others /\ \A b \in DOMAIN Digit : Digit[b] \in 0..9
  /\ MaxHeaders \in Nat

VARIABLES buf,       \* the caller's buffer, BufSize bytes
          pc,
          j,         \* the place in buf; i is the length of what is filled
          method, url, query, path,
          isCgi,     \* is_cgi
          st,        \* what stat says of the path
          length,    \* content_length
          lines      \* the header lines read so far

word == <<j, method, url>>
target == <<query, path, isCgi, st>>
vars == <<buf, pc, word, target, length, lines>>

---------------------------------------------------------------------------
(* Buffers, numbers and suffixes.                                          *)

\* A line is stored over what the buffer held, and terminated.
Stored(line, old) ==
  [k \in 1..BufSize |-> IF k <= Len(line) THEN line[k] ELSE IF k = Len(line) + 1 THEN NUL ELSE old[k]]

\* buf[n], which past the end is whatever lies there.
Reads(n, b) == b \in Byte /\ (n < BufSize => b = buf[n + 1])

\* The value of a sequence of digits, the first k of them at a time.
Number(ds) ==
  LET value[k \in 0..Len(ds)] == IF k = 0 THEN 0 ELSE 10 * value[k - 1] + Digit[ds[k]]
  IN  value[Len(ds)]

atoi(s) ==
  LET t == CString(s)
      first == SelectInSeq(t, LAMBDA b : ~IsSpace(b))
      u == IF first = 0 THEN <<>> ELSE From(t, first)
      negative == u # <<>> /\ u[1] = "-"
      ds == UpTo(IF negative THEN Tail(u) ELSE u, Byte \ DOMAIN Digit)
  IN  IF negative THEN -Number(ds) ELSE Number(ds)

SuffixFirstDot(p) ==
  LET n == SelectInSeq(p, LAMBDA b : b = ".") IN
  IF n = 0 THEN <<>> ELSE From(p, n + 1)

\* httpd_file_suffix: what follows the last dot; none (NULL) when nothing does.
Suffix(p) ==
  LET n == SelectLastInSeq(p, LAMBDA b : b = ".") IN
  IF n = 0 THEN <<>> ELSE From(p, n + 1)

\* httpd_content_type: the first entry that fits.
ContentType(p) ==
  LET n == SelectInSeq(MimeTypes, LAMBDA m : m[1] = Suffix(p)) IN
  IF n = 0 THEN "html" ELSE MimeTypes[n][2]
IsMimeTypeCgi(p) == ContentType(p) = "cgi"

---------------------------------------------------------------------------
(* The request line.                                                       *)

Init ==
  /\ \E l \in RequestLines : buf = Stored(l, [k \in 1..BufSize |-> NUL])
  /\ pc = "method" /\ j = 0 /\ method = <<>> /\ url = <<>>
  /\ query = <<>> /\ path = <<>> /\ isCgi = FALSE /\ st = "unknown"
  /\ length = -1 /\ lines = <<>>

MethodByte ==
  /\ pc = "method"
  /\ \E b \in Byte : Reads(j, b) /\
       IF ~IsSpace(b) /\ Len(method) < MethodSize - 1
       THEN method' = Append(method, b) /\ j' = j + 1 /\ UNCHANGED <<pc, isCgi>>
       ELSE /\ pc' = IF CString(method) \in {<<GET>>, <<POST>>} THEN "blanks" ELSE "unimplemented"
            /\ isCgi' = (CString(method) = <<POST>>) /\ UNCHANGED <<method, j>>
  /\ UNCHANGED <<buf, url, query, path, st, length, lines>>

\* The byte is read before its place is compared with the buffer's end.
SkipBlank ==
  /\ pc = "blanks"
  /\ \E b \in Byte : Reads(j, b) /\
       IF IsSpace(b) /\ j < BufSize THEN j' = j + 1 /\ UNCHANGED pc
       ELSE pc' = "url" /\ UNCHANGED j
  /\ UNCHANGED <<buf, method, url, target, length, lines>>

UrlByteNoLimit ==
  /\ pc = "url"
  /\ \E b \in Byte : Reads(j, b) /\
       IF ~IsSpace(b) /\ j <= BufSize
       THEN url' = Append(url, b) /\ j' = j + 1 /\ UNCHANGED pc
       ELSE pc' = "query" /\ UNCHANGED <<url, j>>
  /\ UNCHANGED <<buf, method, target, length, lines>>

UrlByte ==
  /\ pc = "url"
  /\ \E b \in Byte : Reads(j, b) /\
       IF ~IsSpace(b) /\ Len(url) < UrlSize - 1 /\ j < BufSize
       THEN url' = Append(url, b) /\ j' = j + 1 /\ UNCHANGED pc
       ELSE pc' = "query" /\ UNCHANGED <<url, j>>
  /\ UNCHANGED <<buf, method, target, length, lines>>

\* A GET's URL ends at its first '?', the query follows; a POST's is kept.
CutQueryOfAll ==
  LET u == CString(url)  n == SelectInSeq(u, LAMBDA b : b = "?") IN
  /\ pc = "query" /\ pc' = "path"
  /\ IF n # 0
     THEN url' = SubSeq(u, 1, n - 1) /\ query' = From(u, n + 1) /\ isCgi' = TRUE
     ELSE url' = u /\ UNCHANGED <<query, isCgi>>
  /\ UNCHANGED <<buf, j, method, path, st, length, lines>>

CutQuery ==
  LET u == CString(url)  n == SelectInSeq(u, LAMBDA b : b = "?") IN
  /\ pc = "query" /\ pc' = "path"
  /\ IF CString(method) = <<GET>> /\ n # 0
     THEN url' = SubSeq(u, 1, n - 1) /\ query' = From(u, n + 1) /\ isCgi' = TRUE
     ELSE url' = u /\ UNCHANGED <<query, isCgi>>
  /\ UNCHANGED <<buf, j, method, path, st, length, lines>>

MakePath ==
  LET p == Base \o url IN
  /\ pc = "path" /\ pc' = "stat"
  /\ IF url = Alias THEN path' = AliasPath /\ isCgi' = TRUE
     ELSE path' = (IF Last(p) = "/" THEN p \o Index ELSE p) /\ UNCHANGED isCgi
  /\ UNCHANGED <<buf, word, query, st, length, lines>>

\* exec: a file with an execute bit; a directory has one, too.
Stat ==
  /\ pc = "stat" /\ st' \in {"missing", "file", "exec", "dir"}
  /\ path' = IF st' = "dir" THEN path \o <<"/">> \o Index ELSE path
  /\ isCgi' = (isCgi \/ (st' \in {"exec", "dir"} /\ IsMimeTypeCgi(path')))
  /\ pc' = IF CString(method) = <<POST>> /\ st' # "missing" THEN "headers" ELSE "done"
  /\ UNCHANGED <<buf, word, query, length, lines>>

---------------------------------------------------------------------------
(* httpd_execute_cgi's header loop for POST, over a buffer of its own.     *)

Bytes(h) == (IF h.name THEN Name ELSE <<POST>>) \o h.value \o (IF h.cut THEN <<>> ELSE <<LF>>)
Ended == lines # <<>> /\ Last(lines).cut

HeaderLineNoEnd ==
  /\ pc = "headers" /\ ~Ended /\ Len(lines) < MaxHeaders
  /\ \E h \in Headers :
       LET b == Stored(Bytes(h), IF lines = <<>> THEN [k \in 1..BufSize |-> NUL] ELSE buf) IN
       /\ buf' = b
       /\ length' = IF CString(b) = Name THEN atoi(From(b, Len(Name) + 2)) ELSE length
       /\ lines' = Append(lines, h)
  /\ UNCHANGED <<pc, word, target>>

\* The byte after the name becomes NUL, the number is looked for behind it.
HeaderLine ==
  /\ pc = "headers" /\ ~Ended /\ Len(lines) < MaxHeaders
  /\ \E h \in Headers :
       LET old == IF lines = <<>> THEN [k \in 1..BufSize |-> NUL] ELSE buf
           b == [Stored(Bytes(h), old) EXCEPT ![Len(Name) + 1] = NUL] IN
       /\ buf' = b
       /\ length' = IF CString(b) = Name THEN atoi(From(b, Len(Name) + 2)) ELSE length
       /\ lines' = Append(lines, h)
  /\ UNCHANGED <<pc, word, target>>

\* The empty line or the end of the stream.
EndOfHeaders ==
  /\ pc = "headers" /\ pc' = IF length = -1 THEN "bad_request" ELSE "done"
  /\ UNCHANGED <<buf, word, target, length, lines>>

Next ==
  \/ MethodByte \/ SkipBlank \/ UrlByte \/ CutQuery \/ MakePath \/ Stat
  \/ HeaderLine \/ EndOfHeaders

Spec == Init /\ [][Next]_vars

---------------------------------------------------------------------------
Places ==
  {"method", "unimplemented", "blanks", "url", "query", "path", "stat", "headers",
   "bad_request", "done"}

\* Every variable keeps its type, and the loops stay inside their arrays, but
\* for one byte: at the end of the copied URL buf[BufSize] may be looked at,
\* only after the line's end was passed, so that it decides nothing.
TypeOK ==
  /\ buf \in [1..BufSize -> Byte] /\ pc \in Places
  /\ method \in Seq(Byte) /\ Len(method) < MethodSize
  /\ url \in Seq(Byte) /\ Len(url) < UrlSize
  /\ j \in 0..BufSize
  /\ pc \in {"method", "blanks"} => j < BufSize
  /\ pc = "url" /\ j = BufSize => NUL \in ToSet(url)
  /\ query \in Seq(Byte) /\ path \in Seq(Byte) /\ isCgi \in BOOLEAN
  /\ st \in {"unknown", "missing", "file", "exec", "dir"}
  /\ length \in Int /\ lines \in Seq(Headers) /\ Len(lines) <= MaxHeaders

(***************************************************************************)
(* The reference: the line's second word, as far as url has room for it.   *)
(***************************************************************************)
SecondWord ==
  LET text == CString(buf)
      rest == From(text, Len(UpTo(text, {LF, Blank})) + 1)
      n == SelectInSeq(rest, LAMBDA b : ~IsSpace(b))
      w == IF n = 0 THEN <<>> ELSE UpTo(From(rest, n), {LF, Blank})
  IN  IF Len(w) < UrlSize THEN w ELSE SubSeq(w, 1, UrlSize - 1)
FileName == IF CString(method) = <<GET>> THEN UpTo(SecondWord, {"?"}) ELSE SecondWord

\* The path looked up names what the request line's second word names,
\* whatever blanks, missing words or missing newline the line has: a GET's up
\* to the question mark, what follows is its query; a POST's as a whole.
PathOfLine ==
  pc = "stat" =>
    /\ path = IF FileName = Alias THEN AliasPath
              ELSE Base \o FileName \o (IF Last(Base \o FileName) = "/" THEN Index ELSE <<>>)
    /\ query = From(SecondWord, Len(FileName) + 2)

\* Which requests run what they name as a script, among them only those files
\* whose ending the table lists as a script's before any other type.
RunsAsScript ==
  pc = "done" /\ CString(method) = <<GET>> /\ st # "missing" =>
    (isCgi <=>
       \/ "?" \in ToSet(SecondWord) \/ FileName = Alias
       \/ /\ st \in {"exec", "dir"}
          /\ \E n \in DOMAIN MimeTypes :
               /\ MimeTypes[n][2] = "cgi" /\ IsSuffix(<<".">> \o MimeTypes[n][1], path)
               /\ "." \notin ToSet(MimeTypes[n][1])
               /\ \A m \in 1..(n - 1) : MimeTypes[m][1] # MimeTypes[n][1])

\* query_env has room for "QUERY_STRING=" and the query unless what precedes
\* the query in the URL is so short that the query takes nearly all of url.
EnvHoldsQuery ==
  pc = "stat" => \/ EnvName + Len(query) < EnvSize
                 \/ Len(url) + 1 < UrlSize - (EnvSize - EnvName)

\* content_length is what the last Content-Length line says, whatever lines
\* came before it and left in the buffer.  Without a blank after the colon
\* the first digit is lost; after a name that the stream ended on, the number
\* is what an earlier line left there.
LengthAsSent ==
  LET named == {n \in DOMAIN lines : lines[n].name}
      v == lines[CHOOSE n \in named : \A m \in named : m <= n].value
      stale == Ended /\ Last(lines).name /\ Last(lines).value = <<>>
  IN
  pc \in {"done", "bad_request"} /\ ~stale =>
    length = IF named = {} THEN -1
             ELSE IF v = <<>> THEN 0
             ELSE IF v[1] = Blank THEN atoi(v) ELSE atoi(Tail(v))

\* What mimetypes.h lists with MINE_TYPE_CGI is run as a script when it has
\* an execute bit.
CgiTypeRuns ==
  pc = "done" /\ st = "exec" /\ ~isCgi =>
    ~\E n \in DOMAIN MimeTypes :
       MimeTypes[n][2] = "cgi" /\ IsSuffix(<<".">> \o MimeTypes[n][1], path)
=============================================================================
