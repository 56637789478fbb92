----------------------------- MODULE Multipart ------------------------------
(***************************************************************************)
(* multipart_parser_execute (src/cgi/cgi-io/src/multipart_parser.c), byte  *)
(* by byte, called by main_upload (src/cgi/cgi-io/src/main.c) for each     *)
(* piece of the body that read returned.  The parser keeps its state from  *)
(* one call to the next, but the text of a header it is in the middle of   *)
(* only as far as it was reported: each piece is reported when the call    *)
(* ends.  Of a possible delimiter it keeps the bytes in lookbehind.        *)
(*                                                                         *)
(* A position in the body is the number of bytes up to and including it:   *)
(* pos bytes are behind the parser and its variable c is body[pos + 1].    *)
(***************************************************************************)
EXTENDS Naturals, SequencesExt

CONSTANTS Byte,                             \* every byte
          CR, LF, Hyphen, Colon, Blank,     \* those with a meaning of their own
          Letters,                          \* those allowed in a header's name
          Boundary,                         \* "--" and the boundary parameter
          Bodies,                           \* the bodies to parse
          MaxReads                          \* bound: the reads a body comes in

ASSUME MultipartAssumption ==
  /\ {CR, LF, Hyphen, Colon, Blank} \cup Letters \subseteq Byte
  /\ CR \notin {LF, Hyphen, Colon, Blank} /\ LF \notin {Hyphen, Colon, Blank}
  /\ Hyphen \notin {Colon, Blank} /\ Colon # Blank
  /\ Letters \cap {CR, LF, Hyphen, Colon, Blank} = {}
  /\ Boundary \in Seq(Byte \ {CR}) /\ Boundary # <<>>
  /\ Bodies \subseteq Seq(Byte) /\ MaxReads \in Nat \ {0}

VARIABLES body,         \* the whole body, as it comes in on standard input
          got, ends,    \* how much of it was read; where earlier reads ended
          pos,          \* how much of it is parsed: i of the current call
          mark,         \* the call's mark: where the piece to report starts
          state, index, lookbehind,   \* the parser's, as in the code
          called,       \* the last callback, see PartCalls
          line,         \* where the current header line starts
          fields, values,             \* the pieces reported of its name, its value
          begin, data   \* where the part's data starts; what was reported of it

Calls == INSTANCE PartCalls

reads == <<body, got, ends>>
header == <<line, fields, values>>
part == <<begin, data>>
vars == <<reads, pos, mark, state, index, lookbehind, called, header, part>>

States == {"start_boundary", "header_field_start", "header_field",
           "headers_almost_done", "header_value_start", "header_value",
           "header_value_almost_done", "part_data_start", "part_data",
           "part_data_almost_boundary", "part_data_boundary",
           "part_data_almost_end", "part_data_end", "part_data_final_hyphen",
           "end", "stopped"}

\* s_start only resets index and falls through.  lookbehind is not initialised:
\* any byte stands for what it holds.
Init ==
  /\ body \in Bodies /\ got = 0 /\ ends = {} /\ pos = 0 /\ mark = 1
  /\ state = "start_boundary" /\ index = 0
  /\ lookbehind = [k \in 1..Len(Boundary) + 2 |-> Colon]
  /\ called = "none" /\ line = 0 /\ fields = <<>> /\ values = <<>>
  /\ begin = 0 /\ data = <<>>

c == body[pos + 1]
IsLast == pos + 1 = got
Piece(m, n) == SubSeq(body, m, n)
Held(n) == SubSeq(lookbehind, 1, n)
Eat == pos' = pos + 1
At(s) == state = s /\ pos < got

\* A read returns any part of what is left; the last one allowed all of it.
Read ==
  /\ pos = got /\ got < Len(body) /\ state # "stopped"
  /\ got' \in IF Cardinality(ends) + 1 >= MaxReads THEN {Len(body)} ELSE got+1..Len(body)
  /\ ends' = ends \cup {got} /\ mark' = pos + 1
  /\ UNCHANGED <<body, pos, state, index, lookbehind, called, header, part>>

\* The call returns before its end and main_upload's loop with it: on a byte
\* that does not fit ...
Unexpected ==
  CASE state = "start_boundary" ->
         c # (Boundary \o <<CR, LF>>)[index + 1]
    [] state \in {"header_field_start", "header_field"} ->
         c \notin {CR, Hyphen, Colon} \cup Letters
    [] state \in {"headers_almost_done", "header_value_almost_done", "part_data_end"} ->
         c # LF
    [] state = "part_data_almost_end" -> c \notin {Hyphen, CR}
    [] state = "part_data_final_hyphen" -> c # Hyphen
    [] OTHER -> FALSE

Reject ==
  /\ pos < got /\ Unexpected /\ state' = "stopped"
  /\ UNCHANGED <<reads, pos, mark, index, lookbehind, called, header, part>>

\* ... or when the callback refuses to go on.
GoesOn(s) == state' \in {s, "stopped"}

StartBoundaryNoReset ==
  /\ At("start_boundary") /\ ~Unexpected /\ Eat /\ index' = index + 1
  /\ IF index = Len(Boundary) + 1 THEN state' = "header_field_start" ELSE UNCHANGED state
  /\ UNCHANGED <<reads, mark, lookbehind, called, header, part>>

StartBoundary ==
  /\ At("start_boundary") /\ ~Unexpected /\ Eat
  /\ IF index = Len(Boundary) + 1
     THEN index' = 0 /\ state' = "header_field_start"
     ELSE index' = index + 1 /\ UNCHANGED state
  /\ UNCHANGED <<reads, mark, lookbehind, called, header, part>>

---------------------------------------------------------------------------
(* The header lines.                                                       *)

\* The first byte of a line sets mark; a new call has set it already.
InField == At("header_field_start") \/ At("header_field")
FieldFrom == IF state = "header_field_start" THEN pos + 1 ELSE mark

FieldGets(pieces) ==
  /\ mark' = FieldFrom
  /\ fields' = IF state = "header_field_start" THEN pieces ELSE fields \o pieces
  /\ IF state = "header_field_start"
     THEN line' = pos /\ values' = <<>> ELSE UNCHANGED <<line, values>>
  /\ called' = IF pieces = <<>> THEN called ELSE "field"

HeadersEnd ==
  /\ InField /\ c = CR /\ state' = "headers_almost_done" /\ FieldGets(<<>>) /\ Eat
  /\ UNCHANGED <<reads, index, lookbehind, part>>

FieldByte ==
  /\ InField /\ c \in {Hyphen} \cup Letters /\ state' = "header_field" /\ Eat
  /\ FieldGets(IF IsLast /\ c # Hyphen THEN <<Piece(FieldFrom, pos + 1)>> ELSE <<>>)
  /\ UNCHANGED <<reads, index, lookbehind, part>>

FieldEndWithColon ==
  /\ InField /\ c = Colon /\ state' = "header_value_start" /\ Eat
  /\ FieldGets(<<Piece(FieldFrom, pos + 1)>>)
  /\ UNCHANGED <<reads, index, lookbehind, part>>

FieldEnd ==
  /\ InField /\ c = Colon /\ state' = "header_value_start" /\ Eat
  /\ FieldGets(<<Piece(FieldFrom, pos)>>)
  /\ UNCHANGED <<reads, index, lookbehind, part>>

HeadersDone ==
  /\ At("headers_almost_done") /\ c = LF /\ state' = "part_data_start" /\ Eat
  /\ UNCHANGED <<reads, mark, index, lookbehind, called, header, part>>

HeaderValueStart ==
  /\ At("header_value_start") /\ c = Blank /\ Eat
  /\ UNCHANGED <<reads, mark, state, index, lookbehind, called, header, part>>

ValueFrom == IF state = "header_value_start" THEN pos + 1 ELSE mark

\* A CR that is the last byte of its read reports the value twice.
HeaderValue ==
  /\ At("header_value") \/ (At("header_value_start") /\ c # Blank)
  /\ mark' = ValueFrom
  /\ values' = values \o (IF c = CR THEN <<Piece(ValueFrom, pos)>> ELSE <<>>)
                      \o (IF IsLast THEN <<Piece(ValueFrom, pos + 1)>> ELSE <<>>)
  /\ called' = IF values' = values THEN called ELSE "value"
  /\ state' = IF c = CR THEN "header_value_almost_done" ELSE "header_value"
  /\ Eat
  /\ UNCHANGED <<reads, index, lookbehind, line, fields, part>>

HeaderLineEnd ==
  /\ At("header_value_almost_done") /\ c = LF /\ state' = "header_field_start" /\ Eat
  /\ UNCHANGED <<reads, mark, index, lookbehind, called, header, part>>

---------------------------------------------------------------------------
(* The part's data.                                                        *)

Reports(piece) == data' = data \o piece /\ called' = "data"

\* The byte at hand is the first of the data: it is not taken yet.
PartDataStartSilent ==
  /\ At("part_data_start") /\ state' = "part_data" /\ UNCHANGED called
  /\ begin' = pos /\ data' = <<>> /\ mark' = pos + 1
  /\ UNCHANGED <<reads, pos, index, lookbehind, header>>

PartDataStart ==
  /\ At("part_data_start") /\ called' = "complete" /\ GoesOn("part_data")
  /\ begin' = pos /\ data' = <<>> /\ mark' = pos + 1
  /\ UNCHANGED <<reads, pos, index, lookbehind, header>>

PartData ==
  /\ At("part_data") /\ c # CR /\ Eat
  /\ IF IsLast
     THEN Reports(Piece(mark, pos + 1)) /\ GoesOn("part_data")
     ELSE UNCHANGED <<data, called, state>>
  /\ UNCHANGED <<reads, mark, index, lookbehind, header, begin>>

PartDataCR ==
  /\ At("part_data") /\ c = CR /\ Eat /\ mark' = pos + 1
  /\ Reports(Piece(mark, pos)) /\ GoesOn("part_data_almost_boundary")
  /\ lookbehind' = [lookbehind EXCEPT ![1] = CR]
  /\ UNCHANGED <<reads, index, header, begin>>

AlmostBoundary ==
  /\ At("part_data_almost_boundary") /\ c = LF /\ Eat
  /\ state' = "part_data_boundary" /\ index' = 0
  /\ lookbehind' = [lookbehind EXCEPT ![2] = LF]
  /\ UNCHANGED <<reads, mark, called, header, part>>

NotBoundaryEats(n) ==
  /\ Reports(Held(n)) /\ GoesOn("part_data") /\ mark' = pos + 1 /\ Eat
  /\ UNCHANGED <<reads, index, lookbehind, header, begin>>

\* No delimiter after all: what was held back is data, and the byte at hand
\* is looked at again.
NotBoundary(n) ==
  /\ Reports(Held(n)) /\ GoesOn("part_data") /\ mark' = pos + 1
  /\ UNCHANGED <<reads, pos, index, lookbehind, header, begin>>

NoLF == At("part_data_almost_boundary") /\ c # LF /\ NotBoundary(1)

NoBoundaryCRLF ==
  /\ At("part_data_boundary") /\ c # Boundary[index + 1] /\ NotBoundary(2)

NoBoundary ==
  /\ At("part_data_boundary") /\ c # Boundary[index + 1] /\ NotBoundary(2 + index)

PartBoundary ==
  /\ At("part_data_boundary") /\ c = Boundary[index + 1] /\ Eat
  /\ lookbehind' = [lookbehind EXCEPT ![2 + index + 1] = c] /\ index' = index + 1
  /\ IF index + 1 = Len(Boundary)
     THEN called' = "end" /\ GoesOn("part_data_almost_end")
     ELSE UNCHANGED <<called, state>>
  /\ UNCHANGED <<reads, mark, header, part>>

AlmostEnd ==
  /\ At("part_data_almost_end") /\ ~Unexpected /\ Eat
  /\ state' = IF c = CR THEN "part_data_end" ELSE "part_data_final_hyphen"
  /\ UNCHANGED <<reads, mark, index, lookbehind, called, header, part>>

FinalHyphen ==
  /\ At("part_data_final_hyphen") /\ c = Hyphen /\ state' = "end" /\ Eat
  /\ UNCHANGED <<reads, mark, index, lookbehind, called, header, part>>

PartDataEnd ==
  /\ At("part_data_end") /\ c = LF /\ state' = "header_field_start" /\ Eat
  /\ UNCHANGED <<reads, mark, index, lookbehind, called, header, part>>

\* What follows the last delimiter is skipped.
Epilogue ==
  /\ At("end") /\ Eat
  /\ UNCHANGED <<reads, mark, state, index, lookbehind, called, header, part>>

Next ==
  \/ Read \/ Reject \/ StartBoundary \/ HeadersEnd \/ FieldByte \/ FieldEnd
  \/ HeadersDone \/ HeaderValueStart \/ HeaderValue \/ HeaderLineEnd
  \/ PartDataStart \/ PartData \/ PartDataCR \/ AlmostBoundary \/ NoLF
  \/ NoBoundary \/ PartBoundary \/ AlmostEnd \/ FinalHyphen \/ PartDataEnd
  \/ Epilogue

Spec == Init /\ [][Next]_vars

---------------------------------------------------------------------------
\* The parser's indices stay inside the arrays they index, its places in the
\* body inside what was read, and what it reports are bytes.
PlaceType ==
  /\ body \in Bodies /\ got \in 0..Len(body) /\ ends \subseteq 0..got
  /\ pos \in 0..got /\ mark \in 1..pos + 1 /\ begin \in 0..pos /\ line \in 0..pos

ParserType ==
  /\ state \in States /\ called \in Calls!CallNames
  /\ index \in 0..Len(Boundary) + 1
  /\ state = "part_data_boundary" => index < Len(Boundary)
  /\ lookbehind \in [1..Len(Boundary) + 2 -> Byte]

TextType ==
  /\ data \in Seq(Byte) /\ fields \in Seq(Seq(Byte)) /\ values \in Seq(Seq(Byte))

TypeOK == PlaceType /\ ParserType /\ TextType

Unreported ==
  CASE state = "part_data" /\ pos < got -> Piece(mark, pos)
    [] state = "part_data_almost_boundary" -> Held(1)
    [] state = "part_data_boundary" -> Held(2 + index)
    [] state = "part_data_almost_end" -> Held(2 + Len(Boundary))
    [] OTHER -> <<>>

InData == state \in {"part_data", "part_data_almost_boundary", "part_data_boundary"}

\* However the body is split into reads, what was reported of a part's data
\* and what is still to be reported, the held back bytes among it, are the
\* bytes parsed so far: none is lost, repeated or out of order.
DataExact ==
  InData \/ state = "part_data_almost_end" =>
    data \o Unreported = Piece(begin + 1, pos)

Delimiter == <<CR, LF>> \o Boundary
DelimiterEndsAt(k) ==
  k - begin >= Len(Delimiter) /\ Piece(k - Len(Delimiter) + 1, k) = Delimiter

\* A part's data ends at the first delimiter in it and nowhere else, also
\* when one begins in the bytes held back for another.
FirstDelimiter ==
  /\ InData => \A k \in begin..pos : ~DelimiterEndsAt(k)
  /\ state = "part_data_almost_end" =>
       DelimiterEndsAt(pos) /\ \A k \in begin..pos - 1 : ~DelimiterEndsAt(k)

FirstFrom(k, S) == CHOOSE n \in k..Len(body) :
                      body[n] \in S /\ \A m \in k..n-1 : body[m] \notin S
ColonAt == FirstFrom(line + 1, {Colon})
ValueAt == FirstFrom(ColonAt + 1, Byte \ {Blank})
Name == Piece(line + 1, ColonAt - 1)
Value == Piece(ValueAt, pos - 1)
EndsIn(m, n) == \E k \in ends \cup {got} : m <= k /\ k <= n

\* At the CR of a header line: a name or a value no read ended in, or just
\* before the end of, was reported once and whole.  Otherwise its pieces make it up,
\* except that a piece that ends in a hyphen is lost, and that a value
\* is repeated when a read ended at its CR.
HeaderWhole ==
  state = "header_value_almost_done" =>
    /\ ~EndsIn(line + 1, ColonAt - 1) => fields = <<Name>>
    /\ ~EndsIn(ValueAt, pos) => values = <<Value>>
    /\ (\A k \in line+1..ColonAt-1 : EndsIn(k, k) => body[k] # Hyphen) =>
         FlattenSeq(fields) = Name
    /\ ~EndsIn(pos, pos) => FlattenSeq(values) = Value

\* The callbacks come in the order PartCalls gives, whatever the body.
InOrder == Calls!Spec
=============================================================================
