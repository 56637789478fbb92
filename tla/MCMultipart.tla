---------------------------- MODULE MCMultipart ----------------------------
(* Every data of up to MaxData bytes, so that a delimiter begins, fails at  *)
(* every place and begins again inside it; every kind of header line; two  *)
(* parts; and a body that is wrong at each place where one can be.          *)
EXTENDS Multipart

CONSTANTS a, one, MaxData

MCByte == {CR, LF, Hyphen, Colon, Blank, a, one}
MCLetters == {a}
MCBoundary == <<Hyphen, Hyphen, a>>

Crlf == <<CR, LF>>
Open == MCBoundary \o Crlf
Close == Crlf \o MCBoundary \o <<Hyphen, Hyphen>>

Datas == UNION {[1..n -> {CR, LF, Hyphen, a}] : n \in 0..MaxData}
Lines == {<<Colon>>, <<a, Colon, a>>, <<a, Hyphen, a, Colon, Blank, a, Blank, a>>,
          <<Hyphen, Colon, Hyphen>>, <<a, Hyphen, Colon, Blank>>}
WrongHeaders == {<<one>>, <<a, one>>, <<a, CR, a>>, <<a, Colon, a, CR, a>>}
WrongEnds == {<<a>>, <<Hyphen, a>>, <<CR, a>>}
WrongStarts == {<<a>>, <<Hyphen, Hyphen, a, a>>, <<Hyphen, Hyphen, a, CR, a>>}

MCBodies ==
  {Open \o Crlf \o d \o Close : d \in Datas}
  \cup {Open \o l \o Crlf \o m \o Crlf \o <<a>> \o Close :
          l \in Lines, m \in {<<>>, <<a, Hyphen, Colon, Blank, a>> \o Crlf}}
  \cup {Open \o Crlf \o Crlf \o MCBoundary \o Crlf \o <<a, Colon>> \o Crlf \o Crlf
         \o <<a>> \o Close \o <<a>>}
  \cup {Open \o h : h \in WrongHeaders}
  \cup {Open \o Crlf \o Crlf \o MCBoundary \o e : e \in WrongEnds}
  \cup WrongStarts
=============================================================================
