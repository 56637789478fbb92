----------------------------- MODULE LineStream -----------------------------
(***************************************************************************)
(* What httpd_get_line promises its callers, as the comment above it puts  *)
(* it: a byte stream is delivered line by line, whether a line ends in a   *)
(* newline, a carriage return or both, and a line that does not fit the    *)
(* caller's buffer is delivered in pieces.  A line is taken in one atomic  *)
(* step; module GetLine, which reads byte by byte, implements this module. *)
(***************************************************************************)
EXTENDS LineBytes

VARIABLES sent,     \* every byte that reached the socket's receive buffer
          eof,      \* no further byte can arrive: closed or broken
          taken,    \* how many bytes of sent the delivered lines consumed
          lines,    \* the lines delivered so far
          drained   \* the caller's loop ended, on a blank line or on nothing

lsVars == <<sent, eof, taken, lines, drained>>

\* No byte of sent at the positions m..n terminates a line.
Plain(m, n) == \A j \in m..n : ~IsEnd(sent[j])

(***************************************************************************)
(* line is the next line of the stream, and the bytes up to position end   *)
(* are consumed with it.  The last case is the remainder before the end of *)
(* the stream, the empty sequence when nothing remains.                    *)
(***************************************************************************)
EndsWithLF(line, end) ==
  \E k \in taken+1 .. Len(sent) :
     /\ k - taken < Size /\ Plain(taken+1, k-1) /\ sent[k] = LF
     /\ line = Append(SubSeq(sent, taken+1, k-1), LF) /\ end = k

EndsWithCR(line, end) ==
  \E k \in taken+1 .. Len(sent) :
     /\ k - taken < Size /\ Plain(taken+1, k-1) /\ sent[k] = CR
     /\ line = Append(SubSeq(sent, taken+1, k-1), LF)
     /\ \/ k < Len(sent) /\ sent[k+1] = LF /\ end = k + 1
        \/ k < Len(sent) /\ sent[k+1] # LF /\ end = k
        \/ k = Len(sent) /\ eof /\ end = k

FillsBuffer(line, end) ==
  /\ taken + Size - 1 <= Len(sent) /\ Plain(taken+1, taken+Size-1)
  /\ line = SubSeq(sent, taken+1, taken+Size-1) /\ end = taken + Size - 1

CutByEnd(line, end) ==
  /\ eof /\ Len(sent) - taken < Size - 1 /\ Plain(taken+1, Len(sent))
  /\ line = SubSeq(sent, taken+1, Len(sent)) /\ end = Len(sent)

IsNextLine(line, end) ==
  \/ EndsWithLF(line, end) \/ EndsWithCR(line, end)
  \/ FillsBuffer(line, end) \/ CutByEnd(line, end)

Init ==
  /\ sent = <<>> /\ eof = FALSE /\ taken = 0 /\ lines = <<>> /\ drained = FALSE

Arrive(b) ==
  /\ ~eof /\ sent' = Append(sent, b) /\ UNCHANGED <<eof, taken, lines, drained>>

Shut == eof' = TRUE /\ UNCHANGED <<sent, taken, lines, drained>>

\* The connection breaks: bytes not yet consumed may be lost.
Reset ==
  /\ \E n \in taken .. Len(sent) : sent' = SubSeq(sent, 1, n)
  /\ eof' = TRUE /\ UNCHANGED <<taken, lines, drained>>

\* All prefixes and whole lines a delivery can be made of.
Pieces == {SubSeq(sent, taken+1, k) : k \in taken .. Len(sent)}
Candidates == Pieces \cup {Append(p, LF) : p \in Pieces}

Deliver ==
  /\ ~drained
  /\ \E line \in Candidates, end \in taken .. Len(sent) :
       /\ IsNextLine(line, end)
       /\ lines' = Append(lines, line) /\ taken' = end
       /\ drained' = (line \in {<<>>, <<LF>>})
  /\ UNCHANGED <<sent, eof>>

Next == (\E b \in Byte : Arrive(b)) \/ Shut \/ Reset \/ Deliver

Spec == Init /\ [][Next]_lsVars
=============================================================================
