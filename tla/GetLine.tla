------------------------------ MODULE GetLine ------------------------------
(***************************************************************************)
(* httpd_get_line (src/src/httpd.c) called in the loop that reads and      *)
(* discards a request's header lines.  The server takes one byte at a time *)
(* from the client's socket; after a carriage return it peeks at the next  *)
(* byte, so it may block there, and consumes that byte only if it is a     *)
(* newline.  The client sends, stops sending or breaks the connection      *)
(* between any two of these calls.                                         *)
(*                                                                         *)
(* The local variable c is not kept: it is tested only right after a byte  *)
(* was stored (Store) or when nothing could be read (RecvEnd).             *)
(***************************************************************************)
EXTENDS LineBytes

CONSTANT MaxSent    \* bound: how many bytes the client sends

ASSUME GetLineAssumption == MaxSent \in Nat

VARIABLES sent,      \* every byte that reached the socket's receive buffer
          eof,       \* no further byte can arrive: closed or broken
          pos,       \* how many bytes of sent recv has consumed
          start,     \* where pos was when the current call began
          buf,       \* the caller's buffer; Len(buf) is the code's i
          lines,     \* what the calls returned so far
          pc         \* the call the server is at

vars == <<sent, eof, pos, start, buf, lines, pc>>

LS == INSTANCE LineStream WITH taken <- start, drained <- (pc = "idle")

Locations == {"recv",    \* about to recv one byte
              "peek",    \* consumed a CR, about to recv with MSG_PEEK
              "skip",    \* peeked a LF, about to recv it
              "return",  \* the loop is over
              "idle"}    \* the caller's loop is over

Init ==
  /\ sent = <<>> /\ eof = FALSE /\ pos = 0 /\ start = 0
  /\ buf = <<>> /\ lines = <<>> /\ pc = "recv"

---------------------------------------------------------------------------
(* The client and the network.                                             *)

Send(b) ==
  /\ Len(sent) < MaxSent /\ ~eof /\ sent' = Append(sent, b)
  /\ UNCHANGED <<eof, pos, start, buf, lines, pc>>

Close == ~eof /\ eof' = TRUE /\ UNCHANGED <<sent, pos, start, buf, lines, pc>>

\* The connection is reset: of what was not consumed, all, some or none can
\* still be read, and nothing more comes.
Break ==
  /\ \E n \in pos .. Len(sent) : sent' = SubSeq(sent, 1, n)
  /\ eof' = TRUE
  /\ UNCHANGED <<pos, start, buf, lines, pc>>

---------------------------------------------------------------------------
(* One call of httpd_get_line.                                             *)

StoreNoLimit(b) ==
  /\ buf' = Append(buf, b)
  /\ pc' = IF b # LF THEN "recv" ELSE "return"

StoreDropsByte(b) ==
  /\ buf' = IF Len(buf) + 1 < Size - 1 THEN Append(buf, b) ELSE buf
  /\ pc' = IF b # LF /\ Len(buf) + 1 < Size - 1 THEN "recv" ELSE "return"

\* buf[i] = c; i++; and the test of the while loop
Store(b) ==
  /\ buf' = Append(buf, b)
  /\ pc' = IF b # LF /\ Len(buf) + 1 < Size - 1 THEN "recv" ELSE "return"

RecvByte ==
  /\ pc = "recv" /\ pos < Len(sent)
  /\ pos' = pos + 1
  /\ IF sent[pos+1] = CR
     THEN pc' = "peek" /\ UNCHANGED buf
     ELSE Store(sent[pos+1])
  /\ UNCHANGED <<sent, eof, start, lines>>

RecvEndForgotten ==
  /\ pc = "recv" /\ pos = Len(sent) /\ eof
  /\ UNCHANGED vars

\* n <= 0: c becomes a newline that is not stored, and the loop ends
RecvEnd ==
  /\ pc = "recv" /\ pos = Len(sent) /\ eof
  /\ pc' = "return"
  /\ UNCHANGED <<sent, eof, pos, start, buf, lines>>

PeekNothing ==
  /\ pc = "peek"
  /\ Store(LF)
  /\ UNCHANGED <<sent, eof, pos, start, lines>>

\* recv with MSG_PEEK blocks until a byte is there or none can come
Peek ==
  /\ pc = "peek" /\ (pos < Len(sent) \/ eof)
  /\ IF pos < Len(sent) /\ sent[pos+1] = LF
     THEN pc' = "skip" /\ UNCHANGED buf
     ELSE Store(LF)
  /\ UNCHANGED <<sent, eof, pos, start, lines>>

\* The result of this recv is not looked at: the peeked newline may be gone.
SkipLF ==
  /\ pc = "skip"
  /\ pos' = IF pos < Len(sent) THEN pos + 1 ELSE pos
  /\ Store(LF)
  /\ UNCHANGED <<sent, eof, start, lines>>

---------------------------------------------------------------------------
(* The caller: while ((numchars > 0) && strcmp("\n", buf)) httpd_get_line  *)

Return ==
  /\ pc = "return"
  /\ lines' = Append(lines, buf) /\ start' = pos /\ buf' = <<>>
  /\ pc' = IF buf \in {<<>>, <<LF>>} THEN "idle" ELSE "recv"
  /\ UNCHANGED <<sent, eof, pos>>

Server == RecvByte \/ RecvEnd \/ Peek \/ SkipLF \/ Return
Client == (\E b \in Byte : Send(b)) \/ Close \/ Break
Next == Client \/ Server

Spec == Init /\ [][Next]_vars

(***************************************************************************)
(* The server is a process the kernel keeps scheduling: a call that can    *)
(* return eventually does.  Nothing is assumed of the client.              *)
(***************************************************************************)
FairSpec == Spec /\ WF_vars(Server)

---------------------------------------------------------------------------
\* Every variable keeps its type and the buffer its bound: i never passes
\* size - 1, so the final buf[i] = 0 stays inside the caller's array.
TypeOK ==
  /\ sent \in Seq(Byte) /\ eof \in BOOLEAN
  /\ pos \in 0..Len(sent) /\ start \in 0..pos
  /\ buf \in Seq({LF} \cup Other) /\ Len(buf) <= Size - 1
  /\ lines \in Seq(Seq({LF} \cup Other))
  /\ pc \in Locations

\* At every call inside httpd_get_line the buffer holds exactly the
\* unterminated bytes consumed since the call began, and when the loop is
\* over it holds the stream's next line, whatever the client did meanwhile.
InCall ==
  /\ pc = "recv" =>
       /\ buf = SubSeq(sent, start+1, pos) /\ LS!Plain(start+1, pos)
       /\ pos - start < Size - 1
  /\ pc \in {"peek", "skip"} =>
       /\ start < pos /\ sent[pos] = CR
       /\ buf = SubSeq(sent, start+1, pos-1) /\ LS!Plain(start+1, pos-1)
       /\ pos - start < Size
  /\ pc = "skip" => IF pos < Len(sent) THEN sent[pos+1] = LF ELSE eof
  /\ pc = "return" => LS!IsNextLine(buf, pos)

\* The inductive invariant.
IInv == TypeOK /\ InCall

\* httpd_get_line implements the line stream: each call returns the next
\* line of the stream and consumes that line's bytes and no other.
Refines == LS!Spec

\* The line ended by the terminator at position e of the stream is empty.
EmptyLineEndsAt(e) ==
  LET first == IF e > 1 /\ sent[e] = LF /\ sent[e-1] = CR THEN e - 1 ELSE e
  IN  e > 0 /\ IsEnd(sent[e]) /\ (first = 1 \/ IsEnd(sent[first-1]))

\* The caller's loop ends where the headers end: at an empty line, or at the
\* end of the stream, or (the case the callers overlook) at the terminator
\* of a line whose bytes before it filled the buffer exactly.
HeaderLoopEnd ==
  pc = "idle" =>
     \/ EmptyLineEndsAt(pos) \/ (eof /\ pos = Len(sent))
     \/ Len(lines) > 1 /\ Len(lines[Len(lines)-1]) = Size - 1

\* A stream that has ended is read to its last line: the loop never waits
\* for a client that is gone.
DrainEnds == eof ~> pc = "idle"
=============================================================================
