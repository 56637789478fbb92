------------------------------- MODULE Backup -------------------------------
(***************************************************************************)
(* cgi-backup (main_backup, postdecode and urldecode, src/cgi/cgi-io/src/  *)
(* main.c): find the session id in a posted form, decode it in place, ask  *)
(* whether it may read backups, then run sysupgrade and pass its output    *)
(* on through a buffered standard output.                                  *)
(*                                                                         *)
(* The form is byte by byte; the archive is counted, not spelled out.      *)
(***************************************************************************)
EXTENDS CStrings

CONSTANTS Key,        \* "sessionid"
          Others,     \* all bytes but NUL
          Hex,        \* the hexadecimal digits among them
          HexByte,    \* the byte two of them stand for
          Forms,      \* what the one read of standard input may return
          Sessions,   \* the session ids that may read backups
          Archive,    \* the bytes sysupgrade writes if nothing goes wrong
          Headers,    \* the bytes of the response's headers
          PipeSize, ReadSize, StdioSize   \* the pipe, the parent's buf, stdout's buffer

ASSUME BackupAssumption ==
  /\ {"=", "&", "%", "+", " "} \subseteq Others /\ NUL \notin Others
  /\ Hex \subseteq Others \ {"%"}
  /\ HexByte \in [Hex \X Hex -> Others \cup {NUL}]
  /\ Forms \subseteq Seq(Others \cup {NUL}) /\ Key \in Seq(Others)
  /\ Archive \in Nat /\ Headers \in Nat /\ StdioSize \in Nat /\ Headers <= StdioSize
  /\ PipeSize \in Nat \ {0} /\ ReadSize \in Nat \ {0}

VARIABLES data,       \* what read returned
          buf,        \* the buffer it is in, decoded in place
          pc,
          i,          \* postdecode's i, then urldecode's p
          p,          \* where the pair at hand begins
          value,      \* where fields[1] points, 0 for NULL: not found
          c,          \* urldecode's c
          fds,        \* the pipe ends the program holds
          child,      \* "none", "running", "ended"
          written, taken,   \* archive bytes written to and read from the pipe
          held, left        \* bytes in stdout's buffer, and gone out of it

scan == <<i, p, value, c>>
relay == <<child, written, taken, held, left>>
vars == <<data, buf, pc, scan, fds, relay>>

Init ==
  /\ data \in Forms /\ buf = Append(data, NUL) /\ pc = "start"
  /\ i = 1 /\ p = 1 /\ value = 0 /\ c = 1 /\ fds = {}
  /\ child = "none" /\ written = 0 /\ taken = 0 /\ held = 0 /\ left = 0

---------------------------------------------------------------------------
(* postdecode and urldecode.                                               *)

\* Without the CONTENT_TYPE of a form, or with nothing read, it fails.
Start ==
  /\ pc = "start"
  /\ \/ data # <<>> /\ pc' = "scan"
     \/ pc' = "denied"
  /\ UNCHANGED <<data, buf, scan, fds, relay>>

\* A '=' ends the key; one in the value of the field looked for starts the
\* value again, because the key is still there to be found.
ScanEquals ==
  /\ pc = "scan" /\ i <= Len(buf) /\ buf[i] = "="
  /\ buf' = [buf EXCEPT ![i] = NUL] /\ i' = i + 1
  /\ value' = IF CString(From(buf', p)) = Key THEN i + 1 ELSE value
  /\ UNCHANGED <<data, pc, p, c, fds, relay>>

ScanPairEndKeepsKey ==
  /\ pc = "scan" /\ i <= Len(buf) /\ buf[i] \in {"&", NUL}
  /\ buf' = [buf EXCEPT ![i] = NUL] /\ i' = i + 1
  /\ pc' = IF value # 0 THEN "found" ELSE pc
  /\ UNCHANGED <<data, p, value, c, fds, relay>>

\* A '&' or the end ends the pair, and with the key found the search.
ScanPairEnd ==
  /\ pc = "scan" /\ i <= Len(buf) /\ buf[i] \in {"&", NUL}
  /\ buf' = [buf EXCEPT ![i] = NUL] /\ i' = i + 1 /\ p' = i + 1
  /\ pc' = IF value # 0 THEN "found" ELSE pc
  /\ UNCHANGED <<data, value, c, fds, relay>>

ScanByte ==
  /\ pc = "scan" /\ i <= Len(buf) /\ buf[i] \notin {"=", "&", NUL} /\ i' = i + 1
  /\ UNCHANGED <<data, buf, pc, p, value, c, fds, relay>>

ScanEnd ==
  \/ /\ pc = "scan" /\ i > Len(buf) /\ pc' = "denied"
     /\ UNCHANGED <<data, buf, scan, fds, relay>>
  \/ /\ pc = "found" /\ pc' = "decode" /\ i' = value /\ c' = value
     /\ UNCHANGED <<data, buf, p, value, fds, relay>>

IsEscape == buf[i] = "%" /\ buf[i + 1] \in Hex /\ buf[i + 2] \in Hex

DecodeByte ==
  /\ pc = "decode" /\ buf[i] \notin {NUL, "%"}
  /\ buf' = [buf EXCEPT ![c] = IF buf[i] = "+" THEN " " ELSE buf[i]]
  /\ i' = i + 1 /\ c' = c + 1
  /\ UNCHANGED <<data, pc, p, value, fds, relay>>

DecodeEscapeUnchecked ==
  /\ pc = "decode" /\ buf[i] = "%"
  /\ buf' = [buf EXCEPT ![c] = "%"]
  /\ i' = i + 3 /\ c' = c + 1
  /\ UNCHANGED <<data, pc, p, value, fds, relay>>

DecodeEscape ==
  /\ pc = "decode" /\ IsEscape
  /\ buf' = [buf EXCEPT ![c] = HexByte[<<buf[i + 1], buf[i + 2]>>]]
  /\ i' = i + 3 /\ c' = c + 1
  /\ UNCHANGED <<data, pc, p, value, fds, relay>>

DecodeFails ==
  /\ pc = "decode" /\ buf[i] = "%" /\ ~IsEscape /\ pc' = "denied"
  /\ UNCHANGED <<data, buf, scan, fds, relay>>

DecodeEnd ==
  /\ pc = "decode" /\ buf[i] = NUL
  /\ buf' = [buf EXCEPT ![c] = NUL] /\ pc' = "access"
  /\ UNCHANGED <<data, scan, fds, relay>>

---------------------------------------------------------------------------
(* main_backup.                                                            *)

Session == CString(From(buf, value))

\* session_access: refused also when ubus does not answer.
Access ==
  /\ pc = "access"
  /\ \/ Session \in Sessions /\ pc' = "pipe"
     \/ pc' = "denied"
  /\ UNCHANGED <<data, buf, scan, fds, relay>>

Pipe ==
  /\ pc = "pipe"
  /\ \/ pc' = "fork" /\ fds' = {"read", "write"}
     \/ pc' = "denied" /\ UNCHANGED fds
  /\ UNCHANGED <<data, buf, scan, relay>>

\* The headers are printed into stdout's buffer.
Fork ==
  /\ pc = "fork"
  /\ \/ pc' = "relay" /\ child' = "running" /\ held' = Headers
     \/ pc' = "denied" /\ UNCHANGED <<child, held>>
  /\ UNCHANGED <<data, buf, scan, fds, written, taken, left>>

\* failure: a 500 instead; the end of the program closes its pipe ends.
Fail ==
  /\ pc = "denied" /\ pc' = "exited" /\ fds' = {}
  /\ UNCHANGED <<data, buf, scan, relay>>

\* sysupgrade writes; its end, too early or when execl fails, is always possible.
ChildWrites ==
  /\ child = "running" /\ written < Archive /\ written - taken < PipeSize
  /\ written' = written + 1
  /\ UNCHANGED <<data, buf, pc, scan, fds, child, taken, held, left>>

ChildEnds ==
  /\ child = "running" /\ child' = "ended"
  /\ UNCHANGED <<data, buf, pc, scan, fds, written, taken, held, left>>

RelayStopsShort ==
  /\ pc = "relay"
  /\ \E n \in 1..ReadSize :
       /\ n <= written - taken /\ taken' = taken + n
       /\ pc' = IF n < ReadSize THEN "exited" ELSE "relay"
       /\ held' = 0 /\ left' = left + held + n
  /\ UNCHANGED <<data, buf, scan, fds, child, written>>

(***************************************************************************)
(* One turn of the loop.  read returns 0 when the pipe is empty and nobody *)
(* can write to it; then the child is reaped, the pipe closed and what is  *)
(* in stdout's buffer written on exit.  fwrite keeps at most a buffer's    *)
(* worth back.                                                             *)
(***************************************************************************)
Relay ==
  LET nobody == "write" \notin fds /\ child # "running" IN
  /\ pc = "relay"
  /\ \E n \in 0..ReadSize :
       /\ n <= written - taken /\ (n = 0 => written = taken /\ nobody)
       /\ taken' = taken + n
       /\ pc' = IF n = 0 THEN "exited" ELSE pc
       /\ fds' = IF n = 0 THEN {} ELSE fds
       /\ held' \in IF n = 0 THEN {0} ELSE 0..StdioSize
       /\ left' = left + held + n - held' /\ left' >= left
  /\ UNCHANGED <<data, buf, scan, child, written>>

Decode ==
  Start \/ ScanEquals \/ ScanPairEnd \/ ScanByte \/ ScanEnd
  \/ DecodeByte \/ DecodeEscape \/ DecodeFails \/ DecodeEnd

Program == Decode \/ Access \/ Pipe \/ Fork \/ Fail \/ Relay

Next == Program \/ ChildWrites \/ ChildEnds

Spec == Init /\ [][Next]_vars

\* The program is scheduled by the kernel; nothing is assumed of the child.
FairSpec == Spec /\ WF_vars(Program)

---------------------------------------------------------------------------
\* Every variable keeps its type; the decoder never writes past what it has
\* read, reads past the end of what read returned, or leaves the buffer
\* without a terminator behind it.
TypeOK ==
  /\ data \in Forms /\ buf \in Seq(Others \cup {NUL}) /\ Len(buf) = Len(data) + 1
  /\ buf[Len(buf)] = NUL
  /\ pc \in {"start", "scan", "found", "decode", "access", "pipe", "fork", "relay", "denied", "exited"}
  /\ i \in 1..Len(buf) + 1 /\ p \in 1..Len(buf) + 1 /\ value \in 0..Len(buf)
  /\ pc \in {"found", "decode", "access"} => value > 0
  /\ c \in 1..Len(buf) /\ (pc = "decode" => c <= i /\ i <= Len(buf))
  /\ fds \subseteq {"read", "write"} /\ child \in {"none", "running", "ended"}
  /\ written \in 0..Archive /\ taken \in 0..written
  /\ held \in 0..StdioSize /\ left \in Nat

(***************************************************************************)
(* The reference: the first pair of the form with the key, what follows    *)
(* its last '=', decoded; no session if that has a '%' without two digits. *)
(***************************************************************************)
Pairs == {k \in 1..Len(data) : k = 1 \/ data[k - 1] \in {"&", NUL}}
PairAt(k) == UpTo(From(data, k), {"&", NUL})
Named == {k \in Pairs : "=" \in ToSet(PairAt(k)) /\ UpTo(PairAt(k), {"="}) = Key}
Text ==
  LET pair == PairAt(CHOOSE k \in Named : \A l \in Named : k <= l)
  IN  From(pair, SelectLastInSeq(pair, LAMBDA b : b = "=") + 1)
Escaped(s, k) == k + 2 <= Len(s) /\ s[k + 1] \in Hex /\ s[k + 2] \in Hex
Decoded(s) ==
  LET from[k \in 1..Len(s) + 1] ==
        CASE k > Len(s)                    -> <<>>
          [] s[k] = "%" /\ Escaped(s, k) -> <<HexByte[<<s[k + 1], s[k + 2]>>]>> \o from[k + 3]
          [] OTHER  -> <<IF s[k] = "+" THEN " " ELSE s[k]>> \o from[k + 1]
  IN  from[1]
\* Decoding from the left meets no '%' without its digits.
Decodable(s) ==
  LET good[k \in 1..Len(s) + 1] ==
        k > Len(s) \/ IF s[k] = "%" THEN Escaped(s, k) /\ good[k + 3] ELSE good[k + 1]
  IN  good[1]

\* The session asked about is the one the form names, decoded once, although
\* the same buffer is cut into strings and decoded in place.  (Without a
\* session sysupgrade is not run.)
SessionAsSent ==
  pc = "access" => Named # {} /\ Decodable(Text) /\ Session = CString(Decoded(Text))

\* All but a buffer's worth of what sysupgrade wrote goes out.  The program
\* itself then waits for ever: for the end of a pipe whose writing end it
\* holds.
AllButBuffer ==
  child = "ended" ~> left + StdioSize >= Headers + written
=============================================================================
