------------------------------ MODULE LineBytes ------------------------------
(***************************************************************************)
(* The bytes httpd_get_line (src/src/httpd.c) tells apart.                 *)
(***************************************************************************)
EXTENDS Naturals, Sequences

CONSTANTS CR, LF,   \* the two terminator bytes
          Other,    \* the bytes that terminate nothing
          Size      \* sizeof(buf) of the caller; SERVER_BUFF_SZ in the code

ASSUME LineAssumption ==
  /\ CR # LF /\ CR \notin Other /\ LF \notin Other
  /\ Size \in Nat /\ Size > 1

Byte == {CR, LF} \cup Other
IsEnd(b) == b \in {CR, LF}
=============================================================================
