----------------------------- MODULE MCGetLine -----------------------------
(* Small streams for TLC.  One ordinary byte is enough: httpd_get_line     *)
(* compares bytes only with the two terminators.                           *)
EXTENDS GetLine
MCOther == {"x"}
=============================================================================
