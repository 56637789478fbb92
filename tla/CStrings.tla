------------------------------ MODULE CStrings ------------------------------
(***************************************************************************)
(* C strings in the programs' buffers, as sequences of bytes.              *)
(***************************************************************************)
EXTENDS Pieces

CONSTANT NUL

CString(s) == UpTo(s, {NUL})
=============================================================================
