------------------------------- MODULE Pieces -------------------------------
(***************************************************************************)
(* The pieces of a sequence that C's searches and pointers give.           *)
(***************************************************************************)
EXTENDS Integers, SequencesExt

UpTo(s, stops) ==
  LET n == SelectInSeq(s, LAMBDA b : b \in stops)
  IN  IF n = 0 THEN s ELSE SubSeq(s, 1, n - 1)
From(s, n) == SubSeq(s, n, Len(s))
=============================================================================
