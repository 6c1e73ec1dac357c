------------------------------- MODULE Filter -------------------------------
(***************************************************************************)
(* Loops that pass over some elements of a list and keep the others, by a  *)
(* recursive function that can be reasoned about.                          *)
(***************************************************************************)
EXTENDS SequencesExt

\* What is left of the sequence s without the elements in D.
Without(s, D) ==
    FlattenSeq([i \in 1 .. Len(s) |-> IF s[i] \in D THEN <<>> ELSE <<s[i]>>])
=============================================================================
