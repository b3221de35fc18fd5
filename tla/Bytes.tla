------------------------------- MODULE Bytes --------------------------------
(***************************************************************************)
(* Byte strings put together by a loop of appends.                         *)
(***************************************************************************)
EXTENDS Integers, Sequences

\* The strings of ss one after the other, round by round of the loop: what
\* FlattenSeq of SequencesExt is, in the form its proofs take apart.
Concat(ss) ==
  LET upTo[i \in 0 .. Len(ss)] == IF i = 0 THEN <<>> ELSE upTo[i - 1] \o ss[i]
  IN  upTo[Len(ss)]

=============================================================================
