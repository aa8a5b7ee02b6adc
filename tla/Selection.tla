------------------------------ MODULE Selection ------------------------------
(***************************************************************************)
(* What SelectSeq is for sequences and tests, Select is for sequences and  *)
(* sets: written as a function on the prefixes, it is one that proofs can  *)
(* expand.                                                                 *)
(***************************************************************************)
EXTENDS Naturals, Sequences

\* The elements of s that are in S, in their order.
Select(s, S) ==
  LET selected[n \in 0..Len(s)] ==
        IF n = 0 THEN <<>>
        ELSE IF s[n] \in S THEN Append(selected[n - 1], s[n]) ELSE selected[n - 1]
  IN selected[Len(s)]
=============================================================================
