--------------------------- MODULE MCRequestEvidence ---------------------------
(* RequestEvidence with two streams: an id in each of two choices and a       *)
(* comment between them, or text without an id and both ids in the last       *)
(* choice, so that a chunk may be lost which nobody misses.                   *)
EXTENDS RequestEvidence, TLC

Choice(count, prompt, finish) == [kind |-> "choice", ids |-> count, prompt |-> prompt, finish |-> finish]
MCStreams ==
  {<<Choice(1, TRUE, FALSE), Comment, Choice(1, FALSE, TRUE), Usage, Done>>,
   <<Choice(0, FALSE, FALSE), Choice(2, TRUE, TRUE), Usage, Done>>}
MCSymmetry == Permutations(Requests)
=============================================================================
