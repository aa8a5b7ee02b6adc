------------------------- MODULE MCCancellationProbe -------------------------
(* The fixture with one scenario for each shape of payload that the client or *)
(* the counters tell apart; the other runtimes differ from it after the close *)
(* and are probed with one token.                                             *)
EXTENDS CancellationProbe

MCProbes ==
  [scenario : {"COALESCED_FRAMES", "GENERATION_TERMINAL", "CLEAN_EOF", "POST_CLOSE_DATA"},
   runtime : {"fixture"}, slip : {0}]
    \cup [scenario : {"SINGLE_TOKEN"}, runtime : Runtime, slip : {0}]
    \cup [scenario : {"SINGLE_TOKEN"}, runtime : {"fixture"}, slip : {1}]
=============================================================================
