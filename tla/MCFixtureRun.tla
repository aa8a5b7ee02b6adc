----------------------------- MODULE MCFixtureRun -----------------------------
(* FixtureRun with scripts shaped like the cases of                          *)
(* examples/fixtures/streaming-fixture-v1.json: tokens in one and in two     *)
(* frames, a comment before them, malformed data after a token, an HTTP      *)
(* error, a stall after a comment; and the ones the fixture contract allows  *)
(* too: an HTTP error after a token, malformed data that is no token, an end *)
(* without [DONE].                                                           *)
EXTENDS FixtureRun

CONSTANTS warmup, success, keepalive, malformed, failure, timeout, broken,
          garbled, truncated

Case(script, tokens, failureKind) ==
  [script |-> script, tokens |-> tokens, kind |-> failureKind]

Cases ==
  warmup :> Case(<<"token", "done">>, 1, "NONE") @@
  success :> Case(<<"token", "pair", "done">>, 3, "NONE") @@
  keepalive :> Case(<<"comment", "token", "done">>, 1, "NONE") @@
  malformed :> Case(<<"token", "notJson">>, 1, "PROTOCOL_MALFORMED_STREAM") @@
  failure :> Case(<<"httpError">>, 0, "HTTP_STATUS") @@
  timeout :> Case(<<"comment", "stall">>, 0, "TIMEOUT") @@
  broken :> Case(<<"token", "httpError">>, 1, "TRANSPORT") @@
  garbled :> Case(<<"token", "notTokens", "done">>, 1, "TOKEN_ACCOUNTING") @@
  truncated :> Case(<<"token">>, 1, "PROTOCOL_MALFORMED_STREAM")

MCScript == [r \in Requests |-> Cases[r].script]
MCExpectedTokens == [r \in Requests |-> Cases[r].tokens]

\* The cases are declared to end as their scripts have it.
ASSUME DeclaredKinds == \A r \in Requests : DeclaredRecord(r).kind = Cases[r].kind

Load(measured, upsets, misses) == [measured |-> measured, upsets |-> upsets, misses |-> misses]
\* Six endings and nothing but the fixture's own stalls is slow; three of them
\* and one upset; and three of which every success may miss the SLO.
MCLoads == {Load(<<success, failure, timeout, broken, garbled, truncated>>, 0, 0),
            Load(<<keepalive, malformed, timeout>>, 1, 0),
            Load(<<success, failure, keepalive>>, 0, 3)}
=============================================================================
