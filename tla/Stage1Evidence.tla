---------------------------- MODULE Stage1Evidence ----------------------------
(***************************************************************************)
(* What a Stage 1 client makes of a response stream (streaming.py, sse.py) *)
(* and what the artifact validator makes of the evidence it retained       *)
(* (artifact_io.py, stage1_metrics.py), and the comparison of two runs     *)
(* (stage1_comparison.py).                                                 *)
(*                                                                         *)
(* A frame stands for a whole SSE frame: a comment, a data frame with one  *)
(* or two fixture tokens, data that is not JSON, JSON that carries a token *)
(* but also keys the fixture payload may not have, JSON with a text that   *)
(* is no fixture token, or the [DONE] marker; "text" is the body of an     *)
(* error response, which is not parsed.                                    *)
(* Every frame is retained as one raw body chunk before it is parsed.      *)
(***************************************************************************)
EXTENDS Naturals, Sequences, SequencesExt, FiniteSets, Selection

Data == {"token", "pair", "notJson", "extraKeys", "notTokens"}
Frames == Data \cup {"comment", "done"}

Tokens(f) == CASE f \in {"token", "extraKeys"} -> 1
               [] f = "pair" -> 2
               [] OTHER -> 0

Total(counts) == FoldSeq(+, 0, counts)

\* Stage1FailureKind; "NONE" is a SUCCESS.
Kinds == {"NONE", "HTTP_STATUS", "PROTOCOL_MALFORMED_STREAM", "TIMEOUT", "TRANSPORT",
          "TOKEN_ACCOUNTING", "CANCELLED"}

\* An event of the stream log: what it records, and of which frame or outcome.
Event(kind, of) == [kind |-> kind, of |-> of]
Events(kinds) == [kind : kinds, of : Frames \cup Kinds \cup {"text", "none"}]
Recorded(events, kind) == Select(events, Events({kind}))
Subjects(events) == [i \in DOMAIN events |-> events[i].of]
Raw(events) == Subjects(Recorded(events, "RAW_BODY_CHUNK"))

EventOf(f) == Event(CASE f = "comment" -> "SSE_COMMENT"
                      [] f = "done" -> "SSE_DONE"
                      [] OTHER -> "SSE_TOKEN_EVENT", f)

-----------------------------------------------------------------------------
(* The client.                                                              *)

\* The failure a client that has parsed the frames in seen makes of frame f:
\* after [DONE] only a comment may follow, and a payload is exactly one choice
\* with one text of fixture tokens.
FrameFailure(seen, f) ==
  CASE "done" \in Range(seen) /\ f # "comment" -> "PROTOCOL_MALFORMED_STREAM"
    [] "done" \notin Range(seen) /\ f \in {"notJson", "extraKeys"} -> "PROTOCOL_MALFORMED_STREAM"
    [] "done" \notin Range(seen) /\ f = "notTokens" -> "TOKEN_ACCOUNTING"
    [] OTHER -> "NONE"

\* How the stream ends for a client that has parsed the frames in seen.
KindAtEof(seen, deltas, expected) ==
  IF "done" \notin Range(seen) THEN "PROTOCOL_MALFORMED_STREAM"
  ELSE IF Total(deltas) # expected THEN "TOKEN_ACCOUNTING" ELSE "NONE"

-----------------------------------------------------------------------------
(* The validator: _validate_raw_chunks and _validate_cross_records of one   *)
(* request.  ok says that the response had a 2xx status.                    *)

\* The validator only looks for choices[0].text.
ReparseFails(raw) ==
  \/ "done" \notin Range(raw)
  \/ Range(raw) \cap {"notJson", "notTokens"} # {}
  \/ \E i, j \in DOMAIN raw : i < j /\ raw[i] = "done" /\ raw[j] # "comment"

Shapes(raw) == LET data == Select(raw, Data)
               IN [i \in DOMAIN data |-> Tokens(data[i])]

RawValid(raw, ok, kind, deltas) ==
  /\ kind = "NONE" => ok /\ ~ReparseFails(raw) /\ Shapes(raw) = deltas
  /\ kind = "PROTOCOL_MALFORMED_STREAM" => ok /\ ReparseFails(raw)

RequestValid(events, ok, kind, deltas) ==
  LET shown == Subjects(Recorded(events, "SSE_TOKEN_EVENT"))
      only(k) == Len(Recorded(events, k)) = 1
  IN /\ only("CLIENT_REQUEST_STARTED") /\ only("REQUEST_TERMINAL") /\ only("CLIENT_REQUEST_ENDED")
     /\ events[1].kind = "CLIENT_REQUEST_STARTED"
     /\ SubSeq(events, Len(events) - 1, Len(events)) =
          <<Event("REQUEST_TERMINAL", kind), Event("CLIENT_REQUEST_ENDED", "none")>>
     /\ [i \in DOMAIN shown |-> Tokens(shown[i])] = deltas
     /\ Len(Recorded(events, "SSE_DONE")) = (IF kind = "NONE" THEN 1 ELSE 0)
     /\ RawValid(Raw(events), ok, kind, deltas)

\* derive_observed_max_client_concurrency over the STARTED and ENDED events of
\* the whole log, in log order: how many requests are active after n of them.
ActiveAfter(log, n) ==
  {r \in {log[i].of : i \in 1..n} :
     \A i \in 1..n : log[i].of = r => log[i].kind = "CLIENT_REQUEST_STARTED"}

LifecycleValid(log, bound) ==
  /\ \A i, j \in DOMAIN log : i # j => log[i] # log[j]
  /\ \A j \in DOMAIN log : log[j].kind = "CLIENT_REQUEST_ENDED" =>
       \E i \in 1..(j - 1) : log[i] = Event("CLIENT_REQUEST_STARTED", log[j].of)
  /\ ActiveAfter(log, Len(log)) = {}
  /\ \A n \in DOMAIN log : Cardinality(ActiveAfter(log, n)) <= bound

-----------------------------------------------------------------------------
(* Two runs.  A run is the records of its requests, those of them that      *)
(* satisfied the SLO, and its lifecycle log.                                *)

TerminalClass(kind) ==
  CASE kind = "NONE" -> "SUCCESS" [] kind \in {"TIMEOUT", "CANCELLED"} -> kind [] OTHER -> "FAILED"

\* What a request leaves besides its SLO verdict: nothing that depends on time or on how its
\* body was cut.
ProtocolShape(events) ==
  LET parsed == Select(events, Events({"SSE_COMMENT", "SSE_TOKEN_EVENT", "SSE_DONE"}))
  IN [i \in DOMAIN parsed |-> [kind |-> parsed[i].kind, tokens |-> Tokens(parsed[i].of)]]
RequestRecord(kind, deltas, events) ==
  [kind |-> kind, deltas |-> deltas, body |-> Raw(events), protocol |-> ProtocolShape(events)]

ObservedConcurrency(log) == Max({Cardinality(ActiveAfter(log, n)) : n \in 0..Len(log)})

\* Variant: the order in which requests end is part of the identity.
FingerprintOrdered(run) ==
  [records |-> run.records, slo |-> run.slo, log |-> run.log]
Fingerprint(run) ==
  [records |-> run.records, slo |-> run.slo, concurrency |-> ObservedConcurrency(run.log)]

\* derive_stage1_summary: how many of the requests rs ended in a class.
CountOf(run, rs, class) == Cardinality({r \in rs : TerminalClass(run.records[r].kind) = class})

\* compare_validated_bundles for two runs of the same inputs, rs their measured requests.
PolicyPassed(baseline, candidate, rs) ==
  /\ Fingerprint(baseline) = Fingerprint(candidate)
  /\ CountOf(baseline, rs, "SUCCESS") = CountOf(candidate, rs, "SUCCESS")
  /\ CountOf(candidate, rs, "FAILED") <= CountOf(baseline, rs, "FAILED")
  /\ CountOf(candidate, rs, "TIMEOUT") <= CountOf(baseline, rs, "TIMEOUT")
  /\ \A r \in DOMAIN baseline.records : baseline.records[r].kind = candidate.records[r].kind
=============================================================================
