---------------------------- MODULE RequestEvidence ----------------------------
(***************************************************************************)
(* The evidence of one measured Stage 2 request.  A collector observes     *)
(* HTTP exchanges, keeps six raw records of the one it attributes to the   *)
(* request, derives five more by replaying them, and stores all eleven as  *)
(* files; the reader rebuilds the exchange from the raw files, replays it  *)
(* and compares.  A second exchange is the same request sent again, or a   *)
(* request of the other client.                                            *)
(*                                                                         *)
(* The collector is not part of the code.  The model lets it lose or       *)
(* repeat a chunk, take a broken stream for a whole one, put together      *)
(* records of both exchanges before anything is hashed, and confuse files  *)
(* afterwards.  A hash is what it is taken of.  A chunk is a number of     *)
(* whole frames, observed at a time of its own: chunks that cut a frame,   *)
(* and equal times, are the subject of StreamValidator.                    *)
(***************************************************************************)
EXTENDS Naturals, Sequences, SequencesExt, FiniteSets, FiniteSetsExt, Selection

CONSTANTS
  Requests,      \* external request ids
  Streams,       \* what the server sends: whole streams
  OutputTokens,  \* output ids of a whole stream (32)
  MaxLapses,     \* bound on chunks lost and repeated and on broken streams
  MaxSwaps       \* bound on files confused, lapses included

Exchanges == 1..2
\* A choice carries any number of output ids and may carry those of the prompt.
ChoiceFrames == [kind : {"choice"}, ids : Nat, prompt : BOOLEAN, finish : BOOLEAN]
Comment == [kind |-> "comment"]
Usage == [kind |-> "usage"]
Done == [kind |-> "done"]
Frames == ChoiceFrames \cup {Comment, Usage, Done}
Bearing == Frames \ {Comment}

OutputIds(frames) ==
  MapThenSumSet(LAMBDA i : frames[i].ids, {i \in DOMAIN frames : frames[i] \in ChoiceFrames})

\* Choices, which have the output ids between them and the prompt's once, and of which
\* the last one finishes; then usage and [DONE].
FramesFit(frames) ==
  LET n == Len(frames)
      choices == 1..(n - 2)
  IN /\ n >= 3
     /\ \A i \in choices : frames[i] \in ChoiceFrames /\ (frames[i].finish <=> i = n - 2)
     /\ OutputIds(frames) = OutputTokens
     /\ Cardinality({i \in choices : frames[i].prompt}) = 1
     /\ frames[n - 1] = Usage /\ frames[n] = Done

RawFields == {"http_exchange", "request_body", "request_headers", "response_headers",
              "raw_response_body", "server_logs"}
DerivedFields == {"parsed_sse_events", "terminal_boundary", "server_metrics", "lifecycle",
                  "token_usage_reconciliation"}
Fields == RawFields \cup DerivedFields

ASSUME RequestAssumption ==
  /\ IsFiniteSet(Requests) /\ Requests # {}
  /\ Streams \subseteq Seq(Frames)
  /\ \A s \in Streams : FramesFit(Select(s, Bearing)) /\ \A i \in DOMAIN s : s[i] = Done <=> i = Len(s)
  /\ OutputTokens \in Nat \ {0} /\ {MaxLapses, MaxSwaps} \subseteq Nat

VARIABLES
  now,
  ids,       \* the request each exchange belongs to
  stream,    \* what the server sends on it
  state,     \* how far it is
  arrived,   \* how many frames have arrived
  seen,      \* what the collector has observed of it
  lapses,
  sources,   \* where the records of the capture come from
  capture,   \* what was put together, nothing yet if no records
  swapped,   \* the files that are those of the other exchange
  verdict    \* "none", "accepted", "refused"

exchangeVars == <<ids, stream, state, arrived, seen, lapses>>
captureVars == <<sources, capture>>
vars == <<now, exchangeVars, captureVars, swapped, verdict>>

\* The files are those of the request that was sent first.
Request == ids[1]
Parts == {"exchange", "request", "response", "body", "close", "logs"}
Unseen == [request |-> 0, response |-> 0, chunks |-> <<>>, close |-> 0]
NoCapture == <<>>

Init ==
  /\ now = 0
  /\ ids \in [Exchanges -> Requests] /\ stream \in [Exchanges -> Streams]
  /\ state = [x \in Exchanges |-> "idle"] /\ arrived = [x \in Exchanges |-> 0]
  /\ seen = [x \in Exchanges |-> Unseen] /\ lapses = 0
  /\ sources = NoCapture /\ capture = NoCapture /\ swapped = {} /\ verdict = "none"

-----------------------------------------------------------------------------
(* The exchanges, every observation at a time of its own.                   *)

Keep == UNCHANGED <<ids, stream, captureVars, swapped, verdict>>

\* One exchange after the other, as when a request is sent again.  Those of two
\* clients may overlap, but their records differ in the request whatever their times.
Send(x) ==
  /\ state[x] = "idle"
  /\ \A y \in 1..(x - 1) : state[y] = "closed"
  /\ now' = now + 1
  /\ seen' = [seen EXCEPT ![x].request = now + 1]
  /\ state' = [state EXCEPT ![x] = "sent"]
  /\ UNCHANGED <<arrived, lapses>> /\ Keep

Head_(x) ==
  /\ state[x] = "sent"
  /\ now' = now + 1
  /\ seen' = [seen EXCEPT ![x].response = now + 1]
  /\ state' = [state EXCEPT ![x] = "reading"]
  /\ UNCHANGED <<arrived, lapses>> /\ Keep

\* Any number of frames in one chunk; the frame clock is read at each.
Read(x) ==
  /\ state[x] = "reading"
  /\ \E k \in 1..(Len(stream[x]) - arrived[x]), copies \in 0..2 :
       LET chunk == [at |-> now + 1, times |-> [i \in 1..k |-> now + i],
                     frames |-> SubSeq(stream[x], arrived[x] + 1, arrived[x] + k)]
       IN /\ copies = 1 \/ lapses < MaxLapses
          /\ lapses' = IF copies = 1 THEN lapses ELSE lapses + 1
          /\ now' = now + k
          /\ arrived' = [arrived EXCEPT ![x] = @ + k]
          /\ seen' = [seen EXCEPT ![x].chunks = @ \o [i \in 1..copies |-> chunk]]
  /\ UNCHANGED state /\ Keep

\* The end of the body, or of a broken connection that is taken for one.
Close(x) ==
  /\ state[x] = "reading"
  /\ IF arrived[x] = Len(stream[x]) THEN UNCHANGED lapses
                                    ELSE lapses < MaxLapses /\ lapses' = lapses + 1
  /\ now' = now + 1
  /\ seen' = [seen EXCEPT ![x].close = now + 1]
  /\ state' = [state EXCEPT ![x] = "closed"]
  /\ UNCHANGED arrived /\ Keep

-----------------------------------------------------------------------------
(* What the capture holds and when it is accepted.                          *)

Completion(chunks) == Max({c.at : c \in Range(chunks)} \cup UNION {Range(c.times) : c \in Range(chunks)})

RequestOf(x) == [id |-> ids[x], at |-> seen[x].request]
ResponseOf(x) == [id |-> ids[x], at |-> seen[x].response]
BodyOf(x) == [id |-> ids[x], chunks |-> seen[x].chunks]
CloseOf(x) == [id |-> ids[x], at |-> seen[x].close, inventory |-> seen[x].chunks, chain |-> x]
LogsOf(x) == [id |-> ids[x], chain |-> x]

\* The exchange record of the records it is made from.
ExchangeOf(request, response, body, close) ==
  [id |-> request.id, request |-> request.at, response |-> response.at,
   inventory |-> body.chunks, completion |-> Completion(body.chunks), terminal |-> close.at]

\* The exchange record was made with the exchange, or of the other records.
Assembled(from, made) ==
  LET y == from["exchange"]
      request == RequestOf(from["request"])
      response == ResponseOf(from["response"])
      body == BodyOf(from["body"])
      close == CloseOf(from["close"])
  IN [wire |-> [id |-> Request, request |-> request, response |-> response, body |-> body,
                close |-> close,
                exchange |-> IF made THEN ExchangeOf(request, response, body, close)
                             ELSE ExchangeOf(RequestOf(y), ResponseOf(y), BodyOf(y), CloseOf(y))],
      logs |-> LogsOf(from["logs"])]

SameIds(wire) ==
  \A part \in {"request", "response", "body", "close", "exchange"} : wire[part].id = wire.id

ExchangeInOrder(exchange) ==
  /\ exchange.request < exchange.response /\ exchange.response <= exchange.completion
  /\ exchange.completion <= exchange.terminal

\* Variant: the body is complete with its last chunk, not with the frames in it.
ExchangeBindsChunks(wire) ==
  /\ wire.exchange.request = wire.request.at /\ wire.exchange.response = wire.response.at
  /\ wire.exchange.inventory = wire.body.chunks /\ wire.exchange.terminal = wire.close.at
  /\ wire.exchange.completion = Last(wire.body.chunks).at
ExchangeBinds(wire) ==
  /\ wire.exchange.request = wire.request.at /\ wire.exchange.response = wire.response.at
  /\ wire.exchange.inventory = wire.body.chunks /\ wire.exchange.terminal = wire.close.at
  /\ wire.exchange.completion = Completion(wire.body.chunks)

ChunksInOrder(chunks) ==
  \A i, j \in DOMAIN chunks : i < j => chunks[i].at <= chunks[j].at /\ Last(chunks[i].times) <= chunks[j].at

CloseBinds(wire) ==
  wire.close.inventory = wire.body.chunks /\ Last(wire.body.chunks).at < wire.close.at

CaptureHolds(wire) ==
  /\ wire.body.chunks # <<>>
  /\ SameIds(wire) /\ ExchangeInOrder(wire.exchange) /\ ExchangeBinds(wire)
  /\ ChunksInOrder(wire.body.chunks) /\ CloseBinds(wire)

\* The frames with their times, and those that are no comments.
Parsed(chunks) ==
  FlattenSeq([i \in DOMAIN chunks |->
    [j \in DOMAIN chunks[i].frames |-> [frame |-> chunks[i].frames[j], at |-> chunks[i].times[j]]]])
Events(chunks) == Select(Parsed(chunks), [frame : Bearing, at : Nat])

FramesOf(events) == [i \in DOMAIN events |-> events[i].frame]

\* Variant: [DONE] is not waited for.
WholeAtUsage(events) ==
  FramesFit(FramesOf(events)) \/ FramesFit(Append(FramesOf(events), Done))

\* The last choice, usage and [DONE] are each strictly later than the one before.
Whole(events) ==
  LET n == Len(events)
  IN /\ FramesFit(FramesOf(events))
     /\ events[n - 2].at < events[n - 1].at /\ events[n - 1].at < events[n].at

\* Variant: the logs are of the same request.
ReplaysOfRequest(wire, logs) ==
  /\ wire.response.at <= Head(wire.body.chunks).at
  /\ Whole(Events(wire.body.chunks))
  /\ Last(Parsed(wire.body.chunks)).at < wire.close.at
  /\ logs.id = wire.id
Replays(wire, logs) ==
  /\ wire.response.at <= Head(wire.body.chunks).at
  /\ Whole(Events(wire.body.chunks))
  /\ Last(Parsed(wire.body.chunks)).at < wire.close.at
  /\ logs.id = wire.id /\ wire.close.chain = logs.chain

\* What each file holds, besides the identity of the capture.
Content(field, c) ==
  CASE field = "http_exchange" -> c.wire.exchange
    [] field \in {"request_body", "request_headers"} -> c.wire.request
    [] field = "response_headers" -> c.wire.response
    [] field = "raw_response_body" -> [body |-> c.wire.body, close |-> c.wire.close]
    [] field = "server_logs" -> c.logs
    [] field = "parsed_sse_events" -> Parsed(c.wire.body.chunks)
    [] field = "terminal_boundary" ->
         [dispatch |-> c.wire.request.at, events |-> Events(c.wire.body.chunks), close |-> c.wire.close]
    [] field = "lifecycle" -> [dispatch |-> c.wire.request.at, terminal |-> c.wire.close.at]
    [] OTHER -> c.wire.id
Payload(field, c) == [wire |-> c.wire, content |-> Content(field, c)]

Honest(x) == Assembled([part \in Parts |-> x], TRUE)
Other == CHOOSE x \in Exchanges : x # sources["body"]
File(field) == Payload(field, IF field \in swapped THEN Honest(Other) ELSE capture)

\* The capture the raw files make.
Rebuilt ==
  [wire |-> [id |-> File("request_body").wire.id, request |-> File("request_body").content,
             response |-> File("response_headers").content,
             body |-> File("raw_response_body").content.body,
             close |-> File("raw_response_body").content.close,
             exchange |-> File("http_exchange").content],
   logs |-> File("server_logs").content]

RawHolds ==
  /\ \A f, g \in RawFields : File(f).wire = File(g).wire
  /\ Rebuilt.wire = File("request_body").wire
  /\ File("request_headers").content = Rebuilt.wire.request
  /\ Rebuilt.wire.id = Request
  /\ CaptureHolds(Rebuilt.wire) /\ Replays(Rebuilt.wire, Rebuilt.logs)

\* Variant: a derived file is forgotten.
DerivedHoldButOne == \A f \in DerivedFields \ {"lifecycle"} : File(f) = Payload(f, Rebuilt)
DerivedHold == \A f \in DerivedFields : File(f) = Payload(f, Rebuilt)

-----------------------------------------------------------------------------
(* The collector and the reader.                                            *)

\* Nothing is stored of a capture that does not hold or replay.
Assemble ==
  /\ capture = NoCapture /\ verdict = "none"
  /\ \A x \in Exchanges : state[x] = "closed"
  /\ \E from \in [Parts -> Exchanges], made \in BOOLEAN :
       LET new == Assembled(from, made)
       IN /\ \A part \in Parts : seen[from[part]].chunks # <<>>
          /\ sources' = from
          /\ IF CaptureHolds(new.wire) /\ Replays(new.wire, new.logs)
               THEN capture' = new /\ UNCHANGED verdict
               ELSE verdict' = "refused" /\ UNCHANGED capture
  /\ UNCHANGED <<now, exchangeVars, swapped>>

Swap(field) ==
  /\ capture # NoCapture /\ verdict = "none"
  /\ seen[Other].chunks # <<>>
  /\ field \notin swapped /\ lapses + Cardinality(swapped) < MaxSwaps
  /\ swapped' = swapped \cup {field}
  /\ UNCHANGED <<now, exchangeVars, captureVars, verdict>>

\* Variant: it answers whether it holds.
ReconstructAnswer ==
  /\ capture # NoCapture /\ verdict = "none"
  /\ verdict' = IF RawHolds /\ DerivedHold THEN "TRUE" ELSE "FALSE"
  /\ UNCHANGED <<now, exchangeVars, captureVars, swapped>>
Reconstruct ==
  /\ capture # NoCapture /\ verdict = "none"
  /\ verdict' = IF RawHolds /\ DerivedHold THEN "accepted" ELSE "refused"
  /\ UNCHANGED <<now, exchangeVars, captureVars, swapped>>

Next ==
  \/ \E x \in Exchanges : Send(x) \/ Head_(x) \/ Read(x) \/ Close(x)
  \/ Assemble \/ Reconstruct
  \/ \E field \in Fields : Swap(field)

Spec == Init /\ [][Next]_vars

-----------------------------------------------------------------------------
(* Properties                                                               *)

Chunks == [at : Nat, times : Seq(Nat), frames : Seq(Frames)]
Observations == [request : Nat, response : Nat, chunks : Seq(Chunks), close : Nat]

TypeOK ==
  /\ now \in Nat /\ ids \in [Exchanges -> Requests] /\ stream \in [Exchanges -> Streams]
  /\ state \in [Exchanges -> {"idle", "sent", "reading", "closed"}]
  /\ arrived \in [Exchanges -> Nat] /\ \A x \in Exchanges : arrived[x] <= Len(stream[x])
  /\ seen \in [Exchanges -> Observations] /\ lapses \in 0..MaxLapses
  /\ sources \in {NoCapture} \cup [Parts -> Exchanges]
  /\ swapped \subseteq Fields /\ Cardinality(swapped) <= MaxSwaps
  /\ verdict \in {"none", "accepted", "refused"}

\* Whatever records the collector puts together, an accepted request has the body,
\* the end and the logs of one exchange of its own, and its time is that of this
\* exchange or, if it was sent before, a longer one: never a shorter one
\* (Stage2RequestWireCapture, replay_stage2_wire_capture).
NeverFaster ==
  verdict = "accepted" =>
    LET x == sources["body"]
    IN /\ ids[x] = Request /\ sources["close"] = x /\ sources["logs"] = x
       /\ capture.wire.request.at <= seen[x].request
       /\ capture.wire.response.at <= seen[x].response
       /\ capture.wire.close.at = seen[x].close

\* Of an accepted request everything the server sent had arrived: a connection that
\* broke is not taken for the end of a stream, whatever is lost or repeated of it and
\* whatever time the collector gives its end (Stage2StreamValidator, reached by
\* replay_stage2_wire_capture).
BrokenIsRefused ==
  verdict = "accepted" => LET x == sources["body"] IN arrived[x] = Len(stream[x])

\* The files of an accepted request are all of one exchange, never some of them of
\* another, the same request's first try included: none is confused, or every one is
\* (reconstruct_request_from_raw_evidence).
FilesOfOneExchange == verdict = "accepted" => swapped \in {{}, Fields}

\* Nothing else is refused: an exchange that was observed whole, and stored as it was
\* observed, is accepted however its frames were cut into chunks.
HonestIsAccepted ==
  verdict = "refused" =>
    \/ lapses > 0 \/ swapped # {}
    \/ \E part \in Parts : sources[part] # sources["body"] \/ ids[sources[part]] # Request
=============================================================================
