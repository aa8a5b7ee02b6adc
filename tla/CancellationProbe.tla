-------------------------- MODULE CancellationProbe --------------------------
(***************************************************************************)
(* The isolated cancellation probe of Stage 2: a server                    *)
(* (stage2_fixture_server.py, or a runtime that misbehaves in one way), a  *)
(* client that closes the stream after the first generation delivery       *)
(* (Stage2CancellationStreamCapture), a collector that scrapes the metrics *)
(* before and after, and evaluate_cancellation (stage2_control.py), which  *)
(* says from the retained evidence alone what became of the request.       *)
(*                                                                         *)
(* The tokens of the prompt are one unit of the prompt counter.            *)
(***************************************************************************)
EXTENDS Naturals, Sequences, SequencesExt, FiniteSets, FiniteSetsExt

CONSTANTS
  Probes,        \* the servers that are probed, each with its script
  PreCount, DrainCount,             \* scrapes before dispatch, after the close (10, 10)
  Cadence,                          \* between two scrapes (100 ms)
  StableSpan, CooldownSpan,         \* 1 s, 2 s
  Patience,                         \* of the client (2 s)
  Deadline,                         \* of the last cooldown scrape after the close (10 s)
  MaxTime, MaxTokens                \* bounds on the clock and on what a runtime generates

\* "fixture" is the code.  The others stand for what the evaluation guards
\* against: the runtime goes on after an abort it has acknowledged, it
\* restarts, it serves somebody else, or it logs aborts another way.
Runtime == {"fixture", "goesOn", "restarts", "serves", "logs"}
Scenario ==
  {"SINGLE_TOKEN", "GROUPED_TOKENS", "COALESCED_FRAMES", "COMPLETE_FRAME_WITH_TRAILING_FRAGMENT",
   "GENERATION_TERMINAL", "USAGE_TERMINAL", "DONE_TERMINAL", "CLEAN_EOF", "POST_CLOSE_DATA"}

ASSUME ProbeAssumption ==
  /\ Probes \subseteq [scenario : Scenario, runtime : Runtime, slip : {0, 1}]
  /\ {PreCount, DrainCount, Cadence, StableSpan, CooldownSpan, Patience, Deadline} \subseteq Nat \ {0}
  /\ MaxTime \in Nat \ {0} /\ MaxTokens \in Nat

VARIABLES
  now,        \* time.monotonic_ns
  scenario, runtime,
  slip,       \* 1 if the collector's schedule slips at every scrape
  handler,    \* the server's task: "none", "headed", "sent", "late", "acked", "ended"
  counters,   \* what the metrics count
  running,    \* vllm:num_requests_running
  process,    \* which start of the server this is
  logs,       \* the raw log, with observation offsets
  wire,       \* frames written to the stream and not yet read
  fate,       \* what really became of the request: "open", "aborted", "finished"
  foreign,    \* the scrapes answered before each request of somebody else
  client,     \* "idle", "dispatched", "open", "closed", "failed"
  reads,      \* the body reads retained, each with its frames
  at,         \* the offsets of the client: dispatch, delivery, close
  scrapes,    \* the snapshots retained
  pending,    \* a scrape that the server has answered and that has not arrived
  verdict     \* the classification, "none" before

serverVars == <<scenario, runtime, handler, counters, running, process, logs, fate, foreign>>
clientVars == <<client, reads, at>>
vars == <<now, slip, serverVars, wire, clientVars, scrapes, pending, verdict>>

Frames == {"first", "more", "last", "usage", "done", "comment"}
LogKinds == {"received", "added", "internal", "external", "foreign"}
Phases == {"PRE_DISPATCH", "DRAIN", "STABLE_GENERATION", "COOLDOWN", "LATER"}
Counters == [prompt : Nat, gen : Nat, abort : Nat, other : Nat, aux : Nat]
Snapshots == [phase : Phases, sched : Nat, done : Nat, process : Nat, running : Nat, counters : Counters]
Offsets == {"dispatch", "delivery", "close"}

Classifications ==
  {"SERVER_ABORT_ACKNOWLEDGED_AND_DRAINED", "UNKNOWN_ACKNOWLEDGEMENT", "LATER_COMPLETION",
   "RESIDUAL_WORK_TIMEOUT", "TERMINAL_UNKNOWN", "ID_CORRELATION_FAILURE"}
Drained == "SERVER_ABORT_ACKNOWLEDGED_AND_DRAINED"

TypeOK ==
  /\ now \in 1..MaxTime
  /\ [scenario |-> scenario, runtime |-> runtime, slip |-> slip] \in Probes
  /\ handler \in {"none", "headed", "sent", "late", "acked", "ended"}
  /\ counters \in Counters /\ running \in {0, 1} /\ process \in {1, 2}
  /\ logs \in Seq([kind : LogKinds, at : 1..MaxTime])
  /\ wire \in Seq(Frames)
  /\ fate \in {"open", "aborted", "finished"}
  /\ foreign \subseteq Nat
  /\ client \in {"idle", "dispatched", "open", "closed", "failed"}
  /\ reads \in Seq([frames : Seq(Frames), at : 1..MaxTime])
  /\ at \in [Offsets -> 0..MaxTime]
  /\ scrapes \in Seq(Snapshots)
  /\ pending \in Seq(Snapshots) /\ Len(pending) <= 1
  /\ verdict \in Classifications \cup {"none"}

Zero == [prompt |-> 0, gen |-> 0, abort |-> 0, other |-> 0, aux |-> 0]

Init ==
  /\ now = 1
  /\ \E p \in Probes : scenario = p.scenario /\ runtime = p.runtime /\ slip = p.slip
  /\ handler = "none" /\ counters = Zero /\ running = 0 /\ process = 1 /\ logs = <<>>
  /\ wire = <<>> /\ fate = "open" /\ foreign = {}
  /\ client = "idle" /\ reads = <<>> /\ at = [o \in Offsets |-> 0]
  /\ scrapes = <<>> /\ pending = <<>> /\ verdict = "none"

\* An answer arrives within a tick, but after whatever else happens in it.  The
\* scrapes before the dispatch come as soon as they may, the dispatch within a
\* tick of them, and the client waits Patience ticks for what it reads.
Tick ==
  /\ now < MaxTime /\ pending = <<>> /\ verdict = "none" /\ client # "failed"
  /\ client = "idle" =>
       scrapes # <<>> /\ now < Last(scrapes).done + Cadence + slip
  /\ client \in {"dispatched", "open"} => now < at.dispatch + Patience
  /\ client = "closed" => now <= at.close + Deadline
  /\ now' = now + 1
  /\ UNCHANGED <<slip, serverVars, wire, clientVars, scrapes, pending, verdict>>

-----------------------------------------------------------------------------
(* The server                                                               *)

\* The frames of a scenario, in one write; POST_CLOSE_DATA writes another one later.
Payload ==
  CASE scenario = "CLEAN_EOF" -> <<"comment">>
    [] scenario = "COALESCED_FRAMES" -> <<"first", "more">>
    [] scenario = "GENERATION_TERMINAL" -> <<"first", "last">>
    [] scenario = "USAGE_TERMINAL" -> <<"first", "usage">>
    [] scenario = "DONE_TERMINAL" -> <<"first", "done">>
    [] OTHER -> <<"first">>

Tokens ==
  IF scenario \in {"GROUPED_TOKENS", "COALESCED_FRAMES", "GENERATION_TERMINAL"} THEN 2 ELSE 1

\* The counters after a prompt and n tokens.
Generated(n) ==
  [c \in DOMAIN counters |-> counters[c] + (CASE c = "prompt" -> 1 [] c = "gen" -> n [] OTHER -> 0)]

Log(kinds) == logs' = logs \o [i \in DOMAIN kinds |-> [kind |-> kinds[i], at |-> now]]

ConnectionLost == client \in {"closed", "failed"}

\* Variant: the handler does not know that it has the request.
AcceptAgain ==
  /\ client = "dispatched" /\ process = 1
  /\ Log(<<"received", "added">>)
  /\ running' = running + 1
  /\ handler' = "headed"
  /\ UNCHANGED <<now, slip, scenario, runtime, foreign, counters, process, fate, wire, clientVars,
                 scrapes, pending, verdict>>

Accept ==
  /\ client = "dispatched" /\ handler = "none" /\ process = 1
  /\ Log(<<"received", "added">>)
  /\ running' = running + 1
  /\ handler' = "headed"
  /\ UNCHANGED <<now, slip, scenario, runtime, foreign, counters, process, fate, wire, clientVars,
                 scrapes, pending, verdict>>

SendPayload ==
  /\ handler = "headed"
  /\ wire' = Payload
  /\ IF scenario = "CLEAN_EOF"
     THEN /\ handler' = "ended" /\ running' = 0 /\ fate' = "finished"
          /\ UNCHANGED counters
     ELSE /\ handler' = IF scenario = "POST_CLOSE_DATA" THEN "late" ELSE "sent"
          /\ counters' = Generated(Tokens)
          /\ UNCHANGED <<running, fate>>
  /\ UNCHANGED <<now, slip, scenario, runtime, foreign, process, logs, clientVars, scrapes, pending, verdict>>

\* After its sleep, POST_CLOSE_DATA writes one more frame.
SendLate ==
  /\ handler = "late"
  /\ wire' = IF ConnectionLost THEN wire ELSE Append(wire, "more")
  /\ handler' = "sent"
  /\ UNCHANGED <<now, slip, scenario, runtime, foreign, counters, running, process, logs, fate,
                 clientVars, scrapes, pending, verdict>>

\* Variant: the handler does not take the request out of the gauge.
AbortStillRunning ==
  /\ handler \in {"headed", "sent", "late"} /\ ConnectionLost /\ runtime \notin {"goesOn", "logs"}
  /\ Log(<<"internal", "external">>)
  /\ counters' = [counters EXCEPT !.abort = @ + 1]
  /\ handler' = "ended" /\ fate' = "aborted"
  /\ UNCHANGED <<now, slip, scenario, runtime, foreign, running, process, wire, clientVars, scrapes, pending, verdict>>

\* The client has gone: read returns, a write fails, or stop cancels the task.
\* Nothing else runs between the two log lines, the counter and the gauge.
Abort ==
  /\ handler \in {"headed", "sent", "late"} /\ ConnectionLost /\ runtime \notin {"goesOn", "logs"}
  /\ Log(<<"internal", "external">>)
  /\ counters' = [counters EXCEPT !.abort = @ + 1]
  /\ handler' = "ended" /\ running' = 0 /\ fate' = "aborted"
  /\ UNCHANGED <<now, slip, scenario, runtime, foreign, process, wire, clientVars, scrapes, pending, verdict>>

-----------------------------------------------------------------------------
(* What another runtime may do                                              *)

Acknowledge ==
  /\ runtime = "goesOn" /\ handler \in {"headed", "sent", "late"} /\ ConnectionLost
  /\ Log(<<"internal", "external">>)
  /\ handler' = "acked"
  /\ UNCHANGED <<now, slip, scenario, runtime, foreign, counters, running, process, fate, wire, clientVars,
                 scrapes, pending, verdict>>

GoOn ==
  /\ runtime = "goesOn" /\ handler = "acked" /\ counters.gen < MaxTokens
  /\ counters' = [counters EXCEPT !.gen = @ + 1]
  /\ UNCHANGED <<now, slip, scenario, runtime, foreign, handler, running, process, logs, fate, wire, clientVars,
                 scrapes, pending, verdict>>

\* The gauge goes down when the work ends, whichever way it ends; an abort need
\* not be counted.
Settle ==
  /\ runtime = "goesOn" /\ handler = "acked"
  /\ running' = 0
  /\ \/ fate' = "finished" /\ counters' = [counters EXCEPT !.other = @ + 1]
     \/ fate' = "aborted" /\ \E n \in {0, 1} : counters' = [counters EXCEPT !.abort = @ + n]
  /\ handler' = "ended"
  /\ UNCHANGED <<now, slip, scenario, runtime, foreign, process, logs, wire, clientVars, scrapes, pending, verdict>>

\* A restart ends the request for good; its counters start again.
Restart ==
  /\ runtime = "restarts" /\ process = 1 /\ verdict = "none"
  /\ process' = 2 /\ counters' = Zero /\ running' = 0
  /\ handler' = IF handler = "none" THEN "none" ELSE "ended"
  /\ UNCHANGED <<now, slip, scenario, runtime, foreign, logs, fate, wire, clientVars, scrapes, pending, verdict>>

\* A whole request of somebody else, which the log does not show.
ServeOther ==
  /\ runtime = "serves" /\ counters.other = 0 /\ verdict = "none"
  /\ counters' = [Generated(1) EXCEPT !.other = 1]
  /\ foreign' = foreign \cup {Len(scrapes) + Len(pending)}
  /\ UNCHANGED <<now, slip, scenario, runtime, logs, handler, running, process, fate, wire, clientVars,
                 scrapes, pending, verdict>>

\* The abort, with the lines reversed, one of them missing or repeated, or
\* somebody else's among them.
AbortOtherwise ==
  /\ runtime = "logs" /\ handler \in {"headed", "sent", "late"} /\ ConnectionLost
  /\ \E kinds \in {<<"external", "internal">>, <<"internal">>, <<"external">>,
                   <<"internal", "external", "external">>, <<"internal", "foreign", "external">>} :
       Log(kinds)
  /\ counters' = [counters EXCEPT !.abort = @ + 1]
  /\ handler' = "ended" /\ running' = 0 /\ fate' = "aborted"
  /\ UNCHANGED <<now, slip, scenario, runtime, foreign, process, wire, clientVars, scrapes, pending, verdict>>
-----------------------------------------------------------------------------
(* The client                                                               *)

Stamp(o) == at' = [at EXCEPT ![o] = now]

Dispatch ==
  /\ client = "idle" /\ Len(scrapes) = PreCount /\ pending = <<>>
  /\ client' = "dispatched"
  /\ Stamp("dispatch")
  /\ UNCHANGED <<now, slip, serverVars, wire, reads, scrapes, pending, verdict>>

AcceptHeaders ==
  /\ client = "dispatched" /\ handler # "none"
  /\ client' = "open"
  /\ UNCHANGED <<now, slip, serverVars, wire, reads, at, scrapes, pending, verdict>>

Generations == {"first", "more"}

\* Variant: only the first frame of a read is looked at.
FitsFirst(frames) == frames # <<>> => frames[1] \in Generations \cup {"comment"}

\* No terminal precedes the close, and only the first generation event carries
\* the prompt.
Fits(frames) ==
  \A i \in DOMAIN frames : frames[i] \in Generations \cup {"comment"}

\* A read brings any number of whole frames, maybe none the first time.  The
\* client closes at once after the first one that delivers a generation event;
\* an unfit one raises, and the response is closed as well.
Read ==
  /\ client = "open" /\ verdict = "none"
  /\ \E n \in 0..Len(wire) :
       LET frames == SubSeq(wire, 1, n)
           delivers == \E i \in 1..n : frames[i] \in Generations
       IN /\ n > 0 \/ (wire # <<>> /\ reads = <<>>)
          /\ wire' = SubSeq(wire, n + 1, Len(wire))
          /\ reads' = Append(reads, [frames |-> frames, at |-> now])
          /\ at' = [o \in Offsets |-> IF o # "dispatch" /\ delivers /\ Fits(frames) THEN now ELSE at[o]]
          /\ client' = IF ~Fits(frames) THEN "failed"
                       ELSE IF delivers THEN "closed" ELSE "open"
  /\ UNCHANGED <<now, slip, serverVars, scrapes, pending, verdict>>

\* The stream ends before the close, or the read times out.
Fail ==
  /\ client \in {"dispatched", "open"}
  /\ client' = "failed"
  /\ UNCHANGED <<now, slip, serverVars, wire, reads, at, scrapes, pending, verdict>>

-----------------------------------------------------------------------------
(* The collector                                                            *)

\* Those of a phase follow one another.
At(phase) == {i \in DOMAIN scrapes : scrapes[i].phase = phase}
Of(phase) ==
  IF At(phase) = {} THEN <<>> ELSE SubSeq(scrapes, Min(At(phase)), Max(At(phase)))
Pre == Of("PRE_DISPATCH")
Drain == Of("DRAIN")
\* The last snapshot of a phase is the first one of the next.
Stable == <<Last(Drain)>> \o Of("STABLE_GENERATION")
Cooldown == <<Last(Stable)>> \o Of("COOLDOWN")
Later == Of("LATER")

\* The phases a scrape may be taken for.
Due ==
  IF client = "idle" THEN IF Len(Pre) < PreCount THEN {"PRE_DISPATCH"} ELSE {}
  ELSE IF client # "closed" THEN {}
  ELSE IF Len(Drain) < DrainCount THEN {"DRAIN"}
  ELSE IF Later # <<>> THEN {}
  ELSE IF Of("COOLDOWN") # <<>> THEN {"COOLDOWN", "LATER"}
  ELSE {"STABLE_GENERATION"} \cup (IF Of("STABLE_GENERATION") # <<>> THEN {"COOLDOWN"} ELSE {})

Opens(phase) ==
  \/ phase = "PRE_DISPATCH" /\ Pre = <<>>
  \/ phase = "DRAIN" /\ Drain = <<>>
  \/ phase = "LATER"

\* The server renders the metrics.  The collector leaves a cadence after the last
\* answer, and a slot of its schedule may not be early.
Scrape ==
  /\ pending = <<>> /\ verdict = "none"
  /\ scrapes # <<>> => now >= Last(scrapes).done + Cadence
  /\ \E phase \in Due :
       LET sched == IF Opens(phase) THEN now ELSE Last(scrapes).sched + Cadence + slip
       IN /\ sched <= now
          /\ pending' = <<[phase |-> phase, sched |-> sched, done |-> 0, process |-> process,
                           running |-> running, counters |-> counters]>>
  /\ UNCHANGED <<now, slip, serverVars, wire, clientVars, scrapes, verdict>>

Receive ==
  /\ pending # <<>>
  /\ scrapes' = Append(scrapes, [pending[1] EXCEPT !.done = now])
  /\ pending' = <<>>
  /\ UNCHANGED <<now, slip, serverVars, wire, clientVars, verdict>>

-----------------------------------------------------------------------------
(* evaluate_cancellation                                                    *)

Logged(kind) == \E i \in DOMAIN logs : logs[i].kind = kind
LoggedOnce(kind) == \E i \in DOMAIN logs : \A j \in DOMAIN logs : logs[j].kind = kind <=> j = i
Position(kind) == CHOOSE i \in DOMAIN logs : logs[i].kind = kind
LoggedAt(kind) == logs[Position(kind)].at

\* RequestIdentityChain: the internal abort is logged before the external one.
InLogOrder ==
  /\ Position("received") < Position("added")
  /\ Position("added") < Position("internal")
  /\ Position("internal") < Position("external")

\* correlate_request_logs over the whole log.
Correlates ==
  /\ \A kind \in {"received", "added", "internal", "external"} : LoggedOnce(kind)
  /\ ~Logged("foreign")
  /\ InLogOrder

InOrder ==
  /\ at.dispatch < at.delivery
  /\ LoggedAt("added") <= at.delivery
  /\ at.close <= LoggedAt("internal")

Adjacent(s, Rel(_, _)) == \A i \in 1..(Len(s) - 1) : Rel(s[i], s[i + 1])

Spaced(s) ==
  Adjacent(s, LAMBDA x, y : y.sched - x.sched >= Cadence /\ y.done - x.done >= Cadence)
OnCadence(s) == Adjacent(s, LAMBDA x, y : y.sched - x.sched = Cadence)
Span(s) == Last(s).done - s[1].done

Quiescent == \A i \in DOMAIN scrapes : scrapes[i].running = 0 /\ scrapes[i].process = 1

DrainKept ==
  /\ LoggedAt("external") <= Drain[1].done
  /\ Spaced(Drain)
  /\ Span(Stable) >= StableSpan /\ OnCadence(Stable)
  /\ Span(Cooldown) >= CooldownSpan /\ OnCadence(Cooldown)
  /\ Last(Cooldown).done - at.close <= Deadline

\* derive_counter_delta wants later snapshots and counters that do not fall.
Progress(x, y) ==
  /\ x.done < y.done
  /\ \A c \in DOMAIN x.counters : x.counters[c] <= y.counters[c]
Unmoved(x, y) == x.counters = y.counters

Settled == Adjacent(Stable \o Tail(Cooldown) \o Later, Unmoved)

\* Variant: the other finish reasons are not looked at.
CompletedLaterUnseen == Last(scrapes).counters.abort - Last(Pre).counters.abort \notin {0, 1}

CompletedLater ==
  \/ Last(scrapes).counters.abort - Last(Pre).counters.abort \notin {0, 1}
  \/ Last(scrapes).counters.other # Last(Pre).counters.other

Worked ==
  LET before == Last(Pre).counters after == Last(Cooldown).counters
  IN after.prompt = before.prompt + 1 /\ after.gen > before.gen /\ after.aux = before.aux

Classify ==
  IF ~Logged("internal") \/ ~Logged("external") THEN "UNKNOWN_ACKNOWLEDGEMENT"
  ELSE IF ~Correlates THEN "ID_CORRELATION_FAILURE"
  ELSE IF ~InOrder THEN "TERMINAL_UNKNOWN"
  ELSE IF \/ ~Spaced(Pre) \/ Last(Pre).done >= at.dispatch
          \/ ~Quiescent \/ ~DrainKept
          \/ ~Adjacent(scrapes, Progress) \/ ~Adjacent(Pre, Unmoved) THEN "RESIDUAL_WORK_TIMEOUT"
  ELSE IF CompletedLater THEN "LATER_COMPLETION"
  ELSE IF ~Settled \/ ~Worked \/ running # 0 THEN "RESIDUAL_WORK_TIMEOUT"
  ELSE Drained

Evaluate ==
  /\ client = "closed" /\ Of("COOLDOWN") # <<>> /\ pending = <<>> /\ verdict = "none"
  /\ verdict' = Classify
  /\ UNCHANGED <<now, slip, serverVars, wire, clientVars, scrapes, pending>>
-----------------------------------------------------------------------------
Server == Accept \/ SendPayload \/ SendLate \/ Abort
OtherRuntime == Acknowledge \/ GoOn \/ Settle \/ Restart \/ ServeOther \/ AbortOtherwise
Client == Dispatch \/ AcceptHeaders \/ Read \/ Fail
Collector == Scrape \/ Receive \/ Evaluate

Next == Tick \/ Server \/ OtherRuntime \/ Client \/ Collector

\* The server is an event loop that runs whatever is ready, and the runtime of
\* the repository's own tests is the fixture.
Spec == Init /\ [][Next]_vars /\ WF_vars(Server)

-----------------------------------------------------------------------------
(* Properties                                                               *)

\* What evaluate_cancellation accepts on the evidence is what happened: the
\* request was aborted and did not complete later, and nobody else was served
\* between the first scrape and the last one retained.
AcceptedIsAborted ==
  verdict = Drained =>
    /\ fate = "aborted"
    /\ foreign \cap 1..(Len(scrapes) - 1) = {}

\* The offsets that have to lie apart do, the collector kept its schedule, and it
\* asked for the first drain scrape only after the abort was logged.
Timely ==
  /\ Logged("external") /\ InOrder /\ LoggedAt("external") < Drain[1].sched
  /\ Last(Pre).done < at.dispatch /\ Spaced(Pre) /\ DrainKept
  /\ Adjacent(scrapes, LAMBDA x, y : x.done < y.done)

\* The fixture is drained in the eyes of evaluate_cancellation, whatever the
\* scenario and however its frames are cut into reads, unless the collector was
\* late or early: no race between the abort, the gauge and a scrape spoils it.
FixtureDrainIsAccepted ==
  runtime = "fixture" /\ verdict # "none" /\ Timely => verdict = Drained

\* However the frames are cut into reads, the client that closes
\* intentionally does so on the first read with a generation event and on no
\* stream that showed it a terminal (Stage2CancellationStreamCapture.feed).
CloseFollowsFirstDelivery ==
  client = "closed" =>
    /\ \A i \in DOMAIN reads : Range(reads[i].frames) \subseteq Generations \cup {"comment"}
    /\ \A i \in DOMAIN reads :
         (\E j \in DOMAIN reads[i].frames : reads[i].frames[j] \in Generations) <=> i = Len(reads)

\* A request whose client has gone leaves the gauge and is logged as aborted,
\* with its clean end of stream the only exception (_handle_client).
LostConnectionIsDrained ==
  (runtime = "fixture" /\ ConnectionLost /\ handler # "none")
    ~> (running = 0 /\ (fate = "finished" \/ Logged("external")))
=============================================================================
