# TLA+ models of the LLM inference measurement harness

The repository is a measurement harness for LLM inference: it drives a streaming
completions server with a closed-loop load, retains everything it observed as evidence,
and derives every published number from that evidence again. Stage 0 compares artifacts,
stage 1 runs a deterministic fixture over loopback, stage 2A defines and validates the
evidence of real runs without executing one. What the harness promises is therefore mostly
about evidence: it is complete, it is accepted exactly when it is whole, and it does not
change its meaning when something fails. These modules say so and check it.

Paths are relative to `src/llm_inference_systems/` unless they start with `docs/`.

## Contents

| Module | What it is |
|---|---|
| `BundleLifecycle` | `stage2_bundle.py`: the builder of a stage 2 bundle, every durable operation a step |
| `BundleContract` | what a bundle promises its reader and its builder's caller (abstract) |
| `BundleLifecycle_proof` | the theorems about these two |
| `Stage1Evidence` | operators: what a client makes of a stream, what the validator makes of the evidence |
| `FixtureRun` | one stage 1 run: `runner.py`, `loadgen.py`, `streaming.py`, `fixture_server.py` |
| `ClosedLoop` | what a closed-loop load promises (abstract) |
| `FixtureRun_proof` | the theorems about these two |
| `StreamValidator` | `stage2_protocol.py`: `Stage2StreamValidator`, fed live or by the replay of a capture (`stage2_experiment.py`) |
| `FourTerminals` | what the terminals of a stage 2 stream promise (abstract) |
| `StreamValidator_proof` | the theorems about these two |
| `CancellationProbe` | the isolated cancellation: `stage2_fixture_server.py`, the capture and the log correlation of `stage2_protocol.py`, `evaluate_cancellation` of `stage2_control.py` |
| `Repetition` | one stage 2 repetition: the phases and gates of `stage2_control.py`, the measured window of `stage2_prometheus.py` and `stage2_attestation.py`, the concurrency of `stage2_experiment.py` |
| `RequestEvidence` | one measured request: `stage2_transport.py` and the wire capture, replay and files of `stage2_experiment.py` |
| `AggregateCommit` | the experiment root: the bundles, the documents and the aggregate manifest of `stage2_experiment.py` |
| `AggregateCommit_proof`, `Repetition_proof`, `CancellationProbe_proof`, `RequestEvidence_proof` | the theorems about these four |
| `Selection`, `Selection_proof` | the part of a sequence that lies in a set, and what a proof needs to know of it |
| `MC*` | instances for TLC |

## Inventory

**Stage 2 bundle** (`stage2_bundle.py`). State: two directory names (`.<name>.staging`,
`<name>`), `bundle-state.json`, `evidence-manifest.json`, the files under `raw/` and
`derived/`. Operations: constructor, `write_raw`, `write_derived`, `invalidate`, `commit`
with its recovery, and the readers `inspect_bundle_state`, `validate_committed_bundle`,
`read_committed_summary`. Hard: any operation may fail, the process may die, power may fail
between a rename and a sync, two builders may use one name. Correct if what a caller was told
stays true and a committed bundle is exactly its manifest.

**Stage 1 load generator and client** (`loadgen.py`, `streaming.py`, `sse.py`,
`fixture_tokens.py`). State: tasks under a semaphore, one stream each, a shared event log.
Operations: warmup, then measured requests in declared order; per request send, read, parse,
record, close. Hard: interleaving of tasks, timeouts, cancellation at every await, failures in
the middle of a stream. Correct if concurrency and order are kept, each request ends as it
should, and the log supports exactly the records that were made from it.

**Stage 1 fixture server** (`fixture_server.py`). State: a task per connection, a position in
the script of the case, the server event log. Operations: accept, serve the script, stall, give
up on a lost connection, stop. Hard: `stop` against handlers in every state. Correct if every
accepted request gets one end event before the log is written.

**Stage 1 runner, writer and validator** (`runner.py`, `artifact_io.py`, `stage1_contracts.py`,
`stage1_metrics.py`, `stage1_comparison.py`). The runner starts the server, awaits the workload,
stops the server in a `finally`, writes five files and validates them again. Validation
recomputes hashes, lifecycle, concurrency, the raw streams, the summary and the semantic
fingerprint. Correct if a run's own bundle is accepted and no other content is.

**Stage 2 stream and log protocol** (`stage2_protocol.py`). A stream validator with four
terminals in strict order (generation, usage, protocol, transport), a capture that closes after
the first generated token, and the correlation of request ids with log lines. Hard: order,
repetition and coalescing of frames. Correct if only a complete stream yields a record, however it
was cut into chunks.

**Stage 2 measured request** (`stage2_transport.py`, `stage2_experiment.py`). Immutable records of one HTTP
exchange, the replay that derives the rest from them, and eleven files that are derived again when they are read. Hard: the
collector that makes the records is not part of the code, and a request may be sent again under its id. Correct if
what is accepted is one exchange, whole, and no faster than it was.

**Stage 2 fixture server and cancellation probe** (`stage2_fixture_server.py`,
`stage2_control.py`, `stage2_prometheus.py`). The server keeps counters and logs; the probe
scrapes, dispatches, closes, scrapes until drained; `evaluate_cancellation` classifies. Hard:
abort, completion and scrapes race. Correct if a request that went on is never classified as
aborted and drained.

**Stage 2 repetition** (`stage2_control.py`, `stage2_prometheus.py`, `stage2_attestation.py`,
`stage2_experiment.py`). Seventeen phases from process start to the residual check, gates between them, two
scrapes around the measured window. Hard: the server is shared, its counters are totals, its process may be
replaced, and offsets tie. Correct if the window holds the measured requests and nothing else.

**Stage 2 experiment** (`stage2_experiment.py`, the rest of `stage2_control.py`). Three committed
repetition bundles, their semantic comparison, and an aggregate manifest written last. Hard:
crash between bundles and manifest, stale bundles, exactly three restarts. Correct if a
committed aggregate stands on three whole, distinct, agreeing repetitions.

**Pure parts** (`metrics.py`, `comparison.py`, `stage2_runtime.py`, `stage2_transport.py`,
`stage2_attestation.py`, `stage2_contracts.py`, `contracts.py`, `canonical.py`, `schema_io.py`,
`cli.py`, `scripts/`). Validators and derivations without state.

Interaction: the runner calls the server, the load generator and the writer, all on one event
loop; client and server share the `EvidenceCollector` and a loopback connection. The stage 2
parts share data only: the experiment reads bundles that a builder committed.

## BundleLifecycle

State and code:

| Variable | Code |
|---|---|
| `staging`, `final` | what `staging_path` and `final_path` lead to: the builder whose `mkdir` made it |
| `state[n]`, `manifest[n]` | `bundle-state.json` and `evidence-manifest.json` in directory `n` |
| `files[n]`, `dirs[n]` | evidence files; whether `raw/` and `derived/` exist |
| `parent` | the parent directory: not there, made by a constructor and not certain to survive, or kept |
| `exposed` | the bundles made while the parent was not certain to survive |
| `namesDisk`, `stateDisk`, `manifestDisk`, `filesDisk`, `dirsDisk` | what may be found after a power loss |
| `pc`, `file`, `listed` | where a builder is, the file it writes, the inventory of its commit |
| `result`, `tainted` | what the last `commit` or `invalidate` told; an evidence write raised |

A directory keeps the identity of its maker while the builder reaches it by name, as the
code does. `_durable_write` is two steps, the replace and the sync of the directory; contents are
synced before the replace, so entries are never torn. `_default_sync_path` makes the entries of one
directory durable, not those of its parent. Until a sync, a power loss may leave any value an entry had
since the last one, independently for each entry. The constructor makes the parent with its ancestors if it is
not there (`stage2_bundle.py:216`), and nobody syncs the directory above: as long as such a parent is `new`, a power loss
may take it with all it holds (`Vanish`), or leave it for good. `Syncs` says whether the file system syncs directories;
where it does not, `_sync_path` swallows the EINVAL or ENOTSUP (160-162), the builder goes on, and no entry ever becomes durable. `Fault` raises OSError at any operation;
inside `commit` it leads to `_record_commit_failure`, elsewhere to the caller.

Runs:

* `BundleLifecycle`: directories are synced; two builders of one name, one after the other, in a parent that is there or that the first
  one makes; one raw file, the derived file it reconstructs to, one that nothing reconstructs to; two failing operations, two power
  losses. Two builders are enough to find a used name; two faults fail a commit and its recovery, or an evidence write and a
  later commit; the second power loss hits what a first one left. It shows that a commit
  or a recorded failure is permanent, that what looks COMMITTED is whole, that the builder implements `BundleContract`, and that it changes no directory but its own.
  Over a power loss the first and the last of these are promised to a bundle that is `Kept`, whose parent was durable
  when its directory was made; over kills and failing operations, to every bundle (`Sheltered`).
* `BundleRace`: both at the same time. A commit is then not permanent: the existence tests and the `mkdir` of the
  constructor are separate, and the recovery of the loser takes the final directory for its own.
* `BundleUnrecorded`, `BundleFailedCommit`: two statements of the documentation that the code does not
  keep when a durable operation of an evidence write, or of the recovery, fails.

`tainted` marks the bundles the first of these is about. `CommitIsPermanent` and
`CommittedIsWhole` except them: after an evidence write that raised, the entry of the file may never
have been synced, and a commit that the code then still allows is not promised.

Three things the code leaves open, and the model shows. In a parent that the constructor made, `commit` returns while a power loss may still take
the parent; `CommitIsPermanent` and `FailureIsPermanent` promise nothing for that case. Where directories are not synced they
promise nothing over a power loss either; the run has a file system that syncs them, the theorems are about both. And builders
that overlap do touch each other's directories: each resolves the two names anew at every step. `MeddlesOnlyBesideOwn` says where, and its
theorem needs no `Exclusive`: in the recovery of a rename that failed because the other took the final name first, and, if
a builder is called again after its bundle reached the final name, in the staging directory that came after it.

Left out: file times. `validate_committed_bundle` refuses a manifest older than a file it lists (480, 486-487); the clock is taken
not to step back while a bundle is made, so `Accepts` has no such test.

## FixtureRun

Everything runs on one event loop, so an action is what runs between two awaits that may
suspend. Recording an event is not one: no task awaits while it holds a lock of the
`EvidenceCollector`.

| Variable | Code |
|---|---|
| `phase`, `aborting` | where `run_fixture_to_directory` is; its task is being cancelled |
| `ready`, `waiting`, `permits` | the semaphore: woken tasks, queued tasks, its value |
| `client`, `status`, `deltas`, `kind`, `gone` | a request: its await, status, token counts, failure kind, closed connection |
| `overdue` | successes that took longer than `threshold_ns` of the SLO |
| `wire` | sent by the server, not yet read by the client |
| `handler`, `at`, `served` | a handler: its state, its action, the server events |
| `evidence`, `lifecycle` | the stream events of each request; starts and ends of all |

A frame is a kind of frame (comment, one token, two tokens, not JSON, foreign keys, text that is no
token, `[DONE]`), since that is all the client and the validator tell apart. `BundleValid` is the
validator on what was recorded; it parses the raw frames a second time with its own, more
lenient rules, as the code does.

Runs:

* `FixtureRun`: the run executes one of three loads. The first has six measured requests under concurrency 2, a
  success with a two-token frame, an HTTP error, a stall, an error in the middle of a stream, a frame that is no token,
  an end without `[DONE]`. A task thus queues, is handed a permit by a request that succeeded or failed, and
  overlaps with each kind of ending. The shipped workload has eight requests, of which five
  succeed; the extra ones repeat endings and only multiply the interleavings. The second load has three measured
  requests and one upset, a read that times out without a stall or one cancellation of the main task, at any
  point. The third has three measured requests, of which each success may miss the SLO: how long a request took is the
clock's choice, made when it closes. The load is closed-loop, the run ends, the server events are complete, and the evidence is accepted unless a
request failed after it had seen `[DONE]` (a failure that comes this late leaves an `SSE_DONE` in the evidence, which
`artifact_io.py:335-337` refuses; the five files are written by then). `ComparesEqual` is what makes a fixture a fixture, with its limit: an
undisturbed run passes `compare_validated_bundles` with what its scripts declare exactly if no success was overdue, in whatever
order its requests start, overlap and end. The order never matters; the clock does, because the fingerprint holds `slo_satisfied`
(`stage1_metrics.py:328`), although `stage1_comparison.py:1` speaks of "no timing performance gates". `MCFixtureRun` assumes that the failure kinds the cases are declared with are those of their scripts (`DeclaredKinds`).
Fairness: the event loop runs every task that can run and delivers what was written to the
loopback connection (weak fairness of `Runner`, `Client(r)`, `Server(r)`); a stalled read does time out
(weak fairness of `Timeout(r)` while the handler stalls), because httpx arms a timer and the stall is
longer than it, as in the shipped fixture: 2.0 s (`examples/fixtures/streaming-fixture-v1.json:114`) against a read
timeout of 0.5 s (`examples/configs/stage1-streaming-v1.json:24`). Nothing is assumed of the timeouts no stall explains or of
`Interrupt`. `RunEnds` needs all of it.

## StreamValidator

| Variable | Code |
|---|---|
| `script` | the frames the server sends |
| `clock` | the caller: `live` passes a frame clock, `none` passes none, `recorded` is `replay_stage2_wire_capture` |
| `chain` | whether the log lines given to `close_transport` correlate to one chain without an abort |
| `read`, `tail` | complete frames that arrived; the parser buffers the beginning of another |
| `feeding`, `fresh` | inside `feed`; its next frame is the first one |
| `listed`, `exact` | the frame offsets a capture lists for the reads so far; whether the first of a read is that of the read |
| `last`, `parsed` | `_last_observation_offset_ns`; the offsets in `_parsed_sse_events` |
| `outputs`, `prompt`, `events`, `bearer` | `_output_ids`, `_returned_prompt_ids`, `_token_events` and which of them carries the prompt |
| `generation`, `usage`, `protocol`, `transport` | the four terminal offsets |
| `status` | what the caller may do next, or how it ended |

The validator is synchronous, so nothing interleaves with a `feed`. It has a step for the read, one for each
frame and one for its end, because what arrives in one read or in several, and what the clock says at each frame, is what
the code could get wrong. Both callers stop at the first exception: `refused` is final and the state a raising call left
half changed has no reader (what a caller that goes on would get is left out). A frame is what the validator tells apart: a choice with a number of
output ids, maybe prompt ids (those sent or others) and maybe a finish reason, a usage that is right or wrong, `[DONE]`,
a comment, data that is no valid object, or text that is no SSE. A read that completes several frames is parsed
whole before any is looked at, so a bad frame at its end hides the good ones before it (`ParserRaises`).
`EndFeed` holds the comparison the replay makes after each chunk; a live caller always passes it.

Left out: the offsets before the headers, the first body byte, empty chunks (refused by every caller), and the
bytes: the limit of the parser's buffer counts frames.

Runs:

* `StreamValidator`: a live client with and without a frame clock, and the replay of a capture that may list any frame
  offsets, too few, too many or running backwards. The streams are two completed ones (a token per
  choice; a comment, two tokens in one choice and a finish without tokens) and every stream one frame away from the first
  (missing, repeated, swapped, inserted, replaced), so each check of the code is what decides some stream. Two
  output tokens stand for 32: the code compares their number with the limit and does nothing else with it. Four
  clock values are the fewest with three strict steps between the terminals. A buffer of
  three frames is exceeded by a whole stream in one read. It shows that evidence is returned
  only for a completed stream with one offset for each frame, that a completed stream is refused for the named reasons
  only, and that the terminals implement `FourTerminals`.

`CompletedIsTaken` names a consequence of the strict order: without a frame clock, or with one that does not
advance, a completed stream is refused when two of its terminals arrive in one read.

## CancellationProbe

| Variable | Code |
|---|---|
| `scenario`, `runtime`, `slip` | the scenario of the fixture, the kind of server that is probed, whether the collector's schedule slips |
| `handler`, `counters`, `running`, `logs` | the server's task for the request, what `metrics_exposition` renders, the raw log |
| `process` | `process_start_id` |
| `wire`, `reads`, `client`, `at` | frames on the way; the retained reads; the capture; its offsets of dispatch, delivery and close |
| `scrapes`, `pending` | the snapshots by phase; one that was rendered and has not arrived |
| `fate`, `foreign` | the truth: how the request ended, and when somebody else was served |
| `verdict` | the classification of `evaluate_cancellation` |

The fixture server answers the scenario, notices the lost connection and in one step logs the abort twice, counts it
and clears the gauge, since no await separates them. `evaluate_cancellation` guards against more than its fixture
does, so the probe is also put to servers that acknowledge and go on, complete later, restart, serve somebody else, or log
an abort in another form. `Classify` has the order of the code's returns.

`AcceptedIsAborted` is the point of the probe: whatever the scrapes and offsets, the verdict "acknowledged and
drained" is given only if the request was aborted and nobody else was served among the scrapes.
`FixtureDrainIsAccepted` is its converse for the fixture, and shows where the races are: a scrape that was
answered before the abort and arrives at or after it shows the request running, and refuses a drain that
went well. The collector of `tests/test_stage2_cancellation_correction.py` therefore schedules its first drain scrape after the external
abort line, which `Timely` states. `CloseFollowsFirstDelivery` is about frames that are cut and coalesced;
`LostConnectionIsDrained` needs weak fairness of `Server`, the event loop that runs what is ready.

Bounds: two scrapes before and after instead of ten, spans of one tick, a deadline of four: every gate can be met, missed by
one tick, and missed by a slipping schedule. Answers arrive within a tick. `MaxTokens` caps a server that goes on.
A request of somebody else is one that was served and counted; one that starts and is aborted is not modelled.
Left out: the two offsets within one dispatch, the ordinary completion, the request parser.

## Repetition

| Variable | Code |
|---|---|
| `phase`, `began`, `ended` | `phases` of `Stage2RuntimeControlEvidence` |
| `probed`, `steady`, `drained`, `final`, `exited` | `cancellation_probe`, `steady_state_snapshots`, `final_drain_completed_offset_ns`, `final_metric_scrape`, `shutdown_processes` |
| `baseline` | `baseline_snapshot` of `PrometheusMeasurementAttestation` |
| `dispatched`, `finished` | the lifecycles of the measured requests |
| `process`, `counters`, `running` | the server |
| `disturbed`, `together`, `faults` | the truth: whether the window was disturbed, how many requests were open at once, how often something went wrong |

The collector and the server are external; the code is the three validators, as one conjunction `Accepted` of named
gates. A fault is a request of somebody else, a restart, a preemption, a cache hit, a request that is given up and
redone, a third client, a phase left too early, or a collector that comes late. One fault suffices: each gate has to
catch each of them alone, and two can only balance where counters are totals, which is why a foreign
request may end in either of two counters. Three cases are the fewest that queue behind two clients. `MaxTime` lets an undisturbed run end
with a tick to spare for its faults.

`WindowIsExclusive` holds because the tokens, the finish reasons, the preemptions and the gauges are compared together; leaving one
out admits a window that was not. `UndisturbedIsAccepted` says the gates are not too strict, ties included:
a client may send at the very offset at which its last request ended.

What the model shows the code does not claim: the quiet interval is two offsets, so a request of somebody
else that begins after the last steady snapshot and ends before the baseline scrape goes unnoticed; it is
outside the window. Scrapes are atomic, and `process` is stamped as it is: a collector that mislabels the process it scrapes is not modelled. GPU memory, JIT events, disjoint ids and wall clocks are left out.

## RequestEvidence

| Variable | Code |
|---|---|
| `ids`, `stream`, `state`, `arrived` | two exchanges: the request, what the server sends, how far it is |
| `seen` | what the collector observed: the offsets of dispatch, headers and end, and the chunks with the offsets of their frames |
| `sources`, `capture` | which exchange each record is taken from; the records, `Stage2RequestWireCapture` and `RequestIdentityAttestation` |
| `swapped` | the files that are those of the other exchange |
| `verdict` | what the reader says |

The code is in what accepts: `CaptureHolds` (the validators of the exchange and of the capture), `Replays`
(`replay_stage2_wire_capture`, with `Whole` for the validator that `StreamValidator` models in full),
`RawHolds` (the raw files make the capture again, under the id of their directory) and `DerivedHold` (the derived files are those that
follow). A hash is what it is taken of, so a record that names the hash of another one holds a copy of it. A
file holds the identity of its capture and its content. `Assemble` refuses to store what does not hold, as the builder does.

The collector may lose or repeat a chunk, take a broken stream for a whole one, make the
exchange record with the exchange or afterwards of whatever records it has, and take each
record from either of two exchanges: 128 ways. Afterwards up to two files are those of the other exchange, enough for the pairs
that describe the same thing. A lapse and a confused file draw on one bound of two.

A frame is a choice with a number of output ids, maybe the prompt's ids and maybe a finish reason, a usage, `[DONE]` or a comment;
`FramesFit` adds up the ids, as the code does, and does not ask how they are spread over the choices. The model has two streams: two choices of one
id each and a comment between them, and a choice of text without an id before one with both. A lost chunk is therefore not always
missed: nobody counts comments and choices without ids, a lost chunk and a repeated one may balance, and one inside a frame may cut out text or
digits and leave a frame that parses (`stage2_experiment.py:312` allows chunks that complete no frame). What the code does
exclude is `BrokenIsRefused`: of an accepted request everything the server sent had arrived, since the end of a stream
shows in its last frame and nowhere earlier, so a broken connection is not taken for an end.

`NeverFaster` is as strong as it gets. If a request is sent again, the dispatch and headers of the first try with
the body of the second are accepted: times are then longer than they were, never shorter. That a request was sent again shows
in the counters, not here (`Redo` in `Repetition`). `HonestIsAccepted` covers every cutting of a stream into chunks.

A chunk is a number of whole frames, each at a time of its own: frames that are cut, and equal times, are the subject of
`StreamValidator`. Records are taken from one exchange or the other as a whole; single chunks of the two are not mixed.

The exchanges follow one another. Those of two clients overlap, but records of different requests differ in their id
whatever their offsets are. Left out: media types, framing headers, Base64, secrets, provenance.

## AggregateCommit

| Variable | Code |
|---|---|
| `of`, `final` | the attempt whose file each part of the root is; the parts `final-attestation.json` retains |
| `seen`, `told` | the repetition bundles, as `BundleContract` promises them |
| `tied`, `last`, `now` | modification times, as coarse as the file system's clock |
| `synced` | the documents that survive a power loss |
| `temps`, `manifest`, `stable` | temporary files, the aggregate manifest, and the one a power loss may restore |
| `pc`, `draft`, `wrote` | each call of `write_aggregate_manifest_last` |

A root may hold parts of two attempts: a second collector is started after a crash, or while the first one seems to
hang, and replaces what it finds. Everything is copied from something, so a part says which attempt made it,
and `TerminalGraph`, `RootMatches` and `Inventoried` are equalities between those. `Reproducing` says which attempts have the same
outputs in every repetition: attempt 1 has not, so a manifest that claims it or pools it with attempt 2 would be seen.

Bounds: two repetitions (the code requires three; a comparison of any two says the same), two attempts, two ticks, one fault. One
fault is enough for each window between the steps of a writer; the race of two writers needs none.

`VisibleIsTruthful` is about what a manifest says: it lists the parts of one attempt, as the final attestation of that attempt retains them,
and is COMMITTED or INVALID as the comparisons of that attempt come to; no outcome is put together from two. It holds through the
race of two writers, of which the second may replace what the first one published. It does not say which attempt it
is: in `AggregateRace` a writer that tested for a manifest before another one published an INVALID one replaces it by the COMMITTED
manifest of a later attempt, although `docs/failure-semantics.md:69-71` excludes a replacement run.

`PublishedStays` is about a manifest, not about the documents under it. The writer reads those and syncs its own temporary file and the root
(`synced` has the documents that their collector has synced), so a power loss may leave the manifest without them, although
`docs/security-cost-and-provenance.md:65` has every referenced byte synced. `PublishedReconstructs` is therefore conditional on what is listed still being there. The repetition bundles
stand as `BundleContract` has it, that is in a parent that is durable on a file system that syncs directories.

A killed writer leaves its temporary file; every later writer and reader then refuses the root, and no code removes
it. `AggregateTie` is the violated statement of `docs/security-cost-and-provenance.md:64`: the writer does not
compare modification times and the reader does, so a manifest written in the tick of the last document is published and refused. The tests set the times
by hand (`tests/stage2_experiment_factories.py`).

Left out: symlinks, case collisions, the public-safety scan, the scope of the evidence, and what the attestations of CUDA and
environment contain.

## Runs

| Run | Distinct states | Expected |
|---|---|---|
| `BundleLifecycle` | 407 thousand | pass |
| `BundleRace`, `BundleUnrecorded`, `BundleFailedCommit` | | violation |
| `FixtureRun` | 284 thousand | pass |
| `StreamValidator` | 451 thousand | pass |
| `CancellationProbe` | 1.8 million | pass |
| `Repetition` | 1.1 million | pass |
| `RequestEvidence` | 2.8 million | pass |
| `AggregateCommit` | 1.2 million | pass |
| `AggregateRace`, `AggregateTie` | | violation |

`CHECK_DEADLOCK FALSE` in every configuration: a run ends, a builder is dropped, a stream is closed, a verdict is
given. Symmetry is used of repetitions, cases and request ids, which no property orders; no run with symmetry checks liveness.

## What is proved

For any set of builders and files, any `Reconstruct` that yields derived files, and any number of faults and
power losses, whether or not directories are synced and the parent is there, under `BundleAssumption` and, but for the last one,
`Exclusive` (builders of one name do not overlap; without it the properties are false, see `BundleRace`):

| Theorem | Property |
|---|---|
| `TypeCorrect` | `TypeOK` |
| `CommitPermanent` | `CommitIsPermanent` |
| `CommittedWhole` | `CommittedIsWhole` |
| `FailurePermanent` | `FailureIsPermanent` |
| `Refinement` | `ImplementsContract` |
| `MeddlesLittle` (without `Exclusive`) | `MeddlesOnlyBesideOwn` |

None of these properties is inductive. The invariant `IInv` of `BundleLifecycle_proof` adds:

1. `OneAlive`, `PlaceInv`: at most one builder is alive, and while it works only its directory is at a name
   (`Exclusive` gives this, and it is why a path that is resolved anew leads where it did);
2. `DiskInv`: the current value is always among the values that may survive a power loss. What the code can know of the disk is
   `NamesLeft`, `StateLeft` and so on: those values where directories are synced, else only what is visible, until power is lost (`Covered`);
3. `FreshInv`, `KnownInv`, `ExposedInv` (what was made in a parent that may vanish is exposed), `ListedInv`, `WriterInv`, `RecoveryInv`: for every step of a builder, where its directory is and
   what its state file and manifest are, and `IntactInv`: a directory whose work goes on is not INVALID;
4. `EvidenceInv`, `ManifestInv`: a file that was written is on disk for certain with its directory, and a
   manifest exists only once the final name is certain, the state file is certainly gone and every file it lists is
   durable. This is what carries a committed bundle over a power loss;
5. `ToldInv`: what a caller was told is what the only value left on disk says.

All are theorems of `BundleLifecycle_proof`. `Inductive` proves it step by step; each property follows from it at once. `Refinement` shows that
each step maps to a step of `BundleContract` or changes neither `seen` nor `told`; a power loss maps to the
abstract one because a bundle whose caller was told, and that is kept, has one possible value left on disk; of any other bundle the
contract says nothing was told. `MeddlesLittle` has an invariant of its own, `Apart`: it holds of builders that overlap, whatever they do to each other.

For any set of streams, number of output tokens, buffer and clock, and for each of the three callers, under
`StreamAssumption` alone:

| Theorem (`StreamValidator_proof`) | Property |
|---|---|
| `TypeCorrect` | `TypeOK` |
| `OrderOfEvidence` | `EvidenceInOrder` |
| `ContentOfEvidence` | `EvidenceComplete` |
| `CompletedStreamIsTaken` | `CompletedIsTaken` |
| `Refinement` | `ImplementsFourTerminals` |

`EvidenceInOrder` speaks of the frames that arrived, the code only of the terminals it has set. The invariant connects them:
`ShapeInv` says which frames were taken given which terminals are set (only leading frames before the generation, one
that ends it, comments, one usage, comments, `[DONE]` last), `ReadInv` that what was taken has times in order and is
everything that was read once a `feed` is over, and `OrderInv` that the terminals are strictly ordered. They hold until a
refusal; after one they need not, and nothing depends on them. `ContentInv` says what the
validator's fields hold of the frames taken so far: the outputs are the sum of their ids (`Totals`, a function on the prefixes of
a sequence), token events exist once a choice was taken, and prompt ids come from the one choice that carries any.
`ContentOfEvidence` then compares what was returned with the whole stream. `CompletedStreamIsTaken` follows because whatever else could refuse a
completed stream contradicts one of the invariants.

For any repetitions, attempts, attempts that reproduce, writers and clock, and any number of faults, crashes and power losses,
under `AggregateAssumption` (there is a repetition; a replacing writer is one of those there are):

| Theorem (`AggregateCommit_proof`) | Property |
|---|---|
| `TypeCorrect` | `TypeOK` |
| `Truth` | `VisibleIsTruthful` |
| `Stays` | `PublishedStays` |
| `Reconstructible` | `PublishedReconstructs` |

The manifest that is visible was validated by some writer several steps earlier, against a root that other calls may have
changed since. The invariant therefore follows the manifest while it is a draft: `DraftInv` says what a writer has
validated at each of its steps, `RootInv` that every manifest that is visible or may come back after a power loss
was such a draft and is flushed, `StampInv` that modification times run up to
the clock, and `StayInv` that after a caller was told, the root has a manifest and so has what a power loss leaves.

For any cases (at least two), spans, clock and number of faults, under `RepetitionAssumption`:

| Theorem (`Repetition_proof`) | Property |
|---|---|
| `TypeCorrect` | `TypeOK` |
| `Exclusive` | `WindowIsExclusive` |
| `SameThroughout` | `OneServer` |
| `Concurrency` | `TwoAtATime` |
| `Undisturbed` | `UndisturbedIsAccepted` |

TLC tries one fault. That two or more cannot hide each other is what the proof adds. The gates see totals; `GrowthInv` says
that counters never fall within a process, `HistoryInv` that each counter has grown since the baseline by at least what the
measured requests and every disturbance of the window have put there, `DisturbanceInv` that a disturbance left its mark in at least one of
the series that are compared, `OrderInv` and `ClientInv` what the phases reached say of the times and of the
clients, `FinalInv` that the final scrape is a past state of the server; `VerdictInv` then joins
them at the gate. The concurrency needs the greatest overlap of a finite set of intervals; that it exists is induction over
finite sets, done on their strict subset ordering, which needs no operator as a parameter. `Undisturbed` goes the other way:
`CleanInv` says what every phase, snapshot, counter and client is while nothing has gone wrong, with equalities where the
invariants above have bounds, and that no gate has refused.

For any servers, scripts, numbers of scrapes, cadence, spans, patience and clock, under `ProbeAssumption`:

| Theorem (`CancellationProbe_proof`) | Property |
|---|---|
| `TypeCorrect` | `TypeOK` |
| `Aborts` | `AcceptedIsAborted` |
| `Accepts` | `FixtureDrainIsAccepted` |
| `CloseOnDelivery` | `CloseFollowsFirstDelivery` |

A verdict reads snapshots that were answered long before it, so the invariant is about `Taken`, the snapshots with the
one on its way. `TakenInv` orders them: offsets and phases run forward, one precedes the dispatch, and what is not for the
drain has a drain snapshot before it. `HandlerInv` says how far the server is and what the client can know of it.
`PreInv`, `GoesOnInv`, `ServesInv` and `FixtureInv` say what a snapshot shows by when it was taken: nothing before the dispatch; a
server that goes on shows the request running until it has counted its completion, once its abort is logged; a request of
somebody else stands between two snapshots; the fixture shows the aborted request in each scrape that was due after the abort.
`ReadInv` is about the frames. `Aborts` then follows: the cooldown snapshot comes after the logged abort, so a server that is quiet
there and did finish has moved the counter that `CompletedLater` compares, and a foreign request falls between two snapshots
that are compared with each other. `Accepts` goes through `Classify` gate by gate.

For any pairs of exchanges that a collector may observe, clock, and bound on lapses and confused files, under `RequestAssumption`:

| Theorem (`RequestEvidence_proof`) | Property |
|---|---|
| `TypeCorrect` | `TypeOK` |
| `Slower` | `NeverFaster` |
| `NoneBroken` | `BrokenIsRefused` |
| `HonestAccepted` | `HonestIsAccepted` |
| `Unmixed` | `FilesOfOneExchange` |

`TimeInv` says that what was observed of an exchange is in the order it happened, `PairInv` that the second exchange begins after
the first has closed, `CaptureInv` that a capture was put together from two exchanges that were over. `Slower` then takes the
records one by one: the hashes tie the body, the end and the chunks to one exchange, and a dispatch taken from the other one can
only be earlier. `Unmixed` compares the eleven files pairwise by what each repeats of the capture; TLC confuses
two of them, the theorem any number. `NoneBroken` needs `OpenInv`: until the end of a stream has arrived, none of the frames the
collector has seen is `[DONE]`, repeated or not, so none of what it can put together replays. `RequestAssumption` says that the streams of
the server are whole, that is `FramesFit` without their comments, and have `[DONE]` at the end only. `HonestAccepted` needs `ObservedInv`: every chunk has a time for
each of its frames (`CutsInv`), and without a lapse the frames observed are those that were sent, in order and each at a time of
its own, and the chunks follow one another between the response head and the end (`HonestInv`). Each check of the reader then holds.

For any loads, scripts and concurrency, and any number of slow reads and cancellations, under `FixtureAssumption` (a load is
a list of distinct requests without the warmup, scripts are lists of actions, the concurrency is positive):

| Theorem (`FixtureRun_proof`) | Property |
|---|---|
| `TypeCorrect` | `TypeOK` |
| `Refinement` | `ImplementsClosedLoop` |
| `OwnEvidence` | `OwnEvidenceAccepted` |
| `ServerEvidence` | `ServerEventsComplete` |
| `Reproduces` | `ComparesEqual` |

The concurrency bound holds of the log, and the log does not know of permits. `PermitInv` says that every permit is free or held by
a request that was handed it, in flight or not, and that nobody queues while one is free; `Line(s, t)` that
the measured requests in their declared order are those that started, then those that were handed a permit and have not
resumed, then the queue (until the run is aborted, after which nothing starts); `LogInv` which events the log has of a request
by where it is; `StartsAre` that the starts in the log are the first measured requests in order. `ClientInv` says who may be where
in each phase. A start of `ClosedLoop` is then one of `StartTasks`, which starts several at once, or of `Resume`; its end is `Close` of a
measured request; everything else, the warmup included, stutters. `StartedOf` reads the starts off the log by their rank.

The two theorems on evidence rest on `Retention`, the invariant `RetainedInv`. `TableInv` has a line for each request: `Told` says what
its stream events are, given where its client is, `Kept` what the server events are, given where its handler is, and both what may
be on the wire between the two: the frames the client parsed are those it recorded, they were sent in this order, and
it counted the tokens the validator will count in them. `LifecycleInv` is the lifecycle log a validator accepts, so far, and `StopInv` says that
a run that is over has no client and no handler left at work. `OwnEvidence` then goes through `BundleValid` check by check.

`Reproduces` says that a run of a load, neither slow nor cancelled, compares equal to `DeclaredRun`, which is computed
from the scripts alone, exactly if none of its successes was overdue, for any scripts. It rests on `CalmRun`. `CourseInv` has the course of each request: `StopsAt` is the frame
where a client stops reading a script; a client in flight has read a piece of the script that ends before it and has parsed all of that
(`Follows`), and the handler is at the action after the frames it sent (`Plays`), so what the client finds next on the wire, a frame, an end, a
reset or nothing, is what the script has there, and `StopHere` decides whether it stops. A read that times out in a calm run meets a stall, which is
where its script says so. `OpeningInv` has the beginning of the lifecycle log: the warmup starts and ends, then the
first `Width` measured requests start at once, before any ends. With the bound of `LifecycleInv` that fixes the observed
concurrency (`PeakIs`), although how the requests end and the later ones start is left open.

Filters and sums (`Select`, `Totals`, `Events`) are functions on the prefixes of a sequence. The provers cannot
unfold `SelectSeq`, which the standard module defines with a recursive operator, nor use the library's induction theorems, whose parameter is an operator. `Least`
of `Selection_proof` takes the place of induction: a set of numbers that is not empty has a least one; `SelectIs` is
proved by a least counterexample, and `SelectAppend`, `SelectOrdered` and `SelectMapped` from it.

Only model-checked: liveness in any case (`RunEnds`, `LostConnectionIsDrained`; TLAPS has no ENABLED), and the statements
that are violated.

## Hazards

`PROJECT.json` lists them with the properties that catch them. Those without one
have a note that says why.

## Not modelled

* Symlink, path and public-safety checks, file sizes, hashes and canonical JSON: they reject
  inputs and do not interact with the steps. A file keeps its contents because an existing one is never replaced.
* Offsets and timings of stage 1: the order of events stands for them; their chronology checks are
  left out.
* Cutting of a stage 1 stream into chunks: a frame is one chunk in `FixtureRun`, which is how the fixture server writes.
* The request parser of the fixture server: the client sends only what it accepts.
* A failing or cancelled constructor of the HTTP client, and an exception in `aclose` other than a cancellation.
* Stage 0: pure derivations over one artifact. The resource budget, the rule of stable GPU memory, percentiles and rates: numbers.
* The text of a Prometheus exposition, its labels, and the JSON of a completion: a series is there with a value.
* The attestations of CUDA, environment, packages and launch: records that are compared for equality.
* The verification scripts, the command line and schema generation.

## Plan

1. Done: `BundleLifecycle`, `BundleContract`, `StreamValidator`, `FourTerminals` and their proofs;
   `Stage1Evidence`, `FixtureRun`, `ClosedLoop`; `CancellationProbe`, `Repetition`, `RequestEvidence`, `AggregateCommit`.
2. Done: proofs about `AggregateCommit`, `Repetition`, `CancellationProbe`, `RequestEvidence` and `FixtureRun`.
3. `SSEParser`: the byte-level parser over all cuttings of a stream, against a reference that splits
   the whole stream at once; what is lost when a frame raises.
4. `Stage1Artifact`: `atomic_write`, the bundle writer and the file checks of the validator.
5. Operators checked over bounded inputs: percentile, resource budget, GPU stability.
