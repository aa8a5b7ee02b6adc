----------------------------- MODULE Repetition -----------------------------
(***************************************************************************)
(* One repetition of a Stage 2 experiment: a collector takes a server      *)
(* through the runtime phases, sends the excluded and the measured         *)
(* requests, and scrapes the counters around the measured window.  The     *)
(* validators (Stage2RuntimeControlEvidence, Stage2RepetitionAttestation,  *)
(* PrometheusMeasurementAttestation) accept or refuse what it retained.    *)
(* Server and collector are not part of the code; the model has what the   *)
(* validators guard against: somebody else's requests, a restart,          *)
(* preemption, a warm cache, a request that is redone, a collector that    *)
(* does not wait, comes late, or runs a third client.                      *)
(*                                                                         *)
(* The tokens of a request are one unit of the prompt and of the           *)
(* generation counter.  Of the seventeen phases, those are kept whose      *)
(* gates retain times, the two of excluded requests as one; the state of   *)
(* the GPU's memory is left out.                                           *)
(***************************************************************************)
EXTENDS Naturals, Sequences, SequencesExt, FiniteSets, FiniteSetsExt

CONSTANTS
  Cases,                  \* measured requests (16)
  SteadyCount, Cadence,   \* snapshots of the steady state (10), apart (100 ms)
  QuietSpan,              \* of the quiet interval (2 s)
  GateSpan,               \* between a scrape and its gate, at most (1 s)
  MaxTime, MaxFaults      \* bounds on the clock and on what goes wrong

Phases == <<"EXCLUDED", "PROBE", "STEADY", "MEASURED", "DRAIN", "SHUTDOWN", "RESIDUAL">>
Excluded == "excluded"    \* the stabilization and warm-up requests
Foreign == "foreign"      \* a request of somebody else
Requests == Cases \cup {Excluded, Foreign}

ASSUME RepetitionAssumption ==
  /\ IsFiniteSet(Cases) /\ Cardinality(Cases) >= 2 /\ Cases \cap {Excluded, Foreign} = {}
  /\ {SteadyCount, Cadence, QuietSpan, GateSpan, MaxTime} \subseteq Nat \ {0}
  /\ MaxFaults \in Nat

VARIABLES
  now,
  phase,       \* index of the phase under way, Len(Phases) + 1 when all are over
  began, ended,        \* offsets of the phases
  process,     \* which start of the server this is
  counters,
  running,     \* the requests the server counts as running or waiting
  sent,        \* the requests sent so far, except those of somebody else
  dispatched, finished,  \* of each measured request: offsets of dispatch and transport terminal
  probed,      \* when the cancellation probe was drained, and by which server
  steady,      \* the snapshots of the steady state
  baseline, final,  \* the scrapes around the measured window
  drained,     \* when the collector saw the server drained
  exited,      \* when the server exited, and which
  faults,
  disturbed,   \* whether anything but the measured requests touched the window
  together,    \* how many measured requests were open when the clock ticked: a set
  verdict      \* "none", "accepted", "refused"

phaseVars == <<phase, began, ended>>
serverVars == <<process, counters, running>>
clientVars == <<sent, dispatched, finished>>
evidenceVars == <<probed, steady, baseline, final, drained, exited>>
truthVars == <<faults, disturbed, together>>
vars == <<now, phaseVars, serverVars, clientVars, evidenceVars, truthVars, verdict>>

Counters == [tokens : Nat, length : Nat, abort : Nat, preempted : Nat, cached : Nat]
Zero == [tokens |-> 0, length |-> 0, abort |-> 0, preempted |-> 0, cached |-> 0]
Snapshots == [at : Nat, process : Nat, running : Nat, counters : Counters]
Seen == [at : Nat, process : Nat]
NotSeen == [at |-> 0, process |-> 0]
NoScrape == [at |-> 0, process |-> 0, running |-> 0, counters |-> Zero]

TypeOK ==
  /\ now \in 1..MaxTime /\ phase \in 1..(Len(Phases) + 1)
  /\ began \in [DOMAIN Phases -> 0..MaxTime] /\ ended \in [DOMAIN Phases -> 0..MaxTime]
  /\ process \in 1..(MaxFaults + 1) /\ counters \in Counters /\ running \subseteq Requests
  /\ sent \subseteq Cases \cup {Excluded}
  /\ dispatched \in [Cases -> 0..MaxTime] /\ finished \in [Cases -> 0..MaxTime]
  /\ probed \in Seen /\ drained \in 0..MaxTime /\ exited \in Seen
  /\ steady \in Seq(Snapshots) /\ Len(steady) <= SteadyCount
  /\ baseline \in Snapshots /\ final \in Snapshots
  /\ faults \in 0..MaxFaults /\ disturbed \in BOOLEAN
  /\ together \subseteq 0..Cardinality(Cases)
  /\ verdict \in {"none", "accepted", "refused"}

Init ==
  /\ now = 1 /\ phase = 1
  /\ began = [p \in DOMAIN Phases |-> IF p = 1 THEN 1 ELSE 0]
  /\ ended = [p \in DOMAIN Phases |-> 0]
  /\ process = 1 /\ counters = Zero /\ running = {}
  /\ sent = {} /\ dispatched = [c \in Cases |-> 0] /\ finished = [c \in Cases |-> 0]
  /\ probed = NotSeen /\ steady = <<>> /\ baseline = NoScrape /\ final = NoScrape
  /\ drained = 0 /\ exited = NotSeen
  /\ faults = 0 /\ disturbed = FALSE /\ together = {} /\ verdict = "none"

In(name) == phase <= Len(Phases) /\ Phases[phase] = name
Index(name) == CHOOSE p \in DOMAIN Phases : Phases[p] = name

Scraped == [at |-> now, process |-> process, running |-> Cardinality(running), counters |-> counters]
Open == {c \in Cases : dispatched[c] # 0 /\ finished[c] = 0}
Unsent == {c \in Cases : dispatched[c] = 0}
InWindow == baseline # NoScrape /\ final = NoScrape

Go(p) ==
  /\ phase' = p + 1
  /\ ended' = [ended EXCEPT ![p] = now]
  /\ began' = [q \in DOMAIN Phases |-> IF q = p + 1 THEN now ELSE began[q]]

Fault == faults < MaxFaults /\ faults' = faults + 1
\* Whatever is done to the server in the window disturbs it.
Disturb == Fault /\ disturbed' = (disturbed \/ InWindow) /\ UNCHANGED together

-----------------------------------------------------------------------------
(* The server                                                               *)

Counted(counter) ==
  [k \in DOMAIN counters |-> IF k \in {"tokens", counter} THEN counters[k] + 1 ELSE counters[k]]

\* A request ends; its client may have read the end already, or reads it later.
Account(x) ==
  /\ x \in running
  /\ running' = running \ {x}
  /\ \E counter \in IF x = Foreign THEN {"length", "abort"} ELSE {"length"} :
       counters' = Counted(counter)
  /\ UNCHANGED <<now, phaseVars, process, clientVars, evidenceVars, truthVars, verdict>>

\* A request of somebody else.
Arrive ==
  /\ Foreign \notin running /\ exited = NotSeen
  /\ Disturb
  /\ running' = running \cup {Foreign}
  /\ UNCHANGED <<now, phaseVars, process, counters, clientVars, evidenceVars, verdict>>

\* A preemption, or a prompt found in the prefix cache.
Meddle(counter) ==
  /\ running # {}
  /\ Disturb
  /\ counters' = [counters EXCEPT ![counter] = @ + 1]
  /\ UNCHANGED <<now, phaseVars, process, running, clientVars, evidenceVars, verdict>>

Restart ==
  /\ exited = NotSeen
  /\ Disturb
  /\ process' = process + 1 /\ counters' = Zero /\ running' = {}
  /\ UNCHANGED <<now, phaseVars, clientVars, evidenceVars, verdict>>

-----------------------------------------------------------------------------
(* The collector                                                            *)

SendExcluded ==
  /\ In("EXCLUDED") /\ Excluded \notin sent
  /\ sent' = sent \cup {Excluded} /\ running' = running \cup {Excluded}
  /\ UNCHANGED <<now, phaseVars, process, counters, dispatched, finished, evidenceVars,
                 truthVars, verdict>>

\* The probe of CancellationProbe, accepted: its request is aborted and drained.
Probe ==
  /\ In("PROBE") /\ probed = NotSeen
  /\ probed' = [at |-> now, process |-> process]
  /\ counters' = Counted("abort")
  /\ UNCHANGED <<now, phaseVars, process, running, clientVars, steady, baseline, final, drained,
                 exited, truthVars, verdict>>

\* Variant: one snapshot too many.
MaySnapshotOnceMore ==
  Len(steady) <= SteadyCount /\ (steady # <<>> => now >= Last(steady).at + Cadence)
MaySnapshot == Len(steady) < SteadyCount /\ (steady # <<>> => now >= Last(steady).at + Cadence)
Snapshot ==
  /\ In("STEADY") /\ MaySnapshot
  /\ steady' = Append(steady, Scraped)
  /\ UNCHANGED <<now, phaseVars, serverVars, clientVars, probed, baseline, final, drained, exited,
                 truthVars, verdict>>

Baseline ==
  /\ In("MEASURED") /\ baseline = NoScrape
  /\ baseline' = Scraped
  /\ disturbed' = (running # {})
  /\ UNCHANGED <<now, phaseVars, serverVars, clientVars, probed, steady, final, drained, exited,
                 faults, together, verdict>>

\* Two clients, each with one request at a time; a third one is a fault.
MayDispatch == baseline # NoScrape /\ now > baseline.at /\ Unsent # {}
Dispatch(c) ==
  /\ In("MEASURED") /\ MayDispatch /\ c \in Unsent
  /\ IF Cardinality(Open) < 2 THEN UNCHANGED faults ELSE Fault
  /\ sent' = sent \cup {c} /\ running' = running \cup {c}
  /\ dispatched' = [dispatched EXCEPT ![c] = now]
  /\ UNCHANGED <<now, phaseVars, process, counters, finished, evidenceVars, disturbed, together,
                 verdict>>

Deliver(c) ==
  /\ c \in Open /\ now > dispatched[c]
  /\ finished' = [finished EXCEPT ![c] = now]
  /\ UNCHANGED <<now, phaseVars, serverVars, sent, dispatched, evidenceVars, truthVars, verdict>>

\* A client gives up; the server aborts, and the case is sent again.
Redo(c) ==
  /\ c \in Open /\ c \in running
  /\ Disturb
  /\ running' = running \ {c} /\ counters' = Counted("abort")
  /\ dispatched' = [dispatched EXCEPT ![c] = 0]
  /\ UNCHANGED <<now, phaseVars, process, sent, finished, evidenceVars, verdict>>

MayDrain == drained = 0 /\ running = {} /\ now > ended[Index("MEASURED")]
Drain ==
  /\ In("DRAIN") /\ MayDrain
  /\ drained' = now
  /\ UNCHANGED <<now, phaseVars, serverVars, clientVars, probed, steady, baseline, final, exited,
                 truthVars, verdict>>

MayScrape == drained # 0 /\ now > drained /\ final = NoScrape
FinalScrape ==
  /\ In("DRAIN") /\ MayScrape
  /\ final' = Scraped
  /\ UNCHANGED <<now, phaseVars, serverVars, clientVars, probed, steady, baseline, drained, exited,
                 truthVars, verdict>>

Exit ==
  /\ In("SHUTDOWN") /\ exited = NotSeen
  /\ exited' = [at |-> now, process |-> process] /\ running' = {}
  /\ UNCHANGED <<now, phaseVars, process, counters, clientVars, probed, steady, baseline, final,
                 drained, truthVars, verdict>>

\* What the collector waits for before it leaves a phase.
Ready ==
  \/ In("EXCLUDED") /\ Excluded \in sent /\ running = {}
  \/ In("PROBE") /\ probed # NotSeen
  \/ In("STEADY") /\ Len(steady) = SteadyCount /\ now >= Last(steady).at + QuietSpan
  \/ In("MEASURED") /\ Unsent = {} /\ Open = {}
  \/ In("DRAIN") /\ final # NoScrape
  \/ In("SHUTDOWN") /\ exited # NotSeen
  \/ In("RESIDUAL")

NextPhase ==
  /\ phase <= Len(Phases) /\ now > began[phase]
  /\ Ready
  /\ Go(phase)
  /\ UNCHANGED <<now, serverVars, clientVars, evidenceVars, truthVars, verdict>>

\* It leaves too early: the excluded request or a measured one has not ended.
Hurry ==
  /\ \/ In("EXCLUDED") /\ Excluded \in running
     \/ In("MEASURED") /\ Unsent = {} /\ Open # {}
  /\ now > began[phase]
  /\ Fault
  /\ Go(phase)
  /\ UNCHANGED <<now, serverVars, clientVars, evidenceVars, disturbed, together, verdict>>

\* What it may do it does before the clock ticks, unless it comes late.
Punctual ==
  /\ ~(In("EXCLUDED") /\ Excluded \notin sent)
  /\ ~(In("PROBE") /\ probed = NotSeen)
  /\ ~(In("STEADY") /\ MaySnapshot)
  /\ ~(In("MEASURED") /\ baseline = NoScrape)
  /\ ~(In("MEASURED") /\ MayDispatch /\ Cardinality(Open) < 2)
  /\ ~(In("DRAIN") /\ MayDrain)
  /\ ~(In("DRAIN") /\ MayScrape)
  /\ ~(In("SHUTDOWN") /\ exited = NotSeen)
  /\ ~(phase <= Len(Phases) /\ now > began[phase] /\ Ready)

Tick ==
  /\ now < MaxTime /\ verdict = "none"
  /\ IF Punctual THEN UNCHANGED faults ELSE Fault
  /\ now' = now + 1
  /\ together' = IF In("MEASURED") THEN together \cup {Cardinality(Open)} ELSE together
  /\ UNCHANGED <<phaseVars, serverVars, clientVars, evidenceVars, disturbed, verdict>>

-----------------------------------------------------------------------------
(* The validators                                                           *)

Within(p, t) == began[Index(p)] <= t /\ t <= ended[Index(p)]

PhasesInOrder ==
  /\ \A p \in DOMAIN Phases : began[p] < ended[p]
  /\ \A p \in 1..(Len(Phases) - 1) : ended[p] <= began[p + 1]

Quiescent(snapshot) == snapshot.running = 0
\* Variant: the process that shut down is not compared.
SameServerScraped ==
  /\ \A s \in ToSet(steady) \cup {baseline, final} : s.process = 1
  /\ probed.process = 1
SameServer ==
  /\ \A s \in ToSet(steady) \cup {baseline, final} : s.process = 1
  /\ probed.process = 1 /\ exited.process = 1

\* The prefix-cache counters of the first and the last snapshot are the same.
SteadyGate ==
  /\ \A i \in 1..(Len(steady) - 1) : steady[i].at + Cadence <= steady[i + 1].at
  /\ \A s \in ToSet(steady) : Quiescent(s)
  /\ Last(steady).counters.cached = Head(steady).counters.cached
  /\ Within("STEADY", Head(steady).at)
  /\ Last(steady).at + QuietSpan <= ended[Index("STEADY")]

ProbeGate == Within("PROBE", probed.at)

FinalDrain == Within("DRAIN", drained) /\ drained < final.at /\ Within("DRAIN", final.at)
              /\ Quiescent(final)

Shutdown == Within("SHUTDOWN", exited.at)

ControlHolds == PhasesInOrder /\ ProbeGate /\ SteadyGate /\ FinalDrain /\ Shutdown

\* Every case has one record, an interval inside the measured phase.
Lifecycles ==
  \A c \in Cases :
    /\ Within("MEASURED", dispatched[c]) /\ Within("MEASURED", finished[c])
    /\ dispatched[c] < finished[c]

First == Min({dispatched[c] : c \in Cases})
LastTerminal == Max({finished[c] : c \in Cases})

ScrapesPlaced ==
  /\ began[Index("MEASURED")] <= baseline.at /\ baseline.at < First
  /\ LastTerminal <= ended[Index("MEASURED")]
  /\ ended[Index("MEASURED")] < drained /\ drained <= final.at
  /\ First - baseline.at <= GateSpan /\ final.at - drained <= GateSpan

\* A counter that has decreased has no delta.
Delta(counter) == final.counters[counter] - baseline.counters[counter]
Expected ==
  [tokens |-> Cardinality(Cases), length |-> Cardinality(Cases),
   abort |-> 0, preempted |-> 0, cached |-> 0]
\* Variant: preemptions are forgotten among the exact series.
ExactDeltasCompleted ==
  \A k \in DOMAIN Expected \ {"preempted"} :
    final.counters[k] >= baseline.counters[k] /\ Delta(k) = Expected[k]
ExactDeltas ==
  \A k \in DOMAIN Expected : final.counters[k] >= baseline.counters[k] /\ Delta(k) = Expected[k]

WindowHolds ==
  /\ ScrapesPlaced
  /\ Quiescent(baseline) /\ Quiescent(final)
  /\ ExactDeltas

\* At equal offsets a terminal comes before a dispatch.
\* Variant: at equal offsets a dispatch comes before a terminal.
ActiveBefore(t) ==
  Cardinality({c \in Cases : dispatched[c] <= t}) - Cardinality({c \in Cases : finished[c] < t})
ActiveAt(t) ==
  Cardinality({c \in Cases : dispatched[c] <= t}) - Cardinality({c \in Cases : finished[c] <= t})
Offsets == {dispatched[c] : c \in Cases} \cup {finished[c] : c \in Cases}
ObservedConcurrency == Max({ActiveAt(t) : t \in Offsets})
Overlap == \E t \in Offsets : ActiveAt(t) >= 2

\* Variant: two clients at least.
ConcurrencyReached == ObservedConcurrency >= 2 /\ Overlap
ConcurrencyHolds == ObservedConcurrency = 2 /\ Overlap

Accepted == SameServer /\ ControlHolds /\ Lifecycles /\ WindowHolds /\ ConcurrencyHolds

Attest ==
  /\ phase = Len(Phases) + 1 /\ verdict = "none"
  /\ verdict' = IF Accepted THEN "accepted" ELSE "refused"
  /\ UNCHANGED <<now, phaseVars, serverVars, clientVars, evidenceVars, truthVars>>

Collect ==
  \/ SendExcluded \/ Probe \/ Snapshot \/ Baseline \/ Drain \/ FinalScrape \/ Exit
  \/ NextPhase \/ Hurry \/ Attest
  \/ \E c \in Cases : Dispatch(c) \/ Deliver(c) \/ Redo(c)

Serve ==
  \/ \E x \in Requests : Account(x)
  \/ \E k \in {"preempted", "cached"} : Meddle(k)
  \/ Arrive \/ Restart

Next == Tick \/ Collect \/ Serve

Spec == Init /\ [][Next]_vars

-----------------------------------------------------------------------------
(* Properties                                                               *)

\* Between the two scrapes of an accepted window the server has done nothing but
\* the measured requests: whoever else came, went or restarted it has moved a
\* gauge, a counter or the identity of the process (derive_measured_window_deltas).
WindowIsExclusive == verdict = "accepted" => ~disturbed

\* The server that was measured is the one that was warmed up and probed.
OneServer == verdict = "accepted" => process = 1 /\ {Excluded} \cup Cases \subseteq sent

\* Accepted requests have overlapped for some time, and never three of them
\* (_derive_observed_concurrency).
TwoAtATime == verdict = "accepted" => 2 \in together /\ \A n \in together : n <= 2

\* Nothing is refused that was done as it should be: the gates, strict and not,
\* leave room for a collector that waits for what it must and no longer.
UndisturbedIsAccepted == verdict = "refused" => faults > 0
=============================================================================
