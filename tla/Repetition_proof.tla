-------------------------- MODULE Repetition_proof --------------------------
(***************************************************************************)
(* Proofs about Repetition, for any finite set of at least two cases, any  *)
(* number and cadence of snapshots, any spans, any clock and any number of *)
(* faults.                                                                 *)
(***************************************************************************)
EXTENDS Repetition, FiniteSetTheorems, TLAPS

-----------------------------------------------------------------------------
(* Phases by number                                                         *)

LEMMA PhaseCount == Len(Phases) = 7 /\ DOMAIN Phases = 1..7
BY DEF Phases

LEMMA PhaseNames ==
  ASSUME phase \in 1..8
  PROVE  /\ In("EXCLUDED") <=> phase = 1
         /\ In("PROBE") <=> phase = 2
         /\ In("STEADY") <=> phase = 3
         /\ In("MEASURED") <=> phase = 4
         /\ In("DRAIN") <=> phase = 5
         /\ In("SHUTDOWN") <=> phase = 6
         /\ In("RESIDUAL") <=> phase = 7
BY DEF In, Phases

LEMMA PhaseIndex ==
  /\ Index("PROBE") = 2 /\ Index("STEADY") = 3 /\ Index("MEASURED") = 4
  /\ Index("DRAIN") = 5 /\ Index("SHUTDOWN") = 6
BY DEF Index, Phases

-----------------------------------------------------------------------------
(* Finite sets                                                              *)

LEMMA CasesFinite == IsFiniteSet(Cases) /\ Cardinality(Cases) \in Nat /\ Cases # {}
BY FS_CardinalityType, FS_EmptySet, RepetitionAssumption DEF RepetitionAssumption

LEMMA RequestsFinite == \A S \in SUBSET Requests : IsFiniteSet(S) /\ Cardinality(S) \in Nat
<1>1. IsFiniteSet(Requests)
  <2>1. IsFiniteSet(Cases \cup {Excluded}) BY CasesFinite, FS_AddElement
  <2>2. IsFiniteSet((Cases \cup {Excluded}) \cup {Foreign}) BY <2>1, FS_AddElement
  <2>3. Requests = (Cases \cup {Excluded}) \cup {Foreign} BY DEF Requests
  <2> QED BY <2>2, <2>3
<1> QED BY <1>1, FS_Subset, FS_CardinalityType

LEMMA ConstantTypes ==
  /\ SteadyCount \in Nat /\ SteadyCount >= 1 /\ Cadence \in Nat /\ Cadence >= 1
  /\ QuietSpan \in Nat /\ QuietSpan >= 1 /\ GateSpan \in Nat /\ GateSpan >= 1
  /\ MaxTime \in Nat /\ MaxTime >= 1 /\ MaxFaults \in Nat
BY RepetitionAssumption DEF RepetitionAssumption

LEMMA SubsetOfCases ==
  \A S \in SUBSET Cases :
    IsFiniteSet(S) /\ Cardinality(S) \in Nat /\ Cardinality(S) <= Cardinality(Cases)
BY CasesFinite, FS_Subset, FS_CardinalityType

\* By induction on its subsets: one of those without a maximum would be minimal.
LEMMA MaxExists ==
  ASSUME NEW S \in SUBSET Int, IsFiniteSet(S), S # {}
  PROVE  \E x \in S : \A y \in S : x >= y
<1> DEFINE Bad == {U \in SUBSET S : U # {} /\ ~ \E x \in U : \A y \in U : x >= y}
<1>1. SUFFICES ASSUME Bad # {} PROVE FALSE
  OBVIOUS
<1>2. IsWellFoundedOn(StrictSubsetOrdering(S), SUBSET S)
  BY FS_StrictSubsetOrderingWellFounded, FS_FiniteSubsetsOfFinite
<1>3. PICK U \in Bad : \A V \in Bad : ~ (<<V, U>> \in StrictSubsetOrdering(S))
  <2>1. Bad \subseteq SUBSET S OBVIOUS
  <2> HIDE DEF Bad
  <2> QED BY <1>1, <1>2, <2>1, WFMin
<1>4. PICK x \in U : TRUE
  BY <1>3
<1>5. U \ {x} \notin Bad
  <2>1. <<U \ {x}, U>> \in StrictSubsetOrdering(S)
    BY <1>3, <1>4 DEF StrictSubsetOrdering
  <2> QED BY <1>3, <2>1
<1>6. U \ {x} = {} \/ \E m \in U \ {x} : \A y \in U \ {x} : m >= y
  BY <1>3, <1>5
<1>7. \E m \in U : \A y \in U : m >= y
  <2>1. CASE U \ {x} = {}
    BY <1>3, <1>4, <2>1
  <2>2. ASSUME NEW m \in U \ {x}, \A y \in U \ {x} : m >= y PROVE \E n \in U : \A y \in U : n >= y
    <3>1. m \in Int /\ x \in Int /\ \A y \in U : y \in Int BY <1>3, <1>4
    <3>2. CASE m >= x BY <2>2, <3>1, <3>2
    <3>3. CASE x >= m BY <1>4, <2>2, <3>1, <3>3
    <3> QED BY <3>1, <3>2, <3>3
  <2> QED BY <1>6, <2>1, <2>2
<1> QED BY <1>3, <1>7

\* An element is not greater than Max.
LEMMA MaxIsUpper ==
  ASSUME NEW S \in SUBSET Int, IsFiniteSet(S), NEW y \in S
  PROVE  Max(S) \in S /\ y <= Max(S)
<1>1. \E x \in S : \A z \in S : x >= z
  BY MaxExists
<1>2. Max(S) \in S /\ \A z \in S : Max(S) >= z
  BY <1>1 DEF Max
<1> QED BY <1>2

-----------------------------------------------------------------------------
(* Types                                                                    *)

\* A server is restarted by a fault.
TypeInv == TypeOK /\ process <= faults + 1

LEMMA CountedType ==
  ASSUME counters \in Counters, NEW k \in {"length", "abort"}
  PROVE  /\ Counted(k) \in Counters
         /\ Counted(k).tokens = counters.tokens + 1
         /\ Counted(k)[k] = counters[k] + 1
         /\ \A j \in {"length", "abort", "preempted", "cached"} \ {k} : Counted(k)[j] = counters[j]
BY DEF Counters, Counted

LEMMA MeddledType ==
  ASSUME counters \in Counters, NEW k \in {"preempted", "cached"}, Meddle(k)
  PROVE  /\ counters' \in Counters
         /\ counters'[k] = counters[k] + 1
         /\ \A j \in DOMAIN Zero \ {k} : counters'[j] = counters[j]
<1>1. counters' = [counters EXCEPT ![k] = counters[k] + 1]
  BY DEF Meddle
<1>2. DOMAIN Zero = DOMAIN counters
  BY DEF Counters, Zero
<1> HIDE DEF Meddle
<1> QED BY <1>1, <1>2 DEF Counters

LEMMA ScrapedType == TypeOK => Scraped \in Snapshots
BY RequestsFinite, ConstantTypes DEF TypeOK, Scraped, Snapshots

LEMMA OpenType == Open \in SUBSET Cases /\ Cardinality(Open) \in 0..Cardinality(Cases)
BY SubsetOfCases DEF Open

\* What the actions share.
LEMMA GoType ==
  ASSUME TypeOK, phase <= 7, Go(phase)
  PROVE  /\ phase' \in 1..8 /\ phase' \in 1..(Len(Phases) + 1) /\ began' \in [DOMAIN Phases -> 0..MaxTime]
         /\ ended' \in [DOMAIN Phases -> 0..MaxTime]
<1>1. phase \in 1..7 /\ now \in 0..MaxTime
  BY ConstantTypes DEF TypeOK
<1>2. \A q \in DOMAIN Phases : (IF q = phase + 1 THEN now ELSE began[q]) \in 0..MaxTime
  BY <1>1 DEF TypeOK
<1>3. phase' \in 1..8 /\ phase' \in 1..(Len(Phases) + 1)
  BY <1>1, PhaseCount DEF Go
<1>4. began' \in [DOMAIN Phases -> 0..MaxTime]
  BY <1>2 DEF Go
<1>5. ended' \in [DOMAIN Phases -> 0..MaxTime]
  BY <1>1 DEF TypeOK, Go
<1> QED BY <1>3, <1>4, <1>5

LEMMA FaultType ==
  ASSUME TypeOK, Fault
  PROVE  faults' \in 0..MaxFaults /\ faults' = faults + 1
BY ConstantTypes DEF TypeOK, Fault

LEMMA InitType == Init => TypeInv
<1> SUFFICES ASSUME Init PROVE TypeInv
  OBVIOUS
<1>1. counters \in Counters /\ baseline \in Snapshots /\ final \in Snapshots /\ probed \in Seen
      /\ exited \in Seen
  BY DEF Init, Zero, Counters, NotSeen, Seen, NoScrape, Snapshots
<1>2. now \in 1..MaxTime /\ process \in 1..(MaxFaults + 1) /\ drained \in 0..MaxTime
      /\ faults \in 0..MaxFaults /\ process <= faults + 1 /\ phase \in 1..(Len(Phases) + 1)
  BY ConstantTypes, PhaseCount DEF Init
<1>3. began \in [DOMAIN Phases -> 0..MaxTime] /\ ended \in [DOMAIN Phases -> 0..MaxTime]
  BY ConstantTypes DEF Init
<1>4. dispatched \in [Cases -> 0..MaxTime] /\ finished \in [Cases -> 0..MaxTime]
  BY ConstantTypes DEF Init
<1>5. steady \in Seq(Snapshots) /\ Len(steady) <= SteadyCount
  BY ConstantTypes DEF Init
<1>6. running \subseteq Requests /\ sent \subseteq Cases \cup {Excluded} /\ disturbed \in BOOLEAN
      /\ together \subseteq 0..Cardinality(Cases) /\ verdict \in {"none", "accepted", "refused"}
  BY DEF Init
<1> QED BY <1>1, <1>2, <1>3, <1>4, <1>5, <1>6 DEF TypeInv, TypeOK

LEMMA TickType == ASSUME TypeInv, Tick PROVE TypeInv'
<1>1. now' \in 1..MaxTime
  BY ConstantTypes DEF TypeInv, TypeOK, Tick
<1>2. faults' \in 0..MaxFaults /\ process <= faults' + 1
  BY FaultType, ConstantTypes DEF TypeInv, TypeOK, Tick
<1>3. together' \subseteq 0..Cardinality(Cases)
  BY OpenType DEF TypeInv, TypeOK, Tick
<1> QED
  BY <1>1, <1>2, <1>3
     DEF TypeInv, TypeOK, Tick, phaseVars, serverVars, clientVars, evidenceVars

\* Steps of the server.
LEMMA ServeType == ASSUME TypeInv, Serve PROVE TypeInv'
<1> USE DEF phaseVars, serverVars, clientVars, evidenceVars, truthVars
<1>1. ASSUME NEW x \in Requests, Account(x) PROVE TypeInv'
  <2>1. counters' \in Counters
    <3>1. PICK k \in {"length", "abort"} : counters' = Counted(k)
      BY <1>1 DEF Account
    <3>2. counters \in Counters BY DEF TypeInv, TypeOK
    <3> QED BY <3>1, <3>2, CountedType
  <2> QED BY <1>1, <2>1 DEF TypeInv, TypeOK, Account
<1>2. ASSUME NEW k \in {"preempted", "cached"}, Meddle(k) PROVE TypeInv'
  <2>1. counters' \in Counters
    BY <1>2, MeddledType DEF TypeInv, TypeOK
  <2>2. faults' \in 0..MaxFaults /\ faults' = faults + 1 /\ disturbed' \in BOOLEAN
    BY <1>2, FaultType DEF TypeInv, TypeOK, Meddle, Disturb
  <2> QED
    BY <1>2, <2>1, <2>2, ConstantTypes
       DEF TypeInv, TypeOK, Meddle, Disturb
<1>3. CASE Arrive
  <2>1. faults' \in 0..MaxFaults /\ faults' = faults + 1 /\ disturbed' \in BOOLEAN
    BY <1>3, FaultType DEF TypeInv, TypeOK, Arrive, Disturb
  <2> QED
    BY <1>3, <2>1, ConstantTypes
       DEF TypeInv, TypeOK, Arrive, Disturb, Requests
<1>4. CASE Restart
  <2>1. faults' \in 0..MaxFaults /\ faults' = faults + 1 /\ disturbed' \in BOOLEAN
    BY <1>4, FaultType DEF TypeInv, TypeOK, Restart, Disturb
  <2>2. counters' \in Counters
    BY <1>4 DEF Restart, Zero, Counters
  <2> QED
    BY <1>4, <2>1, <2>2, ConstantTypes
       DEF TypeInv, TypeOK, Restart, Disturb
<1> QED BY <1>1, <1>2, <1>3, <1>4 DEF Serve

\* Steps of the collector.
LEMMA CollectType == ASSUME TypeInv, Collect PROVE TypeInv'
<1> USE DEF phaseVars, serverVars, clientVars, evidenceVars, truthVars
<1>0. now \in Nat /\ now >= 1 /\ now <= MaxTime /\ MaxTime \in Nat
  BY ConstantTypes DEF TypeInv, TypeOK
<1>1. CASE SendExcluded
  BY <1>1 DEF TypeInv, TypeOK, SendExcluded, Requests
<1>2. CASE Probe
  <2>1. counters' \in Counters
    BY <1>2, CountedType DEF TypeInv, TypeOK, Probe
  <2>2. probed' \in Seen
    BY <1>0, <1>2 DEF TypeInv, TypeOK, Probe, Seen
  <2> QED BY <1>2, <2>1, <2>2 DEF TypeInv, TypeOK, Probe
<1>3. CASE Snapshot
  <2>1. steady' \in Seq(Snapshots) /\ Len(steady') = Len(steady) + 1 /\ Len(steady) < SteadyCount
    BY <1>3, ScrapedType DEF TypeInv, TypeOK, Snapshot, MaySnapshot
  <2>2. Len(steady') <= SteadyCount
    BY <2>1, ConstantTypes DEF TypeInv, TypeOK
  <2> QED BY <1>3, <2>1, <2>2 DEF TypeInv, TypeOK, Snapshot
<1>4. CASE Baseline
  BY <1>4, ScrapedType DEF TypeInv, TypeOK, Baseline
<1>5. CASE Drain
  BY <1>0, <1>5 DEF TypeInv, TypeOK, Drain
<1>6. CASE FinalScrape
  BY <1>6, ScrapedType DEF TypeInv, TypeOK, FinalScrape
<1>7. CASE Exit
  <2>1. exited' \in Seen
    BY <1>0, <1>7 DEF TypeInv, TypeOK, Exit, Seen
  <2> QED BY <1>7, <2>1 DEF TypeInv, TypeOK, Exit
<1>8. CASE NextPhase
  <2>1. phase <= 7 /\ Go(phase) BY <1>8, PhaseCount DEF NextPhase
  <2>2. TypeOK BY DEF TypeInv
  <2> QED BY <1>8, <2>1, <2>2, GoType DEF TypeInv, TypeOK, NextPhase
<1>9. CASE Hurry
  <2>1. phase <= 7
    BY <1>9, PhaseNames, PhaseCount DEF Hurry, TypeInv, TypeOK
  <2>2. TypeOK /\ Go(phase) /\ Fault BY <1>9 DEF Hurry, TypeInv
  <2>3. faults' \in 0..MaxFaults /\ process <= faults' + 1
    BY <2>2, FaultType, ConstantTypes DEF TypeInv, TypeOK
  <2> QED BY <1>9, <2>1, <2>2, <2>3, GoType DEF TypeInv, TypeOK, Hurry
<1>10. CASE Attest
  BY <1>10 DEF TypeInv, TypeOK, Attest
<1>11. ASSUME NEW c \in Cases, Dispatch(c) PROVE TypeInv'
  <2>1. faults' \in 0..MaxFaults /\ process <= faults' + 1
    BY <1>11, FaultType, ConstantTypes, SMTT(30)
       DEF TypeInv, TypeOK, Dispatch
  <2>2. dispatched' \in [Cases -> 0..MaxTime]
    BY <1>0, <1>11 DEF TypeInv, TypeOK, Dispatch
  <2> QED BY <1>11, <2>1, <2>2 DEF TypeInv, TypeOK, Dispatch, Requests
<1>12. ASSUME NEW c \in Cases, Deliver(c) PROVE TypeInv'
  BY <1>0, <1>12 DEF TypeInv, TypeOK, Deliver
<1>13. ASSUME NEW c \in Cases, Redo(c) PROVE TypeInv'
  <2>1. counters' \in Counters
    BY <1>13, CountedType DEF TypeInv, TypeOK, Redo
  <2>2. faults' \in 0..MaxFaults /\ faults' = faults + 1 /\ disturbed' \in BOOLEAN
    BY <1>13, FaultType DEF TypeInv, TypeOK, Redo, Disturb
  <2> QED
    BY <1>13, <2>1, <2>2, ConstantTypes
       DEF TypeInv, TypeOK, Redo, Disturb
<1> QED BY <1>1, <1>2, <1>3, <1>4, <1>5, <1>6, <1>7, <1>8, <1>9, <1>10, <1>11, <1>12, <1>13 DEF Collect

LEMMA StepType == TypeInv /\ [Next]_vars => TypeInv'
<1> SUFFICES ASSUME TypeInv, [Next]_vars PROVE TypeInv'
  OBVIOUS
<1>1. CASE UNCHANGED vars
  BY <1>1 DEF TypeInv, TypeOK, vars, phaseVars, serverVars, clientVars, evidenceVars, truthVars
<1> QED BY <1>1, TickType, ServeType, CollectType DEF Next

-----------------------------------------------------------------------------
(* The invariant                                                            *)

\* What has been sent and scraped in which phase, and that no server starts
\* once one was seen to exit.
OrderInv ==
  /\ running \cap (Cases \cup {Excluded}) \subseteq sent
  /\ phase > 1 => Excluded \in sent
  /\ phase > 4 => Cases \subseteq sent /\ baseline # NoScrape
  /\ baseline # NoScrape => phase >= 4 /\ baseline.at <= now
  /\ Cases \cap sent # {} => baseline # NoScrape
  /\ final # NoScrape => phase >= 5
  /\ phase > 5 => final # NoScrape
  /\ phase > 6 => exited # NotSeen
  /\ \A p \in 1..7 : began[p] <= now /\ ended[p] <= now
  /\ exited # NotSeen => phase >= 6 /\ exited.process = process /\ running = {}

\* Every measured request is dispatched after the first scrape, and ends later.
ClientInv ==
  \A c \in Cases :
    /\ dispatched[c] # 0 => c \in sent /\ baseline.at < dispatched[c] /\ dispatched[c] <= now
    /\ finished[c] # 0 => dispatched[c] # 0 /\ dispatched[c] < finished[c] /\ finished[c] <= now

\* The measured requests that the server has ended.
Served == (sent \cap Cases) \ running

\* Counters that a measured window leaves alone.
Moved(cs) == \E k \in {"abort", "preempted", "cached"} : cs[k] > baseline.counters[k]

\* Without a restart the counters only grow in the window, and each measured
\* request that has ended has moved one of them.
GrowthInv ==
  process = 1 /\ InWindow =>
    /\ \A k \in DOMAIN Zero : counters[k] >= baseline.counters[k]
    /\ counters.abort = baseline.counters.abort =>
         counters.length >= baseline.counters.length + Cardinality(Served)

\* Whatever disturbed the window shows: in a counter that should stand still, in
\* a request too many among the finished ones, or in one that still runs.
DisturbanceInv ==
  process = 1 /\ baseline.running = 0 =>
    /\ baseline = NoScrape => ~disturbed
    /\ disturbed /\ InWindow =>
         \/ Moved(counters)
         \/ Foreign \in running
         \/ counters.length > baseline.counters.length + Cardinality(Served)
    /\ disturbed /\ final # NoScrape /\ final.running = 0 =>
         \/ Moved(final.counters)
         \/ final.counters.length > baseline.counters.length + Cardinality(Cases)

\* A final scrape that shows nothing running was taken when nothing ran.
FinalInv == final # NoScrape /\ final.running = 0 => running \cap Cases = {}

\* The lifecycles as of an offset.
Begun(t) == {c \in Cases : dispatched[c] \in 1..t}
Done(t) == {c \in Cases : finished[c] \in 1..t}
Active(t) == Cardinality(Begun(t)) - Cardinality(Done(t))

\* No request was given up and sent again, or the counters tell.
NothingRedone ==
  /\ process = 1
  /\ InWindow => counters.abort = baseline.counters.abort
  /\ final # NoScrape => final.running = 0 /\ final.counters.abort = baseline.counters.abort

\* Then the lifecycles say how many requests were open when the clock ticked.
HistoryInv ==
  NothingRedone =>
    /\ \A t \in 1..(now - 1) :
         phase >= 4 /\ began[4] <= t /\ (phase > 4 => t < ended[4]) => Active(t) \in together
    /\ \A n \in together : n = 0 \/ \E t \in 1..(now - 1) :
         Active(t) >= n /\ \E c \in Cases : dispatched[c] = t
    /\ \E c \in Cases : \A d \in Cases : dispatched[d] <= dispatched[c]

VerdictInv ==
  /\ verdict # "none" => phase = 8
  /\ verdict = "accepted" => process = 1 /\ ~disturbed /\ 2 \in together /\ \A n \in together : n <= 2

IInv ==
  /\ TypeInv /\ OrderInv /\ ClientInv /\ GrowthInv /\ DisturbanceInv /\ FinalInv
  /\ HistoryInv /\ VerdictInv

-----------------------------------------------------------------------------
(* Order                                                                    *)

LEMMA TypeFacts ==
  ASSUME TypeInv
  PROVE  /\ now \in Nat /\ now >= 1 /\ phase \in 1..8 /\ process \in Nat /\ process >= 1
         /\ baseline.at \in Nat /\ baseline.running \in Nat /\ baseline.process \in Nat
         /\ final.at \in Nat /\ final.running \in Nat /\ final.process \in Nat
         /\ counters \in Counters /\ baseline.counters \in Counters /\ final.counters \in Counters
         /\ \A c \in Cases : dispatched[c] \in Nat /\ finished[c] \in Nat
         /\ \A p \in 1..7 : began[p] \in Nat /\ ended[p] \in Nat
         /\ Excluded \notin Cases /\ Foreign \notin Cases
<1>1. now \in Nat /\ now >= 1 /\ phase \in 1..8 /\ process \in Nat /\ process >= 1
  BY PhaseCount, ConstantTypes DEF TypeInv, TypeOK
<1>2. /\ baseline \in Snapshots /\ final \in Snapshots /\ counters \in Counters
  BY DEF TypeInv, TypeOK
<1>3. \A c \in Cases : dispatched[c] \in Nat /\ finished[c] \in Nat
  BY ConstantTypes DEF TypeInv, TypeOK
<1>4. \A p \in 1..7 : began[p] \in Nat /\ ended[p] \in Nat
  <2>1. began \in [1..7 -> 0..MaxTime] /\ ended \in [1..7 -> 0..MaxTime]
    BY PhaseCount DEF TypeInv, TypeOK
  <2> QED BY <2>1, ConstantTypes
<1>5. Excluded \notin Cases /\ Foreign \notin Cases
  BY RepetitionAssumption DEF RepetitionAssumption
<1> QED BY <1>1, <1>2, <1>3, <1>4, <1>5 DEF Snapshots

LEMMA OrderStep == ASSUME TypeInv, OrderInv, ClientInv, Next PROVE OrderInv'
<1> USE TypeFacts, PhaseNames DEF OrderInv, phaseVars, serverVars, clientVars, evidenceVars, truthVars
<1>1. CASE Tick
  BY <1>1 DEF Tick
<1>2. CASE Serve
  <2>1. ASSUME NEW x \in Requests, Account(x) PROVE OrderInv'
    BY <2>1 DEF Account
  <2>2. ASSUME NEW k \in {"preempted", "cached"}, Meddle(k) PROVE OrderInv'
    BY <2>2 DEF Meddle, Disturb
  <2>3. CASE Arrive
    BY <2>3 DEF Arrive, Disturb, Requests, Foreign, Excluded
  <2>4. CASE Restart
    BY <2>4 DEF Restart, Disturb
  <2> QED BY <1>2, <2>1, <2>2, <2>3, <2>4 DEF Serve
<1>3. CASE SendExcluded
  BY <1>3 DEF SendExcluded
<1>4. CASE Probe \/ Snapshot \/ Drain \/ Attest
  BY <1>4 DEF Probe, Snapshot, Drain, Attest
<1>5. CASE Baseline
  BY <1>5 DEF Baseline, Scraped
<1>6. CASE FinalScrape
  BY <1>6 DEF FinalScrape, Scraped, NoScrape
<1>7. CASE Exit
  BY <1>7 DEF Exit, NotSeen
<1>8. CASE NextPhase \/ Hurry
  <2>1. phase' = phase + 1
        /\ UNCHANGED <<now, running, process, sent, baseline, final, exited>>
    BY <1>8 DEF NextPhase, Hurry, Go
  <2>7. \A p \in 1..7 : began'[p] <= now /\ ended'[p] <= now
    <3>1. began' = [q \in DOMAIN Phases |-> IF q = phase + 1 THEN now ELSE began[q]]
          /\ ended' = [ended EXCEPT ![phase] = now]
      BY <1>8 DEF NextPhase, Hurry, Go
    <3>2. DOMAIN ended = 1..7
      BY PhaseCount DEF TypeInv, TypeOK
    <3> QED BY <3>1, <3>2, PhaseCount
  <2>8. phase = 6 => exited # NotSeen
    BY <1>8 DEF NextPhase, Hurry, Ready
  <2>2. phase = 1 => Excluded \in sent
    BY <1>8 DEF NextPhase, Hurry, Ready
  <2>3. phase = 4 => Unsent = {}
    BY <1>8 DEF NextPhase, Hurry, Ready
  <2>4. phase = 4 => Cases \subseteq sent
    BY <2>3 DEF Unsent, ClientInv
  <2>5. phase = 4 => baseline # NoScrape
    BY <2>4, CasesFinite
  <2>6. phase = 5 => final # NoScrape
    BY <1>8 DEF NextPhase, Hurry, Ready
  <2> QED BY <2>1, <2>2, <2>4, <2>5, <2>6, <2>7, <2>8
<1>9. ASSUME NEW c \in Cases, Dispatch(c) PROVE OrderInv'
  BY <1>9 DEF Dispatch, MayDispatch
<1>10. ASSUME NEW c \in Cases, Deliver(c) \/ Redo(c) PROVE OrderInv'
  BY <1>10 DEF Deliver, Redo, Disturb
<1> QED BY <1>1, <1>2, <1>3, <1>4, <1>5, <1>6, <1>7, <1>8, <1>9, <1>10 DEF Next, Collect

LEMMA ClientStep == ASSUME TypeInv, OrderInv, ClientInv, Next PROVE ClientInv'
<1> USE TypeFacts, PhaseNames DEF ClientInv, phaseVars, serverVars, clientVars, evidenceVars, truthVars
<1>1. CASE Tick
  BY <1>1 DEF Tick
<1>2. CASE Serve
  BY <1>2 DEF Serve, Account, Arrive, Meddle, Restart, Disturb
<1>3. CASE SendExcluded \/ Probe \/ Snapshot \/ Drain \/ FinalScrape \/ Exit \/ Attest
  BY <1>3 DEF SendExcluded, Probe, Snapshot, Drain, FinalScrape, Exit, Attest
<1>4. CASE Baseline
  <2>1. \A c \in Cases : dispatched[c] = 0 /\ finished[c] = 0
    BY <1>4 DEF Baseline, OrderInv
  <2> QED BY <1>4, <2>1 DEF Baseline
<1>5. CASE NextPhase \/ Hurry
  BY <1>5 DEF NextPhase, Hurry
<1>6. ASSUME NEW c \in Cases, Dispatch(c) PROVE ClientInv'
  <2>1. dispatched' = [dispatched EXCEPT ![c] = now] /\ dispatched[c] = 0 /\ baseline.at < now
        /\ sent' = sent \cup {c} /\ UNCHANGED <<now, finished, baseline>>
    BY <1>6 DEF Dispatch, MayDispatch, Unsent
  <2> QED BY <2>1 DEF TypeInv, TypeOK
<1>7. ASSUME NEW c \in Cases, Deliver(c) PROVE ClientInv'
  <2>1. finished' = [finished EXCEPT ![c] = now] /\ dispatched[c] # 0 /\ dispatched[c] < now
        /\ UNCHANGED <<now, sent, dispatched, baseline>>
    BY <1>7 DEF Deliver, Open
  <2> QED BY <2>1 DEF TypeInv, TypeOK
<1>8. ASSUME NEW c \in Cases, Redo(c) PROVE ClientInv'
  <2>1. dispatched' = [dispatched EXCEPT ![c] = 0] /\ finished[c] = 0
        /\ UNCHANGED <<now, sent, finished, baseline>>
    BY <1>8 DEF Redo, Open
  <2> QED BY <2>1 DEF TypeInv, TypeOK
<1> QED BY <1>1, <1>2, <1>3, <1>4, <1>5, <1>6, <1>7, <1>8 DEF Next, Collect

-----------------------------------------------------------------------------
(* The counters of the window                                               *)

LEMMA ServedType ==
  IsFiniteSet(Served) /\ Cardinality(Served) \in Nat /\ Cardinality(Served) <= Cardinality(Cases)
BY SubsetOfCases DEF Served

\* A request that ends makes the served ones at most one more.
LEMMA ServedByEnd ==
  ASSUME NEW x, running' = running \ {x}, sent' = sent
  PROVE  /\ Cardinality(Served') <= Cardinality(Served) + 1
         /\ x \notin Cases => Served' = Served
<1>1. Served' \subseteq Served \cup {x}
  BY DEF Served
<1>2. IsFiniteSet(Served \cup {x}) /\ Cardinality(Served \cup {x}) <= Cardinality(Served) + 1
      /\ Cardinality(Served \cup {x}) \in Nat
  <2>1. IsFiniteSet(Served \cup {x})
        /\ Cardinality(Served \cup {x}) = IF x \in Served THEN Cardinality(Served)
                                         ELSE Cardinality(Served) + 1
    BY ServedType, FS_AddElement
  <2> QED BY <2>1, ServedType
<1>3. Cardinality(Served') <= Cardinality(Served \cup {x}) /\ Cardinality(Served') \in Nat
  BY <1>1, <1>2, FS_Subset, FS_CardinalityType
<1>4. x \notin Cases => Served' = Served
  BY DEF Served
<1> QED BY <1>2, <1>3, <1>4, ServedType

\* One that is sent, or sent again, makes them no more.
LEMMA ServedBySend ==
  ASSUME NEW c \in Cases, running' = running \cup {c}, sent' = sent \cup {c}
  PROVE  Cardinality(Served') <= Cardinality(Served) /\ Cardinality(Served') \in Nat
<1>1. Served' \subseteq Served
  BY DEF Served
<1> QED BY <1>1, ServedType, FS_Subset, FS_CardinalityType

\* What most steps of the collector leave alone.
Aside == UNCHANGED <<process, counters, running, sent, baseline, final, disturbed>>

LEMMA AsideSteps ==
  /\ Tick \/ Snapshot \/ Drain \/ Attest \/ NextPhase \/ Hurry => Aside
  /\ \A c \in Cases : Deliver(c) => Aside
BY DEF Aside, Tick, Snapshot, Drain, Attest, NextPhase, Hurry, Deliver, phaseVars, serverVars,
       clientVars, evidenceVars, truthVars

LEMMA FinalStep == ASSUME TypeInv, OrderInv, FinalInv, Next PROVE FinalInv'
<1> USE TypeFacts, PhaseNames
    DEF FinalInv, OrderInv, phaseVars, serverVars, clientVars, evidenceVars, truthVars
<1>1. CASE Aside
  BY <1>1 DEF Aside
<1>2. CASE Serve
  <2>1. ASSUME NEW x \in Requests, Account(x) PROVE FinalInv'
    BY <2>1 DEF Account
  <2>2. ASSUME NEW k \in {"preempted", "cached"}, Meddle(k) PROVE FinalInv'
    BY <2>2 DEF Meddle, Disturb
  <2>3. CASE Arrive \/ Restart
    BY <2>3 DEF Arrive, Restart, Disturb
  <2> QED BY <1>2, <2>1, <2>2, <2>3 DEF Serve
<1>3. CASE SendExcluded \/ Probe \/ Baseline \/ Exit
  BY <1>3 DEF SendExcluded, Probe, Baseline, Exit
<1>4. CASE FinalScrape
  <2>1. final' = Scraped /\ running' = running
    BY <1>4 DEF FinalScrape
  <2>2. Scraped.running = 0 => running = {}
    BY RequestsFinite, FS_EmptySet DEF Scraped, TypeInv, TypeOK
  <2> QED BY <2>1, <2>2
<1>5. ASSUME NEW c \in Cases, Dispatch(c) PROVE FinalInv'
  BY <1>5 DEF Dispatch
<1>6. ASSUME NEW c \in Cases, Redo(c) PROVE FinalInv'
  BY <1>6 DEF Redo
<1> QED BY AsideSteps, <1>1, <1>2, <1>3, <1>4, <1>5, <1>6 DEF Next, Collect

LEMMA GrowthStep == ASSUME TypeInv, OrderInv, GrowthInv, Next PROVE GrowthInv'
<1> USE TypeFacts, PhaseNames, ServedType
    DEF InWindow, phaseVars, serverVars, clientVars, evidenceVars, truthVars
<1>0. \A k \in DOMAIN Zero : counters[k] \in Nat /\ baseline.counters[k] \in Nat
  BY DEF Zero, Counters
<1>1. CASE Aside
  BY <1>1 DEF Aside, GrowthInv, Served
<1>2. ASSUME NEW x \in Requests, Account(x) PROVE GrowthInv'
  <2>1. PICK k \in {"length", "abort"} : counters' = Counted(k) /\ (k = "abort" => x = Foreign)
    BY <1>2 DEF Account
  <2>2. UNCHANGED <<process, sent, baseline, final>> /\ running' = running \ {x}
    BY <1>2 DEF Account
  <2>3. /\ counters'.tokens = counters.tokens + 1 /\ counters'[k] = counters[k] + 1
        /\ \A j \in {"length", "abort", "preempted", "cached"} \ {k} : counters'[j] = counters[j]
    BY <2>1, CountedType
  <2>4. Cardinality(Served') <= Cardinality(Served) + 1 /\ Cardinality(Served') \in Nat
    BY <2>2, ServedByEnd, SubsetOfCases DEF Served
  <2> QED BY <1>0, <2>1, <2>2, <2>3, <2>4 DEF GrowthInv, Zero
<1>3. ASSUME NEW k \in {"preempted", "cached"}, Meddle(k) PROVE GrowthInv'
  <2>1. counters'[k] = counters[k] + 1 /\ \A j \in DOMAIN Zero \ {k} : counters'[j] = counters[j]
    BY <1>3, MeddledType
  <2>2. UNCHANGED <<process, running, sent, baseline, final>>
    BY <1>3 DEF Meddle
  <2>3. Served' = Served
    BY <2>2 DEF Served
  <2> QED BY <1>0, <2>1, <2>2, <2>3 DEF GrowthInv, Zero
<1>4. CASE Arrive
  <2>1. Served' = Served /\ UNCHANGED <<process, counters, baseline, final>>
    BY <1>4 DEF Arrive, Served
  <2> QED BY <2>1 DEF GrowthInv
<1>5. CASE Restart
  BY <1>5 DEF Restart, GrowthInv
<1>6. CASE SendExcluded \/ Probe \/ Exit
  BY <1>6 DEF SendExcluded, Probe, Exit, OrderInv, GrowthInv
<1>7. CASE Baseline
  <2>1. baseline' = Scraped /\ UNCHANGED <<counters, running, sent, process, final>>
    BY <1>7 DEF Baseline
  <2>2. Served' = {} /\ Cardinality(Served') = 0
    BY <1>7, <2>1, FS_EmptySet DEF Baseline, OrderInv, Served
  <2> QED BY <1>0, <2>1, <2>2 DEF GrowthInv, Scraped, Zero, Counters
<1>8. CASE FinalScrape
  BY <1>8 DEF FinalScrape, GrowthInv, Scraped, NoScrape
<1>9. ASSUME NEW c \in Cases, Dispatch(c) PROVE GrowthInv'
  <2>1. Cardinality(Served') <= Cardinality(Served) /\ Cardinality(Served') \in Nat
        /\ UNCHANGED <<process, counters, baseline, final>>
    BY <1>9, ServedBySend DEF Dispatch
  <2> QED BY <1>0, <2>1 DEF GrowthInv, Zero
<1>10. ASSUME NEW c \in Cases, Redo(c) PROVE GrowthInv'
  <2>1. UNCHANGED <<process, baseline, final>> /\ counters' = Counted("abort")
    BY <1>10 DEF Redo
  <2>2. /\ counters'.tokens = counters.tokens + 1 /\ counters'.abort = counters.abort + 1
        /\ \A j \in {"length", "preempted", "cached"} : counters'[j] = counters[j]
    BY <2>1, CountedType
  <2> QED BY <1>0, <2>1, <2>2 DEF GrowthInv, Zero
<1> QED BY AsideSteps, <1>1, <1>2, <1>3, <1>4, <1>5, <1>6, <1>7, <1>8, <1>9, <1>10
        DEF Next, Collect, Serve

LEMMA DisturbanceStep ==
  ASSUME TypeInv, OrderInv, GrowthInv, DisturbanceInv, Next
  PROVE  DisturbanceInv'
<1> USE TypeFacts, PhaseNames, ServedType
    DEF InWindow, phaseVars, serverVars, clientVars, evidenceVars, truthVars
<1>0. \A k \in DOMAIN Zero : counters[k] \in Nat /\ baseline.counters[k] \in Nat
  BY DEF Zero, Counters
<1>1. CASE Aside
  BY <1>1 DEF Aside, DisturbanceInv, Moved, Served
<1>2. ASSUME NEW x \in Requests, Account(x) PROVE DisturbanceInv'
  <2>1. PICK k \in {"length", "abort"} : counters' = Counted(k) /\ (k = "abort" => x = Foreign)
    BY <1>2 DEF Account
  <2>2. UNCHANGED <<process, sent, baseline, final, disturbed>> /\ running' = running \ {x}
    BY <1>2 DEF Account
  <2>3. /\ counters'[k] = counters[k] + 1
        /\ \A j \in {"length", "abort", "preempted", "cached"} \ {k} : counters'[j] = counters[j]
    BY <2>1, CountedType
  <2>4. /\ Cardinality(Served') <= Cardinality(Served) + 1 /\ Cardinality(Served') \in Nat
        /\ x = Foreign => Served' = Served
    BY <2>2, ServedByEnd, SubsetOfCases DEF Served
  <2>5. Moved(counters) /\ process = 1 /\ baseline.running = 0 /\ InWindow => Moved(counters')
    BY <1>0, <2>3 DEF Moved, Zero
  <2>6. process = 1 /\ InWindow =>
          /\ counters.abort >= baseline.counters.abort
          /\ counters.abort = baseline.counters.abort =>
               counters.length >= baseline.counters.length + Cardinality(Served)
    BY DEF GrowthInv, Zero
  <2>7. k = "abort" /\ process = 1 /\ InWindow => counters'.abort > baseline.counters.abort
    BY <1>0, <2>3, <2>6 DEF Zero
  <2>8. k = "length" => counters'.length = counters.length + 1 /\ counters'.abort = counters.abort
    BY <2>3
  <2>9. counters.length \in Nat /\ baseline.counters.length \in Nat
        /\ counters.abort \in Nat /\ baseline.counters.abort \in Nat
    BY <1>0 DEF Zero
  <2>10. ASSUME process = 1, baseline.running = 0, disturbed, InWindow
         PROVE  \/ Moved(counters')
                \/ Foreign \in running'
                \/ counters'.length > baseline.counters.length + Cardinality(Served')
    <3>1. CASE k = "abort"
      BY <2>7, <2>10, <3>1 DEF Moved
    <3>2. CASE k = "length" /\ Moved(counters)
      BY <2>5, <2>10, <3>2
    <3>3. CASE k = "length" /\ ~Moved(counters) /\ x = Foreign
      <4>1. counters.abort = baseline.counters.abort
        BY <2>6, <2>9, <2>10, <3>3 DEF Moved
      <4> QED BY <2>4, <2>6, <2>8, <2>9, <2>10, <3>3, <4>1
    <3>4. CASE k = "length" /\ ~Moved(counters) /\ x # Foreign
      BY <2>2, <2>4, <2>8, <2>9, <2>10, <3>4 DEF DisturbanceInv
    <3> QED BY <3>1, <3>2, <3>3, <3>4
  <2> QED BY <2>2, <2>10 DEF DisturbanceInv, Moved
<1>3. ASSUME NEW k \in {"preempted", "cached"}, Meddle(k) PROVE DisturbanceInv'
  <2>1. counters'[k] = counters[k] + 1
    BY <1>3, MeddledType
  <2>2. UNCHANGED <<process, baseline, final>> /\ disturbed' = (disturbed \/ InWindow)
    BY <1>3 DEF Meddle, Disturb
  <2>3. process = 1 /\ InWindow => Moved(counters')
    BY <1>0, <2>1 DEF GrowthInv, Moved, Zero
  <2> QED BY <2>2, <2>3 DEF DisturbanceInv, Moved
<1>4. CASE Arrive
  <2>1. UNCHANGED <<process, counters, baseline, final>> /\ disturbed' = (disturbed \/ InWindow)
        /\ Foreign \in running'
    BY <1>4 DEF Arrive, Disturb
  <2> QED BY <2>1 DEF DisturbanceInv, Moved
<1>5. CASE Restart
  BY <1>5 DEF Restart, DisturbanceInv
<1>6. CASE SendExcluded \/ Probe \/ Exit
  <2>1. ~InWindow /\ UNCHANGED <<process, baseline, final, disturbed>>
    BY <1>6 DEF SendExcluded, Probe, Exit, OrderInv
  <2> QED BY <2>1 DEF DisturbanceInv, Moved
<1>7. CASE Baseline
  <2>1. baseline' = Scraped /\ disturbed' = (running # {}) /\ UNCHANGED <<process, final>>
        /\ final = NoScrape
    BY <1>7 DEF Baseline, OrderInv
  <2>2. Scraped.running = 0 => running = {}
    BY RequestsFinite, FS_EmptySet DEF Scraped, TypeInv, TypeOK
  <2> QED BY <2>1, <2>2 DEF DisturbanceInv
<1>8. CASE FinalScrape
  <2>1. /\ final' = Scraped /\ final = NoScrape /\ baseline # NoScrape /\ phase = 5
        /\ UNCHANGED <<process, counters, running, sent, baseline, disturbed>>
    BY <1>8 DEF FinalScrape, MayScrape, OrderInv
  <2>2. Scraped.running = 0 => running = {}
    BY RequestsFinite, FS_EmptySet DEF Scraped, TypeInv, TypeOK
  <2>3. Scraped.counters = counters
    BY DEF Scraped
  <2>4. running = {} => Served = Cases
    BY <2>1 DEF Served, OrderInv
  <2>5. final' # NoScrape
    BY <2>1 DEF Scraped, NoScrape
  <2> QED BY <2>1, <2>2, <2>3, <2>4, <2>5 DEF DisturbanceInv, Moved
<1>9. ASSUME NEW c \in Cases, Dispatch(c) PROVE DisturbanceInv'
  <2>1. Cardinality(Served') <= Cardinality(Served) /\ Cardinality(Served') \in Nat
        /\ UNCHANGED <<process, counters, baseline, final, disturbed>> /\ running \subseteq running'
    BY <1>9, ServedBySend DEF Dispatch
  <2> QED BY <1>0, <2>1 DEF DisturbanceInv, Moved, Zero
<1>10. ASSUME NEW c \in Cases, Redo(c) PROVE DisturbanceInv'
  <2>1. UNCHANGED <<process, baseline, final>> /\ counters' = Counted("abort")
        /\ disturbed' = (disturbed \/ InWindow)
    BY <1>10 DEF Redo, Disturb
  <2>2. counters'.abort = counters.abort + 1
    BY <2>1, CountedType
  <2>3. process = 1 /\ InWindow => Moved(counters')
    BY <1>0, <2>2 DEF GrowthInv, Moved, Zero
  <2> QED BY <2>1, <2>3 DEF DisturbanceInv, Moved
<1> QED BY AsideSteps, <1>1, <1>2, <1>3, <1>4, <1>5, <1>6, <1>7, <1>8, <1>9, <1>10
        DEF Next, Collect, Serve

-----------------------------------------------------------------------------
(* The history of the lifecycles                                            *)

LEMMA CountType ==
  ASSUME NEW t
  PROVE  /\ IsFiniteSet(Begun(t)) /\ Cardinality(Begun(t)) \in Nat
         /\ IsFiniteSet(Done(t)) /\ Cardinality(Done(t)) \in Nat
         /\ Active(t) \in Int /\ Active(t) <= Cardinality(Cases)
BY SubsetOfCases, CasesFinite DEF Begun, Done, Active

\* A request that is dispatched or delivered now changes no earlier count.
LEMMA PastStands ==
  ASSUME TypeInv, ClientInv, NEW c \in Cases,
         \/ UNCHANGED <<dispatched, finished>>
         \/ Dispatch(c)
         \/ Deliver(c)
  PROVE  \A t \in 1..(now - 1) : Active(t)' = Active(t)
<1> SUFFICES ASSUME NEW t \in 1..(now - 1) PROVE Active(t)' = Active(t)
  OBVIOUS
<1>1. \A d \in Cases : (dispatched'[d] \in 1..t <=> dispatched[d] \in 1..t)
                    /\ (finished'[d] \in 1..t <=> finished[d] \in 1..t)
  <2>0. now \in Nat /\ t < now /\ dispatched \in [Cases -> 0..MaxTime] /\ finished \in [Cases -> 0..MaxTime]
    BY TypeFacts DEF TypeInv, TypeOK
  <2>1. CASE UNCHANGED <<dispatched, finished>>
    BY <2>1
  <2>2. CASE Dispatch(c)
    <3>1. dispatched' = [dispatched EXCEPT ![c] = now] /\ dispatched[c] = 0 /\ finished' = finished
      BY <2>2 DEF Dispatch, Unsent
    <3> QED BY <2>0, <3>1
  <2>3. CASE Deliver(c)
    <3>1. finished' = [finished EXCEPT ![c] = now] /\ finished[c] = 0 /\ dispatched' = dispatched
      BY <2>3 DEF Deliver, Open, clientVars
    <3> QED BY <2>0, <3>1
  <2> QED BY <2>1, <2>2, <2>3
<1>2. Begun(t)' = Begun(t) /\ Done(t)' = Done(t)
  BY <1>1 DEF Begun, Done
<1> QED BY <1>2 DEF Active

\* How many requests are open now.
LEMMA ActiveNow ==
  ASSUME TypeInv, ClientInv, NEW t \in Nat, t >= now
  PROVE  Active(t) = Cardinality(Open)
<1>1. Open = Begun(t) \ Done(t) /\ Begun(t) \cap Done(t) = Done(t)
  BY TypeFacts DEF ClientInv, Open, Begun, Done
<1> QED BY <1>1, CountType, FS_Difference DEF Active

\* A request that is redone, and a restart, show for good.
LEMMA NotRedone ==
  ASSUME TypeInv, OrderInv, ClientInv, GrowthInv, FinalInv, Next, NothingRedone'
  PROVE  NothingRedone /\ ~ Restart /\ \A c \in Cases : ~ Redo(c)
<1> USE TypeFacts, PhaseNames
    DEF InWindow, phaseVars, serverVars, clientVars, evidenceVars, truthVars
<1>0. \A k \in DOMAIN Zero : counters[k] \in Nat /\ baseline.counters[k] \in Nat
  BY DEF Zero, Counters
<1>1. process' = 1
  BY DEF NothingRedone
<1>2. ~ Restart
  BY <1>1 DEF Restart
<1>3. ASSUME NEW x \in Requests, Account(x)
      PROVE  UNCHANGED <<process, baseline, final>> /\ counters'.abort >= counters.abort
  <2>1. PICK k \in {"length", "abort"} : counters' = Counted(k)
    BY <1>3 DEF Account
  <2>2. counters'.abort = counters.abort \/ counters'.abort = counters.abort + 1
    BY <2>1, CountedType
  <2> QED BY <1>0, <1>3, <2>2 DEF Account, Zero
<1>4. ASSUME NEW k \in {"preempted", "cached"}, Meddle(k)
      PROVE  UNCHANGED <<process, baseline, final>> /\ counters'.abort = counters.abort
  BY <1>4, MeddledType DEF Meddle, Zero
<1>5. ASSUME NEW c \in Cases, Redo(c) PROVE FALSE
  <2>1. counters' = Counted("abort") /\ UNCHANGED <<process, baseline, final>>
    BY <1>5 DEF Redo
  <2>2. counters'.abort = counters.abort + 1
    BY <2>1, CountedType
  <2>3. process = 1
    BY <1>1, <2>1
  <2>4. baseline # NoScrape
    BY <1>5 DEF Redo, Open, ClientInv, OrderInv
  <2>5. final # NoScrape
    BY <1>0, <2>1, <2>2, <2>3, <2>4 DEF NothingRedone, GrowthInv, Zero
  <2>6. final.running = 0
    BY <2>1, <2>5 DEF NothingRedone
  <2> QED BY <1>5, <2>5, <2>6 DEF Redo, FinalInv
<1>6. ASSUME UNCHANGED <<process, baseline, final>>, counters'.abort >= counters.abort
      PROVE  NothingRedone
  BY <1>0, <1>1, <1>6 DEF NothingRedone, GrowthInv, Zero
<1>7. ASSUME Aside PROVE NothingRedone
  <2>1. counters'.abort >= counters.abort
    BY <1>0, <1>7 DEF Aside, Zero
  <2> QED BY <1>6, <1>7, <2>1 DEF Aside
<1>8. ASSUME SendExcluded \/ Exit \/ Arrive \/ \E c \in Cases : Dispatch(c)
      PROVE  NothingRedone
  <2>1. UNCHANGED <<process, baseline, final, counters>>
    BY <1>8 DEF SendExcluded, Exit, Arrive, Dispatch
  <2>2. counters'.abort >= counters.abort
    BY <1>0, <2>1 DEF Zero
  <2> QED BY <1>6, <2>1, <2>2
<1>9. ASSUME Probe \/ Baseline PROVE NothingRedone
  <2>1. baseline = NoScrape /\ final = NoScrape /\ process' = process
    BY <1>9 DEF Probe, Baseline, OrderInv
  <2> QED BY <1>1, <2>1 DEF NothingRedone
<1>10. ASSUME FinalScrape PROVE NothingRedone
  <2>1. final' = Scraped /\ final = NoScrape /\ UNCHANGED <<process, baseline, counters>>
    BY <1>10 DEF FinalScrape, MayScrape
  <2>2. final' # NoScrape /\ final'.counters = counters
    BY <2>1 DEF Scraped, NoScrape
  <2> QED BY <1>1, <2>1, <2>2 DEF NothingRedone
<1>11. (\E x \in Requests : Account(x)) \/ (\E k \in {"preempted", "cached"} : Meddle(k))
       => NothingRedone
  <2>1. ASSUME NEW x \in Requests, Account(x) PROVE NothingRedone
    BY <1>3, <1>6, <2>1
  <2>2. ASSUME NEW k \in {"preempted", "cached"}, Meddle(k) PROVE NothingRedone
    <3>1. counters'.abort >= counters.abort
      BY <1>0, <1>4, <2>2 DEF Zero
    <3> QED BY <1>4, <1>6, <2>2, <3>1
  <2> QED BY <2>1, <2>2
<1> HIDE DEF NothingRedone
<1>12. NothingRedone
  BY <1>2, <1>5, <1>7, <1>8, <1>9, <1>10, <1>11, AsideSteps DEF Next, Collect, Serve
<1> QED BY <1>2, <1>5, <1>12

LEMMA HistoryStep ==
  ASSUME TypeInv, OrderInv, ClientInv, GrowthInv, FinalInv, HistoryInv, Next
  PROVE  HistoryInv'
<1> USE TypeFacts, PhaseNames
    DEF phaseVars, serverVars, clientVars, evidenceVars, truthVars
<1> SUFFICES ASSUME NothingRedone' PROVE HistoryInv'
  BY DEF HistoryInv
<1>0. /\ \A t \in 1..(now - 1) :
           phase >= 4 /\ began[4] <= t /\ (phase > 4 => t < ended[4]) => Active(t) \in together
      /\ \A n \in together : n = 0 \/ \E t \in 1..(now - 1) :
           Active(t) >= n /\ \E c \in Cases : dispatched[c] = t
      /\ \E c \in Cases : \A d \in Cases : dispatched[d] <= dispatched[c]
  BY NotRedone DEF HistoryInv
<1>1. CASE Tick
  <2>1. /\ now' = now + 1 /\ UNCHANGED <<phaseVars, dispatched, finished>>
        /\ together' = IF phase = 4 THEN together \cup {Cardinality(Open)} ELSE together
    BY <1>1 DEF Tick
  <2>2. \A t : Active(t)' = Active(t)
    BY <2>1 DEF Active, Begun, Done
  <2>3. \A t \in 1..now :
          phase >= 4 /\ began[4] <= t /\ (phase > 4 => t < ended[4]) => Active(t) \in together'
    <3> SUFFICES ASSUME NEW t \in 1..now, phase >= 4, began[4] <= t, phase > 4 => t < ended[4]
                 PROVE  Active(t) \in together'
      OBVIOUS
    <3>1. CASE t < now
      BY <1>0, <2>1, <3>1
    <3>2. CASE t = now
      <4>1. phase = 4 BY <3>2 DEF OrderInv
      <4>2. Active(t) = Cardinality(Open) BY <3>2, ActiveNow
      <4> QED BY <2>1, <4>1, <4>2
    <3> QED BY <3>1, <3>2
  <2>4. \A n \in together' : n = 0 \/ \E t \in 1..now :
          Active(t) >= n /\ \E c \in Cases : dispatched[c] = t
    <3>1. ASSUME NEW n \in together
          PROVE  n = 0 \/ \E t \in 1..now : Active(t) >= n /\ \E c \in Cases : dispatched[c] = t
      BY <1>0
    <3>2. Cardinality(Open) = 0 \/ \E t \in 1..now :
            Active(t) >= Cardinality(Open) /\ \E c \in Cases : dispatched[c] = t
      <4>1. PICK c \in Cases : \A d \in Cases : dispatched[d] <= dispatched[c]
        BY <1>0
      <4>2. Open # {} => dispatched[c] \in 1..now
        BY <4>1 DEF Open, ClientInv
      <4>3. Begun(dispatched[c]) = Begun(now) /\ Done(dispatched[c]) \subseteq Done(now)
        BY <4>1 DEF Begun, Done, ClientInv
      <4>4. Cardinality(Done(dispatched[c])) <= Cardinality(Done(now))
        BY <4>3, CountType, FS_Subset
      <4>5. Active(dispatched[c]) >= Active(now)
        BY <4>3, <4>4, CountType DEF Active
      <4>6. Active(now) = Cardinality(Open)
        BY ActiveNow
      <4> QED BY <4>2, <4>5, <4>6, FS_EmptySet
    <3> QED BY <2>1, <3>1, <3>2
  <2> QED BY <1>0, <2>1, <2>2, <2>3, <2>4 DEF HistoryInv
<1>2. ASSUME UNCHANGED <<now, phase, began, ended, dispatched, finished, together>> PROVE HistoryInv'
  <2>1. \A t : Active(t)' = Active(t)
    BY <1>2 DEF Active, Begun, Done
  <2> QED BY <1>0, <1>2, <2>1 DEF HistoryInv
<1>3. CASE NextPhase \/ Hurry
  <2>1. /\ UNCHANGED <<now, dispatched, finished, together>> /\ phase' = phase + 1
        /\ \A p \in 1..7 : p # phase => ended'[p] = ended[p]
        /\ \A p \in 1..7 : p # phase + 1 => began'[p] = began[p]
        /\ phase = 3 => began'[4] = now
        /\ phase = 4 => ended'[4] = now
    <3>1. /\ began' = [q \in DOMAIN Phases |-> IF q = phase + 1 THEN now ELSE began[q]]
          /\ ended' = [ended EXCEPT ![phase] = now]
      BY <1>3 DEF NextPhase, Hurry, Go
    <3>2. DOMAIN ended = 1..7
      BY PhaseCount DEF TypeInv, TypeOK
    <3> QED BY <1>3, <3>1, <3>2, PhaseCount DEF NextPhase, Hurry, Go
  <2>2. \A t : Active(t)' = Active(t)
    BY <2>1 DEF Active, Begun, Done
  <2>3. \A t \in 1..(now - 1) :
          phase' >= 4 /\ began'[4] <= t /\ (phase' > 4 => t < ended'[4]) => Active(t) \in together
    BY <1>0, <2>1
  <2> QED BY <1>0, <2>1, <2>2, <2>3 DEF HistoryInv
<1>4. ASSUME NEW c \in Cases, Dispatch(c) \/ Deliver(c) PROVE HistoryInv'
  <2>1. UNCHANGED <<now, phase, began, ended, together>>
    BY <1>4 DEF Dispatch, Deliver
  <2>2. \A t \in 1..(now - 1) : Active(t)' = Active(t)
    BY <1>4, PastStands
  <2>3. \A d \in Cases : dispatched[d] # 0 => dispatched'[d] = dispatched[d]
    BY <1>4 DEF Dispatch, Deliver, Unsent, TypeInv, TypeOK
  <2>4. \A n \in together : n = 0 \/ \E t \in 1..(now - 1) :
          Active(t)' >= n /\ \E d \in Cases : dispatched'[d] = t
    <3> SUFFICES ASSUME NEW n \in together, n # 0
                 PROVE  \E t \in 1..(now - 1) : Active(t)' >= n /\ \E d \in Cases : dispatched'[d] = t
      OBVIOUS
    <3>1. PICK t \in 1..(now - 1) : Active(t) >= n /\ \E d \in Cases : dispatched[d] = t
      BY <1>0
    <3>2. Active(t)' >= n /\ \E d \in Cases : dispatched'[d] = t
      BY <2>2, <2>3, <3>1
    <3> QED BY <3>2
  <2>5. \E d \in Cases : \A e \in Cases : dispatched'[e] <= dispatched'[d]
    <3>1. CASE Dispatch(c)
      <4>1. dispatched' = [dispatched EXCEPT ![c] = now]
        BY <3>1 DEF Dispatch
      <4>2. \A e \in Cases : dispatched'[e] <= dispatched'[c]
        BY <4>1 DEF ClientInv, TypeInv, TypeOK
      <4> QED BY <4>2
    <3>2. CASE Deliver(c)
      BY <1>0, <3>2 DEF Deliver
    <3> QED BY <1>4, <3>1, <3>2
  <2> QED BY <1>0, <2>1, <2>2, <2>4, <2>5 DEF HistoryInv
<1>5. CASE SendExcluded \/ Probe \/ Snapshot \/ Baseline \/ Drain \/ FinalScrape \/ Exit \/ Attest
  BY <1>2, <1>5 DEF SendExcluded, Probe, Snapshot, Baseline, Drain, FinalScrape, Exit, Attest
<1>6. CASE \/ \E x \in Requests : Account(x)
           \/ \E k \in {"preempted", "cached"} : Meddle(k)
           \/ Arrive
  BY <1>2, <1>6 DEF Account, Meddle, Arrive, Disturb
<1> QED BY <1>1, <1>3, <1>4, <1>5, <1>6, NotRedone DEF Next, Collect, Serve

-----------------------------------------------------------------------------
(* The verdict                                                              *)

\* In an accepted window nothing was redone or disturbed.
LEMMA AcceptedWindow ==
  ASSUME IInv, phase = 8, Accepted
  PROVE  process = 1 /\ ~disturbed /\ NothingRedone
<1> USE TypeFacts DEF IInv
<1>1. process = 1
  BY DEF Accepted, SameServer, OrderInv, NotSeen
<1>2. baseline # NoScrape /\ final # NoScrape
  BY DEF OrderInv
<1>3. baseline.running = 0 /\ final.running = 0
  BY DEF Accepted, WindowHolds, Quiescent
<1>4. \A k \in DOMAIN Zero : final.counters[k] = baseline.counters[k] + Expected[k]
  <2>1. \A k \in DOMAIN Zero : final.counters[k] \in Nat /\ baseline.counters[k] \in Nat
                            /\ Expected[k] \in Nat
    BY CasesFinite DEF Zero, Counters, Expected
  <2>2. \A k \in DOMAIN Zero : final.counters[k] >= baseline.counters[k]
                            /\ final.counters[k] - baseline.counters[k] = Expected[k]
    BY DEF Accepted, WindowHolds, ExactDeltas, Delta, Expected, Zero
  <2> QED BY <2>1, <2>2
<1>5. /\ final.counters.length = baseline.counters.length + Cardinality(Cases)
      /\ \A k \in {"abort", "preempted", "cached"} : final.counters[k] = baseline.counters[k] + 0
  BY <1>4 DEF Zero, Expected
<1>6. \A k \in {"length", "abort", "preempted", "cached"} :
        final.counters[k] \in Nat /\ baseline.counters[k] \in Nat
  BY DEF Counters
<1>7. ~disturbed
  BY <1>1, <1>2, <1>3, <1>5, <1>6, CasesFinite DEF DisturbanceInv, Moved
<1>8. NothingRedone
  BY <1>1, <1>2, <1>3, <1>5, <1>6 DEF NothingRedone, InWindow
<1> QED BY <1>1, <1>7, <1>8

\* The counts the validator derives are those of the history, and none is open
\* at the end of the measured phase.
LEMMA AcceptedActive ==
  ASSUME TypeInv, Lifecycles, PhasesInOrder
  PROVE  /\ \A t \in Nat : ActiveAt(t) = Active(t)
         /\ \A t \in Nat : t >= ended[4] => Active(t) = 0
         /\ \A t \in Offsets : t \in 1..ended[4] /\ began[4] <= t
         /\ IsFiniteSet(Offsets)
         /\ \A c \in Cases : dispatched[c] \in Offsets
<1> USE TypeFacts
<1>1. \A c \in Cases : /\ began[4] <= dispatched[c] /\ dispatched[c] < finished[c]
                       /\ finished[c] <= ended[4] /\ dispatched[c] <= ended[4]
                       /\ began[4] <= finished[c]
  BY PhaseIndex DEF Lifecycles, Within
<1>2. began[4] >= 1
  <2>1. ended[3] <= began[4] /\ began[3] < ended[3]
    BY PhaseCount DEF PhasesInOrder
  <2> QED BY <2>1
<1>3. ASSUME NEW t \in Nat
      PROVE  /\ {c \in Cases : dispatched[c] <= t} = Begun(t)
             /\ {c \in Cases : finished[c] <= t} = Done(t)
  BY <1>1, <1>2 DEF Begun, Done
<1>4. \A t \in Nat : ActiveAt(t) = Active(t)
  BY <1>3 DEF ActiveAt, Active
<1>5. ASSUME NEW t \in Nat, t >= ended[4] PROVE Active(t) = 0
  <2>1. Begun(t) = Cases /\ Done(t) = Cases
    BY <1>1, <1>2, <1>5 DEF Begun, Done
  <2> QED BY <2>1, CasesFinite DEF Active
<1>6. \A t \in Offsets : t \in 1..ended[4] /\ began[4] <= t
  BY <1>1, <1>2 DEF Offsets
<1>7. IsFiniteSet(Offsets)
  <2>0. 1 \in Int /\ ended[4] \in Int
    OBVIOUS
  <2>1. IsFiniteSet(1..ended[4])
    BY <2>0, FS_Interval
  <2>2. Offsets \subseteq 1..ended[4]
    BY <1>6
  <2> QED BY <2>1, <2>2, FS_Subset
<1> QED BY <1>4, <1>5, <1>6, <1>7 DEF Offsets

\* An overlap of two that the validator derives was seen by the clock, and the
\* clock saw no more.
LEMMA AcceptedOverlap ==
  ASSUME IInv, phase = 8, Accepted
  PROVE  2 \in together /\ \A n \in together : n <= 2
<1> USE TypeFacts DEF IInv
<1>1. NothingRedone
  BY AcceptedWindow
<1>2. /\ \A t \in 1..(now - 1) : began[4] <= t /\ t < ended[4] => Active(t) \in together
      /\ \A n \in together : n = 0 \/ \E t \in 1..(now - 1) :
           Active(t) >= n /\ \E c \in Cases : dispatched[c] = t
  BY <1>1 DEF HistoryInv
<1>3. Lifecycles /\ PhasesInOrder
  BY DEF Accepted, ControlHolds
<1>4. /\ \A t \in Nat : ActiveAt(t) = Active(t)
      /\ \A t \in Nat : t >= ended[4] => Active(t) = 0
      /\ \A t \in Offsets : t \in 1..ended[4] /\ began[4] <= t
      /\ IsFiniteSet(Offsets)
      /\ \A c \in Cases : dispatched[c] \in Offsets
  BY <1>3, AcceptedActive
<1>5. ended[4] \in Nat /\ ended[4] <= now
  BY DEF OrderInv
<1> DEFINE Counts == {ActiveAt(t) : t \in Offsets}
<1>6. Counts \in SUBSET Int /\ IsFiniteSet(Counts)
  <2>1. \A t \in Offsets : ActiveAt(t) = Cardinality(Begun(t)) - Cardinality(Done(t))
    BY <1>4, <1>5 DEF Active
  <2>2. \A t \in Offsets : /\ Cardinality(Begun(t)) \in 0..Cardinality(Cases)
                           /\ Cardinality(Done(t)) \in 0..Cardinality(Cases)
    BY SubsetOfCases DEF Begun, Done
  <2>3. \A t \in Offsets : ActiveAt(t) \in (0 - Cardinality(Cases))..Cardinality(Cases)
    BY <2>1, <2>2, CasesFinite
  <2>4. IsFiniteSet((0 - Cardinality(Cases))..Cardinality(Cases))
    BY CasesFinite, FS_Interval
  <2>5. Counts \subseteq (0 - Cardinality(Cases))..Cardinality(Cases)
    BY <2>3
  <2>6. (0 - Cardinality(Cases))..Cardinality(Cases) \subseteq Int
    BY CasesFinite
  <2> HIDE DEF Counts
  <2>7. IsFiniteSet(Counts)
    BY ONLY <2>4, <2>5, FS_Subset
  <2> QED BY <2>5, <2>6, <2>7
<1>7. 2 \in Counts /\ \A n \in Counts : n <= 2
  <2>1. Max(Counts) = 2
    BY DEF Accepted, ConcurrencyHolds, ObservedConcurrency
  <2>2. PICK t \in Offsets : ActiveAt(t) >= 2
    BY DEF Accepted, ConcurrencyHolds, Overlap
  <2>3. ActiveAt(t) \in Counts
    OBVIOUS
  <2> HIDE DEF Counts
  <2> QED BY <1>6, <2>1, <2>3, MaxIsUpper
<1>8. 2 \in together
  <2>1. PICK t \in Offsets : ActiveAt(t) = 2
    BY <1>7
  <2>2. t \in Nat /\ began[4] <= t /\ 1 <= t /\ Active(t) = 2 /\ t <= ended[4]
    BY <1>4, <1>5, <2>1
  <2>3. t < ended[4]
    BY <1>4, <1>5, <2>2
  <2>4. t \in 1..(now - 1)
    BY <1>5, <2>2, <2>3
  <2> QED BY <1>2, <2>2, <2>3, <2>4
<1>9. ASSUME NEW n \in together PROVE n <= 2
  <2>1. n \in Nat
    BY CasesFinite DEF TypeInv, TypeOK
  <2>2. CASE n = 0
    BY <2>2
  <2>3. CASE n # 0
    <3>1. PICK t \in 1..(now - 1) : Active(t) >= n /\ \E c \in Cases : dispatched[c] = t
      BY <1>2, <2>3
    <3>2. t \in Offsets /\ t \in Nat
      BY <1>4, <3>1
    <3>3. ActiveAt(t) \in Counts /\ ActiveAt(t) = Active(t)
      BY <1>4, <3>2
    <3>4. Active(t) \in Int /\ Active(t) <= 2
      BY <1>7, <3>3, CountType
    <3> QED BY <2>1, <3>1, <3>4
  <2> QED BY <2>2, <2>3
<1> QED BY <1>8, <1>9

LEMMA VerdictStep ==
  ASSUME IInv, Next
  PROVE  VerdictInv'
<1> USE TypeFacts, PhaseNames
    DEF IInv, phaseVars, serverVars, clientVars, evidenceVars, truthVars
<1>1. CASE Attest
  <2>1. phase = 8 /\ UNCHANGED <<phase, process, disturbed, together>>
        /\ verdict' = IF Accepted THEN "accepted" ELSE "refused"
    BY <1>1, PhaseCount DEF Attest
  <2>2. Accepted => process = 1 /\ ~disturbed /\ 2 \in together /\ \A n \in together : n <= 2
    BY <2>1, AcceptedWindow, AcceptedOverlap
  <2> HIDE DEF IInv
  <2> QED BY <2>1, <2>2 DEF VerdictInv
<1>2. CASE Tick
  BY <1>2 DEF Tick, VerdictInv
<1>3. ASSUME UNCHANGED <<verdict, phase, process, together>>, disturbed' = disturbed
      PROVE  VerdictInv'
  BY <1>3 DEF VerdictInv
<1>4. CASE SendExcluded \/ Probe \/ Snapshot \/ Drain \/ FinalScrape \/ Exit
           \/ \E c \in Cases : Dispatch(c) \/ Deliver(c)
  BY <1>3, <1>4 DEF SendExcluded, Probe, Snapshot, Drain, FinalScrape, Exit, Dispatch, Deliver
<1>5. CASE Baseline
  BY <1>5 DEF Baseline, VerdictInv
<1>6. CASE NextPhase \/ Hurry
  <2>1. phase <= 7 /\ UNCHANGED <<verdict, process, together>>
    BY <1>6, PhaseCount DEF NextPhase, Hurry
  <2>2. verdict = "none"
    BY <2>1 DEF VerdictInv
  <2> QED BY <2>1, <2>2 DEF VerdictInv
<1>7. ASSUME phase = 8 PROVE exited # NotSeen /\ ~InWindow
  BY <1>7 DEF OrderInv, InWindow
<1>8. ASSUME Disturb, phase = 8 PROVE disturbed' = disturbed
  BY <1>7, <1>8 DEF Disturb, TypeInv, TypeOK
<1>9. ASSUME UNCHANGED <<verdict, phase, process, together>>, phase = 8 => disturbed' = disturbed
      PROVE  VerdictInv'
  BY <1>9 DEF VerdictInv
<1>10. ASSUME NEW x \in Requests, Account(x) PROVE VerdictInv'
  BY <1>3, <1>10 DEF Account
<1>11. CASE Arrive \/ (\E k \in {"preempted", "cached"} : Meddle(k)) \/ \E c \in Cases : Redo(c)
  <2>1. UNCHANGED <<verdict, phase, process, together>> /\ Disturb
    BY <1>11 DEF Arrive, Meddle, Redo, Disturb
  <2> QED BY <1>8, <1>9, <2>1
<1>12. CASE Restart
  <2>1. phase # 8
    BY <1>7, <1>12 DEF Restart
  <2> QED BY <1>12, <2>1 DEF Restart, Disturb, VerdictInv
<1> QED BY <1>1, <1>2, <1>4, <1>5, <1>6, <1>10, <1>11, <1>12 DEF Next, Collect, Serve

-----------------------------------------------------------------------------
(* The invariant holds                                                      *)

LEMMA InitIInv == Init => IInv
<1> SUFFICES ASSUME Init PROVE IInv
  OBVIOUS
<1>1. TypeInv
  BY InitType
<1>2. OrderInv
  BY PhaseCount DEF Init, OrderInv
<1>3. ClientInv /\ FinalInv /\ VerdictInv
  BY DEF Init, ClientInv, FinalInv, VerdictInv
<1>4. GrowthInv /\ DisturbanceInv
  BY DEF Init, GrowthInv, DisturbanceInv, InWindow
<1>5. HistoryInv
  <2>1. PICK c \in Cases : TRUE
    BY CasesFinite
  <2>2. \A d \in Cases : dispatched[d] <= dispatched[c]
    BY DEF Init
  <2> QED BY <2>2 DEF Init, HistoryInv
<1> QED BY <1>1, <1>2, <1>3, <1>4, <1>5 DEF IInv

LEMMA StepIInv == IInv /\ [Next]_vars => IInv'
<1> SUFFICES ASSUME IInv, [Next]_vars PROVE IInv'
  OBVIOUS
<1>1. CASE Next
  BY <1>1, StepType, OrderStep, ClientStep, GrowthStep, DisturbanceStep, FinalStep, HistoryStep,
     VerdictStep DEF IInv
<1>2. CASE UNCHANGED vars
  <2> USE <1>2 DEF IInv, vars, phaseVars, serverVars, clientVars, evidenceVars, truthVars
  <2>1. TypeInv' /\ OrderInv' /\ ClientInv' /\ FinalInv' /\ VerdictInv'
    BY StepType DEF OrderInv, ClientInv, FinalInv, VerdictInv
  <2>2. GrowthInv' /\ DisturbanceInv'
    BY DEF GrowthInv, DisturbanceInv, InWindow, Moved, Served
  <2>3. HistoryInv'
    BY DEF HistoryInv, NothingRedone, InWindow, Active, Begun, Done
  <2> QED BY <2>1, <2>2, <2>3
<1> QED BY <1>1, <1>2

\* The conjunction of the invariants above holds in every reachable state.
THEOREM Inductive == Spec => []IInv
BY InitIInv, StepIInv, PTL DEF Spec

\* The variables of a repetition have their types.
THEOREM TypeCorrect == Spec => []TypeOK
<1>1. IInv => TypeOK
  BY DEF IInv, TypeInv
<1> QED BY <1>1, Inductive, PTL

\* derive_measured_window_deltas: if the deltas between the two scrapes are exactly
\* those of the measured requests, nothing was running at either and the server
\* is still the first one, then nothing else has touched the server in between.
THEOREM Exclusive == Spec => []WindowIsExclusive
<1>1. IInv => WindowIsExclusive
  BY DEF IInv, VerdictInv, WindowIsExclusive
<1> QED BY <1>1, Inductive, PTL

\* One server has served all requests of an accepted repetition.
THEOREM SameThroughout == Spec => []OneServer
<1>1. IInv => OneServer
  BY DEF IInv, VerdictInv, OrderInv, OneServer
<1> QED BY <1>1, Inductive, PTL

\* _derive_observed_concurrency: the greatest number of open intervals at an
\* offset of the evidence is the greatest number there ever was.
THEOREM Concurrency == Spec => []TwoAtATime
<1>1. IInv => TwoAtATime
  BY DEF IInv, VerdictInv, TwoAtATime
<1> QED BY <1>1, Inductive, PTL

-----------------------------------------------------------------------------
(* A repetition in which nothing goes wrong.  The steps of the faults need   *)
(* not be looked at: they leave a fault behind.  What is left is a run whose *)
(* times, counters and lifecycles are known exactly.                         *)

\* The end of a phase, or of what has passed of it.
Closed(p) == IF phase > p THEN ended[p] ELSE now

PhasesClean ==
  /\ \A p \in 1..7 : p < phase => began[p] < ended[p]
  /\ \A p \in 1..6 : p < phase => began[p + 1] = ended[p]

ServerClean ==
  /\ process = 1 /\ counters.cached = 0 /\ Foreign \notin running
  /\ phase # 1 => Excluded \notin running
  /\ running \cap Unsent = {}
  /\ drained # 0 => running = {}

\* The evidence of the control: what was seen in which phase, and of which server.
ControlClean ==
  /\ phase = 1 => probed = NotSeen
  /\ phase > 2 => probed # NotSeen
  /\ probed # NotSeen => probed.process = 1 /\ began[2] <= probed.at /\ probed.at <= Closed(2)
  /\ exited # NotSeen => began[6] <= exited.at /\ exited.at <= Closed(6)

\* What a snapshot of the steady state has to be.
CleanSnapshot(s, from, to) ==
  /\ s.process = 1 /\ s.running = 0 /\ s.counters.cached = 0
  /\ from <= s.at /\ s.at <= to

SteadyClean ==
  /\ phase < 3 => steady = <<>>
  /\ \A i \in 1..Len(steady) : CleanSnapshot(steady[i], began[3], Closed(3))
  /\ \A i \in 1..(Len(steady) - 1) : steady[i].at + Cadence <= steady[i + 1].at
  /\ phase > 3 =>
       Len(steady) = SteadyCount /\ steady[Len(steady)].at + QuietSpan <= ended[3]

\* A collector that does not come late scrapes at the first tick after the drain.
ScrapesClean ==
  /\ baseline # NoScrape =>
       baseline.process = 1 /\ baseline.running = 0 /\ began[4] <= baseline.at
  /\ drained # 0 => phase >= 5 /\ ended[4] < drained /\ drained <= now
  /\ drained # 0 /\ final = NoScrape => phase = 5 /\ now <= drained + 1
  /\ final # NoScrape =>
       /\ final.process = 1 /\ final.running = 0
       /\ drained # 0 /\ final.at = drained + 1 /\ final.at <= Closed(5)

\* Every request that is sent runs or has ended, and each that has ended was counted.
CountsClean ==
  /\ InWindow =>
       /\ \A k \in {"tokens", "length"} :
            counters[k] + Cardinality(running) = baseline.counters[k] + Cardinality(Cases \ Unsent)
       /\ \A k \in {"abort", "preempted", "cached"} : counters[k] = baseline.counters[k]
  /\ final # NoScrape =>
       /\ \A k \in {"tokens", "length"} :
            final.counters[k] = baseline.counters[k] + Cardinality(Cases)
       /\ \A k \in {"abort", "preempted", "cached"} : final.counters[k] = baseline.counters[k]

\* Never more than two are open, and the first two open at the first tick.
ClientsClean ==
  /\ phase > 4 =>
       \A c \in Cases : dispatched[c] # 0 /\ finished[c] # 0 /\ finished[c] <= ended[4]
  /\ \A t \in Nat : Active(t) <= 2
  /\ baseline # NoScrape /\ now > baseline.at + 1 =>
       \E c, d \in Cases :
         c # d /\ dispatched[c] = baseline.at + 1 /\ dispatched[d] = baseline.at + 1

Clean ==
  /\ PhasesClean /\ ServerClean /\ ControlClean /\ SteadyClean /\ ScrapesClean
  /\ CountsClean /\ ClientsClean

CleanInv == faults = 0 => Clean /\ verdict # "refused"

\* The steps that leave no fault behind.
CleanStep ==
  \/ Tick /\ Punctual
  \/ SendExcluded \/ Probe \/ Snapshot \/ Baseline \/ Drain \/ FinalScrape \/ Exit
  \/ NextPhase \/ Attest
  \/ \E c \in Cases : Dispatch(c) /\ Cardinality(Open) < 2
  \/ \E c \in Cases : Deliver(c)
  \/ \E x \in Requests : Account(x)

LEMMA FaultsStay == ASSUME TypeInv, Next, faults' = 0 PROVE faults = 0 /\ CleanStep
<1> USE DEF truthVars
<1>0. faults \in Nat
  BY ConstantTypes DEF TypeInv, TypeOK
<1>1. ~ Fault
  BY <1>0 DEF Fault
<1>2. CASE Tick
  BY <1>1, <1>2 DEF Tick, CleanStep
<1>3. CASE SendExcluded \/ Probe \/ Snapshot \/ Baseline \/ Drain \/ FinalScrape \/ Exit
           \/ NextPhase \/ Attest
  BY <1>3 DEF CleanStep, SendExcluded, Probe, Snapshot, Baseline, Drain, FinalScrape, Exit,
              NextPhase, Attest
<1>4. ~ Hurry
  BY <1>1 DEF Hurry
<1>5. ASSUME NEW c \in Cases, Dispatch(c) PROVE faults = 0 /\ CleanStep
  <2>1. Cardinality(Open) < 2 /\ faults' = faults
    BY <1>1, <1>5 DEF Dispatch
  <2> QED BY <1>5, <2>1 DEF CleanStep
<1>6. ASSUME NEW c \in Cases, Deliver(c) PROVE faults = 0 /\ CleanStep
  BY <1>6 DEF Deliver, CleanStep
<1>7. ASSUME NEW c \in Cases, Redo(c) PROVE FALSE
  BY <1>1, <1>7 DEF Redo, Disturb
<1>8. ASSUME NEW x \in Requests, Account(x) PROVE faults = 0 /\ CleanStep
  BY <1>8 DEF Account, CleanStep
<1>9. ~ Arrive /\ ~ Restart /\ ~ \E k \in {"preempted", "cached"} : Meddle(k)
  BY <1>1 DEF Arrive, Restart, Meddle, Disturb
<1> QED BY <1>2, <1>3, <1>4, <1>5, <1>6, <1>7, <1>8, <1>9 DEF Next, Collect, Serve

\* What a change of the phase changes.
LEMMA GoFacts ==
  ASSUME TypeInv, NextPhase
  PROVE  /\ phase \in 1..7 /\ phase' = phase + 1 /\ now > began[phase] /\ Ready
         /\ UNCHANGED <<now, serverVars, clientVars, evidenceVars, truthVars, verdict>>
         /\ \A p \in 1..7 : ended'[p] = (IF p = phase THEN now ELSE ended[p])
         /\ \A p \in 1..7 : began'[p] = (IF p = phase + 1 THEN now ELSE began[p])
<1>1. phase \in 1..7
  BY PhaseCount, TypeFacts DEF NextPhase
<1>2. /\ began' = [q \in 1..7 |-> IF q = phase + 1 THEN now ELSE began[q]]
      /\ ended' = [ended EXCEPT ![phase] = now]
  BY PhaseCount DEF NextPhase, Go
<1>3. DOMAIN ended = 1..7
  BY PhaseCount DEF TypeInv, TypeOK
<1> QED BY <1>1, <1>2, <1>3 DEF NextPhase, Go

\* All other steps but a tick leave clock and phases alone.
LEMMA SameTime ==
  ASSUME CleanStep, ~ Tick, ~ NextPhase
  PROVE  UNCHANGED <<now, phase, began, ended>>
BY DEF CleanStep, SendExcluded, Probe, Snapshot, Baseline, Drain, FinalScrape, Exit, Attest,
       Dispatch, Deliver, Account, phaseVars

\* The end of a phase does not move back.
LEMMA ClosedGrows ==
  ASSUME TypeInv, OrderInv, CleanStep, NEW p \in 1..7
  PROVE  /\ Closed(p) \in Nat /\ Closed(p) <= now
         /\ Closed(p)' >= Closed(p)
<1> USE TypeFacts
<1>1. Closed(p) \in Nat /\ Closed(p) <= now
  BY DEF Closed, OrderInv
<1>2. CASE Tick
  BY <1>1, <1>2 DEF Tick, Closed, phaseVars
<1>3. CASE NextPhase
  BY <1>1, <1>3, GoFacts DEF Closed
<1>4. CASE ~ Tick /\ ~ NextPhase
  BY <1>1, <1>4, SameTime DEF Closed
<1> QED BY <1>1, <1>2, <1>3, <1>4

LEMMA PhasesCleanStep == ASSUME TypeInv, OrderInv, PhasesClean, CleanStep PROVE PhasesClean'
<1> USE TypeFacts DEF PhasesClean
<1>1. CASE Tick
  BY <1>1 DEF Tick, phaseVars
<1>2. CASE NextPhase
  BY <1>2, GoFacts
<1>3. CASE ~ Tick /\ ~ NextPhase
  BY <1>3, SameTime
<1> QED BY <1>1, <1>2, <1>3

LEMMA ServerCleanStep ==
  ASSUME TypeInv, OrderInv, ServerClean, ScrapesClean, CleanStep
  PROVE  ServerClean'
<1> USE TypeFacts, PhaseNames
    DEF ServerClean, Unsent, phaseVars, serverVars, clientVars, evidenceVars, truthVars
<1>1. CASE Tick \/ Snapshot \/ Baseline \/ FinalScrape \/ Attest \/ \E c \in Cases : Deliver(c)
  BY <1>1 DEF Tick, Snapshot, Baseline, FinalScrape, Attest, Deliver
<1>2. CASE SendExcluded
  BY <1>2 DEF SendExcluded, ScrapesClean, Excluded, Foreign
<1>3. CASE Probe
  <2>1. counters'.cached = counters.cached
    BY <1>3, CountedType DEF Probe
  <2> QED BY <1>3, <2>1 DEF Probe
<1>4. CASE Drain
  BY <1>4 DEF Drain, MayDrain
<1>5. CASE Exit
  BY <1>5 DEF Exit
<1>6. CASE NextPhase
  <2>1. phase = 1 => running = {}
    BY <1>6, GoFacts DEF Ready
  <2> QED BY <1>6, <2>1, GoFacts
<1>7. ASSUME NEW c \in Cases, Dispatch(c) PROVE ServerClean'
  <2>1. phase = 4 /\ running' = running \cup {c} /\ UNCHANGED <<phase, process, counters, drained>>
    BY <1>7 DEF Dispatch
  <2>2. drained = 0
    BY <2>1 DEF ScrapesClean
  <2>3. Unsent' = Unsent \ {c}
    BY <1>7 DEF Dispatch, TypeInv, TypeOK
  <2>4. running' \cap Unsent' = {}
    BY <2>1, <2>3 DEF ServerClean
  <2> QED BY <2>1, <2>2, <2>4
<1>8. ASSUME NEW x \in Requests, Account(x) PROVE ServerClean'
  <2>1. PICK k \in {"length", "abort"} : counters' = Counted(k)
    BY <1>8 DEF Account
  <2>2. counters'.cached = counters.cached
    BY <2>1, CountedType
  <2> QED BY <1>8, <2>2 DEF Account
<1> QED BY <1>1, <1>2, <1>3, <1>4, <1>5, <1>6, <1>7, <1>8 DEF CleanStep

\* What the control evidence consists of.
LEMMA ControlCleanStep ==
  ASSUME TypeInv, OrderInv, ServerClean, ControlClean, CleanStep
  PROVE  ControlClean'
<1> USE TypeFacts, PhaseNames
    DEF ControlClean, phaseVars, serverVars, clientVars, evidenceVars, truthVars
<1>0. Closed(2)' >= Closed(2) /\ Closed(6)' >= Closed(6)
      /\ Closed(2) \in Nat /\ Closed(6) \in Nat /\ Closed(2)' \in Nat /\ Closed(6)' \in Nat
  <2>1. /\ Closed(2)' >= Closed(2) /\ Closed(6)' >= Closed(6) /\ Closed(2) \in Nat /\ Closed(6) \in Nat
    BY ClosedGrows
  <2>2. now' \in Nat /\ \A p \in 1..7 : ended'[p] \in Nat
    <3>1. CASE Tick
      BY <3>1 DEF Tick
    <3>2. CASE NextPhase
      BY <3>2, GoFacts
    <3>3. CASE ~ Tick /\ ~ NextPhase
      BY <3>3, SameTime
    <3> QED BY <3>1, <3>2, <3>3
  <2> QED BY <2>1, <2>2 DEF Closed
<1>00. probed.at \in Nat /\ exited.at \in Nat
  BY DEF TypeInv, TypeOK, Seen
<1>1. CASE ~ Probe /\ ~ Exit /\ ~ NextPhase
  <2>1. UNCHANGED <<phase, began, probed, exited>>
    BY <1>1 DEF CleanStep, Tick, SendExcluded, Snapshot, Baseline, Drain, FinalScrape, Attest,
                Dispatch, Deliver, Account
  <2> QED BY <1>0, <1>00, <2>1
<1>2. CASE Probe
  <2>1. probed' = [at |-> now, process |-> 1] /\ phase = 2 /\ UNCHANGED <<phase, now, began, exited>>
    BY <1>2 DEF Probe, ServerClean
  <2>2. Closed(2)' = now
    BY <2>1 DEF Closed
  <2> QED BY <1>0, <1>00, <2>1, <2>2 DEF NotSeen, OrderInv
<1>3. CASE Exit
  <2>1. exited' = [at |-> now, process |-> 1] /\ phase = 6 /\ UNCHANGED <<phase, now, began, probed>>
    BY <1>3 DEF Exit, ServerClean
  <2>2. Closed(6)' = now
    BY <2>1 DEF Closed
  <2> QED BY <1>0, <1>00, <2>1, <2>2 DEF OrderInv
<1>4. CASE NextPhase
  <2>1. UNCHANGED <<probed, exited>> /\ phase \in 1..7 /\ phase' = phase + 1
        /\ (phase = 2 => probed # NotSeen)
    BY <1>4, GoFacts DEF Ready
  <2>2. probed # NotSeen => began'[2] = began[2]
    BY <1>4, <2>1, GoFacts
  <2>3. exited # NotSeen => began'[6] = began[6]
    BY <1>4, <2>1, GoFacts DEF OrderInv
  <2> QED BY <1>0, <1>00, <2>1, <2>2, <2>3
<1> QED BY <1>1, <1>2, <1>3, <1>4

\* Between the stabilization and the first scrape nothing runs.
LEMMA RunsNothing ==
  ASSUME TypeInv, OrderInv, ServerClean, phase # 1
  PROVE  running \subseteq Cases /\ (baseline = NoScrape => running = {})
<1>1. running \subseteq Cases
  BY DEF ServerClean, TypeInv, TypeOK, Requests
<1> QED BY <1>1 DEF OrderInv

LEMMA SteadyType ==
  ASSUME TypeInv
  PROVE  /\ Len(steady) \in Nat
         /\ \A i \in 1..Len(steady) : steady[i] \in Snapshots /\ steady[i].at \in Nat
<1>1. steady \in Seq(Snapshots)
  BY DEF TypeInv, TypeOK
<1>2. Len(steady) \in Nat /\ \A i \in 1..Len(steady) : steady[i] \in Snapshots
  BY <1>1
<1>3. \A s \in Snapshots : s.at \in Nat
  BY DEF Snapshots
<1> QED BY <1>2, <1>3

LEMMA SteadyCleanStep ==
  ASSUME TypeInv, OrderInv, ServerClean, SteadyClean, CleanStep
  PROVE  SteadyClean'
<1> USE TypeFacts, PhaseNames, ConstantTypes
    DEF phaseVars, serverVars, clientVars, evidenceVars, truthVars
<1>0. Closed(3)' >= Closed(3) /\ Closed(3) \in Nat /\ Closed(3) <= now
  BY ClosedGrows
<1>00. Closed(3)' \in Nat
  <2>1. now' \in Nat /\ ended'[3] \in Nat
    <3>1. CASE Tick
      BY <3>1 DEF Tick
    <3>2. CASE NextPhase
      BY <3>2, GoFacts
    <3>3. CASE ~ Tick /\ ~ NextPhase
      BY <3>3, SameTime
    <3> QED BY <3>1, <3>2, <3>3
  <2> QED BY <2>1 DEF Closed
<1>01. Len(steady) \in Nat /\ \A i \in 1..Len(steady) : steady[i].at \in Nat
  BY SteadyType
<1>02. ASSUME NEW i \in 1..Len(steady), began'[3] = began[3]
       PROVE  CleanSnapshot(steady[i], began'[3], Closed(3)')
  <2>1. CleanSnapshot(steady[i], began[3], Closed(3)) /\ steady[i].at \in Nat
    BY <1>01 DEF SteadyClean
  <2> QED BY <1>0, <1>00, <1>02, <2>1 DEF CleanSnapshot
<1>1. CASE ~ Snapshot /\ ~ NextPhase
  <2>1. UNCHANGED <<phase, steady>> /\ began'[3] = began[3] /\ ended'[3] = ended[3]
    BY <1>1 DEF CleanStep, Tick, SendExcluded, Probe, Baseline, Drain, FinalScrape, Exit, Attest,
                Dispatch, Deliver, Account
  <2>2. \A i \in 1..Len(steady) : CleanSnapshot(steady[i], began'[3], Closed(3)')
    BY <1>02, <2>1
  <2> HIDE DEF CleanSnapshot
  <2> QED BY ONLY SteadyClean, <2>1, <2>2 DEF SteadyClean
<1>2. CASE NextPhase
  <2>1. steady' = steady /\ phase \in 1..7 /\ phase' = phase + 1
    BY <1>2, GoFacts
  <2>2. steady # <<>> => began'[3] = began[3]
    BY <1>2, <2>1, GoFacts DEF SteadyClean
  <2>3. phase' > 3 =>
          Len(steady) = SteadyCount /\ steady[Len(steady)].at + QuietSpan <= ended'[3]
    <3>1. CASE phase = 3
      <4>1. Len(steady) = SteadyCount /\ now >= Last(steady).at + QuietSpan /\ ended'[3] = now
        BY <1>2, <3>1, GoFacts DEF Ready
      <4>2. Last(steady) = steady[Len(steady)]
        BY DEF Last
      <4>3. Len(steady) \in 1..Len(steady)
        BY <1>01, <4>1
      <4> QED BY <1>01, <4>1, <4>2, <4>3
    <3>2. CASE phase # 3
      <4>1. phase' > 3 => phase > 3 /\ ended'[3] = ended[3]
        BY <1>2, <2>1, <3>2, GoFacts
      <4> QED BY <4>1 DEF SteadyClean
    <3> QED BY <3>1, <3>2
  <2>4. \A i \in 1..Len(steady) : CleanSnapshot(steady[i], began'[3], Closed(3)')
    <3>1. Len(steady) # 0 => steady # <<>>
      OBVIOUS
    <3> QED BY <1>01, <1>02, <2>2, <3>1
  <2>5. phase' < 3 => phase < 3
    BY <2>1
  <2> QED BY ONLY SteadyClean, <2>1, <2>3, <2>4, <2>5 DEF SteadyClean
<1>3. CASE Snapshot
  <2>1. /\ phase = 3 /\ steady' = Append(steady, Scraped) /\ UNCHANGED <<phase, now, began, ended>>
        /\ steady # <<>> => now >= steady[Len(steady)].at + Cadence
    BY <1>3 DEF Snapshot, MaySnapshot, Last
  <2>2. running = {}
    BY <2>1, RunsNothing DEF OrderInv
  <2>3. /\ Scraped.at = now /\ Scraped.process = 1 /\ Scraped.running = 0
        /\ Scraped.counters.cached = 0
    BY <2>2, FS_EmptySet DEF Scraped, ServerClean
  <2>4. Closed(3)' = now /\ began'[3] <= now /\ began'[3] = began[3]
    BY <2>1 DEF Closed, OrderInv
  <2>5. /\ Len(steady') = Len(steady) + 1 /\ steady'[Len(steady) + 1] = Scraped
        /\ \A i \in 1..Len(steady) : steady'[i] = steady[i]
    <3>1. steady \in Seq(Snapshots) /\ Scraped \in Snapshots
      BY ScrapedType DEF TypeInv, TypeOK
    <3> QED BY <2>1, <3>1
  <2>60. \A i \in 1..(Len(steady) + 1) : i = Len(steady) + 1 \/ i \in 1..Len(steady)
    <3>1. \A n \in Nat : \A i \in 1..(n + 1) : i = n + 1 \/ i \in 1..n
      OBVIOUS
    <3> QED BY <1>01, <3>1
  <2>6. ASSUME NEW i \in 1..(Len(steady) + 1)
        PROVE  CleanSnapshot(steady'[i], began'[3], Closed(3)')
    <3>1. CASE i = Len(steady) + 1
      <4>1. steady'[i] = Scraped
        BY <2>5, <3>1
      <4>2. now <= now
        OBVIOUS
      <4> QED BY ONLY <2>3, <2>4, <4>1, <4>2 DEF CleanSnapshot
    <3>2. CASE i # Len(steady) + 1
      <4>1. i \in 1..Len(steady)
        BY <2>60, <3>2
      <4>2. steady'[i] = steady[i]
        BY <2>5, <4>1
      <4> QED BY <1>02, <2>4, <4>1, <4>2
    <3> QED BY <3>1, <3>2
  <2>7. ASSUME NEW i \in 1..Len(steady)
        PROVE  steady'[i].at + Cadence <= steady'[i + 1].at
    <3>1. CASE i = Len(steady)
      <4>1. steady # <<>>
        BY <1>01
      <4> QED BY <1>01, <2>1, <2>3, <2>5, <3>1, <4>1
    <3>2. CASE i # Len(steady)
      <4>1. i \in 1..(Len(steady) - 1) /\ i + 1 \in 1..Len(steady)
        BY <1>01, <3>2
      <4>2. steady'[i] = steady[i] /\ steady'[i + 1] = steady[i + 1]
        BY <2>5, <4>1
      <4> QED BY <4>1, <4>2 DEF SteadyClean
    <3> QED BY <3>1, <3>2
  <2>8. \A i \in 1..(Len(steady') - 1) : i \in 1..Len(steady)
    BY <1>01, <2>5
  <2>9. phase' = 3
    BY <2>1
  <2> QED BY ONLY <2>5, <2>6, <2>7, <2>8, <2>9 DEF SteadyClean
<1> QED BY <1>1, <1>2, <1>3

LEMMA ScrapesCleanStep ==
  ASSUME TypeInv, OrderInv, ServerClean, ScrapesClean, CleanStep
  PROVE  ScrapesClean'
<1> USE TypeFacts, PhaseNames
    DEF ScrapesClean, phaseVars, serverVars, clientVars, evidenceVars, truthVars
<1>0. drained \in Nat
  BY ConstantTypes DEF TypeInv, TypeOK
<1>1. CASE Tick /\ Punctual
  <2>1. now' = now + 1 /\ UNCHANGED <<phase, began, ended, drained, baseline, final>> /\ Punctual
    BY <1>1 DEF Tick
  <2>2. drained # 0 /\ final = NoScrape => now <= drained
    BY <1>0, <2>1 DEF Punctual, MayScrape
  <2> QED BY <1>0, <2>1, <2>2 DEF Closed
<1>2. CASE NextPhase
  <2>1. UNCHANGED <<now, drained, baseline, final>> /\ phase \in 1..7 /\ phase' = phase + 1
        /\ (phase = 5 => final # NoScrape)
    BY <1>2, GoFacts DEF Ready
  <2>2. Closed(5)' = Closed(5)
    BY <1>2, <2>1, GoFacts DEF Closed
  <2>3. baseline # NoScrape => began'[4] = began[4]
    BY <1>2, <2>1, GoFacts DEF OrderInv
  <2>4. drained # 0 => ended'[4] = ended[4]
    BY <1>2, <2>1, GoFacts
  <2> QED BY <1>0, <2>1, <2>2, <2>3, <2>4
<1>3. CASE Baseline
  <2>1. phase = 4 /\ baseline' = Scraped /\ UNCHANGED <<now, phase, began, ended, drained, final>>
    BY <1>3 DEF Baseline
  <2>2. Scraped.running = 0 /\ Scraped.process = 1 /\ Scraped.at = now
    <3>1. running = {}
      BY <1>3, <2>1, RunsNothing DEF Baseline
    <3> QED BY <3>1, FS_EmptySet DEF Scraped, ServerClean
  <2> QED BY <1>0, <2>1, <2>2 DEF OrderInv, Closed
<1>4. CASE Drain
  <2>1. phase = 5 /\ now > ended[4] /\ drained = 0 /\ drained' = now
        /\ UNCHANGED <<now, phase, began, ended, baseline, final>>
    BY <1>4, PhaseIndex DEF Drain, MayDrain
  <2> QED BY <1>0, <2>1 DEF Closed
<1>5. CASE FinalScrape
  <2>1. phase = 5 /\ drained # 0 /\ now > drained /\ final = NoScrape /\ final' = Scraped
        /\ UNCHANGED <<now, phase, began, ended, baseline, drained>>
    BY <1>5 DEF FinalScrape, MayScrape
  <2>2. Scraped.running = 0 /\ Scraped.process = 1 /\ Scraped.at = now
    BY <2>1, FS_EmptySet DEF Scraped, ServerClean
  <2> QED BY <1>0, <2>1, <2>2 DEF Closed
<1>6. CASE \/ SendExcluded \/ Probe \/ Snapshot \/ Exit \/ Attest
           \/ \E c \in Cases : Dispatch(c) \/ Deliver(c)
           \/ \E x \in Requests : Account(x)
  <2>1. UNCHANGED <<now, phase, began, ended, drained, baseline, final>>
    BY <1>6 DEF SendExcluded, Probe, Snapshot, Exit, Attest, Dispatch, Deliver, Account
  <2> QED BY <2>1 DEF Closed
<1> QED BY <1>1, <1>2, <1>3, <1>4, <1>5, <1>6 DEF CleanStep

\* What most steps leave alone of the counting.
Idle == UNCHANGED <<counters, running, dispatched, baseline, final>>

LEMMA IdleSteps ==
  Tick \/ Snapshot \/ Drain \/ Attest \/ NextPhase \/ (\E c \in Cases : Deliver(c)) => Idle
BY DEF Idle, Tick, Snapshot, Drain, Attest, NextPhase, Deliver, serverVars, clientVars, evidenceVars

LEMMA CountsCleanStep ==
  ASSUME TypeInv, OrderInv, ClientInv, ServerClean, ScrapesClean, CountsClean, ClientsClean, CleanStep
  PROVE  CountsClean'
<1> USE TypeFacts, PhaseNames
    DEF InWindow, phaseVars, serverVars, clientVars, evidenceVars, truthVars
<1>0. /\ \A k \in {"tokens", "length", "abort", "preempted", "cached"} :
           counters[k] \in Nat /\ baseline.counters[k] \in Nat
      /\ IsFiniteSet(running) /\ Cardinality(running) \in Nat
      /\ IsFiniteSet(Cases \ Unsent) /\ Cardinality(Cases \ Unsent) \in Nat
  <2>1. running \in SUBSET Requests /\ Cases \ Unsent \in SUBSET Cases
    BY DEF TypeInv, TypeOK
  <2> QED BY <2>1, RequestsFinite, SubsetOfCases DEF Counters
<1>1. CASE Idle
  <2>1. Unsent' = Unsent
    BY <1>1 DEF Idle, Unsent
  <2> QED BY <1>1, <2>1 DEF Idle, CountsClean
<1>2. CASE SendExcluded \/ Probe \/ Exit
  <2>1. ~InWindow /\ UNCHANGED <<baseline, final>>
    BY <1>2 DEF SendExcluded, Probe, Exit, OrderInv
  <2> QED BY <2>1 DEF CountsClean
<1>3. CASE Baseline
  <2>1. phase = 4 /\ baseline = NoScrape /\ baseline' = Scraped
        /\ UNCHANGED <<counters, running, dispatched, final>>
    BY <1>3 DEF Baseline
  <2>2. running = {} /\ Cardinality(running) = 0
    <3>1. running = {}
      BY <2>1, RunsNothing
    <3> QED BY ONLY <3>1, FS_EmptySet
  <2>3. Cases \ Unsent' = {} /\ Cardinality(Cases \ Unsent') = 0
    <3>1. \A c \in Cases : dispatched'[c] = 0
      BY <2>1 DEF ClientInv, OrderInv
    <3>2. Cases \ Unsent' = {}
      BY <3>1 DEF Unsent
    <3> QED BY <3>2, FS_EmptySet
  <2>4. baseline'.counters = counters' /\ counters' = counters /\ running' = running
    BY <2>1 DEF Scraped
  <2>5. final' = NoScrape
    BY <2>1 DEF OrderInv
  <2> QED BY <1>0, <2>2, <2>3, <2>4, <2>5 DEF CountsClean
<1>4. CASE FinalScrape
  <2>1. phase = 5 /\ drained # 0 /\ final = NoScrape /\ final' = Scraped
        /\ UNCHANGED <<counters, running, dispatched, baseline>>
    BY <1>4 DEF FinalScrape, MayScrape
  <2>2. Cardinality(running) = 0
    BY <2>1, FS_EmptySet DEF ServerClean
  <2>3. Cases \ Unsent = Cases
    BY <2>1 DEF ClientsClean, Unsent
  <2>4. InWindow
    BY <2>1 DEF OrderInv
  <2>5. final' # NoScrape /\ final'.counters = counters
    BY <2>1 DEF Scraped, NoScrape
  <2>6. \A k \in {"tokens", "length"} :
          counters[k] + Cardinality(running) = baseline.counters[k] + Cardinality(Cases \ Unsent)
    BY <2>4 DEF CountsClean
  <2>7. \A k \in {"tokens", "length"} :
          final'.counters[k] = baseline.counters[k] + Cardinality(Cases)
    <3>1. Cardinality(Cases \ Unsent) = Cardinality(Cases) /\ Cardinality(Cases) \in Nat
      BY <2>3, CasesFinite
    <3>2. \A k \in {"tokens", "length"} : counters[k] \in Nat /\ final'.counters[k] = counters[k]
      BY <1>0, <2>5
    <3> QED BY ONLY <2>2, <2>6, <3>1, <3>2
  <2>8. \A k \in {"abort", "preempted", "cached"} : final'.counters[k] = baseline.counters[k]
    BY <2>4, <2>5 DEF CountsClean
  <2>9. baseline' = baseline
    BY <2>1
  <2> QED BY ONLY <2>5, <2>7, <2>8, <2>9 DEF CountsClean, InWindow
<1>5. ASSUME NEW c \in Cases, Dispatch(c) PROVE CountsClean'
  <2>1. phase = 4 /\ c \in Unsent /\ running' = running \cup {c}
        /\ UNCHANGED <<counters, baseline, final>>
        /\ dispatched' = [dispatched EXCEPT ![c] = now]
    BY <1>5 DEF Dispatch
  <2>2. c \notin running
    BY <2>1 DEF ServerClean
  <2>3. Cardinality(running') = Cardinality(running) + 1
    BY <1>0, <2>1, <2>2, FS_AddElement
  <2>4. Cases \ Unsent' = (Cases \ Unsent) \cup {c}
    <3>1. \A d \in Cases : dispatched'[d] = IF d = c THEN now ELSE dispatched[d]
      BY <2>1 DEF TypeInv, TypeOK
    <3>2. now # 0
      OBVIOUS
    <3> QED BY ONLY <3>1, <3>2 DEF Unsent
  <2>5. Cardinality(Cases \ Unsent') = Cardinality(Cases \ Unsent) + 1
    BY <1>0, <2>1, <2>4, FS_AddElement
  <2>6. final = NoScrape
    BY <2>1 DEF OrderInv
  <2> QED BY <1>0, <2>1, <2>3, <2>5, <2>6 DEF CountsClean
<1>6. ASSUME NEW x \in Requests, Account(x) PROVE CountsClean'
  <2>1. x \in running /\ running' = running \ {x} /\ UNCHANGED <<dispatched, baseline, final>>
        /\ counters' = Counted("length")
    BY <1>6 DEF Account, ServerClean
  <2>2. Cardinality(running') + 1 = Cardinality(running)
    <3>1. Cardinality(running \ {x}) = Cardinality(running) - 1
      BY <1>0, <2>1, FS_RemoveElement
    <3> QED BY <1>0, <2>1, <3>1
  <2>3. /\ counters'.tokens = counters.tokens + 1 /\ counters'.length = counters.length + 1
        /\ \A k \in {"abort", "preempted", "cached"} : counters'[k] = counters[k]
    BY <2>1, CountedType
  <2>4. Unsent' = Unsent
    BY <2>1 DEF Unsent
  <2>5. Cardinality(running') \in Nat
    BY <1>0, <2>1, FS_RemoveElement, FS_CardinalityType
  <2> QED BY <1>0, <2>1, <2>2, <2>3, <2>4, <2>5 DEF CountsClean
<1> QED BY IdleSteps, <1>1, <1>2, <1>3, <1>4, <1>5, <1>6 DEF CleanStep

\* Two or more have two that differ.
LEMMA TwoDiffer ==
  ASSUME NEW S \in SUBSET Cases, Cardinality(S) >= 2
  PROVE  \E c, d \in S : c # d
<1>1. S # {}
  BY FS_EmptySet
<1>2. PICK c \in S : TRUE
  BY <1>1
<1>3. S # {c}
  BY FS_Singleton
<1> QED BY <1>2, <1>3

\* A dispatch or an answer moves the counts of the offsets from now on by one.
LEMMA ActiveMoves ==
  ASSUME TypeInv, ClientInv, NEW c \in Cases, Dispatch(c) \/ Deliver(c), NEW t \in Nat, t >= now
  PROVE  /\ Dispatch(c) => Active(t)' = Active(t) + 1
         /\ Deliver(c) => Active(t)' = Active(t) - 1
<1> USE TypeFacts
<1>1. ASSUME Dispatch(c) PROVE Active(t)' = Active(t) + 1
  <2>1. dispatched' = [dispatched EXCEPT ![c] = now] /\ dispatched[c] = 0 /\ finished' = finished
    BY <1>1 DEF Dispatch, Unsent
  <2>2. Begun(t)' = Begun(t) \cup {c} /\ c \notin Begun(t) /\ Done(t)' = Done(t)
    BY <2>1 DEF Begun, Done, TypeInv, TypeOK
  <2>3. Cardinality(Begun(t)') = Cardinality(Begun(t)) + 1
    BY <2>2, CountType, FS_AddElement
  <2> QED BY <2>2, <2>3, CountType DEF Active
<1>2. ASSUME Deliver(c) PROVE Active(t)' = Active(t) - 1
  <2>1. finished' = [finished EXCEPT ![c] = now] /\ finished[c] = 0 /\ dispatched' = dispatched
    BY <1>2 DEF Deliver, Open, clientVars
  <2>2. Done(t)' = Done(t) \cup {c} /\ c \notin Done(t) /\ Begun(t)' = Begun(t)
    BY <2>1 DEF Begun, Done, TypeInv, TypeOK
  <2>3. Cardinality(Done(t)') = Cardinality(Done(t)) + 1
    BY <2>2, CountType, FS_AddElement
  <2> QED BY <2>2, <2>3, CountType DEF Active
<1> QED BY <1>1, <1>2

LEMMA ClientsCleanStep ==
  ASSUME TypeInv, OrderInv, ClientInv, ScrapesClean, ClientsClean, CleanStep
  PROVE  ClientsClean'
<1> USE TypeFacts, PhaseNames
    DEF phaseVars, serverVars, clientVars, evidenceVars, truthVars
<1>1. CASE Tick /\ Punctual
  <2>1. now' = now + 1 /\ UNCHANGED <<phase, began, ended, dispatched, finished, baseline>>
    BY <1>1 DEF Tick
  <2>2. \A t \in Nat : Active(t)' = Active(t)
    BY <2>1 DEF Active, Begun, Done
  <2>3. ASSUME baseline # NoScrape, now' > baseline.at + 1, ~ (now > baseline.at + 1)
        PROVE  \E c, d \in Cases :
                 c # d /\ dispatched[c] = baseline.at + 1 /\ dispatched[d] = baseline.at + 1
    <3>1. now = baseline.at + 1
      BY <2>1, <2>3
    <3>2. \A c \in Cases : dispatched[c] # 0 => dispatched[c] = baseline.at + 1
      BY <3>1 DEF ClientInv
    <3>3. phase = 4
      <4>1. \A c \in Cases : finished[c] = 0
        BY <3>1 DEF ClientInv
      <4>2. ~ (phase > 4)
        BY <4>1, CasesFinite DEF ClientsClean
      <4> QED BY <2>3, <4>2 DEF OrderInv
    <3>4. Unsent = {} \/ Cardinality(Open) >= 2
      <4>1. ~ (MayDispatch /\ Cardinality(Open) < 2)
        BY <1>1, <3>3 DEF Punctual
      <4>2. Cardinality(Open) \in Nat
        BY OpenType, CasesFinite
      <4>3. Unsent # {} => MayDispatch
        BY <2>3, <3>1 DEF MayDispatch
      <4> QED BY <4>1, <4>2, <4>3
    <3>5. PICK S \in SUBSET Cases :
            Cardinality(S) >= 2 /\ \A c \in S : dispatched[c] # 0
      <4>1. CASE Unsent = {}
        <5>1. \A c \in Cases : dispatched[c] # 0
          BY <4>1 DEF Unsent
        <5>2. Cardinality(Cases) >= 2
          BY RepetitionAssumption DEF RepetitionAssumption
        <5> QED BY <5>1, <5>2
      <4>2. CASE Cardinality(Open) >= 2
        BY <4>2 DEF Open
      <4> QED BY <3>4, <4>1, <4>2
    <3>6. \E c, d \in S : c # d
      BY <3>5, TwoDiffer
    <3> QED BY <3>2, <3>5, <3>6
  <2>4. baseline' # NoScrape /\ now' > baseline'.at + 1 =>
          \E c, d \in Cases :
            c # d /\ dispatched'[c] = baseline'.at + 1 /\ dispatched'[d] = baseline'.at + 1
    <3>1. CASE now > baseline.at + 1
      BY <2>1, <3>1 DEF ClientsClean
    <3>2. CASE ~ (now > baseline.at + 1)
      BY <2>1, <2>3, <3>2
    <3> QED BY <3>1, <3>2
  <2>5. phase' > 4 => \A c \in Cases : dispatched'[c] # 0 /\ finished'[c] # 0 /\ finished'[c] <= ended'[4]
    BY <2>1 DEF ClientsClean
  <2>6. \A t \in Nat : Active(t)' <= 2
    BY <2>2 DEF ClientsClean
  <2> QED BY ONLY <2>4, <2>5, <2>6 DEF ClientsClean
<1>2. CASE NextPhase
  <2>1. UNCHANGED <<now, dispatched, finished, baseline>> /\ phase \in 1..7 /\ phase' = phase + 1
    BY <1>2, GoFacts
  <2>2. \A t \in Nat : Active(t)' = Active(t)
    BY <2>1 DEF Active, Begun, Done
  <2>3. ASSUME phase' > 4, NEW c \in Cases
        PROVE  dispatched[c] # 0 /\ finished[c] # 0 /\ finished[c] <= ended'[4]
    <3>1. CASE phase = 4
      <4>0. Ready /\ ~ In("EXCLUDED") /\ ~ In("PROBE") /\ ~ In("STEADY") /\ ~ In("DRAIN")
            /\ ~ In("SHUTDOWN") /\ ~ In("RESIDUAL")
        BY <1>2, <3>1, GoFacts
      <4>1. Unsent = {} /\ Open = {}
        BY ONLY <4>0 DEF Ready
      <4>2. ended'[4] = now
        BY <1>2, <3>1, GoFacts
      <4> QED BY <4>1, <4>2 DEF Unsent, Open, ClientInv
    <3>2. CASE phase # 4
      BY <1>2, <2>1, <2>3, <3>2, GoFacts DEF ClientsClean
    <3> QED BY <3>1, <3>2
  <2> QED BY <2>1, <2>2, <2>3 DEF ClientsClean
<1>3. CASE Baseline
  <2>1. phase = 4 /\ baseline'.at = now /\ UNCHANGED <<now, phase, dispatched, finished>>
    BY <1>3 DEF Baseline, Scraped
  <2>2. \A t \in Nat : Active(t)' = Active(t)
    BY <2>1 DEF Active, Begun, Done
  <2> QED BY <2>1, <2>2 DEF ClientsClean
<1>4. ASSUME NEW c \in Cases, (Dispatch(c) /\ Cardinality(Open) < 2) \/ Deliver(c)
      PROVE  ClientsClean'
  <2>1. UNCHANGED <<now, phase, began, ended, baseline>>
    BY <1>4 DEF Dispatch, Deliver
  <2>2. \A d \in Cases : /\ dispatched[d] # 0 => dispatched'[d] = dispatched[d]
                         /\ phase > 4 => finished'[d] = finished[d]
    <3>1. CASE Dispatch(c)
      BY <3>1 DEF Dispatch, Unsent, TypeInv, TypeOK
    <3>2. CASE Deliver(c)
      <4>1. finished[c] = 0 /\ finished' = [finished EXCEPT ![c] = now] /\ dispatched' = dispatched
        BY <3>2 DEF Deliver, Open
      <4>2. phase <= 4
        BY <4>1 DEF ClientsClean
      <4> QED BY <4>1, <4>2
    <3> QED BY <1>4, <3>1, <3>2
  <2>3. ASSUME NEW t \in Nat PROVE Active(t)' <= 2
    <3>1. CASE t \in 1..(now - 1)
      <4>1. Active(t)' = Active(t)
        BY <1>4, <3>1, PastStands
      <4> QED BY <4>1 DEF ClientsClean
    <3>2. CASE t >= now
      <4>1. Active(t) = Cardinality(Open) /\ Active(t) \in Int /\ Cardinality(Open) \in Nat
        BY <3>2, ActiveNow, CountType, OpenType, CasesFinite
      <4>2. Active(t) <= 2
        BY DEF ClientsClean
      <4>3. CASE Dispatch(c) /\ Cardinality(Open) < 2
        BY <3>2, <4>1, <4>3, ActiveMoves
      <4>4. CASE Deliver(c)
        BY <3>2, <4>1, <4>2, <4>4, ActiveMoves
      <4> QED BY <1>4, <4>3, <4>4
    <3>3. CASE t = 0
      <4>1. Begun(0)' = {} /\ Done(0)' = {}
        BY DEF Begun, Done
      <4>2. Active(0)' = 0
        BY ONLY <4>1, FS_EmptySet DEF Active
      <4> QED BY <3>3, <4>2
    <3> QED BY <3>1, <3>2, <3>3
  <2>4. baseline # NoScrape /\ now > baseline.at + 1 =>
          \E d, e \in Cases :
            d # e /\ dispatched'[d] = baseline.at + 1 /\ dispatched'[e] = baseline.at + 1
    <3>1. baseline.at + 1 # 0
      OBVIOUS
    <3> QED BY <2>2, <3>1 DEF ClientsClean
  <2>5. phase > 4 =>
          \A d \in Cases : dispatched'[d] # 0 /\ finished'[d] # 0 /\ finished'[d] <= ended[4]
    BY <2>2 DEF ClientsClean
  <2> QED BY <2>1, <2>3, <2>4, <2>5 DEF ClientsClean
<1>5. CASE \/ SendExcluded \/ Probe \/ Snapshot \/ Drain \/ FinalScrape \/ Exit \/ Attest
           \/ \E x \in Requests : Account(x)
  <2>1. UNCHANGED <<now, phase, began, ended, dispatched, finished, baseline>>
    BY <1>5 DEF SendExcluded, Probe, Snapshot, Drain, FinalScrape, Exit, Attest, Account
  <2>2. \A t \in Nat : Active(t)' = Active(t)
    BY <2>1 DEF Active, Begun, Done
  <2> QED BY <2>1, <2>2 DEF ClientsClean
<1> QED BY <1>1, <1>2, <1>3, <1>4, <1>5 DEF CleanStep

\* What the validators find of a repetition that nothing has disturbed.
LEMMA CleanControl ==
  ASSUME TypeInv, OrderInv, Clean, phase = 8
  PROVE  SameServer /\ ControlHolds
<1> USE TypeFacts, ConstantTypes
<1>0. baseline # NoScrape /\ final # NoScrape /\ exited # NotSeen /\ probed # NotSeen
      /\ drained # 0 /\ Len(steady) = SteadyCount
  BY DEF Clean, OrderInv, ControlClean, ScrapesClean, SteadyClean
<1>1. /\ Closed(2) = ended[2] /\ Closed(3) = ended[3] /\ Closed(5) = ended[5] /\ Closed(6) = ended[6]
  BY DEF Closed
<1>2. \A i \in 1..Len(steady) : CleanSnapshot(steady[i], began[3], ended[3])
  BY <1>1 DEF Clean, SteadyClean
<1>3. \A s \in ToSet(steady) : \E i \in 1..Len(steady) : s = steady[i]
  <2>1. DOMAIN steady = 1..Len(steady)
    BY DEF TypeInv, TypeOK
  <2> QED BY <2>1 DEF ToSet
<1>4. SameServer
  <2>1. \A s \in ToSet(steady) : s.process = 1
    BY ONLY <1>2, <1>3 DEF CleanSnapshot
  <2>2. baseline.process = 1 /\ final.process = 1
    BY <1>0 DEF Clean, ScrapesClean
  <2>3. probed.process = 1
    BY <1>0 DEF Clean, ControlClean
  <2>4. exited.process = 1
    BY <1>0 DEF Clean, ServerClean, OrderInv
  <2> QED BY <2>1, <2>2, <2>3, <2>4 DEF SameServer
<1>5. PhasesInOrder
  <2>1. \A p \in 1..7 : began[p] < ended[p]
    BY DEF Clean, PhasesClean
  <2>2. \A p \in 1..6 : ended[p] <= began[p + 1]
    <3>1. \A p \in 1..6 : began[p + 1] = ended[p] /\ ended[p] \in Nat
      BY DEF Clean, PhasesClean
    <3> QED BY <3>1
  <2> QED BY <2>1, <2>2, PhaseCount DEF PhasesInOrder
<1>6. ProbeGate /\ Shutdown
  BY <1>0, <1>1, PhaseIndex DEF Clean, ControlClean, ProbeGate, Shutdown, Within
<1>7. FinalDrain
  <2>1. began[5] = ended[4]
    BY DEF Clean, PhasesClean
  <2>2. /\ ended[4] < drained /\ final.at = drained + 1 /\ final.at <= ended[5] /\ final.running = 0
    BY <1>0, <1>1 DEF Clean, ScrapesClean
  <2>3. drained \in Nat
    BY DEF TypeInv, TypeOK
  <2> QED BY <2>1, <2>2, <2>3, PhaseIndex DEF FinalDrain, Within, Quiescent
<1>8. SteadyGate
  <2>0. Len(steady) \in Nat /\ 1 \in 1..Len(steady) /\ Len(steady) \in 1..Len(steady)
    BY <1>0
  <2>1. Head(steady) = steady[1] /\ Last(steady) = steady[Len(steady)]
    BY DEF Last
  <2>2. \A i \in 1..(Len(steady) - 1) : steady[i].at + Cadence <= steady[i + 1].at
    BY DEF Clean, SteadyClean
  <2>3. \A s \in ToSet(steady) : Quiescent(s)
    BY <1>2, <1>3 DEF CleanSnapshot, Quiescent
  <2>4. Last(steady).counters.cached = Head(steady).counters.cached
    BY <1>2, <2>0, <2>1 DEF CleanSnapshot
  <2>5. Within("STEADY", Head(steady).at)
    BY <1>2, <2>0, <2>1, PhaseIndex DEF CleanSnapshot, Within
  <2>6. Last(steady).at + QuietSpan <= ended[Index("STEADY")]
    BY <2>1, PhaseIndex DEF Clean, SteadyClean
  <2> QED BY <2>2, <2>3, <2>4, <2>5, <2>6 DEF SteadyGate
<1> QED BY <1>4, <1>5, <1>6, <1>7, <1>8 DEF ControlHolds

LEMMA CleanWindow ==
  ASSUME TypeInv, OrderInv, ClientInv, Clean, phase = 8
  PROVE  /\ Lifecycles /\ WindowHolds
         /\ First = baseline.at + 1
         /\ \E c, d \in Cases : c # d /\ dispatched[c] = First /\ dispatched[d] = First
<1> USE TypeFacts, ConstantTypes
<1>0. baseline # NoScrape /\ final # NoScrape /\ drained # 0
  BY DEF Clean, OrderInv, ScrapesClean
<1>00. drained \in Nat
  BY DEF TypeInv, TypeOK
<1>1. \A c \in Cases :
        /\ baseline.at < dispatched[c] /\ dispatched[c] < finished[c] /\ finished[c] <= ended[4]
        /\ finished[c] <= now
  BY DEF Clean, ClientsClean, ClientInv
<1>2. began[4] <= baseline.at /\ baseline.running = 0 /\ final.running = 0 /\ ended[4] < drained
      /\ final.at = drained + 1
  BY <1>0 DEF Clean, ScrapesClean
<1>3. Lifecycles
  BY <1>1, <1>2, PhaseIndex DEF Lifecycles, Within
<1>4. \E c, d \in Cases : c # d /\ dispatched[c] = baseline.at + 1 /\ dispatched[d] = baseline.at + 1
  <2>1. now > baseline.at + 1
    BY <1>1, CasesFinite
  <2> QED BY <1>0, <2>1 DEF Clean, ClientsClean
<1>5. First = baseline.at + 1
  <2>1. baseline.at + 1 \in {dispatched[c] : c \in Cases}
    BY <1>4
  <2>2. \A t \in {dispatched[c] : c \in Cases} : baseline.at + 1 <= t /\ t \in Nat
    BY <1>1
  <2>3. \A x \in {dispatched[c] : c \in Cases} :
          (\A t \in {dispatched[c] : c \in Cases} : x <= t) => x = baseline.at + 1
    <3> SUFFICES ASSUME NEW x \in {dispatched[c] : c \in Cases},
                        \A t \in {dispatched[c] : c \in Cases} : x <= t
                 PROVE  x = baseline.at + 1
      OBVIOUS
    <3>1. x <= baseline.at + 1
      BY <2>1
    <3>2. baseline.at + 1 <= x /\ x \in Nat
      BY <2>2
    <3> QED BY <3>1, <3>2
  <2> QED BY <2>1, <2>2, <2>3 DEF First, Min
<1>6. LastTerminal \in {finished[c] : c \in Cases}
  <2> DEFINE S == {finished[c] : c \in Cases}
  <2>1. S \in SUBSET Int /\ S # {}
    BY CasesFinite
  <2>2. IsFiniteSet(S)
    <3>1. S \subseteq 0..MaxTime
      BY DEF TypeInv, TypeOK
    <3>2. IsFiniteSet(0..MaxTime)
      <4>1. 0 \in Int /\ MaxTime \in Int
        OBVIOUS
      <4> QED BY ONLY <4>1, FS_Interval
    <3> HIDE DEF S
    <3> QED BY ONLY <3>1, <3>2, FS_Subset
  <2> HIDE DEF S
  <2>3. Max(S) \in S
    BY <2>1, <2>2, MaxIsUpper
  <2> QED BY <2>3 DEF S, LastTerminal
<1>7. ScrapesPlaced
  <2>1. LastTerminal <= ended[4]
    BY <1>1, <1>6
  <2>2. drained <= final.at /\ final.at - drained <= GateSpan
    BY <1>00, <1>2
  <2>3. baseline.at < First /\ First - baseline.at <= GateSpan
    BY <1>5
  <2> QED BY <1>2, <2>1, <2>2, <2>3, PhaseIndex DEF ScrapesPlaced
<1>8. ExactDeltas
  <2>0. \A k \in DOMAIN Expected : baseline.counters[k] \in Nat /\ Expected[k] \in Nat
    BY CasesFinite DEF Expected, Counters
  <2>1. \A k \in DOMAIN Expected : final.counters[k] = baseline.counters[k] + Expected[k]
    <3>1. \A k \in {"tokens", "length"} :
            final.counters[k] = baseline.counters[k] + Cardinality(Cases)
      BY <1>0 DEF Clean, CountsClean
    <3>2. \A k \in {"abort", "preempted", "cached"} :
            final.counters[k] = baseline.counters[k] /\ baseline.counters[k] \in Nat
      BY <1>0 DEF Clean, CountsClean, Counters
    <3> QED BY <3>1, <3>2 DEF Expected
  <2> QED BY <2>0, <2>1 DEF ExactDeltas, Delta
<1>9. WindowHolds
  BY <1>2, <1>7, <1>8 DEF WindowHolds, Quiescent
<1> QED BY <1>3, <1>4, <1>5, <1>9

LEMMA CleanConcurrency ==
  ASSUME TypeInv, OrderInv, ClientInv, Clean, phase = 8, Lifecycles, PhasesInOrder
  PROVE  ConcurrencyHolds
<1> USE TypeFacts
<1>1. /\ \A t \in Nat : ActiveAt(t) = Active(t) /\ Active(t) <= 2 /\ Active(t) \in Int
      /\ \A t \in Offsets : t \in Nat
      /\ \A c \in Cases : dispatched[c] \in Offsets
  <2>1. \A t \in Nat : Active(t) \in Int
    BY CountType
  <2>2. \A t \in Offsets : t \in Nat
    BY DEF Offsets
  <2>3. \A t \in Nat : Active(t) <= 2
    BY DEF Clean, ClientsClean
  <2> QED BY <2>1, <2>2, <2>3, AcceptedActive
<1>2. PICK c, d \in Cases : c # d /\ dispatched[c] = First /\ dispatched[d] = First
  BY CleanWindow
<1>3. First \in Offsets /\ First \in Nat /\ First >= 1
  BY <1>1, <1>2, CleanWindow
<1>4. Active(First) = 2
  <2>1. Done(First) = {}
    <3>1. \A e \in Cases : finished[e] > First
      BY <1>3, CleanWindow DEF Clean, ClientsClean, ClientInv
    <3> QED BY <1>3, <3>1 DEF Done
  <2>2. {c, d} \subseteq Begun(First)
    BY <1>2, <1>3 DEF Begun
  <2>3. Cardinality({c, d}) = 2
    <3>1. IsFiniteSet({c}) /\ Cardinality({c}) = 1
      BY FS_Singleton
    <3>2. Cardinality({c} \cup {d}) = 2
      <4>1. d \notin {c}
        BY <1>2
      <4>2. Cardinality({c} \cup {d}) = IF d \in {c} THEN Cardinality({c}) ELSE Cardinality({c}) + 1
        BY ONLY <3>1, FS_AddElement
      <4> QED BY <3>1, <4>1, <4>2
    <3>3. {c, d} = {c} \cup {d}
      OBVIOUS
    <3> QED BY <3>2, <3>3
  <2>4. Cardinality(Begun(First)) >= 2
    BY <2>2, <2>3, CountType, FS_Subset
  <2>5. Active(First) >= 2
    BY <2>1, <2>4, CountType, FS_EmptySet DEF Active
  <2> QED BY <1>1, <1>3, <2>5
<1> DEFINE Counts == {ActiveAt(t) : t \in Offsets}
<1>5. 2 \in Counts /\ \A n \in Counts : n <= 2 /\ n \in Int
  BY <1>1, <1>3, <1>4
<1>6. ObservedConcurrency = 2
  <2> HIDE DEF Counts
  <2>1. \A n \in Counts : (\A m \in Counts : n >= m) => n = 2
    BY <1>5
  <2>2. Max(Counts) = 2
    BY <1>5, <2>1 DEF Max
  <2> QED BY <2>2 DEF Counts, ObservedConcurrency
<1>7. Overlap
  BY <1>1, <1>3, <1>4 DEF Overlap
<1> QED BY <1>6, <1>7 DEF ConcurrencyHolds

LEMMA CleanIsAccepted ==
  ASSUME TypeInv, OrderInv, ClientInv, Clean, phase = 8
  PROVE  Accepted
<1>1. SameServer /\ ControlHolds
  BY CleanControl
<1>2. Lifecycles /\ WindowHolds
  BY CleanWindow
<1>3. PhasesInOrder
  BY <1>1 DEF ControlHolds
<1> QED BY <1>1, <1>2, <1>3, CleanConcurrency DEF Accepted

LEMMA CleanStart == Init => CleanInv
<1> SUFFICES ASSUME Init PROVE CleanInv
  OBVIOUS
<1>1. TypeInv
  BY InitType
<1>2. PhasesClean /\ ServerClean
  BY DEF Init, PhasesClean, ServerClean, Zero
<1>3. ControlClean /\ ScrapesClean
  BY DEF Init, ControlClean, ScrapesClean
<1>4. SteadyClean
  BY DEF Init, SteadyClean
<1>5. CountsClean
  BY DEF Init, CountsClean, InWindow
<1>6. ClientsClean
  <2>1. \A t \in Nat : Begun(t) = {} /\ Done(t) = {}
    BY DEF Init, Begun, Done
  <2>2. \A t \in Nat : Active(t) = 0
    BY <2>1, FS_EmptySet DEF Active
  <2> QED BY <2>2 DEF Init, ClientsClean
<1> QED BY <1>2, <1>3, <1>4, <1>5, <1>6 DEF Init, CleanInv, Clean

LEMMA CleanInvStep == IInv /\ CleanInv /\ [Next]_vars => CleanInv'
<1> SUFFICES ASSUME IInv, CleanInv, [Next]_vars, faults' = 0
             PROVE  Clean' /\ verdict' # "refused"
  BY DEF CleanInv
<1>0. TypeInv /\ OrderInv /\ ClientInv
  BY DEF IInv
<1>1. CASE UNCHANGED vars
  <2> USE <1>1 DEF vars, phaseVars, serverVars, clientVars, evidenceVars, truthVars
  <2>1. Clean /\ verdict # "refused"
    BY DEF CleanInv
  <2>2. PhasesClean' /\ ServerClean' /\ ControlClean' /\ ScrapesClean'
    BY <2>1 DEF Clean, PhasesClean, ServerClean, ControlClean, ScrapesClean, Unsent, Closed
  <2>3. SteadyClean'
    BY <2>1 DEF Clean, SteadyClean, CleanSnapshot, Closed
  <2>4. CountsClean' /\ ClientsClean'
    BY <2>1 DEF Clean, CountsClean, ClientsClean, InWindow, Unsent, Active, Begun, Done
  <2> QED BY <2>1, <2>2, <2>3, <2>4 DEF Clean
<1>2. CASE Next
  <2>1. faults = 0 /\ CleanStep
    BY <1>0, <1>2, FaultsStay
  <2>2. Clean /\ verdict # "refused"
    BY <2>1 DEF CleanInv
  <2>3. /\ PhasesClean /\ ServerClean /\ ControlClean /\ SteadyClean /\ ScrapesClean
        /\ CountsClean /\ ClientsClean
    BY <2>2 DEF Clean
  <2>4. PhasesClean' /\ ServerClean' /\ ControlClean' /\ ScrapesClean'
    BY <1>0, <2>1, <2>3, PhasesCleanStep, ServerCleanStep, ControlCleanStep, ScrapesCleanStep
  <2>5. SteadyClean' /\ CountsClean' /\ ClientsClean'
    BY <1>0, <2>1, <2>3, SteadyCleanStep, CountsCleanStep, ClientsCleanStep
  <2>6. verdict' # "refused"
    <3>1. CASE Attest
      <4>1. phase = 8 /\ verdict' = IF Accepted THEN "accepted" ELSE "refused"
        BY <3>1, PhaseCount DEF Attest
      <4> QED BY <1>0, <2>2, <4>1, CleanIsAccepted
    <3>2. CASE ~ Attest
      <4>1. verdict' = verdict
        BY <2>1, <3>2 DEF CleanStep, Tick, SendExcluded, Probe, Snapshot, Baseline, Drain,
           FinalScrape, Exit, NextPhase, Dispatch, Deliver, Account
      <4> QED BY <2>2, <4>1
    <3> QED BY <3>1, <3>2
  <2> QED BY <2>4, <2>5, <2>6 DEF Clean
<1> QED BY <1>1, <1>2

\* With the invariants above, a repetition without a fault is as described.
THEOREM CleanRuns == Spec => []CleanInv
BY Inductive, CleanStart, CleanInvStep, PTL DEF Spec

\* The gates, strict and not, of the validators refuse nothing that was done as it
\* should be, whatever the number of cases, the spans and the clock: a refusal
\* says that something went wrong.
THEOREM Undisturbed == Spec => []UndisturbedIsAccepted
<1>1. IInv /\ CleanInv => UndisturbedIsAccepted
  <2> SUFFICES ASSUME IInv, CleanInv, verdict = "refused" PROVE faults > 0
    BY DEF UndisturbedIsAccepted
  <2>1. faults \in Nat
    BY ConstantTypes DEF IInv, TypeInv, TypeOK
  <2>2. faults # 0
    BY DEF CleanInv
  <2> QED BY <2>1, <2>2
<1> QED BY <1>1, Inductive, CleanRuns, PTL
=============================================================================
