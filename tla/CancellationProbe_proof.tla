----------------------- MODULE CancellationProbe_proof -----------------------
(***************************************************************************)
(* Proofs about CancellationProbe, for any servers, any number and cadence *)
(* of scrapes, any spans and any clock.                                    *)
(***************************************************************************)
EXTENDS CancellationProbe, NaturalsInduction, WellFoundedInduction, SequenceTheorems, TLAPS

-----------------------------------------------------------------------------
(* The invariant                                                            *)

\* The snapshots the server has answered, those on their way included: they
\* arrive in the tick in which they were answered.
Taken == scrapes \o [i \in DOMAIN pending |-> [pending[i] EXCEPT !.done = now]]

\* Snapshots are answered one after the other, all before the dispatch first, at
\* least one, and the first of the later ones is for the drain.
TakenInv ==
  /\ \A i \in DOMAIN Taken : Taken[i].sched <= Taken[i].done /\ Taken[i].done <= now
  /\ \A i, j \in DOMAIN Taken : i < j =>
       /\ Taken[i].sched < Taken[j].sched /\ Taken[i].done < Taken[j].done
       /\ Taken[j].phase = "PRE_DISPATCH" => Taken[i].phase = "PRE_DISPATCH"
  /\ \A i \in DOMAIN Taken : Taken[1].phase = "PRE_DISPATCH"
  /\ \A i \in DOMAIN Taken : Taken[i].phase \notin {"PRE_DISPATCH", "DRAIN"} =>
       \E j \in 1..(i - 1) : Taken[j].phase = "DRAIN"
  /\ client # "idle" => scrapes # <<>>
  /\ client \in {"idle", "dispatched", "open"} =>
       \A i \in DOMAIN Taken : Taken[i].phase = "PRE_DISPATCH"

\* How far the request is at the server, and what a client can know of it.
HandlerInv ==
  /\ client = "idle" => handler = "none"
  /\ handler = "none" => /\ running = 0 /\ logs = <<>> /\ fate = "open" /\ wire = <<>>
                         /\ runtime # "serves" => counters = Zero
  /\ handler = "headed" => wire = <<>>
  /\ client = "closed" => handler \notin {"none", "headed"}
  /\ handler \in {"headed", "sent", "late"} => running = 1 /\ fate = "open"
  /\ handler \in {"headed", "sent", "late"} => ~Logged("external")
  /\ handler = "acked" => runtime = "goesOn" /\ ConnectionLost
  /\ runtime # "goesOn" /\ Logged("external") => fate = "aborted"
  /\ process = 1 \/ runtime = "restarts"

\* A snapshot from before the dispatch shows no request.
PreInv ==
  runtime # "serves" =>
    \A i \in DOMAIN Taken : Taken[i].phase = "PRE_DISPATCH" =>
      Taken[i].counters = Zero /\ Taken[i].running = 0

\* A runtime that goes on counts what it finishes, and until then shows it running.
After(s) == \E l \in DOMAIN logs : logs[l].kind = "external" /\ logs[l].at < s.done
GoesOnInv ==
  runtime = "goesOn" =>
    /\ handler # "ended" => counters.other = 0
    /\ handler = "acked" => /\ running = 1 /\ fate = "open"
                            /\ \A i \in DOMAIN Taken : After(Taken[i]) => Taken[i].running = 1
    /\ handler = "ended" => fate # "open"
    /\ handler = "ended" /\ fate = "finished" /\ Logged("external") =>
         /\ counters.other = 1
         /\ \A i \in DOMAIN Taken :
              After(Taken[i]) /\ Taken[i].running = 0 => Taken[i].counters.other = 1

\* The request of somebody else stands between two snapshots.
ServesInv ==
  /\ runtime # "serves" => foreign = {}
  /\ runtime = "serves" /\ counters.other = 0 =>
       foreign = {} /\ \A i \in DOMAIN Taken : Taken[i].counters.other = 0
  /\ runtime = "serves" /\ counters.other # 0 =>
       /\ counters.other = 1
       /\ \E k \in 0..Len(Taken) :
            /\ foreign = {k}
            /\ \A i \in DOMAIN Taken : Taken[i].counters.other = IF i <= k THEN 0 ELSE 1

\* The client has closed on the first delivery, and on nothing unfit.
ReadInv ==
  /\ client \in {"idle", "dispatched"} => reads = <<>>
  /\ client = "open" => \A i \in DOMAIN reads : Range(reads[i].frames) \subseteq {"comment"}
  /\ CloseFollowsFirstDelivery

\* The fixture: its log, its counters and the snapshots that were due after the abort.
Paid == [prompt |-> 1, gen |-> Tokens, abort |-> 0, other |-> 0, aux |-> 0]
Aborted == [Paid EXCEPT !.abort = 1]
Kinds == <<"received", "added", "internal", "external">>
FixtureServed ==
  /\ Len(logs) \in {0, 2, 4} /\ \A l \in DOMAIN logs : logs[l].kind = Kinds[l]
  /\ handler # "none" => Len(logs) >= 2
  /\ handler \in {"headed", "sent", "late"} => Len(logs) = 2
  /\ handler = "headed" => counters = Zero
  /\ handler \in {"sent", "late"} => counters = Paid
  /\ handler = "ended" => running = 0
  /\ Len(logs) = 4 => handler = "ended" /\ ConnectionLost
  /\ Len(logs) = 4 /\ client = "closed" => counters = Aborted
FixtureShown ==
  /\ \A i \in DOMAIN Taken : Taken[i].process = 1
  /\ Len(logs) = 4 /\ client = "closed" =>
       \A i \in DOMAIN Taken : Taken[i].sched > logs[4].at =>
         Taken[i].counters = Aborted /\ Taken[i].running = 0
FixtureInv == runtime = "fixture" => FixtureServed /\ FixtureShown

\* The evidence is complete when it is evaluated, and the verdict is right.
Evidence == client = "closed" /\ pending = <<>> /\ Of("COOLDOWN") # <<>>
VerdictInv ==
  /\ verdict # "none" => Evidence
  /\ AcceptedIsAborted
  /\ FixtureDrainIsAccepted

IInv ==
  /\ TypeOK /\ TakenInv /\ HandlerInv /\ PreInv /\ GoesOnInv /\ ServesInv /\ ReadInv /\ FixtureInv
  /\ VerdictInv

-----------------------------------------------------------------------------
(* Types                                                                    *)

LEMMA ConstantTypes ==
  /\ PreCount \in Nat /\ PreCount >= 1 /\ DrainCount \in Nat /\ DrainCount >= 1
  /\ Cadence \in Nat /\ Cadence >= 1 /\ MaxTime \in Nat /\ MaxTime >= 1
BY ProbeAssumption DEF ProbeAssumption

LEMMA ProbeTypes ==
  ASSUME TypeOK
  PROVE  /\ now \in Nat /\ now >= 1 /\ now \in 1..MaxTime /\ now \in 0..MaxTime
         /\ scenario \in Scenario /\ runtime \in Runtime /\ slip \in {0, 1}
         /\ Tokens \in {1, 2} /\ Payload \in Seq(Frames)
<1>1. now \in Nat /\ now >= 1 /\ now \in 1..MaxTime /\ now \in 0..MaxTime
  BY ConstantTypes DEF TypeOK
<1>2. [scenario |-> scenario, runtime |-> runtime, slip |-> slip]
        \in [scenario : Scenario, runtime : Runtime, slip : {0, 1}]
  BY ProbeAssumption DEF ProbeAssumption, TypeOK
<1>3. scenario \in Scenario /\ runtime \in Runtime /\ slip \in {0, 1}
  BY <1>2
<1>4. Tokens \in {1, 2}
  BY DEF Tokens
<1>5. Payload \in Seq(Frames)
  <2>1. \A x, y \in Frames : <<x>> \in Seq(Frames) /\ <<x, y>> \in Seq(Frames)
    OBVIOUS
  <2>2. {"first", "more", "last", "usage", "done", "comment"} \subseteq Frames
    BY DEF Frames
  <2> QED BY <2>1, <2>2 DEF Payload
<1> QED BY <1>1, <1>3, <1>4, <1>5

LEMMA SeqIntro ==
  ASSUME NEW S, NEW n \in Nat, NEW f \in [1..n -> S]
  PROVE  f \in Seq(S) /\ Len(f) = n
<1>1. f \in UNION {[1..m -> S] : m \in Nat}
  OBVIOUS
<1>2. f \in Seq(S)
  BY <1>1, SeqDef
<1>3. Len(f) \in Nat /\ DOMAIN f = 1..Len(f) /\ DOMAIN f = 1..n
  BY <1>2, LenProperties
<1> QED BY <1>2, <1>3

\* The log grows by what is logged, now.
LEMMA LogGrows ==
  ASSUME TypeOK, NEW kinds \in Seq(LogKinds), Log(kinds)
  PROVE  /\ logs' \in Seq([kind : LogKinds, at : 1..MaxTime])
         /\ Len(logs') = Len(logs) + Len(kinds)
         /\ \A l \in DOMAIN logs : l \in DOMAIN logs' /\ logs'[l] = logs[l]
         /\ \A l \in 1..Len(kinds) :
              /\ Len(logs) + l \in DOMAIN logs'
              /\ logs'[Len(logs) + l].kind = kinds[l]
              /\ logs'[Len(logs) + l].at = now
         /\ \A l \in DOMAIN logs' : l \in DOMAIN logs
                                 \/ \E m \in 1..Len(kinds) : l = Len(logs) + m
<1> DEFINE new == [i \in DOMAIN kinds |-> [kind |-> kinds[i], at |-> now]]
<1>0. now \in 1..MaxTime
  BY ProbeTypes
<1>1. DOMAIN kinds = 1..Len(kinds) /\ Len(kinds) \in Nat
  OBVIOUS
<1>2. \A i \in 1..Len(kinds) : [kind |-> kinds[i], at |-> now] \in [kind : LogKinds, at : 1..MaxTime]
  BY <1>0
<1>3. new \in [1..Len(kinds) -> [kind : LogKinds, at : 1..MaxTime]]
  BY <1>1, <1>2
<1>4. new \in Seq([kind : LogKinds, at : 1..MaxTime]) /\ Len(new) = Len(kinds)
  <2> HIDE DEF new
  <2> QED BY <1>1, <1>3, SeqIntro
<1>5. \A l \in 1..Len(kinds) : new[l].kind = kinds[l] /\ new[l].at = now
  BY <1>1
<1>6. logs' = logs \o new /\ logs \in Seq([kind : LogKinds, at : 1..MaxTime])
  BY DEF Log, TypeOK
<1> HIDE DEF new
<1>7. /\ logs' \in Seq([kind : LogKinds, at : 1..MaxTime])
      /\ Len(logs') = Len(logs) + Len(kinds)
      /\ \A l \in 1..(Len(logs) + Len(kinds)) :
           logs'[l] = IF l <= Len(logs) THEN logs[l] ELSE new[l - Len(logs)]
  <2> DEFINE S == [kind : LogKinds, at : 1..MaxTime]
  <2>1. logs \in Seq(S) /\ new \in Seq(S)
    BY <1>4, <1>6
  <2> HIDE DEF S
  <2>2. /\ logs \o new \in Seq(S)
        /\ Len(logs \o new) = Len(logs) + Len(new)
        /\ \A l \in 1..(Len(logs) + Len(new)) :
             (logs \o new)[l] = IF l <= Len(logs) THEN logs[l] ELSE new[l - Len(logs)]
    BY <2>1, ConcatProperties
  <2> QED BY <1>4, <1>6, <2>2 DEF S
<1>8. /\ DOMAIN logs = 1..Len(logs) /\ Len(logs) \in Nat
      /\ DOMAIN logs' = 1..(Len(logs) + Len(kinds))
  BY <1>6, <1>7, LenProperties
<1>9. \A l \in DOMAIN logs : l \in DOMAIN logs' /\ logs'[l] = logs[l]
  BY <1>1, <1>7, <1>8
<1>10. ASSUME NEW l \in 1..Len(kinds)
       PROVE  Len(logs) + l \in DOMAIN logs' /\ logs'[Len(logs) + l] = new[l]
  <2>1. Len(logs) + l \in 1..(Len(logs) + Len(kinds)) /\ ~(Len(logs) + l <= Len(logs))
        /\ (Len(logs) + l) - Len(logs) = l
    BY <1>1, <1>8
  <2> QED BY <1>7, <1>8, <2>1
<1>11. ASSUME NEW l \in DOMAIN logs', l \notin DOMAIN logs
       PROVE  \E m \in 1..Len(kinds) : l = Len(logs) + m
  <2>1. l - Len(logs) \in 1..Len(kinds) /\ l = Len(logs) + (l - Len(logs))
    BY <1>1, <1>8, <1>11
  <2> QED BY <2>1
<1> QED BY <1>5, <1>7, <1>9, <1>10, <1>11, ZenonT(30)

\* What a step leaves alone keeps its type.
LEMMA CountersType ==
  ASSUME counters \in Counters, NEW n \in Nat
  PROVE  /\ Generated(n) \in Counters
         /\ Generated(n).prompt = counters.prompt + 1 /\ Generated(n).gen = counters.gen + n
         /\ \A c \in {"abort", "other", "aux"} : Generated(n)[c] = counters[c]
         /\ [Generated(n) EXCEPT !.other = 1] \in Counters
         /\ [counters EXCEPT !.gen = @ + n] \in Counters
         /\ [counters EXCEPT !.abort = @ + n] \in Counters
         /\ [counters EXCEPT !.other = @ + n] \in Counters
<1>1. [counters EXCEPT !.gen = @ + n] \in Counters BY DEF Counters
<1>2. [counters EXCEPT !.abort = @ + n] \in Counters BY DEF Counters
<1>3. [counters EXCEPT !.other = @ + n] \in Counters BY DEF Counters
<1>4. Generated(n) \in Counters
      /\ Generated(n).prompt = counters.prompt + 1 /\ Generated(n).gen = counters.gen + n
      /\ \A c \in {"abort", "other", "aux"} : Generated(n)[c] = counters[c]
  BY DEF Generated, Counters
<1>5. [Generated(n) EXCEPT !.other = 1] \in Counters BY <1>4 DEF Counters
<1> QED BY <1>1, <1>2, <1>3, <1>4, <1>5

LEMMA KindsType ==
  \A x, y, z \in LogKinds :
    /\ <<x>> \in Seq(LogKinds) /\ Len(<<x>>) = 1
    /\ <<x, y>> \in Seq(LogKinds) /\ Len(<<x, y>>) = 2
    /\ <<x, y, z>> \in Seq(LogKinds) /\ Len(<<x, y, z>>) = 3
OBVIOUS

LEMMA ServerType ==
  ASSUME TypeOK, HandlerInv, Server \/ OtherRuntime
  PROVE  TypeOK'
<1> USE ProbeTypes, ConstantTypes
<1>0. {"received", "added", "internal", "external", "foreign"} \subseteq LogKinds
  BY DEF LogKinds
<1>1. CASE Accept
  <2>1. logs' \in Seq([kind : LogKinds, at : 1..MaxTime])
    BY <1>0, <1>1, KindsType, LogGrows DEF Accept
  <2>2. running' \in {0, 1}
    BY <1>1 DEF Accept, HandlerInv
  <2> QED BY <1>1, <2>1, <2>2 DEF TypeOK, Accept, clientVars
<1>2. CASE SendPayload
  <2>1. wire' \in Seq(Frames)
    BY <1>2 DEF SendPayload
  <2>2. counters \in Counters /\ Tokens \in Nat
    BY DEF TypeOK
  <2>3. counters' \in Counters
    BY <1>2, <2>2, CountersType DEF SendPayload
  <2> QED BY <1>2, <2>1, <2>3 DEF TypeOK, SendPayload, clientVars
<1>3. CASE SendLate
  <2>1. wire' \in Seq(Frames)
    BY <1>3 DEF SendLate, TypeOK, Frames
  <2> QED BY <1>3, <2>1 DEF TypeOK, SendLate, clientVars
<1>4. CASE Abort
  <2>1. logs' \in Seq([kind : LogKinds, at : 1..MaxTime])
    BY <1>0, <1>4, KindsType, LogGrows DEF Abort
  <2>2. counters' \in Counters
    BY <1>4, CountersType DEF Abort, TypeOK
  <2> QED BY <1>4, <2>1, <2>2 DEF TypeOK, Abort, clientVars
<1>5. CASE Acknowledge
  <2>1. logs' \in Seq([kind : LogKinds, at : 1..MaxTime])
    BY <1>0, <1>5, KindsType, LogGrows DEF Acknowledge
  <2> QED BY <1>5, <2>1 DEF TypeOK, Acknowledge, clientVars
<1>6. CASE GoOn
  <2>1. counters' \in Counters
    BY <1>6, CountersType DEF GoOn, TypeOK
  <2> QED BY <1>6, <2>1 DEF TypeOK, GoOn, clientVars
<1>7. CASE Settle
  <2>0. counters \in Counters
    BY DEF TypeOK
  <2>1. counters' \in Counters /\ fate' \in {"finished", "aborted"}
    <3>0. \A n \in {0, 1} : /\ [counters EXCEPT !.other = @ + n] \in Counters
                           /\ [counters EXCEPT !.abort = @ + n] \in Counters
      BY <2>0, CountersType
    <3>1. CASE fate' = "finished" /\ counters' = [counters EXCEPT !.other = @ + 1]
      BY <3>0, <3>1
    <3>2. CASE fate' = "aborted" /\ \E n \in {0, 1} : counters' = [counters EXCEPT !.abort = @ + n]
      BY <3>0, <3>2
    <3> QED BY <1>7, <3>1, <3>2 DEF Settle
  <2> QED BY <1>7, <2>1 DEF TypeOK, Settle, clientVars
<1>8. CASE Restart
  BY <1>8 DEF TypeOK, Restart, clientVars, Zero, Counters
<1>9. CASE ServeOther
  <2>0. counters \in Counters /\ foreign \subseteq Nat /\ Len(scrapes) + Len(pending) \in Nat
    BY DEF TypeOK
  <2>1. counters' \in Counters
    BY <1>9, <2>0, CountersType DEF ServeOther
  <2>2. foreign' \subseteq Nat
    BY <1>9, <2>0 DEF ServeOther
  <2> QED BY <1>9, <2>1, <2>2 DEF TypeOK, ServeOther, clientVars
<1>10. CASE AbortOtherwise
  <2>1. logs' \in Seq([kind : LogKinds, at : 1..MaxTime])
    <3>1. PICK kinds \in {<<"external", "internal">>, <<"internal">>, <<"external">>,
                          <<"internal", "external", "external">>, <<"internal", "foreign", "external">>} :
            Log(kinds)
      BY <1>10 DEF AbortOtherwise
    <3>0. /\ <<"external", "internal">> \in Seq(LogKinds) /\ <<"internal">> \in Seq(LogKinds)
          /\ <<"external">> \in Seq(LogKinds)
          /\ <<"internal", "external", "external">> \in Seq(LogKinds)
          /\ <<"internal", "foreign", "external">> \in Seq(LogKinds)
      BY <1>0, KindsType
    <3>2. kinds \in Seq(LogKinds)
      BY <3>0
    <3> QED BY <3>1, <3>2, LogGrows
  <2>2. counters' \in Counters
    BY <1>10, CountersType DEF AbortOtherwise, TypeOK
  <2> QED BY <1>10, <2>1, <2>2 DEF TypeOK, AbortOtherwise, clientVars
<1> QED BY <1>1, <1>2, <1>3, <1>4, <1>5, <1>6, <1>7, <1>8, <1>9, <1>10 DEF Server, OtherRuntime

LEMMA ReadType ==
  ASSUME TypeOK, NEW n \in 0..Len(wire)
  PROVE  /\ SubSeq(wire, 1, n) \in Seq(Frames) /\ Len(SubSeq(wire, 1, n)) = n
         /\ \A i \in 1..n : SubSeq(wire, 1, n)[i] = wire[i]
         /\ SubSeq(wire, n + 1, Len(wire)) \in Seq(Frames)
         /\ [frames |-> SubSeq(wire, 1, n), at |-> now] \in [frames : Seq(Frames), at : 1..MaxTime]
<1>1. wire \in Seq(Frames) /\ Len(wire) \in Nat /\ n \in Nat
  BY DEF TypeOK
<1>2. /\ \A i \in 1..n : wire[i] \in Frames
      /\ \A i \in (n + 1)..Len(wire) : wire[i] \in Frames
  BY <1>1, ElementOfSeq
<1>3. SubSeq(wire, 1, n) \in Seq(Frames) /\ Len(SubSeq(wire, 1, n)) = n
      /\ \A i \in 1..n : SubSeq(wire, 1, n)[i] = wire[i]
  BY <1>1, <1>2, SubSeqProperties
<1>4. SubSeq(wire, n + 1, Len(wire)) \in Seq(Frames)
  BY <1>1, <1>2, SubSeqProperties
<1> QED BY <1>3, <1>4, ProbeTypes

LEMMA ClientType == ASSUME TypeOK, Client PROVE TypeOK'
<1> USE ProbeTypes, ConstantTypes
<1>1. CASE Dispatch
  <2>1. at' \in [Offsets -> 0..MaxTime]
    BY <1>1 DEF Dispatch, Stamp, TypeOK
  <2> QED BY <1>1, <2>1 DEF TypeOK, Dispatch, serverVars
<1>2. CASE AcceptHeaders
  BY <1>2 DEF TypeOK, AcceptHeaders, serverVars
<1>3. CASE Read
  <2>1. PICK n \in 0..Len(wire) :
          /\ wire' = SubSeq(wire, n + 1, Len(wire))
          /\ reads' = Append(reads, [frames |-> SubSeq(wire, 1, n), at |-> now])
          /\ \E b \in BOOLEAN : at' = [o \in Offsets |-> IF o # "dispatch" /\ b THEN now ELSE at[o]]
          /\ client' \in {"failed", "closed", "open"}
    BY <1>3 DEF Read
  <2>2. wire' \in Seq(Frames)
    BY <2>1, ReadType
  <2>3. reads' \in Seq([frames : Seq(Frames), at : 1..MaxTime])
    <3> DEFINE S == [frames : Seq(Frames), at : 1..MaxTime]
    <3>1. reads \in Seq(S) /\ [frames |-> SubSeq(wire, 1, n), at |-> now] \in S
      BY ReadType DEF TypeOK
    <3> HIDE DEF S
    <3>2. Append(reads, [frames |-> SubSeq(wire, 1, n), at |-> now]) \in Seq(S)
      BY <3>1
    <3> QED BY <2>1, <3>2 DEF S
  <2>4. at' \in [Offsets -> 0..MaxTime]
    BY <2>1 DEF TypeOK
  <2> QED BY <1>3, <2>1, <2>2, <2>3, <2>4 DEF TypeOK, Read, serverVars
<1>4. CASE Fail
  BY <1>4 DEF TypeOK, Fail, serverVars
<1> QED BY <1>1, <1>2, <1>3, <1>4 DEF Client

\* What a scrape reports.
LEMMA ScrapeTakes ==
  ASSUME Scrape
  PROVE  \E phase \in Due :
           LET sched == IF Opens(phase) THEN now ELSE Last(scrapes).sched + Cadence + slip
           IN /\ sched <= now
              /\ pending' = <<[phase |-> phase, sched |-> sched, done |-> 0, process |-> process,
                               running |-> running, counters |-> counters]>>
BY DEF Scrape

LEMMA DuePhases == Due \subseteq Phases
BY DEF Due, Phases

LEMMA LastScrape ==
  ASSUME TypeOK, scrapes # <<>>
  PROVE  Len(scrapes) \in DOMAIN scrapes /\ Last(scrapes) = scrapes[Len(scrapes)]
         /\ Last(scrapes) \in Snapshots /\ Last(scrapes).sched \in Nat /\ Last(scrapes).done \in Nat
<1>1. scrapes \in Seq(Snapshots)
  BY DEF TypeOK
<1>2. Len(scrapes) \in Nat \ {0} /\ DOMAIN scrapes = 1..Len(scrapes)
  BY <1>1, EmptySeq, LenProperties
<1>3. scrapes[Len(scrapes)] \in Snapshots
  BY <1>1, <1>2, ElementOfSeq
<1> QED BY <1>2, <1>3 DEF Last, Snapshots

LEMMA CollectorType == ASSUME TypeOK, TakenInv, Collector PROVE TypeOK'
<1> USE ProbeTypes, ConstantTypes
<1>1. CASE Scrape
  <2>1. PICK phase \in Due :
           LET sched == IF Opens(phase) THEN now ELSE Last(scrapes).sched + Cadence + slip
           IN /\ sched <= now
              /\ pending' = <<[phase |-> phase, sched |-> sched, done |-> 0, process |-> process,
                               running |-> running, counters |-> counters]>>
    BY <1>1, ScrapeTakes
  <2> DEFINE sched == IF Opens(phase) THEN now ELSE Last(scrapes).sched + Cadence + slip
  <2>2. sched \in Nat
    <3>1. CASE Opens(phase)
      BY <3>1
    <3>2. CASE ~Opens(phase) /\ scrapes # <<>>
      BY <3>2, LastScrape
    <3>3. CASE ~Opens(phase) /\ scrapes = <<>>
      <4>1. At("PRE_DISPATCH") = {}
        BY <3>3 DEF At
      <4>2. Pre = <<>>
        BY <4>1 DEF Pre, Of
      <4>3. phase # "PRE_DISPATCH" /\ client # "idle"
        BY <3>3, <4>2 DEF Opens, Due
      <4> QED BY <3>3, <4>3 DEF TakenInv
    <3> QED BY <3>1, <3>2, <3>3
  <2> HIDE DEF sched
  <2>3. [phase |-> phase, sched |-> sched, done |-> 0, process |-> process,
         running |-> running, counters |-> counters] \in Snapshots
    BY <2>2, DuePhases DEF TypeOK, Snapshots
  <2>4. pending' \in Seq(Snapshots) /\ Len(pending') <= 1
    <3>1. pending' = <<[phase |-> phase, sched |-> sched, done |-> 0, process |-> process,
                        running |-> running, counters |-> counters]>>
      BY <2>1 DEF sched
    <3> QED BY <2>3, <3>1
  <2> QED BY <1>1, <2>4 DEF TypeOK, Scrape, serverVars, clientVars
<1>2. CASE Receive
  <2>1. pending[1] \in Snapshots
    <3>1. pending \in Seq(Snapshots) /\ pending # <<>>
      BY <1>2 DEF Receive, TypeOK
    <3> QED BY <3>1, EmptySeq, ElementOfSeq
  <2>2. [pending[1] EXCEPT !.done = now] \in Snapshots
    BY <2>1 DEF Snapshots
  <2>3. scrapes' \in Seq(Snapshots)
    BY <1>2, <2>2 DEF Receive, TypeOK
  <2> QED BY <1>2, <2>3 DEF TypeOK, Receive, serverVars, clientVars
<1>3. CASE Evaluate
  <2>1. verdict' \in Classifications
    BY <1>3 DEF Evaluate, Classify, Classifications, Drained
  <2> QED BY <1>3, <2>1 DEF TypeOK, Evaluate, serverVars, clientVars
<1> QED BY <1>1, <1>2, <1>3 DEF Collector

LEMMA TypeStep == ASSUME TypeOK, TakenInv, HandlerInv, Next PROVE TypeOK'
<1>1. CASE Tick
  BY <1>1, ProbeTypes, ConstantTypes DEF TypeOK, Tick, serverVars, clientVars
<1> QED BY <1>1, ServerType, ClientType, CollectorType DEF Next

LEMMA InitType == Init => TypeOK
<1> SUFFICES ASSUME Init PROVE TypeOK
  OBVIOUS
<1>1. PICK p \in Probes : scenario = p.scenario /\ runtime = p.runtime /\ slip = p.slip
  BY DEF Init
<1>2. p \in [scenario : Scenario, runtime : Runtime, slip : {0, 1}]
  BY ProbeAssumption DEF ProbeAssumption
<1>3. [scenario |-> scenario, runtime |-> runtime, slip |-> slip] = p
  BY <1>1, <1>2
<1> QED BY <1>1, <1>3, ConstantTypes DEF Init, TypeOK, Zero, Counters

-----------------------------------------------------------------------------
(* The snapshots taken                                                      *)

LEMMA TakenIs ==
  ASSUME TypeOK
  PROVE  /\ scrapes \in Seq(Snapshots) /\ Len(scrapes) \in Nat /\ DOMAIN scrapes = 1..Len(scrapes)
         /\ pending = <<>> => Taken = scrapes
         /\ pending # <<>> => /\ [pending[1] EXCEPT !.done = now] \in Snapshots
                              /\ Taken = Append(scrapes, [pending[1] EXCEPT !.done = now])
         /\ Taken \in Seq(Snapshots) /\ Len(Taken) \in Nat /\ DOMAIN Taken = 1..Len(Taken)
         /\ Len(Taken) = Len(scrapes) + Len(pending)
         /\ \A i \in DOMAIN Taken : Taken[i] \in Snapshots
<1>1. scrapes \in Seq(Snapshots) /\ Len(scrapes) \in Nat /\ DOMAIN scrapes = 1..Len(scrapes)
  BY LenProperties DEF TypeOK
<1>2. pending \in Seq(Snapshots) /\ Len(pending) \in {0, 1} /\ DOMAIN pending = 1..Len(pending)
  <2>1. pending \in Seq(Snapshots) /\ Len(pending) <= 1
    BY DEF TypeOK
  <2>2. Len(pending) \in Nat /\ DOMAIN pending = 1..Len(pending)
    BY <2>1, LenProperties
  <2> QED BY <2>1, <2>2
<1>3. CASE pending = <<>>
  <2>1. [i \in DOMAIN pending |-> [pending[i] EXCEPT !.done = now]] = <<>>
    BY <1>3
  <2>2. Taken = scrapes
    BY <1>1, <2>1 DEF Taken
  <2>3. Len(Taken) = Len(scrapes) + Len(pending)
    BY <1>1, <1>3, <2>2
  <2> QED BY <1>1, <1>3, <2>2, <2>3, ElementOfSeq
<1>4. CASE pending # <<>>
  <2> DEFINE s == [pending[1] EXCEPT !.done = now]
  <2>1. Len(pending) = 1 /\ pending[1] \in Snapshots
    BY <1>2, <1>4, EmptySeq, ElementOfSeq
  <2>2. s \in Snapshots
    BY <2>1, ProbeTypes DEF Snapshots
  <2>3. [i \in DOMAIN pending |-> [pending[i] EXCEPT !.done = now]] = <<s>>
    <3>1. DOMAIN pending = {1}
      BY <1>2, <2>1
    <3> QED BY <3>1
  <2> HIDE DEF s
  <2>4. Taken = Append(scrapes, s)
    BY <1>1, <2>2, <2>3, AppendIsConcat DEF Taken
  <2>5. /\ Taken \in Seq(Snapshots) /\ Len(Taken) = Len(scrapes) + 1
    BY <1>1, <2>2, <2>4, AppendProperties
  <2>6. Len(Taken) \in Nat /\ DOMAIN Taken = 1..Len(Taken)
    BY <2>5, LenProperties
  <2>7. \A i \in DOMAIN Taken : Taken[i] \in Snapshots
    BY <2>5, <2>6, ElementOfSeq
  <2> QED BY <1>1, <1>4, <2>1, <2>2, <2>4, <2>5, <2>6, <2>7 DEF s
<1> QED BY <1>3, <1>4

\* A step that is not a scrape leaves them alone: an answer arrives as it was taken.
LEMMA TakenStays ==
  ASSUME TypeOK, TypeOK', Next \/ UNCHANGED vars, ~Scrape
  PROVE  Taken' = Taken
<1>1. CASE UNCHANGED <<now, scrapes, pending>>
  BY <1>1 DEF Taken
<1>2. CASE Tick
  <2>1. pending = <<>> /\ pending' = <<>> /\ scrapes' = scrapes
    BY <1>2 DEF Tick
  <2>2. Taken = scrapes
    BY <2>1, TakenIs
  <2>3. Taken' = scrapes'
    <3>1. [i \in DOMAIN pending' |-> [pending'[i] EXCEPT !.done = now']] = <<>>
      BY <2>1
    <3> QED BY <2>1, <3>1, TakenIs DEF Taken
  <2> QED BY <2>1, <2>2, <2>3
<1>3. CASE Receive
  <2>1. pending # <<>> /\ pending' = <<>> /\ scrapes' = Append(scrapes, [pending[1] EXCEPT !.done = now])
    BY <1>3 DEF Receive
  <2>2. Taken = scrapes'
    BY <2>1, TakenIs
  <2>3. Taken' = scrapes'
    <3>1. [i \in DOMAIN pending' |-> [pending'[i] EXCEPT !.done = now']] = <<>>
      BY <2>1
    <3>2. scrapes' \in Seq(Snapshots)
      BY DEF TypeOK
    <3> QED BY <2>1, <3>1, <3>2 DEF Taken
  <2> QED BY <2>2, <2>3
<1>4. CASE Server \/ OtherRuntime
  <2>1. UNCHANGED <<now, scrapes, pending>>
    BY <1>4 DEF Server, OtherRuntime, Accept, SendPayload, SendLate, Abort, Acknowledge, GoOn, Settle,
                Restart, ServeOther, AbortOtherwise
  <2> QED BY <1>1, <2>1
<1>5. CASE Client \/ Evaluate \/ UNCHANGED vars
  <2>1. UNCHANGED <<now, scrapes, pending>>
    BY <1>5 DEF Client, Dispatch, AcceptHeaders, Read, Fail, Evaluate, vars
  <2> QED BY <1>1, <2>1
<1> QED BY <1>2, <1>3, <1>4, <1>5 DEF Next, Collector

\* The snapshot a scrape takes is the last one.
Snapshot(phase, sched) ==
  [phase |-> phase, sched |-> sched, done |-> now, process |-> process,
   running |-> running, counters |-> counters]

LEMMA TakenGrows ==
  ASSUME TypeOK, TypeOK', TakenInv, Scrape
  PROVE  /\ Taken = scrapes
         /\ \E phase \in Due : \E sched \in Nat :
              /\ sched <= now /\ Snapshot(phase, sched) \in Snapshots
              /\ Taken' = Append(Taken, Snapshot(phase, sched))
              /\ \A i \in DOMAIN Taken : Taken[i].sched < sched /\ Taken[i].done < now
<1> USE ProbeTypes, ConstantTypes
<1>1. PICK phase \in Due :
           LET sched == IF Opens(phase) THEN now ELSE Last(scrapes).sched + Cadence + slip
           IN /\ sched <= now
              /\ pending' = <<[phase |-> phase, sched |-> sched, done |-> 0, process |-> process,
                               running |-> running, counters |-> counters]>>
  BY ScrapeTakes
<1> DEFINE sched == IF Opens(phase) THEN now ELSE Last(scrapes).sched + Cadence + slip
           taken == [phase |-> phase, sched |-> sched, done |-> 0, process |-> process,
                     running |-> running, counters |-> counters]
<1>2. pending = <<>> /\ scrapes' = scrapes /\ now' = now /\ Taken = scrapes
  BY TakenIs DEF Scrape
<1>3. sched <= now /\ pending' = <<taken>>
  BY <1>1
<1>4. pending'[1] = taken /\ pending' # <<>> /\ taken \in Snapshots
  <2>1. pending' \in Seq(Snapshots)
    BY DEF TypeOK
  <2> HIDE DEF taken
  <2>2. pending'[1] = taken /\ Len(pending') = 1 /\ pending' # <<>>
    BY <1>3
  <2>3. ASSUME NEW q \in Seq(Snapshots), Len(q) = 1 PROVE q[1] \in Snapshots
    <3>1. 1 \in 1..Len(q)
      BY <2>3
    <3> QED BY <3>1, ElementOfSeq
  <2> QED BY <2>1, <2>2, <2>3
<1>5. sched \in Nat
  <2> HIDE DEF sched
  <2> QED BY <1>4 DEF Snapshots
<1>6. [pending'[1] EXCEPT !.done = now'] = Snapshot(phase, sched)
  <2> HIDE DEF sched
  <2> QED BY <1>2, <1>4 DEF Snapshot
<1>7. Snapshot(phase, sched) \in Snapshots
  <2> HIDE DEF sched
  <2> QED BY <1>4 DEF Snapshots, Snapshot
<1>8. Taken' = Append(scrapes, Snapshot(phase, sched))
  <2> DEFINE s == Snapshot(phase, sched)
  <2>1. [i \in DOMAIN pending' |-> [pending'[i] EXCEPT !.done = now']] = <<s>>
    <3>1. DOMAIN pending' = {1}
      <4> HIDE DEF taken
      <4> QED BY <1>3
    <3> QED BY <1>6, <3>1
  <2>2. scrapes \in Seq(Snapshots)
    BY TakenIs
  <2> HIDE DEF s
  <2>3. Taken' = scrapes \o <<s>>
    BY <1>2, <2>1 DEF Taken
  <2>4. s \in Snapshots
    BY <1>7 DEF s
  <2>5. Taken' = Append(scrapes, s)
    BY <2>2, <2>3, <2>4, AppendIsConcat
  <2> QED BY <2>5 DEF s
<1>9. ASSUME NEW i \in DOMAIN scrapes
      PROVE  scrapes[i].sched < sched /\ scrapes[i].done < now
  <2> DEFINE n == Len(scrapes)
  <2>1. scrapes # <<>> /\ n \in DOMAIN scrapes /\ Last(scrapes) = scrapes[n] /\ scrapes[n] \in Snapshots
    <3>1. scrapes # <<>>
      BY <1>9
    <3> QED BY <3>1, LastScrape
  <2>2. n \in Nat /\ i \in 1..n /\ scrapes[i] \in Snapshots
    BY <1>2, <1>9, TakenIs
  <2>3. now >= scrapes[n].done + Cadence
    BY <2>1 DEF Scrape
  <2>4. scrapes[i].sched \in Nat /\ scrapes[i].done \in Nat /\ scrapes[n].sched \in Nat /\ scrapes[n].done \in Nat
    BY <2>1, <2>2 DEF Snapshots
  <2>5. scrapes[i].sched <= scrapes[n].sched /\ scrapes[i].done <= scrapes[n].done
        /\ scrapes[n].sched <= scrapes[n].done
    <3>1. CASE i = n
      BY <1>2, <2>1, <2>4, <3>1 DEF TakenInv
    <3>2. CASE i < n
      BY <1>2, <2>1, <2>2, <2>4, <3>2 DEF TakenInv
    <3> QED BY <2>2, <3>1, <3>2
  <2>6. scrapes[n].sched < sched
    BY <2>1, <2>3, <2>4, <2>5, SMTT(30)
  <2> HIDE DEF sched
  <2> QED BY <1>5, <2>3, <2>4, <2>5, <2>6
<1> HIDE DEF sched
<1> QED BY <1>2, <1>3, <1>5, <1>7, <1>8, <1>9

LEMMA SnapshotAppended ==
  ASSUME TypeOK, NEW s \in Snapshots, Taken' = Append(Taken, s)
  PROVE  /\ Len(Taken') = Len(Taken) + 1 /\ DOMAIN Taken' = 1..(Len(Taken) + 1)
         /\ DOMAIN Taken = 1..Len(Taken) /\ Len(Taken) \in Nat
         /\ \A i \in DOMAIN Taken : i \in DOMAIN Taken' /\ Taken'[i] = Taken[i] /\ i < Len(Taken) + 1
         /\ Taken'[Len(Taken) + 1] = s /\ Len(Taken) + 1 \in DOMAIN Taken'
         /\ \A i \in DOMAIN Taken' : i \in DOMAIN Taken \/ i = Len(Taken) + 1
<1>1. Taken \in Seq(Snapshots) /\ Len(Taken) \in Nat /\ DOMAIN Taken = 1..Len(Taken)
  BY TakenIs
<1>2. /\ Append(Taken, s) \in Seq(Snapshots)
      /\ Len(Append(Taken, s)) = Len(Taken) + 1
      /\ \A i \in 1..Len(Taken) : Append(Taken, s)[i] = Taken[i]
      /\ Append(Taken, s)[Len(Taken) + 1] = s
  BY <1>1, AppendProperties
<1>3. DOMAIN Append(Taken, s) = 1..(Len(Taken) + 1)
  BY <1>1, <1>2, LenProperties
<1> QED BY <1>1, <1>2, <1>3

\* A scrape that is due is in phase.
LEMMA DueInPhase ==
  ASSUME TypeOK, TakenInv, NEW phase \in Due, pending = <<>>
  PROVE  /\ phase = "PRE_DISPATCH" <=> client = "idle"
         /\ client \in {"idle", "closed"}
         /\ phase \notin {"PRE_DISPATCH", "DRAIN"} => \E j \in DOMAIN scrapes : scrapes[j].phase = "DRAIN"
<1>1. phase = "PRE_DISPATCH" => client = "idle"
  BY DEF Due
<1>2. client = "idle" => phase = "PRE_DISPATCH"
  BY DEF Due
<1>3. client \in {"idle", "closed"}
  BY DEF Due
<1>4. ASSUME phase \notin {"PRE_DISPATCH", "DRAIN"}
      PROVE  \E j \in DOMAIN scrapes : scrapes[j].phase = "DRAIN"
  <2>1. ~(Len(Drain) < DrainCount)
    BY <1>4 DEF Due
  <2>2. Drain # <<>>
    <3>1. Len(<<>>) = 0
      OBVIOUS
    <3> QED BY <2>1, <3>1, ConstantTypes
  <2>3. At("DRAIN") # {}
    BY <2>2 DEF Drain, Of
  <2> QED BY <2>3 DEF At
<1> QED BY <1>1, <1>2, <1>3, <1>4

LEMMA ScrapeKeepsOrder ==
  ASSUME TypeOK, TypeOK', TakenInv, Scrape
  PROVE  TakenInv'
<1> USE ProbeTypes
<1>1. PICK phase \in Due, sched \in Nat :
              /\ sched <= now /\ Snapshot(phase, sched) \in Snapshots
              /\ Taken' = Append(Taken, Snapshot(phase, sched))
              /\ \A i \in DOMAIN Taken : Taken[i].sched < sched /\ Taken[i].done < now
  BY TakenGrows
<1> DEFINE s == Snapshot(phase, sched)
           n == Len(Taken) + 1
<1>2. s \in Snapshots /\ s.phase = phase /\ s.sched = sched /\ s.done = now
  BY <1>1 DEF Snapshot
<1>3. /\ Taken = scrapes /\ scrapes' = scrapes /\ now' = now /\ client' = client /\ pending = <<>>
  BY TakenGrows DEF Scrape, clientVars
<1>4. /\ DOMAIN Taken' = 1..n /\ DOMAIN Taken = 1..Len(Taken) /\ Len(Taken) \in Nat
      /\ \A i \in DOMAIN Taken : i \in DOMAIN Taken' /\ Taken'[i] = Taken[i] /\ i < n
      /\ Taken'[n] = s /\ n \in DOMAIN Taken'
      /\ \A i \in DOMAIN Taken' : i \in DOMAIN Taken \/ i = n
  BY <1>1, <1>2, SnapshotAppended
<1> HIDE DEF s, n
<1>5. \A i \in DOMAIN Taken' : Taken'[i].sched <= Taken'[i].done /\ Taken'[i].done <= now'
  BY <1>1, <1>2, <1>3, <1>4 DEF TakenInv
<1>6. phase = "PRE_DISPATCH" => \A i \in DOMAIN Taken : Taken[i].phase = "PRE_DISPATCH"
  BY <1>3, DueInPhase DEF TakenInv
<1>7. ASSUME NEW i \in DOMAIN Taken', NEW j \in DOMAIN Taken', i < j
      PROVE  /\ Taken'[i].sched < Taken'[j].sched /\ Taken'[i].done < Taken'[j].done
             /\ Taken'[j].phase = "PRE_DISPATCH" => Taken'[i].phase = "PRE_DISPATCH"
  <2>1. i \in DOMAIN Taken
    BY <1>4, <1>7
  <2>2. CASE j \in DOMAIN Taken
    BY <1>4, <1>7, <2>1, <2>2 DEF TakenInv
  <2>3. CASE j = n
    BY <1>1, <1>2, <1>4, <1>6, <2>1, <2>3
  <2> QED BY <1>4, <2>2, <2>3
<1>11. ASSUME NEW i \in DOMAIN Taken' PROVE Taken'[1].phase = "PRE_DISPATCH"
  <2>1. CASE Taken = <<>>
    <3>1. n = 1 /\ client = "idle"
      <4>1. Len(Taken) = 0
        BY <2>1
      <4>2. client = "idle"
        BY <1>3, <2>1 DEF TakenInv
      <4> QED BY <4>1, <4>2 DEF n
    <3>2. phase = "PRE_DISPATCH"
      BY <1>3, <3>1, DueInPhase
    <3> QED BY <1>2, <1>4, <3>1, <3>2
  <2>2. CASE Taken # <<>>
    <3>1. 1 \in DOMAIN Taken
      <4>1. Len(Taken) # 0
        BY <2>2, TakenIs, EmptySeq
      <4> HIDE DEF Taken
      <4> QED BY <1>4, <4>1
    <3> QED BY <1>4, <3>1 DEF TakenInv
  <2> QED BY <2>1, <2>2
<1>8. ASSUME NEW i \in DOMAIN Taken', Taken'[i].phase \notin {"PRE_DISPATCH", "DRAIN"}
      PROVE  \E j \in 1..(i - 1) : Taken'[j].phase = "DRAIN"
  <2>1. CASE i \in DOMAIN Taken
    <3>1. PICK j \in 1..(i - 1) : Taken[j].phase = "DRAIN"
      BY <1>4, <1>8, <2>1 DEF TakenInv
    <3>2. j \in DOMAIN Taken
      BY <1>4, <2>1
    <3> QED BY <1>4, <3>1, <3>2
  <2>2. CASE i = n
    <3>1. phase \notin {"PRE_DISPATCH", "DRAIN"}
      BY <1>2, <1>4, <1>8, <2>2
    <3>2. PICK j \in DOMAIN Taken : Taken[j].phase = "DRAIN"
      BY <1>3, <3>1, DueInPhase
    <3>3. j \in 1..(i - 1)
      BY <1>4, <2>2, <3>2 DEF n
    <3> QED BY <1>4, <3>2, <3>3
  <2> QED BY <1>4, <2>1, <2>2
<1>9. client' # "idle" => scrapes' # <<>>
  BY <1>3 DEF TakenInv
<1>10. client' \in {"idle", "dispatched", "open"} =>
         \A i \in DOMAIN Taken' : Taken'[i].phase = "PRE_DISPATCH"
  <2>1. client \in {"idle", "dispatched", "open"} => phase = "PRE_DISPATCH"
    BY <1>3, DueInPhase
  <2> QED BY <1>2, <1>3, <1>4, <1>6, <2>1
<1> QED BY <1>5, <1>7, <1>8, <1>9, <1>10, <1>11 DEF TakenInv

LEMMA TakenStep ==
  ASSUME TypeOK, TypeOK', TakenInv, Next \/ UNCHANGED vars
  PROVE  TakenInv'
<1>1. CASE Scrape
  BY <1>1, ScrapeKeepsOrder
<1>2. CASE ~Scrape
  <2>1. Taken' = Taken
    BY <1>2, TakenStays
  <2>2. now' \in Nat /\ now' >= now /\ now \in Nat
    <3>1. now' = now \/ now' = now + 1
      BY <1>2 DEF Next, Tick, Server, Accept, SendPayload, SendLate, Abort, OtherRuntime, Acknowledge, GoOn,
                  Settle, Restart, ServeOther, AbortOtherwise, Client, Dispatch, AcceptHeaders, Read, Fail,
                  Collector, Receive, Evaluate, vars
    <3> QED BY <3>1, ProbeTypes
  <2>3. /\ client' \in {"idle", "dispatched", "open"} => client \in {"idle", "dispatched", "open"}
        /\ client' # "idle" => scrapes' # <<>>
    <3>1. CASE Client
      <4>1. client' # "idle" => scrapes # <<>>
        <5>1. CASE Dispatch
          <6>1. Len(<<>>) = 0
            OBVIOUS
          <6> QED BY <5>1, <6>1, ConstantTypes DEF Dispatch
        <5>2. CASE AcceptHeaders \/ Read \/ Fail
          BY <5>2 DEF AcceptHeaders, Read, Fail, TakenInv
        <5> QED BY <3>1, <5>1, <5>2 DEF Client
      <4> QED BY <3>1, <4>1 DEF Client, Dispatch, AcceptHeaders, Read, Fail
    <3>2. CASE Receive
      <4>1. scrapes' # <<>> /\ client' = client
        <5>1. ASSUME NEW q \in Seq(Snapshots), NEW x \in Snapshots PROVE Append(q, x) # <<>>
          <6>1. Len(Append(q, x)) = Len(q) + 1 /\ Len(q) \in Nat /\ Len(<<>>) = 0
            BY AppendProperties, LenProperties
          <6> QED BY <6>1
        <5> QED BY <3>2, <5>1, TakenIs DEF Receive, clientVars
      <4> QED BY <4>1
    <3>3. CASE ~Client /\ ~Receive
      <4>1. UNCHANGED <<client, scrapes>>
        BY <1>2, <3>3 DEF Next, Tick, Server, Accept, SendPayload, SendLate, Abort, OtherRuntime, Acknowledge, GoOn,
                  Settle, Restart, ServeOther, AbortOtherwise, Collector, Evaluate, vars, clientVars
      <4> QED BY <4>1 DEF TakenInv
    <3> QED BY <3>1, <3>2, <3>3
  <2>4. \A i \in DOMAIN Taken : Taken[i].done \in Nat
    BY TakenIs DEF Snapshots
  <2> QED BY <2>1, <2>2, <2>3, <2>4 DEF TakenInv
<1> QED BY <1>1, <1>2

-----------------------------------------------------------------------------
(* The request at the server                                                *)

LEMMA NothingLogged ==
  ASSUME logs = <<>>, NEW kind
  PROVE  ~Logged(kind)
BY DEF Logged

\* What a log line adds.
LEMMA LoggedAfter ==
  ASSUME TypeOK, NEW kinds \in Seq(LogKinds), Log(kinds), NEW kind
  PROVE  Logged(kind)' <=> Logged(kind) \/ \E m \in 1..Len(kinds) : kinds[m] = kind
<1>1. ASSUME NEW l \in DOMAIN logs', logs'[l].kind = kind
      PROVE  Logged(kind) \/ \E m \in 1..Len(kinds) : kinds[m] = kind
  <2>1. CASE l \in DOMAIN logs
    <3>1. logs[l].kind = kind
      BY <1>1, <2>1, LogGrows
    <3> QED BY <2>1, <3>1 DEF Logged
  <2>2. CASE l \notin DOMAIN logs
    <3>1. PICK m \in 1..Len(kinds) : l = Len(logs) + m
      BY <1>1, <2>2, LogGrows
    <3>2. logs'[Len(logs) + m].kind = kinds[m]
      BY LogGrows
    <3> QED BY <1>1, <3>1, <3>2
  <2> QED BY <2>1, <2>2
<1>2. ASSUME NEW l \in DOMAIN logs, logs[l].kind = kind
      PROVE  \E k \in DOMAIN logs' : logs'[k].kind = kind
  BY <1>2, LogGrows
<1>3. ASSUME NEW m \in 1..Len(kinds), kinds[m] = kind
      PROVE  \E k \in DOMAIN logs' : logs'[k].kind = kind
  BY <1>3, LogGrows
<1> QED BY <1>1, <1>2, <1>3 DEF Logged

LEMMA AbortKinds ==
  /\ <<"received", "added">> \in Seq(LogKinds) /\ <<"internal", "external">> \in Seq(LogKinds)
  /\ Len(<<"received", "added">>) = 2 /\ Len(<<"internal", "external">>) = 2
BY KindsType DEF LogKinds

LEMMA HandlerOfServer ==
  ASSUME TypeOK, HandlerInv, Server
  PROVE  HandlerInv'
<1>1. CASE Accept
  <2>1. ~Logged("external")
    BY <1>1, NothingLogged DEF Accept, HandlerInv
  <2>2. ~Logged("external")'
    <3>1. \A m \in 1..2 : <<"received", "added">>[m] # "external"
      OBVIOUS
    <3>2. Log(<<"received", "added">>)
      BY <1>1 DEF Accept
    <3>3. Logged("external")' <=> \/ Logged("external")
                                 \/ \E m \in 1..Len(<<"received", "added">>) : <<"received", "added">>[m] = "external"
      BY <3>2, AbortKinds, LoggedAfter
    <3> QED BY <2>1, <3>1, <3>3, AbortKinds
  <2> QED BY <1>1, <2>2 DEF Accept, HandlerInv, ConnectionLost, clientVars
<1>2. CASE SendPayload
  BY <1>2 DEF SendPayload, HandlerInv, ConnectionLost, clientVars, Logged
<1>3. CASE SendLate
  BY <1>3 DEF SendLate, HandlerInv, ConnectionLost, clientVars, Logged
<1>4. CASE Abort
  BY <1>4 DEF Abort, HandlerInv, ConnectionLost, clientVars
<1> QED BY <1>1, <1>2, <1>3, <1>4 DEF Server

LEMMA HandlerOfOtherRuntime ==
  ASSUME TypeOK, HandlerInv, OtherRuntime
  PROVE  HandlerInv'
<1>1. CASE Acknowledge
  BY <1>1 DEF Acknowledge, HandlerInv, ConnectionLost, clientVars
<1>2. CASE GoOn
  BY <1>2 DEF GoOn, HandlerInv, ConnectionLost, clientVars, Logged
<1>3. CASE Settle
  BY <1>3 DEF Settle, HandlerInv, ConnectionLost, clientVars, Logged
<1>4. CASE Restart
  BY <1>4 DEF Restart, HandlerInv, ConnectionLost, clientVars, Logged
<1>5. CASE ServeOther
  BY <1>5 DEF ServeOther, HandlerInv, ConnectionLost, clientVars, Logged
<1>6. CASE AbortOtherwise
  BY <1>6 DEF AbortOtherwise, HandlerInv, ConnectionLost, clientVars
<1> QED BY <1>1, <1>2, <1>3, <1>4, <1>5, <1>6 DEF OtherRuntime

\* A client reads from a server that has written.
LEMMA ReadOfWritten ==
  ASSUME TypeOK, HandlerInv, Read
  PROVE  wire # <<>> /\ handler \notin {"none", "headed"}
<1>1. wire # <<>>
  <2>1. PICK n \in 0..Len(wire) : n > 0 \/ (wire # <<>> /\ reads = <<>>)
    BY DEF Read
  <2>2. CASE wire = <<>>
    <3>1. Len(wire) = 0
      BY <2>2
    <3> QED BY <2>1, <2>2, <3>1
  <2> QED BY <2>2
<1> QED BY <1>1 DEF HandlerInv

LEMMA HandlerStep ==
  ASSUME TypeOK, HandlerInv, Next \/ UNCHANGED vars
  PROVE  HandlerInv'
<1>1. CASE Client
  <2>1. CASE Dispatch \/ AcceptHeaders \/ Fail
    BY <2>1 DEF Dispatch, AcceptHeaders, Fail, HandlerInv, ConnectionLost, serverVars, Logged
  <2>2. CASE Read
    <3>1. handler \notin {"none", "headed"} /\ client = "open" /\ client' # "idle"
      BY <2>2, ReadOfWritten DEF Read
    <3> QED BY <2>2, <3>1 DEF Read, HandlerInv, ConnectionLost, serverVars, Logged
  <2> QED BY <1>1, <2>1, <2>2 DEF Client
<1>2. CASE Tick \/ Collector \/ UNCHANGED vars
  BY <1>2 DEF Tick, Collector, Scrape, Receive, Evaluate, vars, HandlerInv, ConnectionLost, serverVars, clientVars,
              Logged
<1> QED BY <1>1, <1>2, HandlerOfServer, HandlerOfOtherRuntime DEF Next

-----------------------------------------------------------------------------
(* What the snapshots show                                                  *)

LEMMA ProbeStays ==
  ASSUME Next \/ UNCHANGED vars
  PROVE  runtime' = runtime /\ scenario' = scenario
BY DEF Next, Tick, Server, Accept, SendPayload, SendLate, Abort, OtherRuntime, Acknowledge, GoOn, Settle, Restart,
       ServeOther, AbortOtherwise, Client, Dispatch, AcceptHeaders, Read, Fail, Collector, Scrape, Receive, Evaluate,
       vars, serverVars, clientVars

\* A step that takes no snapshot keeps what holds of each, one that takes one adds
\* the state it was taken in.
LEMMA PreStep ==
  ASSUME TypeOK, TypeOK', TakenInv, HandlerInv, PreInv, Next \/ UNCHANGED vars
  PROVE  PreInv'
<1>0. runtime' = runtime
  BY ProbeStays
<1>1. CASE ~Scrape
  <2>1. Taken' = Taken
    BY <1>1, TakenStays
  <2> QED BY <1>0, <2>1 DEF PreInv
<1>2. CASE Scrape
  <2>1. PICK phase \in Due, sched \in Nat :
          Snapshot(phase, sched) \in Snapshots /\ Taken' = Append(Taken, Snapshot(phase, sched))
    BY <1>2, TakenGrows
  <2>2. ASSUME runtime # "serves", phase = "PRE_DISPATCH"
        PROVE  counters = Zero /\ running = 0
    <3>1. pending = <<>>
      BY <1>2 DEF Scrape
    <3> QED BY <2>2, <3>1, DueInPhase DEF HandlerInv
  <2>3. /\ \A i \in DOMAIN Taken : Taken'[i] = Taken[i]
        /\ Taken'[Len(Taken) + 1] = Snapshot(phase, sched)
        /\ \A i \in DOMAIN Taken' : i \in DOMAIN Taken \/ i = Len(Taken) + 1
    BY <2>1, SnapshotAppended
  <2>4. /\ Snapshot(phase, sched).phase = phase /\ Snapshot(phase, sched).counters = counters
        /\ Snapshot(phase, sched).running = running
    BY DEF Snapshot
  <2> QED BY <1>0, <2>2, <2>3, <2>4 DEF PreInv
<1> QED BY <1>1, <1>2

LEMMA CountersNow == ASSUME TypeOK PROVE counters.other \in Nat /\ counters \in Counters
BY DEF TypeOK, Counters

\* What the steps other than a scrape do to the requests of others.
LEMMA OthersServed ==
  ASSUME TypeOK, Next \/ UNCHANGED vars, runtime \notin {"goesOn", "restarts"}, ~ServeOther
  PROVE  counters'.other = counters.other /\ foreign' = foreign
<1>0. counters \in Counters /\ Tokens \in Nat
  BY ProbeTypes, CountersNow
<1>1. CASE SendPayload
  <2>1. Generated(Tokens).other = counters.other
    BY <1>0, CountersType
  <2> QED BY <1>1, <2>1 DEF SendPayload
<1>2. CASE Abort \/ AbortOtherwise
  <2>1. [counters EXCEPT !.abort = @ + 1].other = counters.other
    BY <1>0 DEF Counters
  <2> QED BY <1>2, <2>1 DEF Abort, AbortOtherwise
<1>3. CASE Accept \/ SendLate \/ Client \/ Collector \/ Tick \/ Acknowledge \/ UNCHANGED vars
  BY <1>3 DEF Accept, SendLate, Acknowledge, Client, Dispatch, AcceptHeaders, Read, Fail, Collector, Scrape, Receive,
              Evaluate, Tick, vars, serverVars, clientVars
<1> QED BY <1>1, <1>2, <1>3 DEF Next, Server, OtherRuntime, GoOn, Settle, Restart

LEMMA ServesStep ==
  ASSUME TypeOK, TypeOK', TakenInv, ServesInv, Next \/ UNCHANGED vars
  PROVE  ServesInv'
<1>0. runtime' = runtime /\ counters.other \in Nat
  BY ProbeStays, CountersNow
<1>1. CASE runtime # "serves"
  <2>1. foreign' = foreign
    BY <1>1 DEF Next, Tick, Server, Accept, SendPayload, SendLate, Abort, OtherRuntime, Acknowledge, GoOn, Settle,
                Restart, ServeOther, AbortOtherwise, Client, Dispatch, AcceptHeaders, Read, Fail, Collector, Scrape,
                Receive, Evaluate, vars, serverVars, clientVars
  <2> QED BY <1>0, <1>1, <2>1 DEF ServesInv
<1>2. CASE runtime = "serves" /\ ServeOther
  <2>1. Taken' = Taken /\ counters.other = 0 /\ foreign' = foreign \cup {Len(scrapes) + Len(pending)}
    <3>1. ~Scrape
      BY <1>2, SMTT(30) DEF ServeOther, Scrape
    <3> QED BY <1>2, <3>1, TakenStays DEF ServeOther
  <2>2. counters'.other = 1
    <3>1. counters' = [Generated(1) EXCEPT !.other = 1] /\ Generated(1) \in Counters
      BY <1>2, CountersNow, CountersType DEF ServeOther
    <3> QED BY <3>1 DEF Counters
  <2>3. Len(scrapes) + Len(pending) = Len(Taken) /\ Len(Taken) \in 0..Len(Taken) /\ DOMAIN Taken = 1..Len(Taken)
    <3>1. Len(scrapes) + Len(pending) = Len(Taken) /\ Len(Taken) \in Nat /\ DOMAIN Taken = 1..Len(Taken)
      BY TakenIs
    <3> HIDE DEF Taken
    <3> QED BY <3>1
  <2>4. foreign' = {Len(Taken)}
    BY <1>2, <2>1, <2>3 DEF ServesInv
  <2>5. \A i \in DOMAIN Taken : i <= Len(Taken) /\ Taken[i].counters.other = 0
    BY <1>2, <2>1, <2>3 DEF ServesInv
  <2> QED BY <1>0, <1>2, <2>1, <2>2, <2>3, <2>4, <2>5 DEF ServesInv
<1>3. CASE runtime = "serves" /\ ~ServeOther /\ ~Scrape
  <2>1. Taken' = Taken
    BY <1>3, TakenStays
  <2>2. counters'.other = counters.other /\ foreign' = foreign
    BY <1>3, OthersServed
  <2> QED BY <1>0, <1>3, <2>1, <2>2 DEF ServesInv
<1>4. CASE runtime = "serves" /\ Scrape
  <2>1. PICK phase \in Due, sched \in Nat :
          Snapshot(phase, sched) \in Snapshots /\ Taken' = Append(Taken, Snapshot(phase, sched))
    BY <1>4, TakenGrows
  <2>2. counters' = counters /\ foreign' = foreign
    BY <1>4 DEF Scrape, serverVars
  <2> DEFINE n == Len(Taken) + 1
  <2>3. /\ Len(Taken) \in Nat /\ Len(Taken') = n
        /\ \A i \in DOMAIN Taken : Taken'[i] = Taken[i]
        /\ Taken'[n].counters = counters
        /\ \A i \in DOMAIN Taken' : i \in DOMAIN Taken \/ i = n
    BY <2>1, SnapshotAppended DEF Snapshot
  <2>4. CASE counters.other = 0
    <3>1. \A i \in DOMAIN Taken' : Taken'[i].counters.other = 0
      BY <1>4, <2>3, <2>4 DEF ServesInv
    <3> QED BY <1>0, <1>4, <2>2, <2>4, <3>1 DEF ServesInv
  <2>5. CASE counters.other # 0
    <3>1. PICK k \in 0..Len(Taken) :
            /\ foreign = {k}
            /\ \A i \in DOMAIN Taken : Taken[i].counters.other = IF i <= k THEN 0 ELSE 1
      BY <1>4, <2>5 DEF ServesInv
    <3>2. k \in 0..Len(Taken') /\ ~(n <= k) /\ counters.other = 1
      BY <1>4, <2>3, <2>5, <3>1 DEF ServesInv
    <3>3. ASSUME NEW i \in DOMAIN Taken'
          PROVE  Taken'[i].counters.other = IF i <= k THEN 0 ELSE 1
      <4>1. CASE i \in DOMAIN Taken
        BY <2>3, <3>1, <4>1
      <4>2. CASE i = n
        BY <2>3, <3>2, <4>2
      <4> QED BY <2>3, <4>1, <4>2
    <3> HIDE DEF n
    <3> QED BY <1>0, <1>4, <2>2, <2>5, <3>1, <3>2, <3>3 DEF ServesInv
  <2> QED BY <2>4, <2>5
<1> QED BY <1>1, <1>2, <1>3, <1>4

\* The external line of an abort is the one that is logged now.
LEMMA LoggedNow ==
  ASSUME TypeOK, Log(<<"internal", "external">>), ~Logged("external"),
         NEW l \in DOMAIN logs', logs'[l].kind = "external"
  PROVE  logs'[l].at = now
<1>1. CASE l \in DOMAIN logs
  <2>1. logs[l].kind = "external"
    BY <1>1, AbortKinds, LogGrows
  <2> QED BY <1>1, <2>1 DEF Logged
<1>2. CASE l \notin DOMAIN logs
  <2>1. PICK m \in 1..Len(<<"internal", "external">>) : l = Len(logs) + m
    BY <1>2, AbortKinds, LogGrows
  <2>2. logs'[Len(logs) + m].at = now
    BY AbortKinds, LogGrows
  <2> QED BY <2>1, <2>2
<1> QED BY <1>1, <1>2

LEMMA ScrapeAnswers == Scrape => pending' # pending
<1> SUFFICES ASSUME Scrape PROVE pending' # pending
  OBVIOUS
<1>1. PICK x : pending' = <<x>>
  BY DEF Scrape
<1>2. Len(<<x>>) = 1 /\ Len(<<>>) = 0
  OBVIOUS
<1> QED BY <1>1, <1>2 DEF Scrape

\* A runtime that goes on: what it does at the server, its snapshots unchanged.
LEMMA GoesOnOfServer ==
  ASSUME TypeOK, TypeOK', TakenInv, HandlerInv, GoesOnInv, runtime = "goesOn", Server \/ OtherRuntime
  PROVE  GoesOnInv'
<1> DEFINE AfterNext(s) == \E l \in DOMAIN logs' : logs'[l].kind = "external" /\ logs'[l].at < s.done
<1>0. runtime' = runtime /\ counters \in Counters /\ counters.other \in Nat
  BY ProbeStays, CountersNow DEF Next
<1>1. Taken' = Taken /\ client' = client
  <2>1. ~Scrape
    BY ScrapeAnswers DEF Server, OtherRuntime, Accept, SendPayload, SendLate, Abort, Acknowledge, GoOn, Settle, Restart,
                         ServeOther, AbortOtherwise
  <2>2. client' = client
    BY DEF Server, OtherRuntime, Accept, SendPayload, SendLate, Abort, Acknowledge, GoOn, Settle, Restart, ServeOther,
           AbortOtherwise, clientVars
  <2> QED BY <2>1, <2>2, TakenStays DEF Next
<1>2. CASE Accept
  BY <1>0, <1>2 DEF Accept, GoesOnInv
<1>3. CASE SendPayload
  <2>1. ~Logged("external") /\ logs' = logs
    BY <1>3 DEF SendPayload, HandlerInv
  <2>2. ~Logged("external")'
    BY <2>1 DEF Logged
  <2>3. counters'.other = counters.other
    <3>0. Tokens \in Nat
      BY ProbeTypes
    <3>1. Generated(Tokens).other = counters.other
      BY <1>0, <3>0, CountersType
    <3> QED BY <1>3, <3>1 DEF SendPayload
  <2>4. counters.other = 0
    BY <1>3 DEF SendPayload, GoesOnInv
  <2> QED BY <1>0, <1>3, <2>2, <2>3, <2>4 DEF SendPayload, GoesOnInv
<1>4. CASE SendLate
  BY <1>0, <1>4 DEF SendLate, GoesOnInv
<1>5. CASE Acknowledge
  <2>1. Log(<<"internal", "external">>) /\ ~Logged("external")
    BY <1>5 DEF Acknowledge, HandlerInv
  <2>2. \A l \in DOMAIN logs' : logs'[l].kind = "external" => logs'[l].at = now
    BY <2>1, LoggedNow
  <2>3. ASSUME NEW i \in DOMAIN Taken', AfterNext(Taken'[i])
        PROVE  FALSE
    <3>1. Taken'[i].done <= now /\ Taken'[i].done \in Nat
      BY <1>1, <2>3, TakenIs DEF TakenInv, Snapshots
    <3>2. PICK l \in DOMAIN logs' : logs'[l].kind = "external" /\ logs'[l].at < Taken'[i].done
      BY <2>3
    <3> QED BY <2>2, <3>1, <3>2, ProbeTypes
  <2>4. running = 1 /\ fate = "open" /\ counters.other = 0
    BY <1>5 DEF Acknowledge, HandlerInv, GoesOnInv
  <2> QED BY <1>0, <1>5, <2>3, <2>4 DEF Acknowledge, GoesOnInv, After
<1>6. CASE GoOn
  <2>1. counters'.other = counters.other
    BY <1>0, <1>6 DEF GoOn, Counters
  <2>2. \A i \in DOMAIN Taken : AfterNext(Taken[i]) <=> After(Taken[i])
    BY <1>1, <1>6 DEF GoOn, After
  <2> QED BY <1>0, <1>1, <1>6, <2>1, <2>2 DEF GoOn, GoesOnInv, After
<1>7. CASE Settle
  <2>1. counters.other = 0 /\ \A i \in DOMAIN Taken : After(Taken[i]) => Taken[i].running = 1
    BY <1>7 DEF Settle, GoesOnInv
  <2>2. \A i \in DOMAIN Taken' : AfterNext(Taken'[i]) => Taken'[i].running = 1
    BY <1>1, <1>7, <2>1 DEF Settle, After
  <2>3. fate' = "finished" => counters'.other = 1
    BY <1>0, <1>7, <2>1 DEF Settle, Counters
  <2> QED BY <1>0, <1>7, <2>2, <2>3 DEF Settle, GoesOnInv, After
<1>8. ~(Abort \/ Restart \/ ServeOther \/ AbortOtherwise)
  BY DEF Abort, Restart, ServeOther, AbortOtherwise
<1> QED BY <1>2, <1>3, <1>4, <1>5, <1>6, <1>7, <1>8 DEF Server, OtherRuntime

LEMMA GoesOnStep ==
  ASSUME TypeOK, TypeOK', TakenInv, HandlerInv, GoesOnInv, Next \/ UNCHANGED vars
  PROVE  GoesOnInv'
<1>0. runtime' = runtime
  BY ProbeStays
<1>1. CASE runtime # "goesOn"
  BY <1>0, <1>1 DEF GoesOnInv
<1>2. CASE runtime = "goesOn" /\ (Server \/ OtherRuntime)
  BY <1>2, GoesOnOfServer
<1>3. CASE runtime = "goesOn" /\ ~(Server \/ OtherRuntime)
  <2> DEFINE AfterNext(s) == \E l \in DOMAIN logs' : logs'[l].kind = "external" /\ logs'[l].at < s.done
  <2>1. UNCHANGED <<handler, counters, running, fate, logs>>
    BY <1>3 DEF Next, Tick, Client, Dispatch, AcceptHeaders, Read, Fail, Collector, Scrape, Receive, Evaluate, vars,
                serverVars
  <2>2. CASE ~Scrape
    <3>1. Taken' = Taken
      BY <2>2, TakenStays
    <3> QED BY <1>0, <2>1, <3>1 DEF GoesOnInv, After, Logged
  <2>3. CASE Scrape
    <3>1. PICK phase \in Due, sched \in Nat :
            Snapshot(phase, sched) \in Snapshots /\ Taken' = Append(Taken, Snapshot(phase, sched))
      BY <2>3, TakenGrows
    <3> DEFINE n == Len(Taken) + 1
    <3>2. /\ \A i \in DOMAIN Taken : Taken'[i] = Taken[i]
          /\ Taken'[n].counters = counters /\ Taken'[n].running = running
          /\ \A i \in DOMAIN Taken' : i \in DOMAIN Taken \/ i = n
      BY <3>1, SnapshotAppended DEF Snapshot
    <3> HIDE DEF n
    <3>3. ASSUME handler = "acked", NEW i \in DOMAIN Taken', AfterNext(Taken'[i])
          PROVE  Taken'[i].running = 1
      <4>1. CASE i \in DOMAIN Taken
        <5>1. Taken'[i] = Taken[i] /\ After(Taken[i])
          BY <2>1, <3>2, <3>3, <4>1 DEF After
        <5> QED BY <1>3, <3>3, <4>1, <5>1 DEF GoesOnInv
      <4>2. CASE i = n
        BY <1>3, <3>2, <3>3, <4>2 DEF GoesOnInv
      <4> QED BY <3>2, <4>1, <4>2
    <3>4. ASSUME handler = "ended", fate = "finished", Logged("external"),
                 NEW i \in DOMAIN Taken', AfterNext(Taken'[i]), Taken'[i].running = 0
          PROVE  Taken'[i].counters.other = 1
      <4>1. CASE i \in DOMAIN Taken
        <5>1. Taken'[i] = Taken[i] /\ After(Taken[i])
          BY <2>1, <3>2, <3>4, <4>1 DEF After
        <5> QED BY <1>3, <3>4, <4>1, <5>1 DEF GoesOnInv
      <4>2. CASE i = n
        BY <1>3, <3>2, <3>4, <4>2 DEF GoesOnInv
      <4> QED BY <3>2, <4>1, <4>2
    <3>5. Logged("external")' <=> Logged("external")
      BY <2>1 DEF Logged
    <3> QED BY <1>0, <1>3, <2>1, <3>3, <3>4, <3>5 DEF GoesOnInv, After
  <2> QED BY <2>2, <2>3
<1> QED BY <1>1, <1>2, <1>3

-----------------------------------------------------------------------------
(* The client's reads                                                       *)

LEMMA ReadStep ==
  ASSUME TypeOK, ReadInv, Next \/ UNCHANGED vars
  PROVE  ReadInv'
<1>1. CASE Read
  <2>1. PICK n \in 0..Len(wire) :
          LET frames == SubSeq(wire, 1, n)
              delivers == \E i \in 1..n : frames[i] \in Generations
          IN /\ reads' = Append(reads, [frames |-> frames, at |-> now])
             /\ client' = IF ~Fits(frames) THEN "failed" ELSE IF delivers THEN "closed" ELSE "open"
    BY <1>1 DEF Read
  <2> DEFINE frames == SubSeq(wire, 1, n)
             delivers == \E i \in 1..n : frames[i] \in Generations
             m == Len(reads) + 1
  <2>2. frames \in Seq(Frames) /\ Len(frames) = n /\ DOMAIN frames = 1..n
    <3>1. frames \in Seq(Frames) /\ Len(frames) = n
      BY ReadType
    <3> HIDE DEF frames
    <3> QED BY <3>1
  <2>3. /\ reads' = Append(reads, [frames |-> frames, at |-> now])
        /\ client' = IF ~Fits(frames) THEN "failed" ELSE IF delivers THEN "closed" ELSE "open"
    BY <2>1
  <2>4. /\ DOMAIN reads' = 1..m /\ Len(reads') = m /\ DOMAIN reads = 1..Len(reads) /\ Len(reads) \in Nat
        /\ \A i \in DOMAIN reads : reads'[i] = reads[i]
        /\ reads'[m].frames = frames
    <3> DEFINE S == [frames : Seq(Frames), at : 1..MaxTime]
               r == [frames |-> frames, at |-> now]
    <3>1. reads \in Seq(S) /\ r \in S
      BY ReadType DEF TypeOK
    <3>2. r.frames = frames /\ reads' = Append(reads, r)
      BY <2>3
    <3> HIDE DEF S, r
    <3>3. /\ Append(reads, r) \in Seq(S)
          /\ Len(Append(reads, r)) = Len(reads) + 1
          /\ \A i \in 1..Len(reads) : Append(reads, r)[i] = reads[i]
          /\ Append(reads, r)[Len(reads) + 1] = r
      BY <3>1, AppendProperties
    <3>4. DOMAIN reads = 1..Len(reads) /\ Len(reads) \in Nat /\ DOMAIN Append(reads, r) = 1..Len(Append(reads, r))
      BY <3>1, <3>3, LenProperties
    <3> QED BY <3>2, <3>3, <3>4
  <2>5. \A i \in DOMAIN reads : Range(reads[i].frames) \subseteq {"comment"}
    BY <1>1 DEF Read, ReadInv
  <2>6. client' # "failed" => Range(frames) \subseteq Generations \cup {"comment"}
    <3> HIDE DEF frames, delivers
    <3> QED BY <2>3 DEF Fits, Range
  <2>7. client' = "open" => Range(frames) \subseteq {"comment"}
    <3>1. client' = "open" => ~delivers
      BY <2>3
    <3>2. client' = "open" => \A i \in 1..n : frames[i] \notin Generations
      BY <3>1
    <3> HIDE DEF frames, delivers
    <3> QED BY <2>2, <2>6, <3>2 DEF Range
  <2>8. client' = "closed" => \E j \in DOMAIN frames : frames[j] \in Generations
    <3>1. client' = "closed" => delivers
      BY <2>3
    <3> HIDE DEF frames
    <3> QED BY <2>2, <3>1
  <2> HIDE DEF frames, delivers
  <2>9. \A i \in DOMAIN reads' : i \in DOMAIN reads \/ i = m
    BY <2>4
  <2>10. client' = "open" => \A i \in DOMAIN reads' : Range(reads'[i].frames) \subseteq {"comment"}
    <3> HIDE DEF m
    <3> QED BY <2>4, <2>5, <2>7, <2>9
  <2>11. ASSUME client' = "closed", NEW i \in DOMAIN reads'
         PROVE  /\ Range(reads'[i].frames) \subseteq Generations \cup {"comment"}
                /\ (\E j \in DOMAIN reads'[i].frames : reads'[i].frames[j] \in Generations) <=> i = m
    <3>1. CASE i \in DOMAIN reads
      <4>1. reads'[i] = reads[i] /\ i # m
        BY <2>4, <3>1
      <4>2. Range(reads[i].frames) \subseteq {"comment"}
        BY <2>5, <3>1
      <4>3. \A j \in DOMAIN reads[i].frames : reads[i].frames[j] \notin Generations
        BY <4>2 DEF Range, Generations
      <4> QED BY <4>1, <4>2, <4>3
    <3>2. CASE i = m
      <4> HIDE DEF m
      <4> QED BY <2>4, <2>6, <2>8, <2>11, <3>2
    <3> QED BY <2>9, <3>1, <3>2
  <2>12. client' \in {"failed", "closed", "open"}
    BY <2>3
  <2> HIDE DEF m
  <2> QED BY <2>4, <2>10, <2>11, <2>12 DEF ReadInv, CloseFollowsFirstDelivery
<1>2. CASE Dispatch \/ AcceptHeaders \/ Fail
  BY <1>2 DEF Dispatch, AcceptHeaders, Fail, ReadInv, CloseFollowsFirstDelivery
<1>3. CASE ~Client
  <2>1. UNCHANGED <<client, reads>>
    BY <1>3 DEF Next, Tick, Server, Accept, SendPayload, SendLate, Abort, OtherRuntime, Acknowledge, GoOn, Settle,
                Restart, ServeOther, AbortOtherwise, Collector, Scrape, Receive, Evaluate, vars, clientVars
  <2> QED BY <2>1 DEF ReadInv, CloseFollowsFirstDelivery
<1> QED BY <1>1, <1>2, <1>3 DEF Client

-----------------------------------------------------------------------------
(* The fixture                                                              *)

\* Its log before and after.
LEMMA FixtureLog ==
  ASSUME TypeOK, NEW kinds \in Seq(LogKinds), Log(kinds), Len(kinds) = 2, Len(logs) \in {0, 2},
         \A l \in DOMAIN logs : logs[l].kind = Kinds[l],
         \A m \in 1..2 : kinds[m] = Kinds[Len(logs) + m]
  PROVE  /\ Len(logs') = Len(logs) + 2
         /\ \A l \in DOMAIN logs' : logs'[l].kind = Kinds[l]
         /\ Len(logs) = 2 => logs'[4].at = now
<1>1. Len(logs') = Len(logs) + 2
  BY LogGrows
<1>2. ASSUME NEW l \in DOMAIN logs'
      PROVE  logs'[l].kind = Kinds[l]
  <2>1. CASE l \in DOMAIN logs
    BY <2>1, LogGrows
  <2>2. CASE l \notin DOMAIN logs
    <3>1. PICK m \in 1..Len(kinds) : l = Len(logs) + m
      BY <1>2, <2>2, LogGrows
    <3>2. logs'[Len(logs) + m].kind = kinds[m]
      BY LogGrows
    <3> QED BY <3>1, <3>2
  <2> QED BY <2>1, <2>2
<1>3. ASSUME Len(logs) = 2
      PROVE  logs'[4].at = now
  <2>1. 2 \in 1..Len(kinds)
    OBVIOUS
  <2>2. logs'[Len(logs) + 2].at = now
    BY <2>1, LogGrows
  <2> QED BY <1>3, <2>2
<1> QED BY <1>1, <1>2, <1>3

LEMMA FixtureOfServer ==
  ASSUME TypeOK, TypeOK', TakenInv, HandlerInv, FixtureInv, runtime = "fixture", Server
  PROVE  FixtureInv'
<1>0. runtime' = runtime /\ scenario' = scenario /\ Paid' = Paid /\ Aborted' = Aborted /\ Tokens \in Nat
  BY ProbeStays, ProbeTypes DEF Next, Paid, Aborted, Tokens
<1>1. Taken' = Taken /\ client' = client
  <2>1. ~Scrape
    BY ScrapeAnswers DEF Server, Accept, SendPayload, SendLate, Abort
  <2>2. client' = client
    BY DEF Server, Accept, SendPayload, SendLate, Abort, clientVars
  <2> QED BY <2>1, <2>2, TakenStays DEF Next
<1>2. CASE Accept
  <2>1. Log(<<"received", "added">>) /\ logs = <<>> /\ counters = Zero
    BY <1>2 DEF Accept, HandlerInv
  <2>2. Len(logs) = 0 /\ DOMAIN logs = {}
    BY <2>1
  <2>3. \A m \in 1..2 : <<"received", "added">>[m] = Kinds[Len(logs) + m]
    BY <2>2 DEF Kinds
  <2>4. Len(logs') = 2 /\ \A l \in DOMAIN logs' : logs'[l].kind = Kinds[l]
    <3> DEFINE k == <<"received", "added">>
    <3>1. k \in Seq(LogKinds) /\ Len(k) = 2 /\ Log(k) /\ \A m \in 1..2 : k[m] = Kinds[Len(logs) + m]
      BY <2>1, <2>3, AbortKinds
    <3>2. \A l \in DOMAIN logs : logs[l].kind = Kinds[l]
      BY <2>2
    <3> HIDE DEF k
    <3> QED BY <2>2, <3>1, <3>2, FixtureLog
  <2> QED BY <1>0, <1>1, <1>2, <2>1, <2>4 DEF Accept, FixtureInv, FixtureServed, FixtureShown
<1>3. CASE SendPayload
  <2>1. Len(logs) = 2 /\ counters = Zero
    BY <1>3 DEF SendPayload, FixtureInv, FixtureServed
  <2>2. Generated(Tokens) = Paid
    <3>1. counters \in Counters
      BY DEF TypeOK
    <3>2. /\ Generated(Tokens) \in Counters
          /\ Generated(Tokens).prompt = counters.prompt + 1 /\ Generated(Tokens).gen = counters.gen + Tokens
          /\ \A c \in {"abort", "other", "aux"} : Generated(Tokens)[c] = counters[c]
      BY <1>0, <3>1, CountersType
    <3>3. ASSUME NEW g \in Counters, g.prompt = 1, g.gen = Tokens, g.abort = 0, g.other = 0, g.aux = 0
          PROVE  g = Paid
      <4>1. g = [prompt |-> g.prompt, gen |-> g.gen, abort |-> g.abort, other |-> g.other, aux |-> g.aux]
        BY DEF Counters
      <4> QED BY <3>3, <4>1 DEF Paid
    <3> QED BY <1>0, <2>1, <3>2, <3>3 DEF Zero
  <2>3. /\ handler' \in {"ended", "late", "sent"} /\ logs' = logs
        /\ handler' = "ended" => running' = 0
        /\ handler' # "ended" => counters' = Paid
    BY <1>3, <2>2 DEF SendPayload
  <2>4. Len(logs') = 2 /\ \A l \in DOMAIN logs' : logs'[l].kind = Kinds[l]
    BY <2>1, <2>3 DEF FixtureInv, FixtureServed
  <2> QED BY <1>0, <1>1, <2>3, <2>4 DEF FixtureInv, FixtureServed, FixtureShown
<1>4. CASE SendLate
  BY <1>0, <1>1, <1>4 DEF SendLate, FixtureInv, FixtureServed, FixtureShown
<1>5. CASE Abort
  <2>1. Len(logs) = 2 /\ Log(<<"internal", "external">>) /\ \A l \in DOMAIN logs : logs[l].kind = Kinds[l]
    BY <1>5 DEF Abort, FixtureInv, FixtureServed
  <2>2. \A m \in 1..2 : <<"internal", "external">>[m] = Kinds[Len(logs) + m]
    BY <2>1 DEF Kinds
  <2>3. Len(logs') = 4 /\ logs'[4].at = now /\ \A l \in DOMAIN logs' : logs'[l].kind = Kinds[l]
    <3> DEFINE k == <<"internal", "external">>
    <3>1. k \in Seq(LogKinds) /\ Len(k) = 2 /\ Log(k) /\ \A m \in 1..2 : k[m] = Kinds[Len(logs) + m]
      BY <2>1, <2>2, AbortKinds
    <3> HIDE DEF k
    <3> QED BY <2>1, <3>1, FixtureLog
  <2>4. client = "closed" => counters' = Aborted
    <3>1. client = "closed" => counters = Paid
      BY <1>5 DEF Abort, HandlerInv, FixtureInv, FixtureServed
    <3>2. [Paid EXCEPT !.abort = @ + 1] = Aborted
      BY <1>0 DEF Aborted, Paid, Zero
    <3> QED BY <1>5, <3>1, <3>2 DEF Abort
  <2>5. \A i \in DOMAIN Taken : ~(Taken[i].sched > now)
    <3>1. \A i \in DOMAIN Taken : Taken[i].sched \in Nat /\ Taken[i].done \in Nat
      BY TakenIs DEF Snapshots
    <3> QED BY <3>1, ProbeTypes DEF TakenInv
  <2>6. handler' = "ended" /\ running' = 0 /\ client' \in {"closed", "failed"}
    BY <1>1, <1>5 DEF Abort, ConnectionLost
  <2>7. FixtureServed'
    BY <1>0, <1>1, <2>3, <2>4, <2>6 DEF FixtureServed, ConnectionLost
  <2>8. FixtureShown'
    BY <1>0, <1>1, <2>3, <2>5 DEF FixtureInv, FixtureShown
  <2> QED BY <2>7, <2>8 DEF FixtureInv
<1> QED BY <1>2, <1>3, <1>4, <1>5 DEF Server

LEMMA FixtureStep ==
  ASSUME TypeOK, TypeOK', TakenInv, HandlerInv, FixtureInv, Next \/ UNCHANGED vars
  PROVE  FixtureInv'
<1>0. runtime' = runtime /\ scenario' = scenario /\ Paid' = Paid /\ Aborted' = Aborted
  BY ProbeStays DEF Paid, Aborted, Tokens
<1>1. CASE runtime # "fixture"
  BY <1>0, <1>1 DEF FixtureInv
<1>2. CASE runtime = "fixture" /\ Server
  BY <1>2, FixtureOfServer
<1>3. CASE runtime = "fixture" /\ ~Server
  <2>1. UNCHANGED <<handler, counters, running, logs>>
    BY <1>3 DEF Next, OtherRuntime, Acknowledge, GoOn, Settle, Restart, ServeOther, AbortOtherwise, Tick, Client,
                Dispatch, AcceptHeaders, Read, Fail, Collector, Scrape, Receive, Evaluate, vars, serverVars
  <2>2. CASE Scrape
    <3>1. PICK phase \in Due, sched \in Nat :
            Snapshot(phase, sched) \in Snapshots /\ Taken' = Append(Taken, Snapshot(phase, sched))
      BY <2>2, TakenGrows
    <3> DEFINE n == Len(Taken) + 1
    <3>2. /\ \A i \in DOMAIN Taken : Taken'[i] = Taken[i]
          /\ Taken'[n].counters = counters /\ Taken'[n].running = running /\ Taken'[n].process = process
          /\ \A i \in DOMAIN Taken' : i \in DOMAIN Taken \/ i = n
      BY <3>1, SnapshotAppended DEF Snapshot
    <3>3. client' = client
      BY <2>2 DEF Scrape, clientVars
    <3>4. process = 1
      BY <1>3 DEF HandlerInv
    <3> HIDE DEF n
    <3>5. FixtureServed'
      BY <1>0, <1>3, <2>1, <3>3 DEF FixtureInv, FixtureServed, ConnectionLost
    <3>6. ASSUME NEW i \in DOMAIN Taken' PROVE Taken'[i].process = 1
      BY <1>3, <3>2, <3>4 DEF FixtureInv, FixtureShown
    <3>7. ASSUME Len(logs) = 4, client = "closed", NEW i \in DOMAIN Taken', Taken'[i].sched > logs[4].at
          PROVE  Taken'[i].counters = Aborted /\ Taken'[i].running = 0
      <4>1. CASE i \in DOMAIN Taken
        BY <1>3, <3>2, <3>7, <4>1 DEF FixtureInv, FixtureShown
      <4>2. CASE i = n
        BY <1>3, <3>2, <3>7, <4>2 DEF FixtureInv, FixtureServed
      <4> QED BY <3>2, <4>1, <4>2
    <3>8. FixtureShown'
      BY <1>0, <2>1, <3>3, <3>6, <3>7 DEF FixtureShown
    <3> QED BY <3>5, <3>8 DEF FixtureInv
  <2>3. CASE ~Scrape
    <3>1. Taken' = Taken
      BY <2>3, TakenStays
    <3>2. Len(logs) = 4 => client' = client \/ (client = "closed" /\ client' = "failed")
      <4>1. Len(logs) = 4 => client \notin {"idle", "dispatched", "open"}
        BY <1>3 DEF FixtureInv, FixtureServed, ConnectionLost
      <4> QED BY <1>3, <4>1 DEF Next, OtherRuntime, Acknowledge, GoOn, Settle, Restart, ServeOther, AbortOtherwise,
                Tick, Client, Dispatch, AcceptHeaders, Read, Fail, Collector, Scrape, Receive, Evaluate, vars, clientVars
    <3>5. FixtureServed
      BY <1>3 DEF FixtureInv
    <3>6. Len(logs) = 4 => client' \in {"closed", "failed"} /\ (client' = "closed" => client = "closed")
      BY <3>2, <3>5 DEF FixtureServed, ConnectionLost
    <3>3. FixtureServed'
      BY <1>0, <2>1, <3>5, <3>6 DEF FixtureServed, ConnectionLost
    <3>4. FixtureShown'
      BY <1>0, <1>3, <2>1, <3>1, <3>2 DEF FixtureInv, FixtureShown
    <3> QED BY <3>3, <3>4 DEF FixtureInv
  <2> QED BY <2>2, <2>3
<1> QED BY <1>1, <1>2, <1>3

-----------------------------------------------------------------------------
(* The snapshots of a phase                                                 *)

LEMMA MinExists ==
  ASSUME NEW S \in SUBSET Nat, S # {}
  PROVE  Min(S) \in S /\ \A i \in S : Min(S) <= i
<1>1. IsWellFoundedOn(OpToRel(<, Nat), Nat)
  BY NatLessThanWellFounded
<1>2. PICK m \in S : \A i \in S : ~(<<i, m>> \in OpToRel(<, Nat))
  BY <1>1, WFMin
<1>3. \A i \in S : m <= i
  <2> SUFFICES ASSUME NEW i \in S PROVE m <= i
    OBVIOUS
  <2>1. ~(i < m)
    BY <1>2 DEF OpToRel
  <2> QED BY <2>1
<1>4. \E x \in S : \A i \in S : x <= i
  BY <1>3
<1> QED BY <1>4 DEF Min

LEMMA MaxExists ==
  ASSUME NEW n \in Nat, NEW S \in SUBSET (0..n), S # {}
  PROVE  Max(S) \in S /\ \A i \in S : i <= Max(S)
<1> DEFINE R == {i \in 0..n : n - i \in S}
<1>1. R \in SUBSET Nat /\ R # {}
  <2>1. PICK i \in S : TRUE
    OBVIOUS
  <2>2. n - i \in 0..n /\ n - (n - i) = i
    BY <2>1
  <2>3. n - i \in R
    BY <2>1, <2>2
  <2>4. \A x \in R : x \in Nat
    OBVIOUS
  <2> HIDE DEF R
  <2> QED BY <2>3, <2>4
<1>2. Min(R) \in R /\ \A i \in R : Min(R) <= i
  <2> HIDE DEF R
  <2> QED BY <1>1, MinExists
<1> DEFINE m == n - Min(R)
<1>3. m \in S
  BY <1>2
<1>4. ASSUME NEW i \in S PROVE m >= i
  <2>1. n - i \in R
    <3>1. n - i \in 0..n /\ n - (n - i) = i
      OBVIOUS
    <3> QED BY <3>1
  <2>2. Min(R) \in 0..n /\ Min(R) <= n - i
    BY <1>2, <2>1
  <2> HIDE DEF R
  <2> QED BY <2>2
<1>5. \E x \in S : \A i \in S : x >= i
  <2> HIDE DEF m
  <2> QED BY <1>3, <1>4
<1>6. Max(S) \in S /\ \A i \in S : Max(S) >= i
  BY <1>5 DEF Max
<1> QED BY <1>6

\* The snapshots of a phase are those between its first and its last.
First(phase) == Min(At(phase))
Final(phase) == Max(At(phase))

LEMMA PhaseOf ==
  ASSUME TypeOK, NEW phase, At(phase) # {}
  PROVE  /\ First(phase) \in DOMAIN scrapes /\ scrapes[First(phase)].phase = phase
         /\ Final(phase) \in DOMAIN scrapes /\ scrapes[Final(phase)].phase = phase
         /\ \A i \in DOMAIN scrapes : scrapes[i].phase = phase => First(phase) <= i /\ i <= Final(phase)
         /\ First(phase) \in Nat \ {0} /\ Final(phase) \in Nat \ {0} /\ First(phase) <= Final(phase)
         /\ Of(phase) \in Seq(Snapshots) /\ Of(phase) # <<>>
         /\ Len(Of(phase)) = Final(phase) - First(phase) + 1
         /\ \A i \in 1..Len(Of(phase)) : /\ First(phase) - 1 + i \in First(phase)..Final(phase)
                                         /\ Of(phase)[i] = scrapes[First(phase) - 1 + i]
         /\ Of(phase)[1] = scrapes[First(phase)]
         /\ Last(Of(phase)) = scrapes[Final(phase)]
<1> DEFINE a == First(phase)
           b == Final(phase)
<1>1. scrapes \in Seq(Snapshots) /\ Len(scrapes) \in Nat /\ DOMAIN scrapes = 1..Len(scrapes)
  BY TakenIs
<1>2. At(phase) \subseteq 1..Len(scrapes)
  BY <1>1 DEF At
<1>3. At(phase) \in SUBSET Nat /\ At(phase) \in SUBSET (0..Len(scrapes))
  BY <1>1, <1>2
<1>4. a \in At(phase) /\ \A i \in At(phase) : a <= i
  BY <1>3, MinExists DEF First
<1>5. b \in At(phase) /\ \A i \in At(phase) : i <= b
  BY <1>1, <1>3, MaxExists DEF Final
<1>6. Of(phase) = SubSeq(scrapes, a, b)
  BY DEF Of, First, Final
<1> HIDE DEF a, b
<1>7. a \in 1..Len(scrapes) /\ b \in 1..Len(scrapes) /\ a <= b /\ scrapes[a].phase = phase /\ scrapes[b].phase = phase
  BY <1>2, <1>4, <1>5 DEF At
<1>8. \A i \in a..b : scrapes[i] \in Snapshots
  <2>1. \A i \in a..b : i \in 1..Len(scrapes)
    BY <1>1, <1>7
  <2> QED BY <1>1, <2>1, ElementOfSeq
<1>9. /\ Of(phase) \in Seq(Snapshots)
      /\ Len(Of(phase)) = b - a + 1
      /\ \A i \in 1..(b - a + 1) : Of(phase)[i] = scrapes[a + i - 1]
  <2>1. /\ SubSeq(scrapes, a, b) \in Seq(Snapshots)
        /\ Len(SubSeq(scrapes, a, b)) = IF a <= b THEN b - a + 1 ELSE 0
        /\ \A i \in 1..(b - a + 1) : SubSeq(scrapes, a, b)[i] = scrapes[a + i - 1]
    BY <1>7, <1>8, SubSeqProperties
  <2> QED BY <1>6, <1>7, <2>1
<1>10. ASSUME NEW i \in 1..Len(Of(phase))
       PROVE  a - 1 + i \in a..b /\ Of(phase)[i] = scrapes[a - 1 + i]
  <2>1. i \in 1..(b - a + 1) /\ a + i - 1 = a - 1 + i /\ a - 1 + i \in a..b
    BY <1>7, <1>9
  <2> QED BY <1>9, <2>1
<1>11. Of(phase)[1] = scrapes[a]
  <2>1. 1 \in 1..Len(Of(phase)) /\ a - 1 + 1 = a
    BY <1>7, <1>9
  <2> QED BY <1>10, <2>1
<1>12. Last(Of(phase)) = scrapes[b]
  <2>1. Len(Of(phase)) \in 1..Len(Of(phase)) /\ a - 1 + Len(Of(phase)) = b
    BY <1>7, <1>9
  <2>2. Of(phase)[Len(Of(phase))] = scrapes[b]
    BY <1>10, <2>1
  <2> QED BY <2>2 DEF Last
<1>13. Of(phase) # <<>>
  <2>1. Len(Of(phase)) # 0
    BY <1>7, <1>9
  <2> QED BY <2>1
<1>14. \A i \in DOMAIN scrapes : scrapes[i].phase = phase => a <= i /\ i <= b
  BY <1>4, <1>5 DEF At
<1> QED BY <1>1, <1>7, <1>9, <1>10, <1>11, <1>12, <1>13, <1>14 DEF a, b

LEMMA PhaseNone == ASSUME NEW phase PROVE Of(phase) # <<>> => At(phase) # {}
BY DEF Of

\* The evidence that is evaluated: snapshots before the dispatch, then those that
\* begin with the drain and have a cooldown among them.
LEMMA EvidencePhases ==
  ASSUME TypeOK, TakenInv, Evidence
  PROVE  /\ Taken = scrapes /\ Len(scrapes) \in DOMAIN scrapes /\ Last(scrapes) = scrapes[Len(scrapes)]
         /\ At("PRE_DISPATCH") # {} /\ At("DRAIN") # {} /\ At("COOLDOWN") # {}
         /\ First("DRAIN") < Len(scrapes) /\ First("PRE_DISPATCH") = 1
         /\ \A i \in DOMAIN scrapes : scrapes[i].phase = "PRE_DISPATCH" <=> i < First("DRAIN")
<1>1. Taken = scrapes /\ DOMAIN scrapes = 1..Len(scrapes) /\ Len(scrapes) \in Nat
  BY TakenIs DEF Evidence
<1>2. At("COOLDOWN") # {}
  BY PhaseNone DEF Evidence
<1>3. PICK c \in DOMAIN scrapes : scrapes[c].phase = "COOLDOWN"
  BY <1>2, PhaseOf
<1>4. PICK j \in 1..(c - 1) : scrapes[j].phase = "DRAIN"
  BY <1>1, <1>3 DEF TakenInv
<1>5. j \in DOMAIN scrapes /\ j < Len(scrapes) /\ 1 \in DOMAIN scrapes /\ Len(scrapes) \in DOMAIN scrapes
  BY <1>1, <1>3, <1>4
<1>6. At("DRAIN") # {}
  BY <1>4, <1>5 DEF At
<1>7. scrapes[1].phase = "PRE_DISPATCH"
  BY <1>1, <1>5 DEF TakenInv
<1>8. At("PRE_DISPATCH") # {}
  BY <1>5, <1>7 DEF At
<1>9. First("DRAIN") <= j /\ First("DRAIN") \in DOMAIN scrapes /\ scrapes[First("DRAIN")].phase = "DRAIN"
  BY <1>4, <1>5, <1>6, PhaseOf
<1>10. First("PRE_DISPATCH") = 1
  <2>1. First("PRE_DISPATCH") <= 1 /\ First("PRE_DISPATCH") \in DOMAIN scrapes
    BY <1>5, <1>7, <1>8, PhaseOf
  <2> QED BY <1>1, <2>1
<1>11. ASSUME NEW i \in DOMAIN scrapes
       PROVE  scrapes[i].phase = "PRE_DISPATCH" <=> i < First("DRAIN")
  <2>1. ASSUME scrapes[i].phase = "PRE_DISPATCH", ~(i < First("DRAIN"))
        PROVE  FALSE
    <3>1. i # First("DRAIN")
      BY <1>9, <2>1
    <3>2. First("DRAIN") < i
      BY <1>1, <1>9, <2>1, <3>1
    <3>3. scrapes[First("DRAIN")].phase = "PRE_DISPATCH"
      BY <1>1, <1>9, <2>1, <3>2 DEF TakenInv
    <3> QED BY <1>9, <3>3
  <2>2. ASSUME i < First("DRAIN"), scrapes[i].phase # "PRE_DISPATCH"
        PROVE  FALSE
    <3>1. CASE scrapes[i].phase = "DRAIN"
      <4>1. First("DRAIN") <= i
        BY <1>6, <3>1, PhaseOf
      <4> QED BY <1>1, <1>9, <2>2, <4>1
    <3>2. CASE scrapes[i].phase # "DRAIN"
      <4>1. PICK k \in 1..(i - 1) : scrapes[k].phase = "DRAIN"
        BY <1>1, <2>2, <3>2 DEF TakenInv
      <4>2. k \in DOMAIN scrapes /\ k < i
        BY <1>1, <4>1
      <4>3. First("DRAIN") <= k
        BY <1>6, <4>1, <4>2, PhaseOf
      <4> QED BY <1>1, <1>9, <2>2, <4>2, <4>3
    <3> QED BY <3>1, <3>2
  <2> QED BY <2>1, <2>2
<1>12. First("DRAIN") < Len(scrapes)
  BY <1>1, <1>5, <1>9
<1>13. Last(scrapes) = scrapes[Len(scrapes)]
  BY DEF Last
<1> QED BY <1>1, <1>2, <1>5, <1>6, <1>8, <1>10, <1>11, <1>12, <1>13

\* The last snapshot before the dispatch, and the first after the close.
LEMMA EvidenceEnds ==
  ASSUME TypeOK, TakenInv, Evidence
  PROVE  /\ Final("PRE_DISPATCH") \in DOMAIN scrapes /\ Final("PRE_DISPATCH") < First("DRAIN")
         /\ Last(Pre) = scrapes[Final("PRE_DISPATCH")] /\ Last(Pre) \in Snapshots
         /\ Len(Pre) = Final("PRE_DISPATCH") /\ \A i \in 1..Len(Pre) : i \in DOMAIN scrapes /\ Pre[i] = scrapes[i]
         /\ First("DRAIN") \in DOMAIN scrapes /\ Drain[1] = scrapes[First("DRAIN")] /\ Drain # <<>>
         /\ Drain[1].done < Last(scrapes).done /\ Drain[1].done \in Nat /\ Last(scrapes).done \in Nat
<1>1. /\ Taken = scrapes /\ DOMAIN scrapes = 1..Len(scrapes) /\ Len(scrapes) \in Nat
      /\ \A i \in DOMAIN scrapes : scrapes[i] \in Snapshots
  BY TakenIs DEF Evidence
<1>2. /\ At("PRE_DISPATCH") # {} /\ At("DRAIN") # {} /\ First("DRAIN") < Len(scrapes)
      /\ Len(scrapes) \in DOMAIN scrapes /\ Last(scrapes) = scrapes[Len(scrapes)] /\ First("PRE_DISPATCH") = 1
      /\ \A i \in DOMAIN scrapes : scrapes[i].phase = "PRE_DISPATCH" <=> i < First("DRAIN")
  BY EvidencePhases
<1>3. /\ Final("PRE_DISPATCH") \in DOMAIN scrapes /\ scrapes[Final("PRE_DISPATCH")].phase = "PRE_DISPATCH"
      /\ Last(Pre) = scrapes[Final("PRE_DISPATCH")]
      /\ Len(Pre) = Final("PRE_DISPATCH") - First("PRE_DISPATCH") + 1
      /\ \A i \in 1..Len(Pre) : /\ First("PRE_DISPATCH") - 1 + i \in First("PRE_DISPATCH")..Final("PRE_DISPATCH")
                                /\ Pre[i] = scrapes[First("PRE_DISPATCH") - 1 + i]
  BY <1>2, PhaseOf DEF Pre
<1>4. First("DRAIN") \in DOMAIN scrapes /\ Drain[1] = scrapes[First("DRAIN")] /\ Drain # <<>>
  BY <1>2, PhaseOf DEF Drain
<1>5. Len(Pre) = Final("PRE_DISPATCH")
  BY <1>1, <1>2, <1>3
<1>6. ASSUME NEW i \in 1..Len(Pre) PROVE i \in DOMAIN scrapes /\ Pre[i] = scrapes[i]
  <2>1. First("PRE_DISPATCH") - 1 + i = i /\ i \in DOMAIN scrapes
    BY <1>1, <1>2, <1>3, <1>5
  <2> QED BY <1>3, <2>1
<1>7. scrapes[First("DRAIN")].done < scrapes[Len(scrapes)].done
  BY <1>1, <1>2, <1>4 DEF TakenInv
<1>8. Drain[1].done \in Nat /\ Last(scrapes).done \in Nat
  BY <1>1, <1>2, <1>4 DEF Snapshots
<1> QED BY <1>1, <1>2, <1>3, <1>4, <1>5, <1>6, <1>7, <1>8

-----------------------------------------------------------------------------
(* What is accepted was aborted                                             *)

\* What the evaluation has seen when it accepts.
LEMMA Accepted ==
  ASSUME Classify = Drained
  PROVE  /\ Logged("external") /\ running = 0 /\ Quiescent /\ DrainKept
         /\ Adjacent(Pre, Unmoved) /\ ~CompletedLater
BY DEF Classify, Drained

LEMMA LoggedWhen ==
  ASSUME NEW kind, Logged(kind)
  PROVE  Position(kind) \in DOMAIN logs /\ logs[Position(kind)].kind = kind
         /\ LoggedAt(kind) = logs[Position(kind)].at
BY DEF Logged, Position, LoggedAt

LEMMA AcceptedAborted ==
  ASSUME TypeOK, TakenInv, HandlerInv, PreInv, GoesOnInv, Evidence, Classify = Drained
  PROVE  fate = "aborted"
<1>1. CASE runtime # "goesOn"
  BY <1>1, Accepted DEF HandlerInv
<1>2. CASE runtime = "goesOn"
  <2>1. /\ Taken = scrapes /\ Len(scrapes) \in DOMAIN scrapes /\ Last(scrapes) = scrapes[Len(scrapes)]
    BY EvidencePhases
  <2>2. After(Last(scrapes))
    <3>1. LoggedAt("external") <= Drain[1].done
      BY Accepted DEF DrainKept
    <3>2. Drain[1].done < Last(scrapes).done /\ Drain[1].done \in Nat /\ Last(scrapes).done \in Nat
      BY EvidenceEnds
    <3>3. Position("external") \in DOMAIN logs /\ logs[Position("external")].kind = "external"
          /\ LoggedAt("external") = logs[Position("external")].at
      BY Accepted, LoggedWhen
    <3>4. logs[Position("external")].at \in Nat
      <4>1. logs \in Seq([kind : LogKinds, at : 1..MaxTime])
        BY DEF TypeOK
      <4>2. \A l \in DOMAIN logs : logs[l] \in [kind : LogKinds, at : 1..MaxTime]
        <5> DEFINE S == [kind : LogKinds, at : 1..MaxTime]
        <5> HIDE DEF S
        <5>1. logs \in Seq(S)
          BY <4>1 DEF S
        <5>2. \A l \in DOMAIN logs : logs[l] \in S
          BY <5>1, ElementOfSeq, LenProperties
        <5> QED BY <5>2 DEF S
      <4>3. logs[Position("external")].at \in 1..MaxTime
        BY <3>3, <4>2
      <4> QED BY <4>3, ConstantTypes
    <3>5. logs[Position("external")].at < Last(scrapes).done
      BY <3>1, <3>2, <3>3, <3>4
    <3> QED BY <3>3, <3>5 DEF After
  <2>3. Last(scrapes).running = 0
    BY <2>1, Accepted DEF Quiescent
  <2>4. handler = "ended"
    <3>1. handler \notin {"none", "headed", "sent", "late", "acked"}
      BY <1>2, Accepted DEF HandlerInv, GoesOnInv, Evidence
    <3> QED BY <3>1 DEF TypeOK
  <2>5. fate \in {"aborted", "finished"}
    BY <1>2, <2>4 DEF GoesOnInv, TypeOK
  <2>6. ASSUME fate = "finished" PROVE FALSE
    <3>1. Last(scrapes).counters.other = 1
      BY <1>2, <2>1, <2>2, <2>3, <2>4, <2>6, Accepted DEF GoesOnInv
    <3>2. Last(Pre).counters.other = 0
      <4>1. /\ Final("PRE_DISPATCH") \in DOMAIN scrapes /\ Last(Pre) = scrapes[Final("PRE_DISPATCH")]
            /\ Final("PRE_DISPATCH") < First("DRAIN")
        BY EvidenceEnds
      <4>2. scrapes[Final("PRE_DISPATCH")].phase = "PRE_DISPATCH"
        BY <4>1, EvidencePhases
      <4>3. Last(Pre).counters = Zero
        BY <1>2, <2>1, <4>1, <4>2 DEF PreInv
      <4> QED BY <4>3 DEF Zero
    <3>3. CompletedLater
      BY <3>1, <3>2 DEF CompletedLater
    <3> QED BY <3>3, Accepted
  <2> QED BY <2>5, <2>6
<1> QED BY <1>1, <1>2

LEMMA AcceptedAlone ==
  ASSUME TypeOK, TakenInv, ServesInv, Evidence, Classify = Drained
  PROVE  foreign \cap 1..(Len(scrapes) - 1) = {}
<1>1. /\ Taken = scrapes /\ Len(scrapes) \in DOMAIN scrapes /\ Last(scrapes) = scrapes[Len(scrapes)]
      /\ DOMAIN scrapes = 1..Len(scrapes) /\ Len(scrapes) \in Nat
  BY EvidencePhases, TakenIs
<1>2. CASE runtime # "serves" \/ counters.other = 0
  BY <1>2 DEF ServesInv
<1>3. CASE runtime = "serves" /\ counters.other # 0
  <2>1. PICK k \in 0..Len(scrapes) :
          /\ foreign = {k}
          /\ \A i \in DOMAIN scrapes : scrapes[i].counters.other = IF i <= k THEN 0 ELSE 1
    BY <1>1, <1>3 DEF ServesInv
  <2>2. ASSUME k \in 1..(Len(scrapes) - 1) PROVE FALSE
    <3>1. Last(scrapes).counters.other = 1
      BY <1>1, <2>1, <2>2
    <3>2. Last(Pre).counters.other = 1
      BY <3>1, Accepted DEF CompletedLater
    <3>3. /\ Final("PRE_DISPATCH") \in DOMAIN scrapes /\ Last(Pre) = scrapes[Final("PRE_DISPATCH")]
          /\ Len(Pre) = Final("PRE_DISPATCH") /\ \A i \in 1..Len(Pre) : Pre[i] = scrapes[i]
      BY EvidenceEnds
    <3>4. k < Len(Pre) /\ Len(Pre) \in Nat
      BY <1>1, <2>1, <3>2, <3>3
    <3>5. k \in 1..(Len(Pre) - 1) /\ k \in 1..Len(Pre) /\ k + 1 \in 1..Len(Pre) /\ Len(Pre) <= Len(scrapes)
      BY <1>1, <2>2, <3>3, <3>4
    <3>6. Pre[k].counters = Pre[k + 1].counters
      <4>1. Adjacent(Pre, Unmoved)
        BY Accepted
      <4> QED BY <3>5, <4>1 DEF Adjacent, Unmoved
    <3>7. k \in DOMAIN scrapes /\ k + 1 \in DOMAIN scrapes /\ ~(k + 1 <= k) /\ k <= k
      BY <1>1, <3>5
    <3>8. Pre[k].counters.other = 0 /\ Pre[k + 1].counters.other = 1
      BY <2>1, <3>3, <3>5, <3>7
    <3> QED BY <3>6, <3>8
  <2> QED BY <2>1, <2>2
<1> QED BY <1>2, <1>3

-----------------------------------------------------------------------------
(* The fixture's drain is accepted                                          *)

\* Its log is the whole chain.
LEMMA FixtureChain ==
  ASSUME TypeOK, FixtureInv, runtime = "fixture", Logged("external")
  PROVE  Len(logs) = 4 /\ Correlates /\ Logged("internal") /\ LoggedAt("external") = logs[4].at
         /\ logs[4].at \in Nat
<1>1. /\ Len(logs) \in {0, 2, 4} /\ DOMAIN logs = 1..Len(logs)
      /\ \A l \in DOMAIN logs : logs[l].kind = Kinds[l]
  <2>1. Len(logs) \in {0, 2, 4} /\ \A l \in DOMAIN logs : logs[l].kind = Kinds[l]
    BY DEF FixtureInv, FixtureServed
  <2>2. DOMAIN logs = 1..Len(logs)
    <3> DEFINE S == [kind : LogKinds, at : 1..MaxTime]
    <3>1. logs \in Seq(S)
      BY DEF TypeOK
    <3> HIDE DEF S
    <3> QED BY <3>1, LenProperties
  <2> QED BY <2>1, <2>2
<1>2. Kinds[1] = "received" /\ Kinds[2] = "added" /\ Kinds[3] = "internal" /\ Kinds[4] = "external"
  BY DEF Kinds
<1>3. PICK e \in DOMAIN logs : logs[e].kind = "external"
  BY DEF Logged
<1>4. Len(logs) = 4
  BY <1>1, <1>2, <1>3
<1>5. DOMAIN logs = {1, 2, 3, 4}
  BY <1>1, <1>4
<1>6. /\ logs[1].kind = "received" /\ logs[2].kind = "added" /\ logs[3].kind = "internal"
      /\ logs[4].kind = "external"
  BY <1>1, <1>2, <1>5
<1>7. /\ Position("received") = 1 /\ Position("added") = 2 /\ Position("internal") = 3 /\ Position("external") = 4
  <2>1. Position("received") = 1
    BY <1>5, <1>6 DEF Position
  <2>2. Position("added") = 2
    BY <1>5, <1>6 DEF Position
  <2>3. Position("internal") = 3
    BY <1>5, <1>6 DEF Position
  <2>4. Position("external") = 4
    BY <1>5, <1>6 DEF Position
  <2> QED BY <2>1, <2>2, <2>3, <2>4
<1>8. /\ LoggedOnce("received") /\ LoggedOnce("added") /\ LoggedOnce("internal") /\ LoggedOnce("external")
  <2>1. LoggedOnce("received")
    BY <1>5, <1>6 DEF LoggedOnce
  <2>2. LoggedOnce("added")
    BY <1>5, <1>6 DEF LoggedOnce
  <2>3. LoggedOnce("internal")
    BY <1>5, <1>6 DEF LoggedOnce
  <2>4. LoggedOnce("external")
    BY <1>5, <1>6 DEF LoggedOnce
  <2> QED BY <2>1, <2>2, <2>3, <2>4
<1>9. ~Logged("foreign") /\ Logged("internal")
  BY <1>5, <1>6 DEF Logged
<1>10. InLogOrder
  BY <1>7 DEF InLogOrder
<1>11. logs[4].at \in Nat
  <2> DEFINE S == [kind : LogKinds, at : 1..MaxTime]
  <2>1. logs \in Seq(S)
    BY DEF TypeOK
  <2> HIDE DEF S
  <2>2. logs[4] \in S
    BY <1>4, <2>1, ElementOfSeq
  <2>3. logs[4].at \in 1..MaxTime
    BY <2>2 DEF S
  <2> QED BY <2>3, ConstantTypes
<1> QED BY <1>4, <1>7, <1>8, <1>9, <1>10, <1>11 DEF Correlates, LoggedAt

\* What a snapshot of the fixture shows on a timely schedule: before the dispatch
\* nothing, and from the drain on the aborted request.
LEMMA FixtureSnapshots ==
  ASSUME TypeOK, TakenInv, PreInv, FixtureInv, Evidence, runtime = "fixture", Timely
  PROVE  \A i \in DOMAIN scrapes :
           /\ scrapes[i].running = 0 /\ scrapes[i].process = 1
           /\ scrapes[i].counters = IF i < First("DRAIN") THEN Zero ELSE Aborted
<1> SUFFICES ASSUME NEW i \in DOMAIN scrapes
             PROVE  /\ scrapes[i].running = 0 /\ scrapes[i].process = 1
                    /\ scrapes[i].counters = IF i < First("DRAIN") THEN Zero ELSE Aborted
  OBVIOUS
<1> DEFINE d == First("DRAIN")
<1>1. /\ Taken = scrapes /\ DOMAIN scrapes = 1..Len(scrapes) /\ Len(scrapes) \in Nat
      /\ \A j \in DOMAIN scrapes : scrapes[j] \in Snapshots
  BY TakenIs DEF Evidence
<1>2. d \in DOMAIN scrapes /\ Drain[1] = scrapes[d]
  BY EvidenceEnds
<1>3. scrapes[i].phase = "PRE_DISPATCH" <=> i < d
  BY EvidencePhases
<1>4. scrapes[i].process = 1
  BY <1>1 DEF FixtureInv, FixtureShown
<1>5. CASE i < d
  BY <1>1, <1>3, <1>4, <1>5 DEF PreInv
<1>6. CASE ~(i < d)
  <2>1. Len(logs) = 4 /\ LoggedAt("external") = logs[4].at /\ logs[4].at \in Nat
    BY FixtureChain DEF Timely
  <2>2. logs[4].at < scrapes[d].sched
    BY <1>2, <2>1 DEF Timely
  <2>3. scrapes[d].sched \in Nat /\ scrapes[i].sched \in Nat
    BY <1>1, <1>2 DEF Snapshots
  <2>4. scrapes[d].sched <= scrapes[i].sched
    <3>1. i = d \/ d < i
      BY <1>1, <1>2, <1>6
    <3>2. d < i => scrapes[d].sched < scrapes[i].sched
      BY <1>1, <1>2 DEF TakenInv
    <3> HIDE DEF d
    <3> QED BY <2>3, <3>1, <3>2
  <2>5. scrapes[i].sched > logs[4].at
    BY <2>1, <2>2, <2>3, <2>4
  <2>6. scrapes[i].counters = Aborted /\ scrapes[i].running = 0
    BY <1>1, <2>1, <2>5 DEF FixtureInv, FixtureShown, Evidence
  <2> QED BY <1>4, <1>6, <2>6
<1> QED BY <1>5, <1>6

LEMMA FixtureCounts ==
  ASSUME TypeOK
  PROVE  /\ Tokens \in Nat /\ Tokens >= 1
         /\ Zero.prompt = 0 /\ Zero.gen = 0 /\ Zero.abort = 0 /\ Zero.other = 0 /\ Zero.aux = 0
         /\ Aborted.prompt = 1 /\ Aborted.gen = Tokens /\ Aborted.abort = 1 /\ Aborted.other = 0 /\ Aborted.aux = 0
         /\ DOMAIN Zero = {"prompt", "gen", "abort", "other", "aux"}
         /\ DOMAIN Aborted = {"prompt", "gen", "abort", "other", "aux"}
<1>1. Tokens \in Nat /\ Tokens >= 1
  BY DEF Tokens
<1>2. /\ Zero.prompt = 0 /\ Zero.gen = 0 /\ Zero.abort = 0 /\ Zero.other = 0 /\ Zero.aux = 0
      /\ DOMAIN Zero = {"prompt", "gen", "abort", "other", "aux"}
  BY DEF Zero
<1>3. /\ Aborted.prompt = 1 /\ Aborted.gen = Tokens /\ Aborted.abort = 1 /\ Aborted.other = 0 /\ Aborted.aux = 0
      /\ DOMAIN Aborted = {"prompt", "gen", "abort", "other", "aux"}
  BY DEF Aborted, Paid
<1> QED BY <1>1, <1>2, <1>3

LEMMA FixtureProgress ==
  ASSUME TypeOK, TakenInv, PreInv, FixtureInv, Evidence, runtime = "fixture", Timely
  PROVE  Quiescent /\ Adjacent(scrapes, Progress) /\ Adjacent(Pre, Unmoved)
<1>1. \A i \in DOMAIN scrapes :
        /\ scrapes[i].running = 0 /\ scrapes[i].process = 1
        /\ scrapes[i].counters = IF i < First("DRAIN") THEN Zero ELSE Aborted
  BY FixtureSnapshots
<1>2. DOMAIN scrapes = 1..Len(scrapes) /\ Len(scrapes) \in Nat
  BY TakenIs
<1>3. Quiescent
  BY <1>1 DEF Quiescent
<1>4. ASSUME NEW i \in 1..(Len(scrapes) - 1)
      PROVE  Progress(scrapes[i], scrapes[i + 1])
  <2>1. i \in DOMAIN scrapes /\ i + 1 \in DOMAIN scrapes /\ First("DRAIN") \in DOMAIN scrapes
    BY <1>2, EvidenceEnds
  <2>2. scrapes[i].done < scrapes[i + 1].done
    BY DEF Timely, Adjacent
  <2>3. \/ scrapes[i].counters = Zero /\ scrapes[i + 1].counters \in {Zero, Aborted}
        \/ scrapes[i].counters = Aborted /\ scrapes[i + 1].counters = Aborted
    BY <1>1, <1>2, <2>1
  <2>4. \A c \in {"prompt", "gen", "abort", "other", "aux"} : Zero[c] <= Zero[c] /\ Zero[c] <= Aborted[c]
                                                             /\ Aborted[c] <= Aborted[c]
    BY FixtureCounts
  <2>5. \A c \in DOMAIN scrapes[i].counters : scrapes[i].counters[c] <= scrapes[i + 1].counters[c]
    BY <2>3, <2>4, FixtureCounts
  <2> QED BY <2>2, <2>5 DEF Progress
<1>5. Adjacent(scrapes, Progress)
  BY <1>4 DEF Adjacent
<1>6. ASSUME NEW i \in 1..(Len(Pre) - 1)
      PROVE  Unmoved(Pre[i], Pre[i + 1])
  <2>1. /\ Len(Pre) = Final("PRE_DISPATCH") /\ Final("PRE_DISPATCH") < First("DRAIN")
        /\ Final("PRE_DISPATCH") \in DOMAIN scrapes /\ First("DRAIN") \in DOMAIN scrapes
        /\ \A j \in 1..Len(Pre) : j \in DOMAIN scrapes /\ Pre[j] = scrapes[j]
    BY EvidenceEnds
  <2>2. i \in 1..Len(Pre) /\ i + 1 \in 1..Len(Pre) /\ i < First("DRAIN") /\ i + 1 < First("DRAIN")
    BY <1>2, <2>1
  <2>3. Pre[i].counters = Zero /\ Pre[i + 1].counters = Zero
    BY <1>1, <2>1, <2>2
  <2> QED BY <2>3 DEF Unmoved
<1>7. Adjacent(Pre, Unmoved)
  BY <1>6 DEF Adjacent
<1> QED BY <1>3, <1>5, <1>7

\* Those from the drain on are all alike.
Alike == {s \in Snapshots : s.counters = Aborted}

LEMMA PhaseAlike ==
  ASSUME TypeOK, TakenInv, PreInv, FixtureInv, Evidence, runtime = "fixture", Timely,
         NEW phase \in Phases \ {"PRE_DISPATCH"}
  PROVE  Of(phase) \in Seq(Alike)
<1>1. CASE At(phase) = {}
  BY <1>1 DEF Of
<1>2. CASE At(phase) # {}
  <2>1. /\ First(phase) \in DOMAIN scrapes /\ scrapes[First(phase)].phase = phase
        /\ Final(phase) \in DOMAIN scrapes
        /\ Of(phase) \in Seq(Snapshots)
        /\ \A i \in 1..Len(Of(phase)) : /\ First(phase) - 1 + i \in First(phase)..Final(phase)
                                        /\ Of(phase)[i] = scrapes[First(phase) - 1 + i]
    BY <1>2, PhaseOf
  <2>2. /\ DOMAIN scrapes = 1..Len(scrapes) /\ Len(scrapes) \in Nat /\ First("DRAIN") \in DOMAIN scrapes
        /\ \A j \in DOMAIN scrapes : scrapes[j] \in Snapshots
    BY TakenIs, EvidenceEnds DEF Evidence
  <2>3. ~(First(phase) < First("DRAIN"))
    BY <2>1, EvidencePhases
  <2>4. ASSUME NEW i \in 1..Len(Of(phase)) PROVE Of(phase)[i] \in Alike
    <3> DEFINE j == First(phase) - 1 + i
    <3>1. j \in First(phase)..Final(phase) /\ Of(phase)[i] = scrapes[j]
      BY <2>1
    <3> HIDE DEF j
    <3>2. j \in DOMAIN scrapes /\ ~(j < First("DRAIN"))
      BY <2>1, <2>2, <2>3, <3>1
    <3>3. scrapes[j].counters = Aborted
      BY <3>2, FixtureSnapshots
    <3> QED BY <2>2, <3>1, <3>2, <3>3 DEF Alike
  <2>5. Len(Of(phase)) \in Nat /\ Of(phase) \in [1..Len(Of(phase)) -> Alike]
    <3>1. Len(Of(phase)) \in Nat /\ DOMAIN Of(phase) = 1..Len(Of(phase))
          /\ Of(phase) = [i \in 1..Len(Of(phase)) |-> Of(phase)[i]]
      BY <2>1, LenProperties
    <3> QED BY <2>4, <3>1
  <2> QED BY <2>5, SeqIntro
<1> QED BY <1>1, <1>2

\* A snapshot and what follows it.
LEMMA HeadAlike ==
  ASSUME NEW S, NEW x \in S, NEW q \in Seq(S)
  PROVE  /\ <<x>> \o q \in Seq(S) /\ <<x>> \o q # <<>>
         /\ Last(<<x>> \o q) \in S /\ Tail(<<x>> \o q) \in Seq(S)
<1>1. <<x>> \in Seq(S) /\ Len(<<x>>) = 1
  OBVIOUS
<1> DEFINE r == <<x>> \o q
<1>2. r \in Seq(S) /\ Len(r) = 1 + Len(q)
  BY <1>1, ConcatProperties
<1> HIDE DEF r
<1>3. Len(q) \in Nat
  OBVIOUS
<1>4. r # <<>> /\ Len(r) \in 1..Len(r)
  <2>1. Len(<<>>) = 0
    OBVIOUS
  <2> QED BY <1>2, <1>3, <2>1
<1>5. r[Len(r)] \in S
  BY <1>2, <1>4, ElementOfSeq
<1>6. Tail(r) \in Seq(S)
  BY <1>2, <1>4, HeadTailProperties
<1> QED BY <1>2, <1>4, <1>5, <1>6 DEF Last, r

LEMMA FixtureSettled ==
  ASSUME TypeOK, TakenInv, PreInv, FixtureInv, Evidence, runtime = "fixture", Timely
  PROVE  Settled /\ Worked /\ ~CompletedLater
<1>1. /\ Of("STABLE_GENERATION") \in Seq(Alike) /\ Of("COOLDOWN") \in Seq(Alike) /\ Later \in Seq(Alike)
  BY PhaseAlike DEF Phases, Later
<1>2. /\ DOMAIN scrapes = 1..Len(scrapes) /\ Len(scrapes) \in Nat
      /\ \A j \in DOMAIN scrapes : scrapes[j] \in Snapshots
  BY TakenIs DEF Evidence
<1>3. /\ At("DRAIN") # {} /\ First("DRAIN") < Len(scrapes) /\ Len(scrapes) \in DOMAIN scrapes
      /\ Last(scrapes) = scrapes[Len(scrapes)]
  BY EvidencePhases
<1>4. /\ Final("PRE_DISPATCH") \in DOMAIN scrapes /\ Final("PRE_DISPATCH") < First("DRAIN")
      /\ Last(Pre) = scrapes[Final("PRE_DISPATCH")]
  BY EvidenceEnds
<1>5. First("DRAIN") \in DOMAIN scrapes /\ Final("DRAIN") \in DOMAIN scrapes
      /\ First("DRAIN") <= Final("DRAIN") /\ Last(Drain) = scrapes[Final("DRAIN")]
  BY <1>3, PhaseOf DEF Drain
<1>6. Last(Pre).counters = Zero
  BY <1>4, FixtureSnapshots
<1>7. Last(scrapes).counters = Aborted
  <2>1. ~(Len(scrapes) < First("DRAIN"))
    BY <1>2, <1>3, <1>5
  <2> QED BY <1>3, <2>1, FixtureSnapshots
<1>8. Last(Drain) \in Alike
  <2>1. ~(Final("DRAIN") < First("DRAIN"))
    BY <1>2, <1>5
  <2>2. scrapes[Final("DRAIN")].counters = Aborted
    BY <1>5, <2>1, FixtureSnapshots
  <2> QED BY <1>2, <1>5, <2>2 DEF Alike
<1>9. Stable \in Seq(Alike) /\ Last(Stable) \in Alike
  BY <1>1, <1>8, HeadAlike DEF Stable
<1>10. Cooldown \in Seq(Alike) /\ Last(Cooldown) \in Alike /\ Tail(Cooldown) \in Seq(Alike)
  BY <1>1, <1>9, HeadAlike DEF Cooldown
<1>11. ~CompletedLater
  <2>1. Last(scrapes).counters.abort - Last(Pre).counters.abort = 1
    BY <1>6, <1>7, FixtureCounts
  <2>2. Last(scrapes).counters.other = Last(Pre).counters.other
    BY <1>6, <1>7, FixtureCounts
  <2> QED BY <2>1, <2>2 DEF CompletedLater
<1>12. Worked
  <2>1. Last(Cooldown).counters = Aborted
    BY <1>10 DEF Alike
  <2> QED BY <1>6, <2>1, FixtureCounts DEF Worked
<1>13. Settled
  <2> DEFINE whole == Stable \o Tail(Cooldown) \o Later
  <2>1. whole \in Seq(Alike)
    BY <1>1, <1>9, <1>10
  <2> HIDE DEF whole
  <2>2. ASSUME NEW i \in 1..(Len(whole) - 1) PROVE Unmoved(whole[i], whole[i + 1])
    <3>1. Len(whole) \in Nat
      BY <2>1
    <3>2. i \in 1..Len(whole) /\ i + 1 \in 1..Len(whole)
      BY <3>1
    <3>3. whole[i] \in Alike /\ whole[i + 1] \in Alike
      BY <2>1, <3>2, ElementOfSeq
    <3> QED BY <3>3 DEF Alike, Unmoved
  <2>3. Adjacent(whole, Unmoved)
    BY <2>2 DEF Adjacent
  <2> QED BY <2>3 DEF Settled, whole
<1> QED BY <1>11, <1>12, <1>13

LEMMA FixtureAccepted ==
  ASSUME TypeOK, TakenInv, HandlerInv, PreInv, FixtureInv, Evidence, runtime = "fixture", Timely
  PROVE  Classify = Drained
<1>1. Logged("internal") /\ Logged("external") /\ Correlates /\ InOrder /\ Spaced(Pre) /\ DrainKept
  BY FixtureChain DEF Timely
<1>2. Quiescent /\ Adjacent(scrapes, Progress) /\ Adjacent(Pre, Unmoved)
  BY FixtureProgress
<1>3. Settled /\ Worked /\ ~CompletedLater
  BY FixtureSettled
<1>4. running = 0
  BY FixtureChain DEF Timely, FixtureInv, FixtureServed
<1>5. ~(Last(Pre).done >= at.dispatch)
  <2>1. Last(Pre).done \in Nat
    <3>1. Last(Pre) \in Snapshots
      BY EvidenceEnds
    <3> QED BY <3>1 DEF Snapshots
  <2>2. at.dispatch \in Nat
    <3>1. at \in [Offsets -> 0..MaxTime]
      BY DEF TypeOK
    <3>2. at["dispatch"] \in 0..MaxTime
      BY <3>1 DEF Offsets
    <3> QED BY <3>2, ConstantTypes
  <2>3. Last(Pre).done < at.dispatch
    BY DEF Timely
  <2> QED BY <2>1, <2>2, <2>3
<1> QED BY <1>1, <1>2, <1>3, <1>4, <1>5 DEF Classify

-----------------------------------------------------------------------------
(* The verdict                                                              *)

LEMMA PhaseStays == ASSUME scrapes' = scrapes, NEW phase PROVE Of(phase)' = Of(phase)
<1>1. At(phase)' = At(phase)
  BY DEF At
<1> QED BY <1>1 DEF Of

\* What was timely stays so as long as the evidence stays.
LEMMA TimelyStays ==
  ASSUME UNCHANGED <<logs, scrapes, at>>
  PROVE  Timely' <=> Timely
<1>1. ASSUME NEW kind PROVE Logged(kind)' <=> Logged(kind)
  BY DEF Logged
<1>2. ASSUME NEW kind PROVE LoggedAt(kind)' = LoggedAt(kind)
  BY DEF LoggedAt, Position
<1>3. ASSUME NEW phase PROVE Of(phase)' = Of(phase)
  BY PhaseStays
<1>4. /\ Logged("external")' <=> Logged("external")
      /\ LoggedAt("added")' = LoggedAt("added") /\ LoggedAt("internal")' = LoggedAt("internal")
      /\ LoggedAt("external")' = LoggedAt("external")
      /\ Pre' = Pre /\ Drain' = Drain
      /\ Of("STABLE_GENERATION")' = Of("STABLE_GENERATION") /\ Of("COOLDOWN")' = Of("COOLDOWN")
  BY <1>1, <1>2, <1>3 DEF Pre, Drain
<1>5. Stable' = Stable
  BY <1>4 DEF Stable
<1>6. Cooldown' = Cooldown
  BY <1>4, <1>5 DEF Cooldown
<1>7. InOrder' <=> InOrder
  BY <1>4 DEF InOrder
<1>8. DrainKept' <=> DrainKept
  BY <1>4, <1>5, <1>6 DEF DrainKept, Spaced, OnCadence, Span, Adjacent
<1> QED BY <1>4, <1>7, <1>8 DEF Timely, Spaced, Adjacent

\* After the verdict only the server moves.
LEMMA VerdictStays ==
  ASSUME TypeOK, HandlerInv, VerdictInv, verdict # "none", Next \/ UNCHANGED vars
  PROVE  /\ UNCHANGED <<now, clientVars, scrapes, pending, foreign, verdict, runtime>>
         /\ \/ UNCHANGED <<logs, fate, handler>>
            \/ SendLate \/ Abort \/ Acknowledge \/ Settle \/ AbortOtherwise
<1>1. client = "closed" /\ pending = <<>> /\ handler \notin {"none", "headed"}
  BY DEF VerdictInv, Evidence, HandlerInv
<1>2. ~(Tick \/ Client \/ Scrape \/ Receive \/ Evaluate \/ Accept \/ SendPayload \/ Restart \/ ServeOther)
  BY <1>1 DEF Tick, Client, Dispatch, AcceptHeaders, Read, Fail, Scrape, Receive, Evaluate, Accept, SendPayload,
              Restart, ServeOther
<1>3. SendLate \/ Abort \/ Acknowledge \/ GoOn \/ Settle \/ AbortOtherwise \/ UNCHANGED vars
  BY <1>2 DEF Next, Server, OtherRuntime, Collector
<1> QED BY <1>3 DEF SendLate, Abort, Acknowledge, GoOn, Settle, AbortOtherwise, vars, serverVars, clientVars

LEMMA VerdictStep ==
  ASSUME IInv, TypeOK', Next \/ UNCHANGED vars
  PROVE  VerdictInv'
<1> USE DEF IInv
<1>0. runtime' = runtime
  BY ProbeStays
<1>1. CASE Evaluate
  <2>1. Evidence /\ verdict' = Classify /\ UNCHANGED <<client, pending, scrapes, logs, at, fate, foreign>>
    BY <1>1 DEF Evaluate, Evidence, serverVars, clientVars
  <2>2. Evidence'
    BY <2>1, PhaseStays DEF Evidence
  <2>3. AcceptedIsAborted'
    BY <2>1, AcceptedAborted, AcceptedAlone DEF AcceptedIsAborted
  <2>4. FixtureDrainIsAccepted'
    BY <1>0, <2>1, TimelyStays, FixtureAccepted DEF FixtureDrainIsAccepted
  <2> QED BY <2>2, <2>3, <2>4 DEF VerdictInv
<1>2. CASE ~Evaluate /\ verdict = "none"
  <2>1. verdict' = "none"
    BY <1>2 DEF Next, Tick, Server, Accept, SendPayload, SendLate, Abort, OtherRuntime, Acknowledge, GoOn, Settle,
                Restart, ServeOther, AbortOtherwise, Client, Dispatch, AcceptHeaders, Read, Fail, Collector, Scrape,
                Receive, vars
  <2> QED BY <2>1 DEF VerdictInv, AcceptedIsAborted, FixtureDrainIsAccepted, Drained
<1>3. CASE verdict # "none"
  <2>1. /\ UNCHANGED <<now, clientVars, scrapes, pending, foreign, verdict, runtime>>
        /\ \/ UNCHANGED <<logs, fate, handler>>
           \/ SendLate \/ Abort \/ Acknowledge \/ Settle \/ AbortOtherwise
    BY <1>3, VerdictStays
  <2>2. Evidence /\ Evidence'
    <3>1. Evidence
      BY <1>3 DEF VerdictInv
    <3> QED BY <2>1, <3>1, PhaseStays DEF Evidence, clientVars
  <2>3. ASSUME verdict' = Drained
        PROVE  fate' = "aborted" /\ foreign' \cap 1..(Len(scrapes') - 1) = {}
    <3>1. fate = "aborted" /\ foreign \cap 1..(Len(scrapes) - 1) = {}
      BY <2>1, <2>3 DEF VerdictInv, AcceptedIsAborted
    <3>2. handler \notin {"headed", "sent", "late", "acked"}
      BY <3>1 DEF HandlerInv, GoesOnInv
    <3>3. fate' = fate
      BY <2>1, <3>2 DEF SendLate, Abort, Acknowledge, Settle, AbortOtherwise
    <3> QED BY <2>1, <3>1, <3>3
  <2>4. ASSUME runtime' = "fixture", Timely'
        PROVE  verdict' = Drained
    <3>1. CASE logs' = logs
      <4>1. Timely
        BY <2>1, <2>4, <3>1, TimelyStays DEF clientVars
      <4> QED BY <1>0, <1>3, <2>1, <2>4, <4>1 DEF VerdictInv, FixtureDrainIsAccepted
    <3>2. CASE logs' # logs
      <4>1. Log(<<"internal", "external">>) /\ ~Logged("external")
        <5>1. Abort
          BY <1>0, <2>1, <2>4, <3>2 DEF SendLate, Acknowledge, Settle, AbortOtherwise
        <5> QED BY <5>1 DEF Abort, HandlerInv
      <4>2. Logged("external")' /\ LoggedAt("external")' < Drain'[1].sched
        BY <2>4 DEF Timely
      <4>3. PICK l \in DOMAIN logs' : logs'[l].kind = "external" /\ LoggedAt("external")' = logs'[l].at
        <5>1. \E l \in DOMAIN logs' : logs'[l].kind = "external"
          BY <4>2 DEF Logged
        <5> QED BY <5>1 DEF LoggedAt, Position
      <4>4. LoggedAt("external")' = now
        BY <4>1, <4>3, LoggedNow
      <4>5. Drain' = Drain
        BY <2>1, PhaseStays DEF Drain
      <4>6. Drain[1].sched <= now /\ Drain[1].sched \in Nat
        <5>1. First("DRAIN") \in DOMAIN scrapes /\ Drain[1] = scrapes[First("DRAIN")]
          BY <2>2, EvidenceEnds
        <5>2. Taken = scrapes /\ \A i \in DOMAIN Taken : Taken[i] \in Snapshots
          BY <2>2, TakenIs DEF Evidence
        <5>3. Drain[1].sched <= Drain[1].done /\ Drain[1].done <= now /\ Drain[1] \in Snapshots
          BY <5>1, <5>2 DEF TakenInv
        <5> QED BY <5>3, ProbeTypes DEF Snapshots
      <4> QED BY <4>2, <4>4, <4>5, <4>6, ProbeTypes
    <3> QED BY <3>1, <3>2
  <2>5. AcceptedIsAborted'
    BY <2>3 DEF AcceptedIsAborted
  <2>6. FixtureDrainIsAccepted'
    BY <2>4 DEF FixtureDrainIsAccepted
  <2> QED BY <2>2, <2>5, <2>6 DEF VerdictInv
<1> QED BY <1>1, <1>2, <1>3

-----------------------------------------------------------------------------
(* The invariant holds                                                      *)

LEMMA InitInv == Init => IInv
<1> SUFFICES ASSUME Init PROVE IInv
  OBVIOUS
<1>1. TypeOK
  BY InitType
<1>2. Taken = <<>> /\ DOMAIN Taken = {} /\ Len(Taken) = 0
  <2>1. pending = <<>> /\ scrapes = <<>>
    BY DEF Init
  <2>2. Taken = scrapes
    BY <1>1, <2>1, TakenIs
  <2> HIDE DEF Taken
  <2> QED BY <2>1, <2>2
<1>3. TakenInv
  BY <1>2 DEF Init, TakenInv
<1>4. HandlerInv
  BY NothingLogged DEF Init, HandlerInv
<1>5. PreInv /\ GoesOnInv
  BY <1>2 DEF Init, PreInv, GoesOnInv, Zero
<1>6. ServesInv
  BY <1>2 DEF Init, ServesInv, Zero
<1>7. ReadInv
  BY DEF Init, ReadInv, CloseFollowsFirstDelivery
<1>8. FixtureInv
  <2>1. Len(logs) = 0 /\ DOMAIN logs = {} /\ handler = "none"
    BY DEF Init
  <2> QED BY <1>2, <2>1 DEF FixtureInv, FixtureServed, FixtureShown
<1>9. VerdictInv
  BY DEF Init, VerdictInv, AcceptedIsAborted, FixtureDrainIsAccepted, Drained
<1> QED BY <1>1, <1>3, <1>4, <1>5, <1>6, <1>7, <1>8, <1>9 DEF IInv

LEMMA StepInv == IInv /\ [Next]_vars => IInv'
<1> SUFFICES ASSUME IInv, Next \/ UNCHANGED vars PROVE IInv'
  OBVIOUS
<1> USE DEF IInv
<1>1. TypeOK'
  <2>1. CASE Next
    BY <2>1, TypeStep
  <2>2. CASE UNCHANGED vars
    BY <2>2 DEF vars, serverVars, clientVars, TypeOK
  <2> QED BY <2>1, <2>2
<1>2. TakenInv'
  BY <1>1, TakenStep
<1>3. HandlerInv'
  BY HandlerStep
<1>4. PreInv'
  BY <1>1, PreStep
<1>5. GoesOnInv'
  BY <1>1, GoesOnStep
<1>6. ServesInv'
  BY <1>1, ServesStep
<1>7. ReadInv'
  BY ReadStep
<1>8. FixtureInv'
  BY <1>1, FixtureStep
<1>9. VerdictInv'
  BY <1>1, VerdictStep
<1> QED BY <1>1, <1>2, <1>3, <1>4, <1>5, <1>6, <1>7, <1>8, <1>9

\* The invariant holds in every state that is reached.
THEOREM Inductive == Spec => []IInv
BY InitInv, StepInv, PTL DEF Spec

\* Every state is of its type: the clock keeps within its bound, a gauge is 0 or
\* 1, and no more than one scrape is on its way.
THEOREM TypeCorrect == Spec => []TypeOK
<1>1. IInv => TypeOK
  BY DEF IInv
<1> QED BY <1>1, Inductive, PTL

\* The client closes on the first read with a generation event, and on no stream
\* that showed it a terminal (Stage2CancellationStreamCapture.feed).
THEOREM CloseOnDelivery == Spec => []CloseFollowsFirstDelivery
<1>1. IInv => CloseFollowsFirstDelivery
  BY DEF IInv, ReadInv
<1> QED BY <1>1, Inductive, PTL

\* What is accepted was aborted, and nobody else was served between the first
\* snapshot and the last (evaluate_cancellation), whatever the runtime does and
\* however its scrapes fall between its steps.
THEOREM Aborts == Spec => []AcceptedIsAborted
<1>1. IInv => AcceptedIsAborted
  BY DEF IInv, VerdictInv
<1> QED BY <1>1, Inductive, PTL

\* No order of the fixture's abort, its gauge, its counters and a scrape makes a
\* timely probe of it fail (evaluate_cancellation).
THEOREM Accepts == Spec => []FixtureDrainIsAccepted
<1>1. IInv => FixtureDrainIsAccepted
  BY DEF IInv, VerdictInv
<1> QED BY <1>1, Inductive, PTL
=============================================================================
