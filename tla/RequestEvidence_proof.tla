------------------------- MODULE RequestEvidence_proof -------------------------
(***************************************************************************)
(* Proofs about RequestEvidence, for any requests, any streams and any     *)
(* number of lapses and of confused files.                                 *)
(***************************************************************************)
EXTENDS RequestEvidence, Selection_proof, FiniteSetTheorems, SequenceTheorems, TLAPS

-----------------------------------------------------------------------------
(* The invariant                                                            *)

\* What has been observed of an exchange, in the order in which it happens.
TimeOf(x) ==
  /\ state[x] # "idle" => seen[x].request <= now
  /\ state[x] \in {"reading", "closed"} => seen[x].request < seen[x].response /\ seen[x].response <= now
  /\ state[x] \in {"idle", "sent"} => seen[x].chunks = <<>>
  /\ \A i \in DOMAIN seen[x].chunks :
       /\ seen[x].request < seen[x].chunks[i].at /\ seen[x].chunks[i].at <= now
       /\ state[x] = "closed" => seen[x].chunks[i].at < seen[x].close
  /\ state[x] = "closed" => seen[x].response < seen[x].close /\ seen[x].close <= now
TimeInv == \A x \in Exchanges : TimeOf(x)

\* The second exchange begins after the first.
PairInv ==
  state[2] # "idle" => state[1] = "closed" /\ seen[1].close < seen[2].request

\* What was put together is what two finished exchanges gave, and it holds.
CaptureInv ==
  /\ sources # NoCapture \/ capture # NoCapture =>
       sources \in [Parts -> Exchanges] /\ \A x \in Exchanges : state[x] = "closed"
  /\ capture # NoCapture =>
       /\ \E made \in BOOLEAN : capture = Assembled(sources, made)
       /\ CaptureHolds(capture.wire) /\ Replays(capture.wire, capture.logs)
  /\ swapped # {} => capture # NoCapture /\ seen[Other].chunks # <<>>
  /\ verdict = "accepted" => capture # NoCapture
  /\ FilesOfOneExchange

IInv == TypeOK /\ TimeInv /\ PairInv /\ CaptureInv

-----------------------------------------------------------------------------
(* Types                                                                    *)

LEMMA Constants ==
  /\ OutputTokens \in Nat /\ OutputTokens >= 1 /\ MaxLapses \in Nat /\ MaxSwaps \in Nat
  /\ \A s \in Streams :
       /\ s \in Seq(Frames) /\ Len(s) \in Nat /\ FramesFit(Select(s, Bearing))
       /\ \A i \in 1..Len(s) : s[i] = Done <=> i = Len(s)
  /\ Exchanges = {1, 2}
<1>1. /\ OutputTokens \in Nat \ {0} /\ MaxLapses \in Nat /\ MaxSwaps \in Nat
      /\ Streams \subseteq Seq(Frames) /\ \A s \in Streams : FramesFit(Select(s, Bearing))
      /\ \A s \in Streams : \A i \in DOMAIN s : s[i] = Done <=> i = Len(s)
  BY RequestAssumption DEF RequestAssumption
<1>2. \A s \in Streams : Len(s) \in Nat /\ DOMAIN s = 1..Len(s)
  BY <1>1, LenProperties
<1> QED BY <1>1, <1>2 DEF Exchanges

LEMMA FieldsFinite == IsFiniteSet(Fields) /\ \A S \in SUBSET Fields : IsFiniteSet(S)
<1>1. IsFiniteSet({"http_exchange", "request_body", "request_headers", "response_headers",
                   "raw_response_body", "server_logs"})
  <2>1. IsFiniteSet({"http_exchange"} \cup {"request_body"} \cup {"request_headers"} \cup {"response_headers"}
                    \cup {"raw_response_body"} \cup {"server_logs"})
    BY FS_Singleton, FS_Union
  <2> QED BY <2>1
<1>2. IsFiniteSet({"parsed_sse_events", "terminal_boundary", "server_metrics", "lifecycle",
                   "token_usage_reconciliation"})
  <2>1. IsFiniteSet({"parsed_sse_events"} \cup {"terminal_boundary"} \cup {"server_metrics"} \cup {"lifecycle"}
                    \cup {"token_usage_reconciliation"})
    BY FS_Singleton, FS_Union
  <2> QED BY <2>1
<1>3. IsFiniteSet(Fields)
  BY <1>1, <1>2, FS_Union DEF Fields, RawFields, DerivedFields
<1> QED BY <1>3, FS_Subset

LEMMA InitType == Init => TypeOK
<1> SUFFICES ASSUME Init PROVE TypeOK
  OBVIOUS
<1>1. Unseen \in Observations
  BY DEF Unseen, Observations
<1>2. \A x \in Exchanges : arrived[x] <= Len(stream[x])
  <2>1. \A x \in Exchanges : stream[x] \in Streams /\ arrived[x] = 0
    BY DEF Init
  <2> QED BY <2>1, Constants
<1>3. Cardinality(swapped) <= MaxSwaps
  BY Constants, FS_EmptySet DEF Init
<1> QED BY <1>1, <1>2, <1>3, Constants DEF Init, TypeOK

\* What an observation changes.
LEMMA Observed ==
  ASSUME TypeOK, NEW x \in Exchanges, NEW o \in Observations, seen' = [seen EXCEPT ![x] = o]
  PROVE  seen' \in [Exchanges -> Observations] /\ seen'[x] = o /\ \A y \in Exchanges \ {x} : seen'[y] = seen[y]
BY DEF TypeOK

LEMMA FieldSet ==
  ASSUME NEW o \in Observations, NEW t \in Nat
  PROVE  /\ [o EXCEPT !.request = t] \in Observations
         /\ [o EXCEPT !.response = t] \in Observations
         /\ [o EXCEPT !.close = t] \in Observations
         /\ [o EXCEPT !.request = t].request = t /\ [o EXCEPT !.request = t].chunks = o.chunks
         /\ [o EXCEPT !.response = t].response = t /\ [o EXCEPT !.response = t].request = o.request
         /\ [o EXCEPT !.response = t].chunks = o.chunks
         /\ [o EXCEPT !.close = t].close = t /\ [o EXCEPT !.close = t].request = o.request
         /\ [o EXCEPT !.close = t].response = o.response /\ [o EXCEPT !.close = t].chunks = o.chunks
BY DEF Observations

LEMMA SendSees ==
  ASSUME TypeOK, NEW x \in Exchanges, Send(x)
  PROVE  /\ seen' \in [Exchanges -> Observations]
         /\ \A y \in Exchanges \ {x} : seen'[y] = seen[y]
         /\ seen'[x].request = now + 1 /\ seen'[x].chunks = seen[x].chunks
<1>1. seen[x] \in Observations /\ now + 1 \in Nat
  BY DEF TypeOK
<1>2. seen' = [seen EXCEPT ![x] = [seen[x] EXCEPT !.request = now + 1]]
  BY DEF Send
<1> DEFINE o == [seen[x] EXCEPT !.request = now + 1]
<1>3. o \in Observations /\ o.request = now + 1 /\ o.chunks = seen[x].chunks
  BY <1>1, FieldSet
<1>4. seen' = [seen EXCEPT ![x] = o]
  BY <1>2
<1> HIDE DEF o
<1>5. seen' \in [Exchanges -> Observations] /\ seen'[x] = o /\ \A y \in Exchanges \ {x} : seen'[y] = seen[y]
  BY <1>3, <1>4, Observed
<1> QED BY <1>3, <1>5

LEMMA HeadSees ==
  ASSUME TypeOK, NEW x \in Exchanges, Head_(x)
  PROVE  /\ seen' \in [Exchanges -> Observations]
         /\ \A y \in Exchanges \ {x} : seen'[y] = seen[y]
         /\ seen'[x].request = seen[x].request /\ seen'[x].response = now + 1
         /\ seen'[x].chunks = seen[x].chunks
<1>1. seen[x] \in Observations /\ now + 1 \in Nat
  BY DEF TypeOK
<1>2. seen' = [seen EXCEPT ![x] = [seen[x] EXCEPT !.response = now + 1]]
  BY DEF Head_
<1> DEFINE o == [seen[x] EXCEPT !.response = now + 1]
<1>3. o \in Observations /\ o.request = seen[x].request /\ o.response = now + 1 /\ o.chunks = seen[x].chunks
  BY <1>1, FieldSet
<1>4. seen' = [seen EXCEPT ![x] = o]
  BY <1>2
<1> HIDE DEF o
<1>5. seen' \in [Exchanges -> Observations] /\ seen'[x] = o /\ \A y \in Exchanges \ {x} : seen'[y] = seen[y]
  BY <1>3, <1>4, Observed
<1> QED BY <1>3, <1>5

LEMMA CloseSees ==
  ASSUME TypeOK, NEW x \in Exchanges, Close(x)
  PROVE  /\ seen' \in [Exchanges -> Observations]
         /\ \A y \in Exchanges \ {x} : seen'[y] = seen[y]
         /\ seen'[x].request = seen[x].request /\ seen'[x].response = seen[x].response
         /\ seen'[x].chunks = seen[x].chunks /\ seen'[x].close = now + 1
<1>1. seen[x] \in Observations /\ now + 1 \in Nat
  BY DEF TypeOK
<1>2. seen' = [seen EXCEPT ![x] = [seen[x] EXCEPT !.close = now + 1]]
  BY DEF Close
<1> DEFINE o == [seen[x] EXCEPT !.close = now + 1]
<1>3. /\ o \in Observations /\ o.request = seen[x].request /\ o.response = seen[x].response
      /\ o.chunks = seen[x].chunks /\ o.close = now + 1
  BY <1>1, FieldSet
<1>4. seen' = [seen EXCEPT ![x] = o]
  BY <1>2
<1> HIDE DEF o
<1>5. seen' \in [Exchanges -> Observations] /\ seen'[x] = o /\ \A y \in Exchanges \ {x} : seen'[y] = seen[y]
  BY <1>3, <1>4, Observed
<1> QED BY <1>3, <1>5

LEMMA SeqIntro ==
  ASSUME NEW S, NEW n \in Nat, NEW f \in [1..n -> S]
  PROVE  f \in Seq(S) /\ Len(f) = n
<1>1. f \in UNION {[1..m -> S] : m \in Nat}
  OBVIOUS
<1>2. f \in Seq(S)
  BY <1>1, SeqDef
<1>3. Len(f) \in Nat /\ DOMAIN f = 1..Len(f) /\ DOMAIN f = 1..n
  BY <1>2, LenProperties
<1> QED BY <1>2, <1>3

LEMMA ReadSees ==
  ASSUME TypeOK, NEW x \in Exchanges, Read(x)
  PROVE  \E k \in 1..(Len(stream[x]) - arrived[x]) :
           /\ k \in Nat /\ k >= 1 /\ now' = now + k
           /\ arrived' = [arrived EXCEPT ![x] = @ + k] /\ arrived[x] + k \in 0..Len(stream[x])
           /\ lapses' \in 0..MaxLapses
           /\ seen' \in [Exchanges -> Observations]
           /\ \A y \in Exchanges \ {x} : seen'[y] = seen[y]
           /\ seen'[x].request = seen[x].request /\ seen'[x].response = seen[x].response
           /\ seen'[x].close = seen[x].close
           /\ \A i \in DOMAIN seen'[x].chunks :
                \/ i \in DOMAIN seen[x].chunks /\ seen'[x].chunks[i] = seen[x].chunks[i]
                \/ seen'[x].chunks[i].at = now + 1
<1>1. PICK k \in 1..(Len(stream[x]) - arrived[x]), copies \in 0..2 :
       LET chunk == [at |-> now + 1, times |-> [i \in 1..k |-> now + i],
                     frames |-> SubSeq(stream[x], arrived[x] + 1, arrived[x] + k)]
       IN /\ copies = 1 \/ lapses < MaxLapses
          /\ lapses' = IF copies = 1 THEN lapses ELSE lapses + 1
          /\ now' = now + k
          /\ arrived' = [arrived EXCEPT ![x] = @ + k]
          /\ seen' = [seen EXCEPT ![x].chunks = @ \o [i \in 1..copies |-> chunk]]
  BY DEF Read
<1> DEFINE chunk == [at |-> now + 1, times |-> [i \in 1..k |-> now + i],
                     frames |-> SubSeq(stream[x], arrived[x] + 1, arrived[x] + k)]
           more == [i \in 1..copies |-> chunk]
           old == seen[x].chunks
<1>2. stream[x] \in Seq(Frames) /\ Len(stream[x]) \in Nat /\ arrived[x] \in 0..Len(stream[x]) /\ now \in Nat
      /\ seen[x] \in Observations /\ old \in Seq(Chunks)
  BY Constants, SMTT(30) DEF TypeOK, Observations
<1>3. k \in Nat /\ k >= 1 /\ arrived[x] + k \in 0..Len(stream[x]) /\ copies \in Nat
  BY <1>2
<1>4. chunk \in Chunks /\ chunk.at = now + 1
  <2>1. [i \in 1..k |-> now + i] \in Seq(Nat)
    <3>1. [i \in 1..k |-> now + i] \in [1..k -> Nat]
      BY <1>2, <1>3
    <3> QED BY <1>3, <3>1, SeqIntro
  <2>2. SubSeq(stream[x], arrived[x] + 1, arrived[x] + k) \in Seq(Frames)
    <3>1. \A i \in (arrived[x] + 1)..(arrived[x] + k) : i \in 1..Len(stream[x])
      BY <1>2, <1>3
    <3>2. \A i \in (arrived[x] + 1)..(arrived[x] + k) : stream[x][i] \in Frames
      BY <1>2, <3>1, ElementOfSeq
    <3>3. arrived[x] + 1 \in Int /\ arrived[x] + k \in Int
      BY <1>2, <1>3
    <3> QED BY <1>2, <3>2, <3>3, SubSeqProperties
  <2>3. now + 1 \in Nat
    BY <1>2
  <2> QED BY <2>1, <2>2, <2>3 DEF Chunks
<1>5. more \in Seq(Chunks) /\ Len(more) = copies /\ \A i \in 1..copies : more[i] = chunk
  <2> HIDE DEF chunk
  <2>1. more \in [1..copies -> Chunks]
    BY <1>4
  <2> QED BY <1>3, <1>4, <2>1, SeqIntro
<1>6. seen' = [seen EXCEPT ![x].chunks = old \o more]
  BY <1>1
<1> HIDE DEF chunk, more
<1>7. /\ old \o more \in Seq(Chunks)
      /\ \A i \in DOMAIN (old \o more) : \/ i \in DOMAIN old /\ (old \o more)[i] = old[i]
                                         \/ (old \o more)[i].at = now + 1
  <2> HIDE DEF old
  <2>1. /\ old \o more \in Seq(Chunks) /\ Len(old \o more) = Len(old) + Len(more)
        /\ \A i \in 1..(Len(old) + Len(more)) :
             (old \o more)[i] = IF i <= Len(old) THEN old[i] ELSE more[i - Len(old)]
    BY <1>2, <1>5, ConcatProperties
  <2>2. DOMAIN (old \o more) = 1..(Len(old) + copies) /\ DOMAIN old = 1..Len(old) /\ Len(old) \in Nat
    BY <1>2, <1>5, <2>1, LenProperties
  <2>3. ASSUME NEW i \in DOMAIN (old \o more), i \notin DOMAIN old
        PROVE  (old \o more)[i].at = now + 1
    <3>1. i - Len(old) \in 1..copies /\ ~(i <= Len(old)) /\ i \in 1..(Len(old) + Len(more))
      BY <1>3, <1>5, <2>2, <2>3
    <3> QED BY <1>4, <1>5, <2>1, <3>1
  <2>4. \A i \in DOMAIN old : i \in DOMAIN (old \o more) => (old \o more)[i] = old[i]
    BY <1>3, <1>5, <2>1, <2>2
  <2> QED BY <2>1, <2>3, <2>4
<1>8. seen'[x] = [seen[x] EXCEPT !.chunks = old \o more] /\ \A y \in Exchanges \ {x} : seen'[y] = seen[y]
  BY <1>6 DEF TypeOK
<1>9. /\ seen'[x] \in Observations /\ seen'[x].chunks = old \o more
      /\ seen'[x].request = seen[x].request /\ seen'[x].response = seen[x].response /\ seen'[x].close = seen[x].close
  BY <1>2, <1>7, <1>8 DEF Observations
<1>10. seen' \in [Exchanges -> Observations]
  BY <1>6, <1>8, <1>9 DEF TypeOK
<1>11. lapses' \in 0..MaxLapses
  BY <1>1, Constants DEF TypeOK
<1> QED BY <1>1, <1>3, <1>7, <1>8, <1>9, <1>10, <1>11, ZenonT(30)

LEMMA AssembleKeeps ==
  ASSUME TypeOK, Assemble
  PROVE  \E from \in [Parts -> Exchanges], made \in BOOLEAN :
           /\ capture = NoCapture /\ verdict = "none" /\ \A x \in Exchanges : state[x] = "closed"
           /\ sources' = from
           /\ \/ /\ capture' = Assembled(from, made) /\ verdict' = verdict
                 /\ CaptureHolds(Assembled(from, made).wire)
                 /\ Replays(Assembled(from, made).wire, Assembled(from, made).logs)
              \/ capture' = capture /\ verdict' = "refused"
           /\ UNCHANGED <<now, exchangeVars, swapped>>
<1>1. PICK from \in [Parts -> Exchanges], made \in BOOLEAN :
       LET new == Assembled(from, made)
       IN /\ \A part \in Parts : seen[from[part]].chunks # <<>>
          /\ sources' = from
          /\ IF CaptureHolds(new.wire) /\ Replays(new.wire, new.logs)
               THEN capture' = new /\ UNCHANGED verdict
               ELSE verdict' = "refused" /\ UNCHANGED capture
  BY DEF Assemble
<1> DEFINE new == Assembled(from, made)
<1>2. capture = NoCapture /\ verdict = "none" /\ (\A x \in Exchanges : state[x] = "closed")
      /\ UNCHANGED <<now, exchangeVars, swapped>>
  BY DEF Assemble
<1>3. sources' = from
  BY <1>1
<1>4. \/ CaptureHolds(new.wire) /\ Replays(new.wire, new.logs) /\ capture' = new /\ verdict' = verdict
      \/ capture' = capture /\ verdict' = "refused"
  <2> HIDE DEF new
  <2>1. IF CaptureHolds(new.wire) /\ Replays(new.wire, new.logs)
          THEN capture' = new /\ UNCHANGED verdict
          ELSE verdict' = "refused" /\ UNCHANGED capture
    BY <1>1 DEF new
  <2> QED BY <2>1
<1> QED BY <1>2, <1>3, <1>4

LEMMA StepType == TypeOK /\ [Next]_vars => TypeOK'
<1> SUFFICES ASSUME TypeOK, [Next]_vars PROVE TypeOK'
  OBVIOUS
<1>1. ASSUME NEW x \in Exchanges, Send(x) PROVE TypeOK'
  <2>1. now' \in Nat /\ UNCHANGED <<ids, stream, arrived, lapses, sources, swapped, verdict>>
        /\ state' \in [Exchanges -> {"idle", "sent", "reading", "closed"}]
    BY <1>1 DEF TypeOK, Send, Keep, captureVars
  <2>2. seen' \in [Exchanges -> Observations]
    BY <1>1, SendSees
  <2> QED BY <2>1, <2>2 DEF TypeOK
<1>2. ASSUME NEW x \in Exchanges, Head_(x) PROVE TypeOK'
  <2>1. now' \in Nat /\ UNCHANGED <<ids, stream, arrived, lapses, sources, swapped, verdict>>
        /\ state' \in [Exchanges -> {"idle", "sent", "reading", "closed"}]
    BY <1>2 DEF TypeOK, Head_, Keep, captureVars
  <2>2. seen' \in [Exchanges -> Observations]
    BY <1>2, HeadSees
  <2> QED BY <2>1, <2>2 DEF TypeOK
<1>3. ASSUME NEW x \in Exchanges, Read(x) PROVE TypeOK'
  <2>1. PICK k \in 1..(Len(stream[x]) - arrived[x]) :
          /\ k \in Nat /\ now' = now + k
          /\ arrived' = [arrived EXCEPT ![x] = @ + k] /\ arrived[x] + k \in 0..Len(stream[x])
          /\ lapses' \in 0..MaxLapses /\ seen' \in [Exchanges -> Observations]
    BY <1>3, ReadSees
  <2>2. UNCHANGED <<ids, stream, state, sources, swapped, verdict>>
    BY <1>3 DEF Read, Keep, captureVars
  <2>3. arrived' \in [Exchanges -> Nat] /\ \A y \in Exchanges : arrived'[y] <= Len(stream'[y])
    <3>1. arrived'[x] = arrived[x] + k /\ \A y \in Exchanges \ {x} : arrived'[y] = arrived[y]
      BY <2>1 DEF TypeOK
    <3>2. arrived' \in [Exchanges -> Nat] /\ arrived[x] + k <= Len(stream[x])
      BY <2>1, Constants DEF TypeOK
    <3>3. \A y \in Exchanges \ {x} : arrived[y] <= Len(stream[y])
      BY DEF TypeOK
    <3> QED BY <2>2, <3>1, <3>2, <3>3
  <2>4. now' \in Nat
    BY <2>1 DEF TypeOK
  <2> QED BY <2>1, <2>2, <2>3, <2>4 DEF TypeOK
<1>4. ASSUME NEW x \in Exchanges, Close(x) PROVE TypeOK'
  <2>1. now' \in Nat /\ UNCHANGED <<ids, stream, arrived, sources, swapped, verdict>>
        /\ state' \in [Exchanges -> {"idle", "sent", "reading", "closed"}]
    BY <1>4 DEF TypeOK, Close, Keep, captureVars
  <2>2. lapses' \in 0..MaxLapses
    BY <1>4, Constants DEF TypeOK, Close
  <2>3. seen' \in [Exchanges -> Observations]
    BY <1>4, CloseSees
  <2> QED BY <2>1, <2>2, <2>3 DEF TypeOK
<1>5. CASE Assemble
  <2>1. /\ sources' \in [Parts -> Exchanges] /\ verdict' \in {"none", "refused"}
        /\ UNCHANGED <<now, exchangeVars, swapped>>
    BY <1>5, AssembleKeeps
  <2> QED BY <2>1 DEF TypeOK, exchangeVars
<1>6. CASE Reconstruct
  <2>1. verdict' \in {"accepted", "refused"} /\ UNCHANGED <<now, exchangeVars, sources, swapped>>
    BY <1>6 DEF Reconstruct, captureVars
  <2> QED BY <2>1 DEF TypeOK, exchangeVars
<1>7. ASSUME NEW field \in Fields, Swap(field) PROVE TypeOK'
  <2>1. swapped' = swapped \cup {field} /\ field \notin swapped /\ lapses + Cardinality(swapped) < MaxSwaps
        /\ UNCHANGED <<now, exchangeVars, sources, verdict>>
    BY <1>7 DEF Swap, captureVars
  <2>2. IsFiniteSet(swapped) /\ Cardinality(swapped) \in Nat
    BY FieldsFinite, FS_CardinalityType DEF TypeOK
  <2>3. Cardinality(swapped') = Cardinality(swapped) + 1
    BY <2>1, <2>2, FS_AddElement
  <2>4. Cardinality(swapped') <= MaxSwaps
    BY <2>1, <2>2, <2>3, Constants DEF TypeOK
  <2> QED BY <1>7, <2>1, <2>4 DEF TypeOK, exchangeVars
<1>8. CASE UNCHANGED vars
  BY <1>8 DEF vars, TypeOK, exchangeVars, captureVars
<1> QED BY <1>1, <1>2, <1>3, <1>4, <1>5, <1>6, <1>7, <1>8 DEF Next

-----------------------------------------------------------------------------
(* The order of the observations                                            *)

LEMMA Times ==
  ASSUME TypeOK, NEW x \in Exchanges
  PROVE  /\ now \in Nat /\ seen[x].request \in Nat /\ seen[x].response \in Nat /\ seen[x].close \in Nat
         /\ seen[x].chunks \in Seq(Chunks)
         /\ \A i \in DOMAIN seen[x].chunks : seen[x].chunks[i].at \in Nat
<1>1. seen[x] \in Observations /\ now \in Nat
  BY DEF TypeOK
<1>2. seen[x].chunks \in Seq(Chunks)
  BY <1>1 DEF Observations
<1>3. \A i \in DOMAIN seen[x].chunks : seen[x].chunks[i] \in Chunks
  BY <1>2, LenProperties, ElementOfSeq
<1>4. \A i \in DOMAIN seen[x].chunks : seen[x].chunks[i].at \in Nat
  BY <1>3 DEF Chunks
<1> QED BY <1>1, <1>2, <1>4 DEF Observations

\* Of an exchange nothing is observed of, nothing changes but the time.
LEMMA TimeGoesOn ==
  ASSUME TypeOK, NEW x \in Exchanges, TimeOf(x), now' \in Nat, now <= now',
         state'[x] = state[x], seen'[x] = seen[x]
  PROVE  TimeOf(x)'
<1>1. now \in Nat /\ seen[x].request \in Nat /\ seen[x].response \in Nat /\ seen[x].close \in Nat
  BY Times
<1>2. \A i \in DOMAIN seen[x].chunks : seen[x].chunks[i].at \in Nat
  BY Times
<1>3. \A i \in DOMAIN seen[x].chunks :
        /\ seen[x].request < seen[x].chunks[i].at /\ seen[x].chunks[i].at <= now'
        /\ state[x] = "closed" => seen[x].chunks[i].at < seen[x].close
  BY <1>1, <1>2 DEF TimeOf
<1>4. /\ state[x] # "idle" => seen[x].request <= now'
      /\ state[x] \in {"reading", "closed"} => seen[x].request < seen[x].response /\ seen[x].response <= now'
      /\ state[x] \in {"idle", "sent"} => seen[x].chunks = <<>>
      /\ state[x] = "closed" => seen[x].response < seen[x].close /\ seen[x].close <= now'
  BY <1>1 DEF TimeOf
<1> QED BY <1>3, <1>4 DEF TimeOf

LEMMA SendTime ==
  ASSUME TypeOK, TimeInv, NEW x \in Exchanges, Send(x) PROVE TimeOf(x)'
<1>1. /\ now' = now + 1 /\ state'[x] = "sent" /\ state[x] = "idle"
      /\ seen'[x].request = now + 1 /\ seen'[x].chunks = seen[x].chunks /\ now \in Nat
  BY SendSees, Times DEF Send, TypeOK
<1>2. seen'[x].chunks = <<>> /\ DOMAIN seen'[x].chunks = {}
  BY <1>1 DEF TimeInv, TimeOf
<1> QED BY <1>1, <1>2 DEF TimeOf

LEMMA HeadTime ==
  ASSUME TypeOK, TimeInv, NEW x \in Exchanges, Head_(x) PROVE TimeOf(x)'
<1>1. /\ now' = now + 1 /\ state'[x] = "reading" /\ state[x] = "sent"
      /\ seen'[x].request = seen[x].request /\ seen'[x].response = now + 1
      /\ seen'[x].chunks = seen[x].chunks /\ now \in Nat /\ seen[x].request \in Nat
  BY HeadSees, Times DEF Head_, TypeOK
<1>2. seen'[x].chunks = <<>> /\ DOMAIN seen'[x].chunks = {} /\ seen[x].request <= now
  BY <1>1 DEF TimeInv, TimeOf
<1> QED BY <1>1, <1>2 DEF TimeOf

LEMMA ReadTime ==
  ASSUME TypeOK, TimeInv, NEW x \in Exchanges, Read(x) PROVE TimeOf(x)'
<1>1. PICK k \in 1..(Len(stream[x]) - arrived[x]) :
        /\ k \in Nat /\ k >= 1 /\ now' = now + k
        /\ seen'[x].request = seen[x].request /\ seen'[x].response = seen[x].response
        /\ \A i \in DOMAIN seen'[x].chunks :
             \/ i \in DOMAIN seen[x].chunks /\ seen'[x].chunks[i] = seen[x].chunks[i]
             \/ seen'[x].chunks[i].at = now + 1
  BY ReadSees
<1>2. now \in Nat /\ seen[x].request \in Nat /\ seen[x].response \in Nat
      /\ \A i \in DOMAIN seen[x].chunks : seen[x].chunks[i].at \in Nat
  BY Times
<1>3. state[x] = "reading" /\ state' = state
  BY DEF Read
<1>4. seen[x].request < seen[x].response /\ seen[x].response <= now
  BY <1>3 DEF TimeInv, TimeOf
<1>5. \A i \in DOMAIN seen'[x].chunks :
        seen'[x].request < seen'[x].chunks[i].at /\ seen'[x].chunks[i].at <= now'
  <2>1. ASSUME NEW i \in DOMAIN seen'[x].chunks
        PROVE  seen[x].request < seen'[x].chunks[i].at /\ seen'[x].chunks[i].at <= now + k
    <3>1. CASE i \in DOMAIN seen[x].chunks /\ seen'[x].chunks[i] = seen[x].chunks[i]
      <4>1. seen[x].request < seen[x].chunks[i].at /\ seen[x].chunks[i].at <= now
        BY <3>1 DEF TimeInv, TimeOf
      <4> QED BY <1>1, <1>2, <3>1, <4>1
    <3>2. CASE seen'[x].chunks[i].at = now + 1
      BY <1>1, <1>2, <1>4, <3>2
    <3> QED BY <1>1, <3>1, <3>2
  <2> QED BY <1>1, <2>1
<1>6. seen'[x].request <= now' /\ seen'[x].request < seen'[x].response /\ seen'[x].response <= now'
  BY <1>1, <1>2, <1>4
<1> QED BY <1>3, <1>5, <1>6 DEF TimeOf

LEMMA CloseTime ==
  ASSUME TypeOK, TimeInv, NEW x \in Exchanges, Close(x) PROVE TimeOf(x)'
<1>1. /\ now' = now + 1 /\ state'[x] = "closed" /\ state[x] = "reading"
      /\ seen'[x].request = seen[x].request /\ seen'[x].response = seen[x].response
      /\ seen'[x].chunks = seen[x].chunks /\ seen'[x].close = now + 1
  BY CloseSees DEF Close, TypeOK
<1>2. now \in Nat /\ seen[x].request \in Nat /\ seen[x].response \in Nat
      /\ \A i \in DOMAIN seen[x].chunks : seen[x].chunks[i].at \in Nat
  BY Times
<1>3. seen[x].request <= now /\ seen[x].request < seen[x].response /\ seen[x].response <= now
  BY <1>1 DEF TimeInv, TimeOf
<1>4. \A i \in DOMAIN seen[x].chunks : seen[x].request < seen[x].chunks[i].at /\ seen[x].chunks[i].at <= now
  BY DEF TimeInv, TimeOf
<1>5. \A i \in DOMAIN seen'[x].chunks :
        /\ seen'[x].request < seen'[x].chunks[i].at /\ seen'[x].chunks[i].at <= now'
        /\ seen'[x].chunks[i].at < seen'[x].close
  BY <1>1, <1>2, <1>4
<1>6. /\ seen'[x].request <= now' /\ seen'[x].request < seen'[x].response /\ seen'[x].response <= now'
      /\ seen'[x].response < seen'[x].close /\ seen'[x].close <= now'
  BY <1>1, <1>2, <1>3
<1> QED BY <1>1, <1>5, <1>6 DEF TimeOf

\* An action on an exchange: the other exchange is left alone and time does not go back.
Observes(x) == Send(x) \/ Head_(x) \/ Read(x) \/ Close(x)

LEMMA OthersUntouched ==
  ASSUME TypeOK, NEW x \in Exchanges, Observes(x)
  PROVE  /\ now' \in Nat /\ now <= now'
         /\ \A y \in Exchanges \ {x} : seen'[y] = seen[y] /\ state'[y] = state[y]
         /\ state[x] # "closed"
         /\ UNCHANGED <<ids, sources, capture, swapped, verdict>>
<1>1. now \in Nat
  BY DEF TypeOK
<1>2. now' \in Nat /\ now <= now'
  <2>1. CASE Read(x)
    <3>1. \E k \in Nat : now' = now + k
      BY <2>1, ReadSees
    <3> QED BY <1>1, <3>1
  <2>2. CASE Send(x) \/ Head_(x) \/ Close(x)
    BY <1>1, <2>2 DEF Send, Head_, Close
  <2> QED BY <2>1, <2>2 DEF Observes
<1>3. \A y \in Exchanges \ {x} : seen'[y] = seen[y]
  BY SendSees, HeadSees, ReadSees, CloseSees DEF Observes
<1>4. \A y \in Exchanges \ {x} : state'[y] = state[y]
  BY DEF Observes, Send, Head_, Read, Close, TypeOK
<1>5. state[x] # "closed" /\ UNCHANGED <<ids, sources, capture, swapped, verdict>>
  BY DEF Observes, Send, Head_, Read, Close, Keep, captureVars
<1> QED BY <1>2, <1>3, <1>4, <1>5

\* The other actions observe nothing.
LEMMA NothingObserved ==
  ASSUME Assemble \/ Reconstruct \/ (\E field \in Fields : Swap(field)) \/ UNCHANGED vars
  PROVE  UNCHANGED <<now, ids, state, seen>>
BY DEF Assemble, Reconstruct, Swap, vars, exchangeVars

LEMMA StepTime ==
  ASSUME TypeOK, TimeInv, [Next]_vars PROVE TimeInv'
<1>1. ASSUME NEW x \in Exchanges, Observes(x) PROVE TimeInv'
  <2>1. TimeOf(x)'
    BY <1>1, SendTime, HeadTime, ReadTime, CloseTime DEF Observes
  <2>2. ASSUME NEW y \in Exchanges \ {x} PROVE TimeOf(y)'
    BY <1>1, OthersUntouched, TimeGoesOn DEF TimeInv
  <2> QED BY <2>1, <2>2 DEF TimeInv
<1>2. CASE UNCHANGED <<now, ids, state, seen>>
  BY <1>2 DEF TimeInv, TimeOf
<1> QED BY <1>1, <1>2, NothingObserved DEF Next, Observes

LEMMA StepPair ==
  ASSUME TypeOK, TimeInv, PairInv, [Next]_vars PROVE PairInv'
<1> USE Constants
<1>1. ASSUME Send(2) PROVE PairInv'
  <2>1. state[1] = "closed"
    BY <1>1 DEF Send
  <2>2. seen[1].close <= now /\ seen[1].close \in Nat /\ now \in Nat
    BY <2>1, Times DEF TimeInv, TimeOf
  <2>3. seen'[1] = seen[1] /\ state'[1] = state[1] /\ seen'[2].request = now + 1
    BY <1>1, SendSees, OthersUntouched DEF Observes
  <2> QED BY <2>1, <2>2, <2>3 DEF PairInv
<1>2. ASSUME Head_(2) \/ Read(2) \/ Close(2) PROVE PairInv'
  <2>1. state[2] # "idle" /\ seen'[2].request = seen[2].request
    <3>1. state[2] # "idle"
      BY <1>2 DEF Head_, Read, Close
    <3>2. seen'[2].request = seen[2].request
      BY <1>2, HeadSees, ReadSees, CloseSees
    <3> QED BY <3>1, <3>2
  <2>2. seen'[1] = seen[1] /\ state'[1] = state[1]
    BY <1>2, OthersUntouched DEF Observes
  <2> QED BY <2>1, <2>2 DEF PairInv
<1>3. ASSUME Observes(1) PROVE PairInv'
  <2>1. state[2] = "idle" /\ state'[2] = state[2]
    BY <1>3, OthersUntouched DEF PairInv
  <2> QED BY <2>1 DEF PairInv
<1>4. CASE UNCHANGED <<now, ids, state, seen>>
  BY <1>4 DEF PairInv
<1> QED BY <1>1, <1>2, <1>3, <1>4, NothingObserved DEF Next, Observes

-----------------------------------------------------------------------------
(* What was put together                                                    *)

LEMMA AssembledIs ==
  ASSUME NEW from, NEW made \in BOOLEAN, NEW w, w = Assembled(from, made).wire
  PROVE  /\ w.id = Request
         /\ w.request = RequestOf(from["request"]) /\ w.response = ResponseOf(from["response"])
         /\ w.body = BodyOf(from["body"]) /\ w.close = CloseOf(from["close"])
         /\ Assembled(from, made).logs = LogsOf(from["logs"])
BY DEF Assembled

LEMMA AssembledKept ==
  ASSUME UNCHANGED <<ids, seen>>
  PROVE  \A from, made : Assembled(from, made)' = Assembled(from, made)
BY DEF Assembled, Request, RequestOf, ResponseOf, BodyOf, CloseOf, LogsOf, ExchangeOf

\* Once both exchanges are over, their chunks tell them apart.
LEMMA ChunksDiffer ==
  ASSUME TypeOK, TimeInv, PairInv, \A x \in Exchanges : state[x] = "closed",
         NEW x \in Exchanges, NEW y \in Exchanges, seen[x].chunks = seen[y].chunks, seen[x].chunks # <<>>
  PROVE  x = y
<1>1. ASSUME seen[1].chunks = seen[2].chunks, seen[1].chunks # <<>> PROVE FALSE
  <2>1. seen[1].chunks \in Seq(Chunks) /\ seen[1].close \in Nat /\ seen[2].request \in Nat
    BY Times, Constants
  <2>2. 1 \in DOMAIN seen[1].chunks
    BY <1>1, <2>1, LenProperties, EmptySeq
  <2>3. seen[1].chunks[1].at < seen[1].close /\ seen[1].chunks[1].at \in Nat
    BY <2>2, Times, Constants DEF TimeInv, TimeOf
  <2>4. seen[2].request < seen[2].chunks[1].at
    BY <1>1, <2>2, Constants DEF TimeInv, TimeOf
  <2>5. seen[1].close < seen[2].request
    BY Constants DEF PairInv
  <2> QED BY <1>1, <2>1, <2>3, <2>4, <2>5
<1> QED BY <1>1, Constants

LEMMA HeadAt ==
  ASSUME TypeOK, NEW x \in Exchanges, seen[x].chunks # <<>>
  PROVE  1 \in DOMAIN seen[x].chunks /\ Head(seen[x].chunks) = seen[x].chunks[1]
<1>1. seen[x].chunks \in Seq(Chunks)
  BY Times
<1> DEFINE s == seen[x].chunks
<1> HIDE DEF s
<1>2. s \in Seq(Chunks) /\ s # <<>>
  BY <1>1 DEF s
<1>3. Len(s) \in Nat /\ Len(s) # 0 /\ DOMAIN s = 1..Len(s)
  BY <1>2, LenProperties, EmptySeq
<1>4. Head(s) = s[1]
  BY <1>2, HeadTailProperties
<1>5. 1 \in DOMAIN s
  BY <1>3
<1> QED BY <1>4, <1>5 DEF s

\* A capture that holds has the body, the end and the logs of one exchange, and no other
\* record of it is of a later one.
LEMMA CaptureOfOne ==
  ASSUME TypeOK, TimeInv, PairInv, NEW from \in [Parts -> Exchanges], NEW made \in BOOLEAN,
         \A x \in Exchanges : state[x] = "closed",
         CaptureHolds(Assembled(from, made).wire),
         Replays(Assembled(from, made).wire, Assembled(from, made).logs)
  PROVE  LET x == from["body"]
             w == Assembled(from, made).wire
         IN /\ ids[x] = Request /\ from["close"] = x /\ from["logs"] = x
            /\ seen[x].chunks # <<>>
            /\ w.request.at <= seen[x].request /\ w.response.at <= seen[x].response
            /\ w.close.at = seen[x].close
<1> DEFINE w == Assembled(from, made).wire
           l == Assembled(from, made).logs
           x == from["body"]
           q == from["request"]
           p == from["response"]
           c == from["close"]
<1>1. /\ w.id = Request /\ w.request = RequestOf(q) /\ w.response = ResponseOf(p)
      /\ w.body = BodyOf(x) /\ w.close = CloseOf(c) /\ l = LogsOf(from["logs"])
  BY AssembledIs
<1>2. CaptureHolds(w) /\ Replays(w, l)
  OBVIOUS
<1>3. x \in Exchanges /\ q \in Exchanges /\ p \in Exchanges /\ c \in Exchanges /\ from["logs"] \in Exchanges
  BY DEF Parts
<1> HIDE DEF w, l, x, q, p, c
<1>4. w.body.id = w.id /\ w.body.chunks # <<>> /\ w.close.inventory = w.body.chunks
  BY <1>2 DEF CaptureHolds, SameIds, CloseBinds
<1>5. ids[x] = Request /\ seen[x].chunks # <<>> /\ seen[c].chunks = seen[x].chunks
  BY <1>1, <1>4 DEF BodyOf, CloseOf
<1>6. c = x
  BY <1>3, <1>5, ChunksDiffer
<1>7. from["logs"] = x
  <2>1. w.close.chain = l.chain
    BY <1>2 DEF Replays
  <2> QED BY <1>1, <1>6, <2>1 DEF CloseOf, LogsOf
<1>8. w.request.at < w.response.at /\ w.response.at <= Head(w.body.chunks).at
  BY <1>2 DEF CaptureHolds, ExchangeInOrder, ExchangeBinds, Replays
<1>9. seen[q].request < seen[p].response /\ seen[p].response <= seen[x].chunks[1].at
  BY <1>1, <1>3, <1>5, <1>8, HeadAt DEF RequestOf, ResponseOf, BodyOf
<1>10. \A y \in Exchanges : /\ seen[y].request \in Nat /\ seen[y].response \in Nat /\ seen[y].close \in Nat
                            /\ seen[y].request < seen[y].response /\ seen[y].response < seen[y].close
  BY Times DEF TimeInv, TimeOf
<1>11. seen[x].chunks[1].at \in Nat /\ seen[x].chunks[1].at < seen[x].close
  BY <1>3, <1>5, HeadAt, Times DEF TimeInv, TimeOf
<1>12. seen[1].close < seen[2].request
  BY Constants DEF PairInv
<1>13. x \in {1, 2} /\ q \in {1, 2} /\ p \in {1, 2} /\ 1 \in Exchanges /\ 2 \in Exchanges
  BY <1>3, Constants
<1>14. seen[q].request <= seen[x].request
  <2>1. ASSUME x = 1, q = 2 PROVE FALSE
    BY <1>9, <1>10, <1>11, <1>12, <1>13, <2>1
  <2>2. ASSUME x = 2, q = 1 PROVE seen[q].request <= seen[x].request
    BY <1>10, <1>12, <1>13, <2>2
  <2> QED BY <1>10, <1>13, <2>1, <2>2
<1>15. seen[p].response <= seen[x].response
  <2>1. ASSUME x = 1, p = 2 PROVE FALSE
    BY <1>9, <1>10, <1>11, <1>12, <1>13, <2>1
  <2>2. ASSUME x = 2, p = 1 PROVE seen[p].response <= seen[x].response
    BY <1>10, <1>12, <1>13, <2>2
  <2> QED BY <1>10, <1>13, <2>1, <2>2
<1>16. w.request.at = seen[q].request /\ w.response.at = seen[p].response /\ w.close.at = seen[x].close
  BY <1>1, <1>6 DEF RequestOf, ResponseOf, CloseOf
<1> QED BY <1>5, <1>6, <1>7, <1>14, <1>15, <1>16 DEF w, x, c

-----------------------------------------------------------------------------
(* The files                                                                *)

LEMMA OtherIsOther ==
  ASSUME sources \in [Parts -> Exchanges]
  PROVE  Other \in Exchanges /\ Other # sources["body"]
<1>1. \E x \in Exchanges : x # sources["body"]
  BY Constants
<1> QED BY <1>1 DEF Other

LEMMA FileWire ==
  \A f : File(f).wire = IF f \in swapped THEN Honest(Other).wire ELSE capture.wire
BY DEF File, Payload

\* Every file names what was put together, and the reader wants one name.
LEMMA OneWire ==
  ASSUME RawHolds, DerivedHold
  PROVE  \A f, g \in Fields : File(f).wire = File(g).wire
<1>1. \A f \in RawFields : File(f).wire = File("request_body").wire
  BY DEF RawHolds, RawFields
<1>2. \A f \in DerivedFields : File(f).wire = File("request_body").wire
  <2>1. Rebuilt.wire = File("request_body").wire
    BY DEF RawHolds
  <2>2. \A f \in DerivedFields : File(f).wire = Rebuilt.wire
    BY DEF DerivedHold, Payload
  <2> QED BY <2>1, <2>2
<1> QED BY <1>1, <1>2 DEF Fields

LEMMA WiresDiffer ==
  ASSUME TypeOK, TimeInv, PairInv, CaptureInv, swapped # {}
  PROVE  Honest(Other).wire # capture.wire
<1>1. capture # NoCapture /\ seen[Other].chunks # <<>>
  BY DEF CaptureInv
<1>2. sources \in [Parts -> Exchanges] /\ \A x \in Exchanges : state[x] = "closed"
  BY <1>1 DEF CaptureInv
<1>3. PICK made \in BOOLEAN : capture = Assembled(sources, made)
  BY <1>1 DEF CaptureInv
<1>4. capture.wire.body = BodyOf(sources["body"])
  BY <1>3, AssembledIs
<1>5. Honest(Other).wire.body = BodyOf(Other)
  <2>1. Honest(Other).wire.body = BodyOf([part \in Parts |-> Other]["body"])
    BY AssembledIs DEF Honest
  <2> QED BY <2>1 DEF Parts
<1>6. Other \in Exchanges /\ Other # sources["body"] /\ sources["body"] \in Exchanges
  BY <1>2, OtherIsOther DEF Parts
<1>7. seen[Other].chunks # seen[sources["body"]].chunks
  BY <1>1, <1>2, <1>6, ChunksDiffer
<1> QED BY <1>4, <1>5, <1>7 DEF BodyOf

LEMMA AcceptsOne ==
  ASSUME TypeOK, TimeInv, PairInv, CaptureInv, RawHolds, DerivedHold
  PROVE  swapped \in {{}, Fields}
<1> SUFFICES ASSUME swapped # {}, swapped # Fields PROVE FALSE
  OBVIOUS
<1>1. PICK f \in swapped : TRUE
  OBVIOUS
<1>2. PICK g \in Fields : g \notin swapped
  BY DEF TypeOK
<1>3. File(f).wire = Honest(Other).wire /\ File(g).wire = capture.wire
  BY <1>1, <1>2, FileWire
<1>4. File(f).wire = File(g).wire
  BY <1>1, <1>2, OneWire DEF TypeOK
<1> QED BY <1>3, <1>4, WiresDiffer

-----------------------------------------------------------------------------
(* The invariant holds                                                      *)

\* Nothing that the capture depends on changes.
LEMMA CaptureKept ==
  ASSUME CaptureInv, UNCHANGED <<ids, seen, state, sources, capture, swapped, verdict>>
  PROVE  CaptureInv'
<1>1. Other' = Other
  BY DEF Other
<1>2. \A from, made : Assembled(from, made)' = Assembled(from, made)
  BY AssembledKept
<1> QED BY <1>1, <1>2 DEF CaptureInv, FilesOfOneExchange

LEMMA StepCapture ==
  ASSUME TypeOK, TimeInv, PairInv, CaptureInv, [Next]_vars PROVE CaptureInv'
<1>1. ASSUME NEW x \in Exchanges, Observes(x) PROVE CaptureInv'
  <2>1. state[x] # "closed" /\ UNCHANGED <<ids, sources, capture, swapped, verdict>>
    BY <1>1, OthersUntouched
  <2>2. sources = NoCapture /\ capture = NoCapture
    BY <2>1 DEF CaptureInv
  <2>3. swapped = {} /\ verdict # "accepted"
    BY <2>2 DEF CaptureInv
  <2> QED BY <2>1, <2>2, <2>3 DEF CaptureInv, FilesOfOneExchange
<1>2. CASE Assemble
  <2>1. PICK from \in [Parts -> Exchanges], made \in BOOLEAN :
          /\ capture = NoCapture /\ verdict = "none" /\ \A x \in Exchanges : state[x] = "closed"
          /\ sources' = from
          /\ \/ /\ capture' = Assembled(from, made) /\ verdict' = verdict
                /\ CaptureHolds(Assembled(from, made).wire)
                /\ Replays(Assembled(from, made).wire, Assembled(from, made).logs)
             \/ capture' = capture /\ verdict' = "refused"
          /\ UNCHANGED <<now, exchangeVars, swapped>>
    BY <1>2, AssembleKeeps
  <2>2. UNCHANGED <<ids, seen, state, swapped>> /\ swapped = {} /\ verdict' # "accepted"
    BY <2>1 DEF exchangeVars, CaptureInv
  <2>3. Assembled(from, made)' = Assembled(from, made)
    BY <2>2, AssembledKept
  <2>4. sources' \in [Parts -> Exchanges] /\ \A x \in Exchanges : state'[x] = "closed"
    BY <2>1, <2>2
  <2>5. capture' # NoCapture =>
          /\ \E m \in BOOLEAN : capture' = Assembled(from, m)'
          /\ CaptureHolds(capture.wire)' /\ Replays(capture.wire, capture.logs)'
    <3> SUFFICES ASSUME capture' # NoCapture
                 PROVE  /\ \E m \in BOOLEAN : capture' = Assembled(from, m)'
                        /\ CaptureHolds(capture.wire)' /\ Replays(capture.wire, capture.logs)'
      OBVIOUS
    <3>1. /\ capture' = Assembled(from, made)
          /\ CaptureHolds(Assembled(from, made).wire)
          /\ Replays(Assembled(from, made).wire, Assembled(from, made).logs)
      BY <2>1
    <3>2. CaptureHolds(capture'.wire) /\ Replays(capture'.wire, capture'.logs)
      BY <3>1
    <3>3. CaptureHolds(capture.wire)' /\ Replays(capture.wire, capture.logs)'
      BY <3>2
    <3> QED BY <2>3, <3>1, <3>3
  <2> QED BY <2>1, <2>2, <2>4, <2>5 DEF CaptureInv, FilesOfOneExchange
<1>3. CASE Reconstruct
  <2>1. /\ capture # NoCapture /\ UNCHANGED <<ids, seen, state, sources, capture, swapped>>
        /\ verdict' = "accepted" => RawHolds /\ DerivedHold
    BY <1>3 DEF Reconstruct, exchangeVars, captureVars
  <2>2. FilesOfOneExchange'
    BY <2>1, AcceptsOne DEF FilesOfOneExchange
  <2>3. Other' = Other /\ \A from, made : Assembled(from, made)' = Assembled(from, made)
    BY <2>1, AssembledKept DEF Other
  <2> QED BY <2>1, <2>2, <2>3 DEF CaptureInv
<1>4. ASSUME NEW field \in Fields, Swap(field) PROVE CaptureInv'
  <2>1. /\ capture # NoCapture /\ verdict = "none" /\ seen[Other].chunks # <<>>
        /\ UNCHANGED <<ids, seen, state, sources, capture, verdict>>
    BY <1>4 DEF Swap, exchangeVars, captureVars
  <2>2. Other' = Other /\ \A from, made : Assembled(from, made)' = Assembled(from, made)
    BY <2>1, AssembledKept DEF Other
  <2> QED BY <2>1, <2>2 DEF CaptureInv, FilesOfOneExchange
<1>5. CASE UNCHANGED vars
  BY <1>5, CaptureKept DEF vars, exchangeVars, captureVars
<1> QED BY <1>1, <1>2, <1>3, <1>4, <1>5 DEF Next, Observes

LEMMA InitIInv == Init => IInv
<1> SUFFICES ASSUME Init PROVE IInv
  OBVIOUS
<1>1. TypeOK
  BY InitType
<1>2. TimeInv /\ PairInv
  BY Constants DEF Init, Unseen, TimeInv, TimeOf, PairInv
<1>3. CaptureInv
  BY DEF Init, CaptureInv, FilesOfOneExchange
<1> QED BY <1>1, <1>2, <1>3 DEF IInv

\* The invariant is inductive.
THEOREM Invariant == Spec => []IInv
<1>1. IInv /\ [Next]_vars => IInv'
  BY StepType, StepTime, StepPair, StepCapture DEF IInv
<1> QED BY InitIInv, <1>1, PTL DEF Spec

\* Every record of a run is of its kind, and no more files are confused than the bound
\* allows.
THEOREM TypeCorrect == Spec => []TypeOK
<1>1. IInv => TypeOK
  BY DEF IInv
<1> QED BY Invariant, <1>1, PTL

\* Whatever records are put together, an accepted request has the body, the end and the
\* logs of one exchange of its own and is never faster than it was
\* (Stage2RequestWireCapture, replay_stage2_wire_capture).
THEOREM Slower == Spec => []NeverFaster
<1>1. IInv => NeverFaster
  <2> SUFFICES ASSUME IInv, verdict = "accepted" PROVE NeverFaster
    BY DEF NeverFaster
  <2>1. TypeOK /\ TimeInv /\ PairInv /\ CaptureInv /\ capture # NoCapture
    BY DEF IInv, CaptureInv
  <2>2. sources \in [Parts -> Exchanges] /\ \A x \in Exchanges : state[x] = "closed"
    BY <2>1 DEF CaptureInv
  <2>3. PICK made \in BOOLEAN : capture = Assembled(sources, made)
    BY <2>1 DEF CaptureInv
  <2>4. CaptureHolds(Assembled(sources, made).wire)
        /\ Replays(Assembled(sources, made).wire, Assembled(sources, made).logs)
    BY <2>1, <2>3 DEF CaptureInv
  <2> QED BY <2>1, <2>2, <2>3, <2>4, CaptureOfOne DEF NeverFaster
<1> QED BY Invariant, <1>1, PTL

\* The reader accepts no mixture of two exchanges' files
\* (reconstruct_request_from_raw_evidence).
THEOREM Unmixed == Spec => []FilesOfOneExchange
<1>1. IInv => FilesOfOneExchange
  BY DEF IInv, CaptureInv
<1> QED BY Invariant, <1>1, PTL

-----------------------------------------------------------------------------
(* The frames that are parsed                                               *)

\* A chunk has a time for each of its frames, the first of them its own.
Cuts == {c \in Chunks : /\ c.frames # <<>> /\ Len(c.times) = Len(c.frames)
                        /\ \A i \in 1..Len(c.frames) : c.times[i] = c.at + (i - 1)}
End(c) == Last(c.times)
Timed == [frame : Frames, at : Nat]
Pairs(c) == [j \in DOMAIN c.frames |-> [frame |-> c.frames[j], at |-> c.times[j]]]
CutBy(chunks) == [i \in DOMAIN chunks |-> Pairs(chunks[i])]

Joins(g, s, m) == g = [n \in 1..m |-> IF n = 1 THEN s[n] ELSE g[n - 1] \o s[n]]

LEMMA JoinExists ==
  ASSUME NEW s, Len(s) \in Nat PROVE \A n \in 1..Len(s) : \E g : Joins(g, s, n)
<1> DEFINE Bad == {n \in 1..Len(s) : ~ \E g : Joins(g, s, n)}
<1> SUFFICES ASSUME Bad # {} PROVE FALSE OBVIOUS
<1>1. PICK n \in Bad : \A j \in Bad : n <= j
  <2>1. Bad \in SUBSET Nat OBVIOUS
  <2> HIDE DEF Bad
  <2> QED BY <2>1, Least
<1>2. n # 1
  <2>1. Joins([i \in 1..1 |-> s[i]], s, 1) BY DEF Joins
  <2> QED BY <1>1, <2>1
<1>3. PICK g : Joins(g, s, n - 1) BY <1>1, <1>2
<1> DEFINE h == [i \in 1..n |-> IF i = n THEN g[n - 1] \o s[n] ELSE g[i]]
<1>4. Joins(h, s, n)
  <2>1. \A i \in 1..(n - 1) : g[i] = IF i = 1 THEN s[i] ELSE g[i - 1] \o s[i]
    BY <1>1, <1>2, <1>3 DEF Joins
  <2>2. n \in Nat /\ n - 1 \in 1..n /\ n - 1 # n BY <1>1, <1>2
  <2>3. h[n] = h[n - 1] \o s[n]
    <3>1. h[n - 1] = g[n - 1] BY <2>2
    <3>2. h[n] = g[n - 1] \o s[n]
      <4>1. n \in 1..n BY <1>1
      <4> QED BY <4>1
    <3> HIDE DEF h
    <3> QED BY <3>1, <3>2
  <2>4. ASSUME NEW i \in 1..(n - 1) PROVE h[i] = IF i = 1 THEN s[i] ELSE h[i - 1] \o s[i]
    <3>1. h[i] = g[i] BY <2>2
    <3>2. i # 1 => h[i - 1] = g[i - 1] BY <2>2
    <3> HIDE DEF h
    <3> QED BY <2>1, <3>1, <3>2
  <2>5. h = [i \in 1..n |-> h[i]] OBVIOUS
  <2>6. \A i \in 1..n : h[i] = IF i = 1 THEN s[i] ELSE h[i - 1] \o s[i]
    <3>1. \A i \in 1..n : i \in 1..(n - 1) \/ i = n BY <2>2
    <3> HIDE DEF h
    <3> QED BY <1>2, <2>3, <2>4, <3>1
  <2> HIDE DEF h
  <2> QED BY <2>5, <2>6 DEF Joins
<1> QED BY <1>1, <1>4

LEMMA FlattenIs ==
  ASSUME NEW s, Len(s) \in Nat, Len(s) # 0
  PROVE  \E g : Joins(g, s, Len(s)) /\ FlattenSeq(s) = g[Len(s)]
<1>0. Len(s) \in 1..Len(s) OBVIOUS
<1>1. \E g : Joins(g, s, Len(s)) BY <1>0, JoinExists
<1> DEFINE G == CHOOSE g : Joins(g, s, Len(s))
<1>2. Joins(G, s, Len(s)) BY <1>1
<1>3. FlattenSeq(s) = G[Len(s)] BY DEF FlattenSeq, Joins
<1> QED BY <1>2, <1>3

LEMMA FlattenNone == FlattenSeq(<<>>) = <<>>
<1>1. Len(<<>>) = 0 OBVIOUS
<1> QED BY <1>1 DEF FlattenSeq

\* Flattened are the parts one after the other.
LEMMA FlattenType ==
  ASSUME NEW T, NEW s \in Seq(Seq(T)) PROVE FlattenSeq(s) \in Seq(T)
<1>1. Len(s) \in Nat /\ \A i \in 1..Len(s) : s[i] \in Seq(T) OBVIOUS
<1>2. CASE s = <<>>
  <2>1. FlattenSeq(s) = <<>> BY <1>2, FlattenNone
  <2> QED BY <2>1
<1>3. CASE s # <<>>
  <2>1. Len(s) # 0 BY <1>3
  <2>2. PICK g : Joins(g, s, Len(s)) /\ FlattenSeq(s) = g[Len(s)] BY <1>1, <2>1, FlattenIs
  <2>3. \A n \in 1..Len(s) : g[n] = IF n = 1 THEN s[n] ELSE g[n - 1] \o s[n] BY <2>2 DEF Joins
  <2>4. \A n \in 1..Len(s) : g[n] \in Seq(T)
    <3> DEFINE Bad == {n \in 1..Len(s) : g[n] \notin Seq(T)}
    <3> SUFFICES ASSUME Bad # {} PROVE FALSE OBVIOUS
    <3>1. PICK n \in Bad : \A k \in Bad : n <= k
      <4>1. Bad \in SUBSET Nat OBVIOUS
      <4> HIDE DEF Bad
      <4> QED BY <4>1, Least
    <3>2. n # 1 BY <1>1, <2>3, <3>1
    <3>3. n - 1 \in 1..Len(s) /\ n - 1 \notin Bad /\ n \in 1..Len(s) BY <1>1, <3>1, <3>2
    <3>4. g[n - 1] \in Seq(T) /\ s[n] \in Seq(T) BY <1>1, <3>3
    <3>5. g[n - 1] \o s[n] \in Seq(T) BY ONLY <3>4
    <3> QED BY <2>3, <3>1, <3>2, <3>5
  <2> QED BY <1>1, <2>1, <2>2, <2>4
<1> QED BY <1>2, <1>3

LEMMA FlattenAppend ==
  ASSUME NEW T, NEW s \in Seq(Seq(T)), NEW e \in Seq(T)
  PROVE  FlattenSeq(Append(s, e)) = FlattenSeq(s) \o e
<1> DEFINE r == Append(s, e)
<1>1. /\ r \in Seq(Seq(T)) /\ Len(s) \in Nat /\ Len(r) = Len(s) + 1 /\ r[Len(s) + 1] = e
      /\ \A i \in 1..Len(s) : r[i] = s[i]
  OBVIOUS
<1> HIDE DEF r
<1>2. PICK h : Joins(h, r, Len(r)) /\ FlattenSeq(r) = h[Len(r)]
  <2>1. Len(r) \in Nat /\ Len(r) # 0 BY <1>1
  <2> QED BY <2>1, FlattenIs
<1>3. \A n \in 1..Len(r) : h[n] = IF n = 1 THEN r[n] ELSE h[n - 1] \o r[n] BY <1>2 DEF Joins
<1>4. CASE s = <<>>
  <2>1. Len(s) = 0 BY <1>4
  <2>2. FlattenSeq(r) = e BY <1>1, <1>2, <1>3, <2>1
  <2>3. <<>> \o e = e OBVIOUS
  <2> QED BY <1>4, <2>2, <2>3, FlattenNone DEF r
<1>5. CASE s # <<>>
  <2>1. Len(s) # 0 BY <1>5
  <2>2. PICK g : Joins(g, s, Len(s)) /\ FlattenSeq(s) = g[Len(s)] BY <1>1, <2>1, FlattenIs
  <2>3. \A n \in 1..Len(s) : g[n] = IF n = 1 THEN s[n] ELSE g[n - 1] \o s[n] BY <2>2 DEF Joins
  <2>4. \A n \in 1..Len(s) : g[n] = h[n]
    <3> DEFINE Bad == {n \in 1..Len(s) : g[n] # h[n]}
    <3> SUFFICES ASSUME Bad # {} PROVE FALSE OBVIOUS
    <3>1. PICK n \in Bad : \A k \in Bad : n <= k
      <4>1. Bad \in SUBSET Nat OBVIOUS
      <4> HIDE DEF Bad
      <4> QED BY <4>1, Least
    <3>2. n \in 1..Len(s) /\ n \in 1..Len(r) /\ s[n] = r[n] BY <1>1, <3>1
    <3>3. n # 1 BY <1>3, <2>3, <3>1, <3>2
    <3>4. n - 1 \in 1..Len(s) /\ n - 1 \notin Bad BY <3>1, <3>2, <3>3
    <3>5. g[n - 1] = h[n - 1] BY <3>4
    <3>6. g[n] = g[n - 1] \o s[n] /\ h[n] = h[n - 1] \o r[n] BY <1>3, <2>3, <3>2, <3>3
    <3> QED BY <3>1, <3>2, <3>5, <3>6
  <2>5. h[Len(s) + 1] = h[Len(s)] \o e
    <3>1. Len(s) + 1 \in 1..Len(r) /\ Len(s) + 1 # 1 /\ (Len(s) + 1) - 1 = Len(s) BY <1>1, <2>1
    <3> QED BY <1>1, <1>3, <3>1
  <2>6. h[Len(s)] = g[Len(s)] BY <1>1, <2>1, <2>4
  <2> QED BY <1>1, <1>2, <2>2, <2>5, <2>6 DEF r
<1> QED BY <1>4, <1>5

LEMMA CutIs ==
  ASSUME NEW c \in Cuts
  PROVE  /\ c \in Chunks /\ c.at \in Nat /\ c.frames \in Seq(Frames) /\ c.times \in Seq(Nat)
         /\ Len(c.frames) \in Nat /\ Len(c.frames) >= 1 /\ Len(c.times) = Len(c.frames)
         /\ \A i \in 1..Len(c.frames) : c.times[i] = c.at + (i - 1)
         /\ End(c) = c.at + (Len(c.frames) - 1)
<1>1. /\ c \in Chunks /\ c.frames # <<>> /\ Len(c.times) = Len(c.frames)
      /\ \A i \in 1..Len(c.frames) : c.times[i] = c.at + (i - 1)
  BY DEF Cuts
<1>2. c.at \in Nat /\ c.frames \in Seq(Frames) /\ c.times \in Seq(Nat) BY <1>1 DEF Chunks
<1>3. Len(c.frames) \in Nat /\ Len(c.frames) # 0 BY <1>1, <1>2, LenProperties, EmptySeq
<1>4. Len(c.frames) \in 1..Len(c.frames) /\ Len(c.frames) >= 1 BY <1>3
<1>5. End(c) = c.at + (Len(c.frames) - 1) BY <1>1, <1>4 DEF End, Last
<1> QED BY <1>1, <1>2, <1>3, <1>4, <1>5

LEMMA PairsAre ==
  ASSUME NEW c \in Cuts
  PROVE  /\ Pairs(c) \in Seq(Timed) /\ Len(Pairs(c)) = Len(c.frames)
         /\ \A i \in 1..Len(c.frames) : Pairs(c)[i].frame = c.frames[i] /\ Pairs(c)[i].at = c.at + (i - 1)
<1>1. /\ c.at \in Nat /\ c.frames \in Seq(Frames) /\ Len(c.frames) \in Nat
      /\ \A i \in 1..Len(c.frames) : c.times[i] = c.at + (i - 1)
  BY CutIs
<1>2. DOMAIN c.frames = 1..Len(c.frames) /\ \A i \in 1..Len(c.frames) : c.frames[i] \in Frames
  BY <1>1, LenProperties, ElementOfSeq
<1>3. \A i \in 1..Len(c.frames) : [frame |-> c.frames[i], at |-> c.times[i]] \in Timed
  <2>1. \A i \in 1..Len(c.frames) : c.times[i] \in Nat BY <1>1
  <2> QED BY <1>2, <2>1 DEF Timed
<1>4. Pairs(c) = [i \in 1..Len(c.frames) |-> [frame |-> c.frames[i], at |-> c.times[i]]] BY <1>2 DEF Pairs
<1>5. Pairs(c) \in [1..Len(c.frames) -> Timed] BY <1>3, <1>4
<1>6. Pairs(c) \in Seq(Timed) /\ Len(Pairs(c)) = Len(c.frames) BY <1>1, <1>5, SeqIntro
<1> QED BY <1>1, <1>4, <1>6

LEMMA CutByIs ==
  ASSUME NEW s \in Seq(Cuts)
  PROVE  /\ CutBy(s) \in Seq(Seq(Timed)) /\ Len(CutBy(s)) = Len(s)
         /\ \A i \in 1..Len(s) : CutBy(s)[i] = Pairs(s[i])
<1>1. Len(s) \in Nat /\ DOMAIN s = 1..Len(s) /\ \A i \in 1..Len(s) : s[i] \in Cuts
  BY LenProperties, ElementOfSeq
<1>2. CutBy(s) = [i \in 1..Len(s) |-> Pairs(s[i])] BY <1>1 DEF CutBy
<1>3. CutBy(s) \in [1..Len(s) -> Seq(Timed)] BY <1>1, <1>2, PairsAre
<1> QED BY <1>1, <1>2, <1>3, SeqIntro

LEMMA ParsedIs == \A s : Parsed(s) = FlattenSeq(CutBy(s))
BY DEF Parsed, CutBy, Pairs

LEMMA ParsedType == ASSUME NEW s \in Seq(Cuts) PROVE Parsed(s) \in Seq(Timed)
BY CutByIs, ParsedIs, FlattenType

LEMMA ParsedNone == Parsed(<<>>) = <<>>
<1>1. CutBy(<<>>) = <<>> BY DEF CutBy
<1> QED BY <1>1, ParsedIs, FlattenNone

LEMMA ParsedAppend ==
  ASSUME NEW s \in Seq(Cuts), NEW c \in Cuts
  PROVE  Parsed(Append(s, c)) = Parsed(s) \o Pairs(c)
<1> DEFINE r == Append(s, c)
<1>1. /\ r \in Seq(Cuts) /\ Len(s) \in Nat /\ Len(r) = Len(s) + 1 /\ r[Len(s) + 1] = c
      /\ \A i \in 1..Len(s) : r[i] = s[i]
  OBVIOUS
<1> HIDE DEF r
<1>2. /\ CutBy(s) \in Seq(Seq(Timed)) /\ Len(CutBy(s)) = Len(s)
      /\ \A i \in 1..Len(s) : CutBy(s)[i] = Pairs(s[i])
  BY CutByIs
<1>3. /\ CutBy(r) \in Seq(Seq(Timed)) /\ Len(CutBy(r)) = Len(r)
      /\ \A i \in 1..Len(r) : CutBy(r)[i] = Pairs(r[i])
  BY <1>1, CutByIs
<1>4. Pairs(c) \in Seq(Timed) BY PairsAre
<1>5. CutBy(r) = Append(CutBy(s), Pairs(c))
  <2> DEFINE u == CutBy(r)
             v == CutBy(s)
             e == Pairs(c)
  <2>1. Len(u) = Len(v) + 1 /\ u[Len(v) + 1] = e BY <1>1, <1>2, <1>3
  <2>2. \A i \in 1..Len(v) : u[i] = v[i]
    <3>1. ASSUME NEW i \in 1..Len(v) PROVE u[i] = v[i]
      <4>1. i \in 1..Len(s) /\ i \in 1..Len(r) BY <1>1, <1>2
      <4>2. r[i] = s[i] BY <1>1, <4>1
      <4> QED BY <1>2, <1>3, <4>1, <4>2
    <3> QED BY <3>1
  <2>3. u \in Seq(Seq(Timed)) /\ v \in Seq(Seq(Timed)) /\ e \in Seq(Timed) BY <1>2, <1>3, <1>4
  <2> HIDE DEF u, v, e
  <2>4. u = Append(v, e) BY ONLY <2>1, <2>2, <2>3
  <2> QED BY <2>4 DEF u, v, e
<1>6. FlattenSeq(Append(CutBy(s), Pairs(c))) = FlattenSeq(CutBy(s)) \o Pairs(c)
  BY <1>2, <1>4, FlattenAppend
<1> QED BY <1>5, <1>6, ParsedIs DEF r

-----------------------------------------------------------------------------
(* What has been observed without a lapse                                   *)

CutsInv == \A x \in Exchanges : seen[x].chunks \in Seq(Cuts)

\* The frames that arrived, in the order in which they were sent, each at a time of its
\* own, and the chunks of them one after the other.
FramesFaithful(x) ==
  LET frames == Parsed(seen[x].chunks)
  IN /\ Len(frames) = arrived[x] /\ \A i \in 1..Len(frames) : frames[i].frame = stream[x][i]
     /\ \A i, j \in 1..Len(frames) : i < j => frames[i].at < frames[j].at
     /\ \A i \in 1..Len(frames) : frames[i].at <= now /\ (state[x] = "closed" => frames[i].at < seen[x].close)
ChunksFaithful(x) ==
  LET chunks == seen[x].chunks
  IN /\ \A i, j \in 1..Len(chunks) : i < j => End(chunks[i]) < chunks[j].at
     /\ \A i \in 1..Len(chunks) : /\ seen[x].response < chunks[i].at /\ End(chunks[i]) <= now
                                  /\ state[x] = "closed" => End(chunks[i]) < seen[x].close
     /\ state[x] = "closed" => arrived[x] = Len(stream[x])
HonestInv == lapses = 0 => \A x \in Exchanges : FramesFaithful(x) /\ ChunksFaithful(x)

\* What a chunk adds.
LEMMA ReadCuts ==
  ASSUME TypeOK, CutsInv, NEW x \in Exchanges, Read(x)
  PROVE  \E k \in Nat, c \in Cuts :
           /\ now' = now + k /\ c.at = now + 1 /\ Len(c.frames) = k /\ k >= 1
           /\ arrived'[x] = arrived[x] + k /\ \A y \in Exchanges \ {x} : arrived'[y] = arrived[y]
           /\ \A i \in 1..k : c.frames[i] = stream[x][arrived[x] + i]
           /\ seen'[x].response = seen[x].response /\ \A y \in Exchanges \ {x} : seen'[y] = seen[y]
           /\ seen'[x].chunks \in Seq(Cuts)
           /\ seen'[x].chunks \in {seen[x].chunks, Append(seen[x].chunks, c),
                                  Append(Append(seen[x].chunks, c), c)}
           /\ lapses' = 0 => lapses = 0 /\ seen'[x].chunks = Append(seen[x].chunks, c)
<1>1. PICK k \in 1..(Len(stream[x]) - arrived[x]), copies \in 0..2 :
       LET chunk == [at |-> now + 1, times |-> [i \in 1..k |-> now + i],
                     frames |-> SubSeq(stream[x], arrived[x] + 1, arrived[x] + k)]
       IN /\ copies = 1 \/ lapses < MaxLapses
          /\ lapses' = IF copies = 1 THEN lapses ELSE lapses + 1
          /\ now' = now + k
          /\ arrived' = [arrived EXCEPT ![x] = @ + k]
          /\ seen' = [seen EXCEPT ![x].chunks = @ \o [i \in 1..copies |-> chunk]]
  BY DEF Read
<1> DEFINE times == [i \in 1..k |-> now + i]
           frames == SubSeq(stream[x], arrived[x] + 1, arrived[x] + k)
           chunk == [at |-> now + 1, times |-> times, frames |-> frames]
           more == [i \in 1..copies |-> chunk]
           old == seen[x].chunks
<1>2. stream[x] \in Seq(Frames) /\ Len(stream[x]) \in Nat /\ arrived[x] \in 0..Len(stream[x]) /\ now \in Nat
      /\ lapses \in Nat
  BY Constants, SMTT(30) DEF TypeOK
<1>3. old \in Seq(Cuts)
  BY DEF CutsInv
<1>4. k \in Nat /\ k >= 1 /\ copies \in Nat /\ arrived[x] \in Nat /\ arrived[x] + k <= Len(stream[x])
  BY <1>2
<1>5. times \in Seq(Nat) /\ Len(times) = k /\ \A i \in 1..k : times[i] = now + i
  <2>1. times \in [1..k -> Nat]
    BY <1>2, <1>4
  <2> QED BY <1>4, <2>1, SeqIntro
<1>6. frames \in Seq(Frames) /\ Len(frames) = k /\ \A i \in 1..k : frames[i] = stream[x][arrived[x] + i]
  <2> DEFINE s == stream[x]
             m == arrived[x] + 1
             n == arrived[x] + k
  <2>1. m \in Nat /\ n \in Nat /\ m >= 1 /\ m <= n /\ n <= Len(s) /\ s \in Seq(Frames) /\ n - m + 1 = k
    BY <1>2, <1>4
  <2>2. \A i \in 1..k : m + i - 1 = arrived[x] + i
    BY <1>4
  <2>3. frames = SubSeq(s, m, n)
    OBVIOUS
  <2> HIDE DEF s, m, n, frames
  <2>4. frames \in Seq(Frames) /\ Len(frames) = n - m + 1 /\ \A i \in 1..(n - m + 1) : frames[i] = s[m + i - 1]
    <3>1. \A i \in m..n : s[i] \in Frames
      BY <2>1, ElementOfSeq
    <3>2. m \in Int /\ n \in Int
      BY <2>1
    <3> QED BY <2>1, <2>3, <3>1, <3>2, SubSeqProperties
  <2>5. \A i \in 1..k : frames[i] = s[arrived[x] + i]
    BY <2>1, <2>2, <2>4
  <2> QED BY <2>1, <2>4, <2>5 DEF s
<1> HIDE DEF times, frames
<1>7. chunk.at = now + 1 /\ chunk.times = times /\ chunk.frames = frames
  OBVIOUS
<1>8. chunk \in Cuts
  <2>1. chunk \in Chunks
    BY <1>2, <1>5, <1>6 DEF Chunks
  <2>2. frames # <<>>
    BY <1>4, <1>6
  <2>3. \A i \in 1..k : times[i] = (now + 1) + (i - 1)
    BY <1>2, <1>4, <1>5
  <2> QED BY <1>5, <1>6, <1>7, <2>1, <2>2, <2>3 DEF Cuts
<1>9. seen' = [seen EXCEPT ![x].chunks = old \o more]
  BY <1>1 DEF times, frames
<1>10. arrived' = [arrived EXCEPT ![x] = @ + k] /\ now' = now + k
       /\ lapses' = IF copies = 1 THEN lapses ELSE lapses + 1
  BY <1>1
<1>11. /\ more \in Seq(Cuts) /\ Len(more) = copies /\ (copies = 1 => more = <<chunk>>)
       /\ more \in {<<>>, <<chunk>>, <<chunk, chunk>>}
  <2> HIDE DEF chunk
  <2>1. more \in [1..copies -> Cuts]
    BY <1>8
  <2>2. copies = 1 => more = <<chunk>>
    OBVIOUS
  <2>3. copies = 2 => more = <<chunk, chunk>>
    OBVIOUS
  <2>4. copies = 0 => more = <<>>
    OBVIOUS
  <2>5. copies = 0 \/ copies = 1 \/ copies = 2
    OBVIOUS
  <2> QED BY <1>4, <2>1, <2>2, <2>3, <2>4, <2>5, SeqIntro
<1>12. seen'[x].chunks = old \o more /\ seen'[x].response = seen[x].response
       /\ \A y \in Exchanges \ {x} : seen'[y] = seen[y]
  <2>1. seen \in [Exchanges -> Observations]
    BY DEF TypeOK
  <2>2. seen[x] \in Observations
    BY <2>1
  <2> HIDE DEF more, old
  <2>3. seen'[x] = [seen[x] EXCEPT !.chunks = old \o more] /\ \A y \in Exchanges \ {x} : seen'[y] = seen[y]
    BY <1>9, <2>1
  <2> QED BY <2>2, <2>3 DEF Observations
<1>13. arrived'[x] = arrived[x] + k /\ \A y \in Exchanges \ {x} : arrived'[y] = arrived[y]
  BY <1>10 DEF TypeOK
<1> HIDE DEF chunk, more, old
<1>14. old \o more \in Seq(Cuts) /\ old \o <<chunk>> = Append(old, chunk)
  BY <1>3, <1>8, <1>11
<1>15. lapses' = 0 => lapses = 0 /\ copies = 1
  BY <1>2, <1>10
<1>16. lapses' = 0 => lapses = 0 /\ seen'[x].chunks = Append(seen[x].chunks, chunk)
  BY <1>11, <1>12, <1>14, <1>15 DEF old
<1>19. seen'[x].chunks \in {seen[x].chunks, Append(seen[x].chunks, chunk),
                            Append(Append(seen[x].chunks, chunk), chunk)}
  <2>1. old \o <<>> = old /\ old \o <<chunk, chunk>> = Append(Append(old, chunk), chunk)
    BY <1>3, <1>8
  <2>2. old \o more \in {old, Append(old, chunk), Append(Append(old, chunk), chunk)}
    BY <1>11, <1>14, <2>1
  <2> QED BY <1>12, <2>2 DEF old
<1>17. \A i \in 1..k : chunk.frames[i] = stream[x][arrived[x] + i]
  BY <1>6, <1>7
<1>18. chunk.at = now + 1 /\ Len(chunk.frames) = k
  BY <1>6, <1>7
<1> QED BY <1>4, <1>8, <1>10, <1>12, <1>13, <1>14, <1>16, <1>17, <1>18, <1>19

LEMMA StepCuts ==
  ASSUME TypeOK, CutsInv, [Next]_vars PROVE CutsInv'
<1>1. ASSUME NEW x \in Exchanges, Observes(x) PROVE CutsInv'
  <2>1. \A y \in Exchanges \ {x} : seen'[y] = seen[y]
    BY <1>1, OthersUntouched
  <2>2. seen'[x].chunks \in Seq(Cuts)
    <3>1. CASE Read(x)
      BY <3>1, ReadCuts
    <3>2. CASE Send(x) \/ Head_(x) \/ Close(x)
      <4>1. seen'[x].chunks = seen[x].chunks
        BY <3>2, SendSees, HeadSees, CloseSees
      <4> QED BY <4>1 DEF CutsInv
    <3> QED BY <1>1, <3>1, <3>2 DEF Observes
  <2> QED BY <2>1, <2>2 DEF CutsInv
<1>2. CASE UNCHANGED <<now, ids, state, seen>>
  BY <1>2 DEF CutsInv
<1> QED BY <1>1, <1>2, NothingObserved DEF Next, Observes

\* The first frames of the stream s, one after the other and none later than t.
FramesUpTo(P, s, t) ==
  /\ \A i \in 1..Len(P) : P[i].frame = s[i] /\ P[i].at <= t
  /\ \A i, j \in 1..Len(P) : i < j => P[i].at < P[j].at

LEMMA FramesExtended ==
  ASSUME NEW P \in Seq(Timed), NEW c \in Cuts, NEW s, NEW t \in Nat, c.at = t + 1, FramesUpTo(P, s, t),
         \A i \in 1..Len(c.frames) : c.frames[i] = s[Len(P) + i]
  PROVE  /\ Len(P \o Pairs(c)) = Len(P) + Len(c.frames)
         /\ FramesUpTo(P \o Pairs(c), s, t + Len(c.frames))
<1> DEFINE k == Len(c.frames)
           n == Len(P)
           Q == P \o Pairs(c)
<1>0. /\ \A i \in 1..Len(P) : P[i].frame = s[i] /\ P[i].at <= t
      /\ \A i, j \in 1..Len(P) : i < j => P[i].at < P[j].at
  BY DEF FramesUpTo
<1>1. k \in Nat /\ k >= 1 /\ n \in Nat
  BY CutIs
<1>2. Pairs(c) \in Seq(Timed) /\ Len(Pairs(c)) = k
      /\ \A i \in 1..k : Pairs(c)[i].frame = s[n + i] /\ Pairs(c)[i].at = t + i
  <2>1. \A i \in 1..k : c.at + (i - 1) = t + i
    BY <1>1
  <2> QED BY <2>1, PairsAre
<1>3. \A i \in 1..n : P[i].at \in Nat
  <2>1. \A i \in 1..n : P[i] \in Timed
    BY ElementOfSeq
  <2> QED BY <2>1 DEF Timed
<1>4. Len(Q) = n + k /\ \A i \in 1..(n + k) : Q[i] = IF i <= n THEN P[i] ELSE Pairs(c)[i - n]
  <2> DEFINE q == Pairs(c)
  <2>1. P \in Seq(Timed) /\ q \in Seq(Timed) /\ Len(q) = k
    BY <1>2
  <2> HIDE DEF q, k
  <2>2. /\ Len(P \o q) = Len(P) + Len(q)
        /\ \A i \in 1..(Len(P) + Len(q)) : (P \o q)[i] = IF i <= Len(P) THEN P[i] ELSE q[i - Len(P)]
    BY <2>1, ConcatProperties
  <2> QED BY <2>1, <2>2 DEF q
<1> HIDE DEF k, n, Q
<1>5. \A i \in 1..n : Q[i] = P[i]
  BY <1>1, <1>4
<1>6. \A i \in (n + 1)..(n + k) : Q[i].frame = s[i] /\ Q[i].at = t + (i - n)
  <2>1. ASSUME NEW i \in (n + 1)..(n + k) PROVE Q[i].frame = s[i] /\ Q[i].at = t + (i - n)
    <3>1. i \in 1..(n + k) /\ ~(i <= n) /\ i - n \in 1..k /\ n + (i - n) = i
      BY <1>1
    <3> QED BY <1>2, <1>4, <3>1
  <2> QED BY <2>1
<1>7. \A i \in 1..(n + k) : i \in 1..n \/ i \in (n + 1)..(n + k)
  BY <1>1
<1>8. \A i \in 1..n : P[i].frame = s[i] /\ P[i].at <= t
  BY <1>0 DEF n
<1>9. ASSUME NEW i \in 1..(n + k) PROVE Q[i].frame = s[i] /\ Q[i].at <= t + k
  <2>1. CASE i \in 1..n
    <3>1. Q[i] = P[i] /\ P[i].frame = s[i] /\ P[i].at <= t /\ P[i].at \in Nat
      BY ONLY <1>3, <1>5, <1>8, <2>1
    <3> QED BY ONLY t \in Nat, <1>1, <3>1
  <2>2. CASE i \in (n + 1)..(n + k)
    <3>1. Q[i].frame = s[i] /\ Q[i].at = t + (i - n)
      BY ONLY <1>6, <2>2
    <3>2. t + (i - n) <= t + k
      BY ONLY t \in Nat, <1>1, <2>2
    <3> QED BY ONLY <3>1, <3>2
  <2> QED BY ONLY <1>7, <1>9, <2>1, <2>2
<1>10. ASSUME NEW i \in 1..(n + k), NEW j \in 1..(n + k), i < j PROVE Q[i].at < Q[j].at
  <2>1. CASE j \in 1..n
    <3>1. i \in 1..n
      BY <1>1, <1>10, <2>1
    <3> QED BY <1>0, <1>5, <1>10, <2>1, <3>1 DEF n
  <2>2. CASE j \in (n + 1)..(n + k) /\ i \in 1..n
    BY ONLY t \in Nat, <1>1, <1>3, <1>5, <1>6, <1>8, <2>2
  <2>3. CASE j \in (n + 1)..(n + k) /\ i \in (n + 1)..(n + k)
    BY ONLY t \in Nat, <1>1, <1>6, <1>10, <2>3
  <2> QED BY <1>7, <2>1, <2>2, <2>3
<1> QED BY <1>4, <1>9, <1>10 DEF k, n, Q, FramesUpTo

LEMMA ChunksExtended ==
  ASSUME NEW s \in Seq(Cuts), NEW c \in Cuts, NEW t \in Nat, NEW b \in Nat, c.at = t + 1, b <= t,
         \A i, j \in 1..Len(s) : i < j => End(s[i]) < s[j].at,
         \A i \in 1..Len(s) : b < s[i].at /\ End(s[i]) <= t
  PROVE  LET r == Append(s, c)
         IN /\ \A i, j \in 1..Len(r) : i < j => End(r[i]) < r[j].at
            /\ \A i \in 1..Len(r) : b < r[i].at /\ End(r[i]) <= t + Len(c.frames)
<1> DEFINE r == Append(s, c)
           n == Len(s)
<1>1. n \in Nat /\ Len(r) = n + 1 /\ r[n + 1] = c /\ \A i \in 1..n : r[i] = s[i]
  OBVIOUS
<1>2. Len(c.frames) \in Nat /\ Len(c.frames) >= 1 /\ End(c) = c.at + (Len(c.frames) - 1)
  BY CutIs
<1>3. \A i \in 1..n : End(s[i]) \in Nat
  <2>1. ASSUME NEW i \in 1..n PROVE End(s[i]) \in Nat
    <3>1. s[i] \in Cuts
      BY <2>1, ElementOfSeq
    <3>2. s[i].at \in Nat /\ Len(s[i].frames) \in Nat /\ Len(s[i].frames) >= 1
          /\ End(s[i]) = s[i].at + (Len(s[i].frames) - 1)
      BY <3>1, CutIs
    <3> QED BY <3>2
  <2> QED BY <2>1
<1>4. \A i \in 1..n : b < s[i].at /\ End(s[i]) <= t
  OBVIOUS
<1>5. \A i, j \in 1..n : i < j => End(s[i]) < s[j].at
  OBVIOUS
<1> HIDE DEF r, n
<1>6. ASSUME NEW i \in 1..(n + 1) PROVE b < r[i].at /\ End(r[i]) <= t + Len(c.frames)
  <2>1. CASE i = n + 1
    <3>1. r[i] = c
      BY <1>1, <2>1
    <3>2. b < c.at /\ End(c) <= t + Len(c.frames)
      <4> DEFINE k == Len(c.frames)
                 e == End(c)
      <4>1. k \in Nat /\ c.at = t + 1 /\ b <= t /\ e = c.at + (k - 1)
        BY <1>2
      <4> HIDE DEF k, e
      <4>2. e = t + k /\ t + k \in Nat
        BY ONLY t \in Nat, <4>1
      <4>3. b < c.at
        BY ONLY t \in Nat, b \in Nat, <4>1
      <4>4. e <= t + k
        BY ONLY <4>2
      <4> QED BY <4>3, <4>4 DEF k, e
    <3> QED BY ONLY <3>1, <3>2
  <2>2. CASE i \in 1..n
    <3>1. r[i] = s[i] /\ b < s[i].at /\ End(s[i]) <= t /\ End(s[i]) \in Nat
      BY <1>1, <1>3, <1>4, <2>2
    <3>2. End(r[i]) = End(s[i])
      BY <3>1
    <3>3. t <= t + Len(c.frames) /\ t + Len(c.frames) \in Nat
      BY <1>2
    <3>4. End(s[i]) <= t + Len(c.frames)
      BY ONLY <1>2, <3>1, <3>3, t \in Nat
    <3>5. b < r[i].at
      BY ONLY <3>1
    <3>6. End(r[i]) <= t + Len(c.frames)
      BY ONLY <3>2, <3>4
    <3> QED BY ONLY <3>5, <3>6
  <2> QED BY <1>1, <2>1, <2>2
<1>7. ASSUME NEW i \in 1..(n + 1), NEW j \in 1..(n + 1), i < j PROVE End(r[i]) < r[j].at
  <2>1. i \in 1..n
    BY <1>1, <1>7
  <2>2. CASE j = n + 1
    BY <1>1, <1>3, <1>4, <2>1, <2>2
  <2>3. CASE j \in 1..n
    BY <1>1, <1>5, <1>7, <2>1, <2>3
  <2> QED BY <1>1, <2>2, <2>3
<1> QED BY <1>1, <1>6, <1>7 DEF r

LEMMA ReadFaithful ==
  ASSUME TypeOK, TimeInv, CutsInv, HonestInv, NEW x \in Exchanges, Read(x), lapses' = 0
  PROVE  lapses = 0 /\ (FramesFaithful(x) /\ ChunksFaithful(x))'
<1>1. PICK k \in Nat, c \in Cuts :
        /\ now' = now + k /\ c.at = now + 1 /\ Len(c.frames) = k /\ k >= 1
        /\ arrived'[x] = arrived[x] + k
        /\ \A i \in 1..k : c.frames[i] = stream[x][arrived[x] + i]
        /\ seen'[x].response = seen[x].response
        /\ lapses = 0 /\ seen'[x].chunks = Append(seen[x].chunks, c)
  BY ReadCuts
<1>2. state[x] = "reading" /\ state' = state /\ stream' = stream
  BY DEF Read, Keep
<1>3. FramesFaithful(x) /\ ChunksFaithful(x)
  BY <1>1 DEF HonestInv
<1>4. seen[x].chunks \in Seq(Cuts)
  BY DEF CutsInv
<1>5. now \in Nat /\ seen[x].response \in Nat /\ seen[x].response <= now
  BY <1>2, Times DEF TimeInv, TimeOf
<1>6. Parsed(seen[x].chunks) \in Seq(Timed)
  BY <1>4, ParsedType
<1>7. Parsed(seen'[x].chunks) = Parsed(seen[x].chunks) \o Pairs(c)
  BY <1>1, <1>4, ParsedAppend
<1> DEFINE P == Parsed(seen[x].chunks)
           Q == Parsed(seen'[x].chunks)
<1>8. /\ Len(P) = arrived[x] /\ \A i \in 1..Len(P) : P[i].frame = stream[x][i] /\ P[i].at <= now
      /\ \A i, j \in 1..Len(P) : i < j => P[i].at < P[j].at
  BY <1>3 DEF FramesFaithful
<1>9. \A i \in 1..Len(c.frames) : c.frames[i] = stream[x][Len(P) + i]
  BY <1>1, <1>8
<1>10. Len(Q) = Len(P) + Len(c.frames) /\ FramesUpTo(Q, stream[x], now + Len(c.frames))
  <2>1. P \in Seq(Timed) /\ Q = P \o Pairs(c) /\ c \in Cuts
    BY <1>6, <1>7
  <2>2. now \in Nat /\ c.at = now + 1
    BY <1>1, <1>5
  <2>3. FramesUpTo(P, stream[x], now)
    BY <1>8 DEF FramesUpTo
  <2> HIDE DEF P, Q
  <2> QED BY ONLY <1>9, <2>1, <2>2, <2>3, FramesExtended
<1>11. state'[x] # "closed"
  BY <1>2
<1>12. FramesFaithful(x)'
  <2>1. Q = Parsed(seen[x].chunks)'
    OBVIOUS
  <2>2. Len(Q) = arrived'[x] /\ \A i \in 1..Len(Q) : Q[i].frame = stream'[x][i] /\ Q[i].at <= now'
    BY <1>1, <1>2, <1>8, <1>10 DEF FramesUpTo
  <2> HIDE DEF P, Q
  <2>3. \A i, j \in 1..Len(Q) : i < j => Q[i].at < Q[j].at
    BY <1>10 DEF FramesUpTo
  <2> QED BY <1>11, <2>1, <2>2, <2>3 DEF FramesFaithful
<1>13. /\ \A i, j \in 1..Len(seen[x].chunks) : i < j => End(seen[x].chunks[i]) < seen[x].chunks[j].at
       /\ \A i \in 1..Len(seen[x].chunks) : seen[x].response < seen[x].chunks[i].at /\ End(seen[x].chunks[i]) <= now
  BY <1>3 DEF ChunksFaithful
<1> DEFINE s == seen[x].chunks
           r == seen'[x].chunks
           b == seen[x].response
<1>14. /\ \A i, j \in 1..Len(r) : i < j => End(r[i]) < r[j].at
       /\ \A i \in 1..Len(r) : b < r[i].at /\ End(r[i]) <= now + Len(c.frames)
  <2>1. s \in Seq(Cuts) /\ r = Append(s, c) /\ b \in Nat /\ b <= now
    BY <1>1, <1>4, <1>5
  <2>2. /\ \A i, j \in 1..Len(s) : i < j => End(s[i]) < s[j].at
        /\ \A i \in 1..Len(s) : b < s[i].at /\ End(s[i]) <= now
    BY <1>13
  <2> HIDE DEF s, r, b
  <2> QED BY <1>1, <1>5, <2>1, <2>2, ChunksExtended
<1>15. ChunksFaithful(x)'
  <2>1. r = seen'[x].chunks /\ b = seen'[x].response
    BY <1>1
  <2>2. \A i \in 1..Len(r) : seen'[x].response < r[i].at /\ End(r[i]) <= now'
    BY <1>1, <1>14
  <2>3. \A i \in 1..Len(seen'[x].chunks) : /\ seen'[x].response < seen'[x].chunks[i].at
                                           /\ End(seen'[x].chunks[i]) <= now'
    BY <2>2
  <2>4. \A i, j \in 1..Len(seen'[x].chunks) : i < j => End(seen'[x].chunks[i]) < seen'[x].chunks[j].at
    BY <1>14
  <2> HIDE DEF s, r, b
  <2> QED BY <1>11, <2>3, <2>4 DEF ChunksFaithful, End
<1> QED BY <1>1, <1>12, <1>15

LEMMA FaithfulTypes ==
  ASSUME TypeOK, CutsInv, NEW x \in Exchanges
  PROVE  /\ Parsed(seen[x].chunks) \in Seq(Timed)
         /\ \A i \in 1..Len(Parsed(seen[x].chunks)) : Parsed(seen[x].chunks)[i].at \in Nat
         /\ seen[x].chunks \in Seq(Cuts) /\ Len(seen[x].chunks) \in Nat
         /\ \A i \in 1..Len(seen[x].chunks) :
              /\ seen[x].chunks[i] \in Cuts /\ seen[x].chunks[i].at \in Nat
              /\ End(seen[x].chunks[i]) \in Nat /\ seen[x].chunks[i].at <= End(seen[x].chunks[i])
<1>1. seen[x].chunks \in Seq(Cuts)
  BY DEF CutsInv
<1> DEFINE s == seen[x].chunks
           P == Parsed(s)
<1> HIDE DEF s
<1>2. s \in Seq(Cuts)
  BY <1>1 DEF s
<1>3. P \in Seq(Timed)
  BY <1>2, ParsedType
<1> HIDE DEF P
<1>4. \A i \in 1..Len(P) : P[i] \in Timed
  BY <1>3, ElementOfSeq
<1>5. \A i \in 1..Len(P) : P[i].at \in Nat
  BY <1>4 DEF Timed
<1>6. Len(s) \in Nat /\ \A i \in 1..Len(s) : s[i] \in Cuts
  BY <1>2, LenProperties, ElementOfSeq
<1>7. ASSUME NEW c \in Cuts PROVE c.at \in Nat /\ End(c) \in Nat /\ c.at <= End(c)
  <2> DEFINE k == Len(c.frames)
             e == End(c)
             a == c.at
  <2>1. a \in Nat /\ k \in Nat /\ k >= 1 /\ e = a + (k - 1)
    BY CutIs
  <2> HIDE DEF k, e, a
  <2>2. e \in Nat /\ a <= e
    BY ONLY <2>1
  <2> QED BY <2>1, <2>2 DEF e, a
<1> QED BY <1>2, <1>3, <1>5, <1>6, <1>7 DEF P, s

\* Nothing observed, nothing to be unfaithful to.
LEMMA QuietFaithful ==
  ASSUME NEW x \in Exchanges, FramesFaithful(x), seen[x].chunks = <<>>, seen'[x].chunks = <<>>,
         arrived'[x] = arrived[x], state'[x] # "closed"
  PROVE  (FramesFaithful(x) /\ ChunksFaithful(x))'
<1>1. Parsed(<<>>) = <<>> /\ Len(<<>>) = 0
  BY ParsedNone
<1>2. Parsed(seen[x].chunks)' = <<>>
  <2>1. Parsed(seen[x].chunks)' = Parsed(seen'[x].chunks)
    OBVIOUS
  <2> QED BY <1>1, <2>1
<1>3. Parsed(seen[x].chunks) = <<>>
  BY <1>1
<1>4. arrived[x] = 0
  BY <1>1, <1>3 DEF FramesFaithful
<1>5. FramesFaithful(x)'
  BY <1>1, <1>2, <1>4 DEF FramesFaithful
<1>6. ChunksFaithful(x)'
  <2>1. Len(seen'[x].chunks) = 0
    BY <1>1
  <2> QED BY <2>1 DEF ChunksFaithful
<1> QED BY <1>5, <1>6

LEMMA CloseFaithful ==
  ASSUME TypeOK, CutsInv, NEW x \in Exchanges, Close(x), lapses' = 0, FramesFaithful(x), ChunksFaithful(x)
  PROVE  (FramesFaithful(x) /\ ChunksFaithful(x))'
<1>1. /\ now' = now + 1 /\ seen'[x].response = seen[x].response /\ seen'[x].chunks = seen[x].chunks
      /\ seen'[x].close = now + 1 /\ arrived' = arrived /\ stream' = stream /\ now \in Nat
  BY CloseSees DEF Close, Keep, TypeOK
<1>2. arrived[x] = Len(stream[x])
  <2>1. lapses \in Nat
    BY Constants DEF TypeOK
  <2>2. ASSUME arrived[x] # Len(stream[x]) PROVE FALSE
    <3>1. lapses' = lapses + 1
      BY <2>2 DEF Close
    <3> QED BY <2>1, <3>1
  <2> QED BY <2>2
<1> DEFINE s == seen[x].chunks
           P == Parsed(s)
<1>3. P = Parsed(seen[x].chunks)' /\ s = seen'[x].chunks
  BY <1>1
<1>4. /\ \A i \in 1..Len(P) : P[i].at \in Nat
      /\ \A i \in 1..Len(s) : s[i].at \in Nat /\ End(s[i]) \in Nat
  BY FaithfulTypes
<1>5. /\ Len(P) = arrived[x] /\ \A i \in 1..Len(P) : P[i].frame = stream[x][i] /\ P[i].at <= now
      /\ \A i, j \in 1..Len(P) : i < j => P[i].at < P[j].at
  BY DEF FramesFaithful
<1>6. /\ \A i, j \in 1..Len(s) : i < j => End(s[i]) < s[j].at
      /\ \A i \in 1..Len(s) : seen[x].response < s[i].at /\ End(s[i]) <= now
  BY DEF ChunksFaithful
<1>7. FramesFaithful(x)'
  <2> HIDE DEF s, P
  <2>1. \A i \in 1..Len(P) : P[i].at <= now' /\ P[i].at < seen'[x].close
    BY <1>1, <1>4, <1>5
  <2> QED BY <1>1, <1>3, <1>5, <2>1 DEF FramesFaithful
<1>8. ChunksFaithful(x)'
  <2> HIDE DEF s, P
  <2>1. \A i \in 1..Len(s) : End(s[i]) <= now' /\ End(s[i]) < seen'[x].close
    BY <1>1, <1>4, <1>6
  <2>2. \A i \in 1..Len(s) : seen'[x].response < s[i].at
    BY <1>1, <1>6
  <2>3. arrived'[x] = Len(stream'[x])
    BY <1>1, <1>2
  <2> QED BY <1>3, <1>6, <2>1, <2>2, <2>3 DEF ChunksFaithful, End
<1> QED BY <1>7, <1>8

LEMMA OtherFaithful ==
  ASSUME TypeOK, CutsInv, NEW x \in Exchanges, FramesFaithful(x), ChunksFaithful(x),
         now' \in Nat, now <= now', seen'[x] = seen[x], state'[x] = state[x], arrived'[x] = arrived[x],
         stream' = stream
  PROVE  (FramesFaithful(x) /\ ChunksFaithful(x))'
<1> DEFINE s == seen[x].chunks
           P == Parsed(s)
<1>3. P = Parsed(seen[x].chunks)' /\ s = seen'[x].chunks
  OBVIOUS
<1>4. /\ \A i \in 1..Len(P) : P[i].at \in Nat
      /\ \A i \in 1..Len(s) : s[i].at \in Nat /\ End(s[i]) \in Nat
  BY FaithfulTypes
<1>5. now \in Nat
  BY DEF TypeOK
<1>6. /\ Len(P) = arrived[x] /\ \A i \in 1..Len(P) : P[i].frame = stream[x][i] /\ P[i].at <= now
      /\ \A i, j \in 1..Len(P) : i < j => P[i].at < P[j].at
      /\ \A i \in 1..Len(P) : state[x] = "closed" => P[i].at < seen[x].close
  BY DEF FramesFaithful
<1>7. /\ \A i, j \in 1..Len(s) : i < j => End(s[i]) < s[j].at
      /\ \A i \in 1..Len(s) : seen[x].response < s[i].at /\ End(s[i]) <= now
      /\ \A i \in 1..Len(s) : state[x] = "closed" => End(s[i]) < seen[x].close
      /\ state[x] = "closed" => arrived[x] = Len(stream[x])
  BY DEF ChunksFaithful
<1>8. FramesFaithful(x)'
  <2> HIDE DEF s, P
  <2>1. \A i \in 1..Len(P) : P[i].at <= now'
    BY <1>4, <1>5, <1>6
  <2> QED BY <1>3, <1>6, <2>1 DEF FramesFaithful
<1>9. ChunksFaithful(x)'
  <2> HIDE DEF s, P
  <2>1. \A i \in 1..Len(s) : End(s[i]) <= now'
    BY <1>4, <1>5, <1>7
  <2> QED BY <1>3, <1>7, <2>1 DEF ChunksFaithful, End
<1> QED BY <1>8, <1>9

LEMMA StepHonest ==
  ASSUME TypeOK, TimeInv, CutsInv, HonestInv, [Next]_vars PROVE HonestInv'
<1>1. ASSUME NEW x \in Exchanges, Observes(x), lapses' = 0
      PROVE  \A y \in Exchanges : (FramesFaithful(y) /\ ChunksFaithful(y))'
  <2>1. lapses = 0 /\ stream' = stream
    <3>1. stream' = stream
      BY <1>1 DEF Observes, Send, Head_, Read, Close, Keep
    <3>2. CASE Read(x)
      BY <1>1, <3>1, <3>2, ReadFaithful
    <3>3. CASE Send(x) \/ Head_(x)
      BY <1>1, <3>1, <3>3 DEF Send, Head_
    <3>4. CASE Close(x)
      <4>1. lapses' = lapses \/ lapses' = lapses + 1
        BY <3>4 DEF Close
      <4>2. lapses \in Nat
        BY Constants DEF TypeOK
      <4> QED BY <1>1, <3>1, <4>1, <4>2
    <3> QED BY <1>1, <3>2, <3>3, <3>4 DEF Observes
  <2>2. \A y \in Exchanges : FramesFaithful(y) /\ ChunksFaithful(y)
    BY <2>1 DEF HonestInv
  <2>3. \A y \in Exchanges \ {x} : arrived'[y] = arrived[y]
    BY <1>1 DEF Observes, Send, Head_, Read, Close, TypeOK
  <2>4. ASSUME NEW y \in Exchanges \ {x} PROVE (FramesFaithful(y) /\ ChunksFaithful(y))'
    <3>1. now' \in Nat /\ now <= now' /\ seen'[y] = seen[y] /\ state'[y] = state[y]
      BY <1>1, OthersUntouched
    <3> QED BY <2>1, <2>2, <2>3, <3>1, OtherFaithful
  <2>5. (FramesFaithful(x) /\ ChunksFaithful(x))'
    <3>1. CASE Read(x)
      BY <1>1, <3>1, ReadFaithful
    <3>2. CASE Close(x)
      BY <1>1, <2>2, <3>2, CloseFaithful
    <3>3. CASE Send(x) \/ Head_(x)
      <4>1. state[x] \in {"idle", "sent"} /\ state'[x] # "closed" /\ arrived'[x] = arrived[x]
        BY <3>3 DEF Send, Head_, TypeOK
      <4>2. seen'[x].chunks = seen[x].chunks
        BY <3>3, SendSees, HeadSees
      <4>3. seen[x].chunks = <<>>
        BY <4>1 DEF TimeInv, TimeOf
      <4> QED BY <2>2, <4>1, <4>2, <4>3, QuietFaithful
    <3> QED BY <1>1, <3>1, <3>2, <3>3 DEF Observes
  <2> QED BY <2>4, <2>5
<1>2. CASE UNCHANGED <<now, exchangeVars>>
  <2>1. UNCHANGED <<now, stream, state, arrived, seen, lapses>>
    BY <1>2 DEF exchangeVars
  <2>2. ASSUME NEW x \in Exchanges, FramesFaithful(x), ChunksFaithful(x)
        PROVE  (FramesFaithful(x) /\ ChunksFaithful(x))'
    <3>1. now' \in Nat /\ now <= now'
      BY <2>1 DEF TypeOK
    <3> QED BY <2>1, <2>2, <3>1, OtherFaithful
  <2> QED BY <2>1, <2>2 DEF HonestInv
<1>3. CASE Assemble \/ Reconstruct \/ (\E field \in Fields : Swap(field)) \/ UNCHANGED vars
  BY <1>2, <1>3 DEF Assemble, Reconstruct, Swap, vars, exchangeVars
<1>4. (\E x \in Exchanges : Observes(x)) => HonestInv'
  BY <1>1 DEF HonestInv
<1> QED BY <1>3, <1>4 DEF Next, Observes

LEMMA InitHonest == Init => CutsInv /\ HonestInv
<1> SUFFICES ASSUME Init PROVE CutsInv /\ HonestInv
  OBVIOUS
<1>1. \A x \in Exchanges : seen[x].chunks = <<>> /\ state[x] = "idle" /\ arrived[x] = 0
  BY DEF Init, Unseen
<1>2. Parsed(<<>>) = <<>> /\ Len(<<>>) = 0 /\ <<>> \in Seq(Cuts)
  BY ParsedNone
<1>3. CutsInv
  BY <1>1, <1>2 DEF CutsInv
<1>4. ASSUME NEW x \in Exchanges PROVE FramesFaithful(x) /\ ChunksFaithful(x)
  <2>1. Parsed(seen[x].chunks) = <<>> /\ Len(seen[x].chunks) = 0
    BY <1>1, <1>2
  <2> QED BY <1>1, <1>2, <2>1 DEF FramesFaithful, ChunksFaithful
<1> QED BY <1>3, <1>4 DEF HonestInv

-----------------------------------------------------------------------------
(* What is whole                                                            *)

Informative == [frame : Bearing, at : Nat]

LEMMA EventsType ==
  ASSUME NEW s \in Seq(Cuts)
  PROVE  /\ Events(s) \in Seq(Informative) /\ Len(Events(s)) \in Nat /\ DOMAIN Events(s) = 1..Len(Events(s))
         /\ \A i \in 1..Len(Events(s)) : Events(s)[i].at \in Nat
<1>1. Events(s) = Select(Parsed(s), Informative)
  BY DEF Events, Informative
<1>2. Parsed(s) \in Seq(Timed)
  BY ParsedType
<1>3. Select(Parsed(s), Informative) \in Seq(Informative \cap Timed)
  BY <1>2, SelectType
<1>4. Informative \cap Timed = Informative
  BY DEF Informative, Timed, Bearing
<1>5. Events(s) \in Seq(Informative)
  BY <1>1, <1>3, <1>4
<1> DEFINE e == Events(s)
<1> HIDE DEF e
<1>6. e \in Seq(Informative)
  BY <1>5 DEF e
<1>7. Len(e) \in Nat /\ DOMAIN e = 1..Len(e) /\ \A i \in 1..Len(e) : e[i] \in Informative
  BY <1>6, LenProperties, ElementOfSeq
<1>8. \A i \in 1..Len(e) : e[i].at \in Nat
  BY <1>7 DEF Informative
<1> QED BY <1>6, <1>7, <1>8 DEF e

\* Frames that fit end in usage and [DONE], with a choice before them.
LEMMA FitEnds ==
  ASSUME NEW frames, FramesFit(frames)
  PROVE  Len(frames) >= 3 /\ frames[Len(frames)] = Done
BY DEF FramesFit

\* The frames that arrived of a whole stream make whole events.
LEMMA FaithfulIsWhole ==
  ASSUME TypeOK, CutsInv, NEW x \in Exchanges, FramesFaithful(x), arrived[x] = Len(stream[x])
  PROVE  Whole(Events(seen[x].chunks)) /\ Parsed(seen[x].chunks) # <<>>
<1> DEFINE P == Parsed(seen[x].chunks)
           s == stream[x]
           E == Events(seen[x].chunks)
<1>1. P \in Seq(Timed) /\ seen[x].chunks \in Seq(Cuts)
  BY FaithfulTypes
<1>2. s \in Seq(Frames) /\ FramesFit(Select(s, Bearing))
  <2>1. s \in Streams
    BY DEF TypeOK
  <2> QED BY <2>1, Constants
<1>3. Len(P) = Len(s) /\ (\A i \in 1..Len(P) : P[i].frame = s[i])
      /\ \A i, j \in 1..Len(P) : i < j => P[i].at < P[j].at
  BY DEF FramesFaithful
<1>4. E = Select(P, Informative)
  BY DEF Events, Informative
<1>5. E \in Seq(Informative) /\ \A i \in 1..Len(E) : E[i].at \in Nat
  BY <1>1, EventsType
<1> DEFINE f == [e \in Informative |-> e.frame]
           R == {p \in Timed \X Timed : p[1].at < p[2].at}
<1> HIDE DEF P, s, E
<1>6. \A i \in 1..Len(P) : P[i] \in Timed
  BY <1>1, ElementOfSeq
<1>7. \A i \in 1..Len(P) : (P[i] \in Informative <=> s[i] \in Bearing) /\ (P[i] \in Informative => s[i] = f[P[i]])
  <2>1. ASSUME NEW i \in 1..Len(P)
        PROVE  (P[i] \in Informative <=> s[i] \in Bearing) /\ (P[i] \in Informative => s[i] = f[P[i]])
    <3>1. P[i] \in Timed /\ P[i].frame = s[i]
      BY <1>3, <1>6
    <3>2. P[i] \in Informative <=> P[i].frame \in Bearing
      BY <3>1 DEF Timed, Informative
    <3>3. P[i] \in Informative => f[P[i]] = P[i].frame
      OBVIOUS
    <3> QED BY <3>1, <3>2, <3>3
  <2> QED BY <2>1
<1> DEFINE W == Select(s, Bearing)
<1>8. Len(W) = Len(E) /\ \A i \in 1..Len(E) : W[i] = f[E[i]]
  <2> HIDE DEF f
  <2>1. Len(s) = Len(P)
    BY <1>3
  <2>2. /\ Len(Select(s, Bearing)) = Len(Select(P, Informative))
        /\ \A i \in 1..Len(Select(P, Informative)) : Select(s, Bearing)[i] = f[Select(P, Informative)[i]]
    <3>1. Corresponds(P, Informative, s, Bearing, f)
      BY <1>7, <2>1 DEF Corresponds
    <3> QED BY ONLY <1>1, <1>2, <3>1, SelectMapped
  <2> QED BY <1>4, <2>2
<1> HIDE DEF W
<1>9. FramesOf(E) = W
  <2>1. \A i \in 1..Len(E) : E[i] \in Informative
    BY <1>5, ElementOfSeq
  <2>2. \A i \in 1..Len(E) : E[i].frame = W[i]
    BY <1>8, <2>1
  <2>3. DOMAIN E = 1..Len(E)
    BY <1>5, LenProperties
  <2>4. W \in Seq(Bearing \cap Frames)
    BY <1>2, SelectType DEF W
  <2>5. W = [i \in 1..Len(W) |-> W[i]]
    BY <2>4
  <2> QED BY <1>8, <2>2, <2>3, <2>5 DEF FramesOf
<1>10. \A i, j \in 1..Len(E) : i < j => E[i].at < E[j].at
  <2>1. \A i, j \in 1..Len(P) : i < j => <<P[i], P[j]>> \in R
    BY <1>3, <1>6
  <2>2. \A i, j \in 1..Len(E) : i < j => <<E[i], E[j]>> \in R
    <3> HIDE DEF R
    <3>1. \A i, j \in 1..Len(Select(P, Informative)) :
            i < j => <<Select(P, Informative)[i], Select(P, Informative)[j]>> \in R
      BY ONLY <1>1, <2>1, SelectOrdered
    <3> QED BY <1>4, <3>1
  <2> QED BY <2>2
<1>11. Whole(E) /\ Len(E) >= 3
  <2> DEFINE n == Len(E)
  <2>1. FramesFit(FramesOf(E)) /\ n >= 3 /\ n \in Nat
    <3>1. Len(W) >= 3 /\ FramesFit(W)
      BY <1>2, FitEnds DEF W
    <3>2. n \in Nat
      BY <1>5
    <3> QED BY <1>8, <1>9, <3>1, <3>2
  <2>2. \A i, j \in 1..n : i < j => E[i].at < E[j].at
    BY <1>10
  <2> HIDE DEF n
  <2>3. n - 2 \in 1..n /\ n - 1 \in 1..n /\ n \in 1..n /\ n - 2 < n - 1 /\ n - 1 < n
    BY <2>1
  <2>4. E[n - 2].at < E[n - 1].at /\ E[n - 1].at < E[n].at
    BY <2>2, <2>3
  <2> QED BY <2>1, <2>4 DEF n, Whole
<1>12. P # <<>>
  <2>1. ASSUME P = <<>> PROVE FALSE
    <3>1. Select(P, Informative) = <<>>
      BY <2>1, SelectNone
    <3>2. Len(E) = 0
      BY <1>4, <3>1
    <3> QED BY <1>11, <3>2
  <2> QED BY <2>1
<1> QED BY <1>11, <1>12 DEF E, P

-----------------------------------------------------------------------------
(* What is observed whole is accepted                                       *)

\* The body is complete with the last frame.
LEMMA CompletionIs ==
  ASSUME NEW s \in Seq(Cuts), s # <<>>, \A i, j \in 1..Len(s) : i < j => End(s[i]) < s[j].at
  PROVE  Completion(s) = End(s[Len(s)])
<1> DEFINE n == Len(s)
           m == End(s[n])
           S == {c.at : c \in Range(s)} \cup UNION {Range(c.times) : c \in Range(s)}
<1>1. Len(s) \in Nat /\ Len(s) >= 1 /\ DOMAIN s = 1..Len(s) /\ \A i \in 1..Len(s) : s[i] \in Cuts
  <2>1. Len(s) \in Nat /\ DOMAIN s = 1..Len(s) /\ Len(s) # 0
    BY LenProperties, EmptySeq
  <2> QED BY <2>1, ElementOfSeq
<1>2. ASSUME NEW c \in Cuts
      PROVE  /\ c.at \in Nat /\ End(c) \in Nat /\ c.at <= End(c)
             /\ End(c) \in Range(c.times) /\ \A t \in Range(c.times) : t \in Nat /\ t <= End(c)
  <2> DEFINE k == Len(c.frames)
             e == End(c)
             a == c.at
  <2>1. /\ a \in Nat /\ k \in Nat /\ k >= 1 /\ e = a + (k - 1) /\ c.times \in Seq(Nat) /\ Len(c.times) = k
        /\ \A i \in 1..k : c.times[i] = a + (i - 1)
    BY CutIs
  <2>2. DOMAIN c.times = 1..k
    BY <2>1, LenProperties
  <2> HIDE DEF k, e, a
  <2>3. e \in Nat /\ a <= e /\ k \in 1..k
    BY ONLY <2>1
  <2>4. e = c.times[k]
    BY <2>1, <2>3
  <2>5. e \in Range(c.times)
    BY <2>2, <2>3, <2>4 DEF Range
  <2>6. ASSUME NEW t \in Range(c.times) PROVE t \in Nat /\ t <= e
    <3>1. PICK i \in 1..k : t = c.times[i]
      BY <2>2 DEF Range
    <3>2. t = a + (i - 1)
      BY <2>1, <3>1
    <3> QED BY ONLY i \in 1..k, <2>1, <3>2
  <2> QED BY <2>1, <2>3, <2>5, <2>6 DEF e, a
<1> HIDE DEF n
<1>3. n \in 1..Len(s) /\ n = Len(s) /\ n \in Nat
  BY <1>1 DEF n
<1>4. \A i \in 1..n : /\ s[i].at \in Nat /\ End(s[i]) \in Nat /\ s[i].at <= End(s[i])
                      /\ \A t \in Range(s[i].times) : t \in Nat /\ t <= End(s[i])
  BY <1>1, <1>2, <1>3
<1>5. \A i \in 1..n : End(s[i]) <= m
  <2>1. ASSUME NEW i \in 1..n, i # n PROVE End(s[i]) <= m
    <3>1. i < n
      BY ONLY <1>3, <2>1, i \in 1..n
    <3>2. End(s[i]) < s[n].at
      BY <1>3, <3>1
    <3>3. s[n].at \in Nat /\ m \in Nat /\ s[n].at <= m /\ End(s[i]) \in Nat
      BY <1>3, <1>4
    <3> HIDE DEF m
    <3> QED BY ONLY <3>2, <3>3
  <2>2. m <= m
    <3>1. m \in Nat
      BY <1>3, <1>4
    <3> HIDE DEF m
    <3> QED BY <3>1
  <2> QED BY <2>1, <2>2
<1>6. \A c \in Range(s) : \E i \in 1..n : c = s[i]
  BY <1>1, <1>3 DEF Range
<1>7. m \in Nat /\ \A t \in S : t \in Nat /\ t <= m
  <2>1. m \in Nat
    BY <1>3, <1>4
  <2>2. ASSUME NEW i \in 1..n PROVE s[i].at \in Nat /\ s[i].at <= m
    <3>1. s[i].at \in Nat /\ End(s[i]) \in Nat /\ s[i].at <= End(s[i]) /\ End(s[i]) <= m
      BY <1>4, <1>5
    <3> HIDE DEF m
    <3> QED BY ONLY <2>1, <3>1
  <2>3. ASSUME NEW i \in 1..n, NEW t \in Range(s[i].times) PROVE t \in Nat /\ t <= m
    <3>1. t \in Nat /\ t <= End(s[i]) /\ End(s[i]) \in Nat /\ End(s[i]) <= m
      BY <1>4, <1>5
    <3> HIDE DEF m
    <3> QED BY ONLY <2>1, <3>1
  <2> HIDE DEF m
  <2>4. \A t \in S : (\E c \in Range(s) : t = c.at) \/ \E c \in Range(s) : t \in Range(c.times)
    OBVIOUS
  <2> QED BY <1>6, <2>1, <2>2, <2>3, <2>4
<1>8. m \in S
  <2>1. s[n] \in Cuts /\ s[n] \in Range(s)
    BY <1>1, <1>3 DEF Range
  <2>2. m \in Range(s[n].times)
    BY <1>2, <2>1
  <2> HIDE DEF m
  <2> QED BY <2>1, <2>2
<1>9. Completion(s) = Max(S)
  BY DEF Completion
<1>10. Max(S) = m
  <2> HIDE DEF S, m
  <2>1. \A y \in S : m >= y
    BY <1>7
  <2>2. \A z \in S : (\A y \in S : z >= y) => z = m
    BY <1>7, <1>8
  <2> QED BY <1>8, <2>1, <2>2 DEF Max
<1> QED BY <1>3, <1>9, <1>10

LEMMA HonestHolds ==
  ASSUME TypeOK, TimeInv, CutsInv, NEW x \in Exchanges, FramesFaithful(x), ChunksFaithful(x),
         state[x] = "closed", ids[x] = Request, seen[x].chunks # <<>>,
         NEW from, \A part \in Parts : from[part] = x, NEW made \in BOOLEAN
  PROVE  /\ CaptureHolds(Assembled(from, made).wire)
         /\ Replays(Assembled(from, made).wire, Assembled(from, made).logs)
<1> DEFINE w == Assembled(from, made).wire
           l == Assembled(from, made).logs
           s == seen[x].chunks
           n == Len(s)
           P == Parsed(s)
<1>1. /\ w.id = Request /\ w.request = RequestOf(x) /\ w.response = ResponseOf(x)
      /\ w.body = BodyOf(x) /\ w.close = CloseOf(x) /\ l = LogsOf(x)
      /\ w.exchange = ExchangeOf(RequestOf(x), ResponseOf(x), BodyOf(x), CloseOf(x))
  <2>1. /\ from["exchange"] = x /\ from["request"] = x /\ from["response"] = x /\ from["body"] = x
        /\ from["close"] = x /\ from["logs"] = x
    BY DEF Parts
  <2> QED BY <2>1 DEF Assembled
<1>2. /\ w.id = Request /\ w.request.id = Request /\ w.request.at = seen[x].request
      /\ w.response.id = Request /\ w.response.at = seen[x].response
      /\ w.body.id = Request /\ w.body.chunks = s
      /\ w.close.id = Request /\ w.close.at = seen[x].close /\ w.close.inventory = s /\ w.close.chain = x
      /\ l.id = Request /\ l.chain = x
      /\ w.exchange.id = Request /\ w.exchange.request = seen[x].request
      /\ w.exchange.response = seen[x].response /\ w.exchange.inventory = s
      /\ w.exchange.completion = Completion(s) /\ w.exchange.terminal = seen[x].close
  BY <1>1 DEF RequestOf, ResponseOf, BodyOf, CloseOf, LogsOf, ExchangeOf
<1>3. /\ seen[x].request \in Nat /\ seen[x].response \in Nat /\ seen[x].close \in Nat
      /\ seen[x].request < seen[x].response
  BY Times DEF TimeInv, TimeOf
<1>4. /\ s \in Seq(Cuts) /\ n \in Nat
      /\ \A i \in 1..n : s[i].at \in Nat /\ End(s[i]) \in Nat /\ s[i].at <= End(s[i])
      /\ P \in Seq(Timed)
  BY FaithfulTypes
<1>5. /\ \A i, j \in 1..n : i < j => End(s[i]) < s[j].at
      /\ \A i \in 1..n : seen[x].response < s[i].at /\ End(s[i]) < seen[x].close
      /\ arrived[x] = Len(stream[x])
  BY DEF ChunksFaithful
<1>6. \A i \in 1..Len(P) : P[i].at < seen[x].close
  BY DEF FramesFaithful
<1>7. Whole(Events(s)) /\ P # <<>>
  BY <1>5, FaithfulIsWhole
<1> DEFINE b == seen[x].response
           z == seen[x].close
<1> HIDE DEF w, l, s, P
<1>8. n >= 1 /\ 1 \in 1..n /\ n \in 1..n /\ DOMAIN s = 1..n
  <2>1. s \in Seq(Cuts) /\ s # <<>>
    BY <1>4 DEF s
  <2>2. Len(s) \in Nat /\ Len(s) # 0 /\ DOMAIN s = 1..Len(s)
    BY <2>1, LenProperties, EmptySeq
  <2> QED BY <2>2
<1>9. Head(s) = s[1] /\ Last(s) = s[n]
  BY <1>4, <1>8, HeadTailProperties DEF Last
<1> DEFINE C == Completion(s)
           a == s[n].at
<1>10. C = End(s[n])
  <2>1. s # <<>>
    BY DEF s
  <2> QED BY <1>4, <1>5, <2>1, CompletionIs
<1>11. C \in Nat /\ a \in Nat /\ a <= C /\ b < a /\ C < z /\ b \in Nat /\ z \in Nat
  BY <1>3, <1>4, <1>5, <1>8, <1>10
<1> HIDE DEF C, a, b, z
<1>12. b <= C /\ C <= z /\ a < z
  BY ONLY <1>11
<1>13. SameIds(w)
  BY <1>2 DEF SameIds
<1>14. ExchangeInOrder(w.exchange)
  BY <1>2, <1>3, <1>12 DEF ExchangeInOrder, C, b, z
<1>15. ExchangeBinds(w)
  BY <1>2 DEF ExchangeBinds
<1>16. ChunksInOrder(s)
  <2>1. ASSUME NEW i \in 1..n, NEW j \in 1..n, i < j PROVE s[i].at <= s[j].at /\ End(s[i]) <= s[j].at
    <3>1. s[i].at \in Nat /\ End(s[i]) \in Nat /\ s[j].at \in Nat /\ s[i].at <= End(s[i]) /\ End(s[i]) < s[j].at
      BY <1>4, <1>5, <2>1
    <3> QED BY ONLY <3>1
  <2> QED BY <1>8, <2>1 DEF ChunksInOrder, End
<1>17. CloseBinds(w)
  BY <1>2, <1>9, <1>12 DEF CloseBinds, a, z
<1>18. s # <<>>
  BY DEF s
<1>19. CaptureHolds(w)
  BY <1>2, <1>13, <1>14, <1>15, <1>16, <1>17, <1>18 DEF CaptureHolds
<1>20. w.response.at <= Head(w.body.chunks).at
  <2>1. seen[x].response < s[1].at /\ s[1].at \in Nat
    BY <1>4, <1>5, <1>8
  <2>2. seen[x].response <= s[1].at
    BY <1>3, <2>1
  <2> QED BY <1>2, <1>9, <2>2
<1>21. Last(Parsed(w.body.chunks)).at < w.close.at
  <2>1. P = Parsed(w.body.chunks)
    BY <1>2 DEF P
  <2>2. Len(P) \in 1..Len(P)
    <3>1. Len(P) \in Nat /\ Len(P) # 0
      BY <1>4, <1>7, LenProperties, EmptySeq
    <3> QED BY <3>1
  <2> QED BY <1>2, <1>6, <2>1, <2>2 DEF Last
<1>22. Replays(w, l)
  BY <1>2, <1>7, <1>20, <1>21 DEF Replays
<1> QED BY <1>19, <1>22 DEF w, l

\* A capture none of whose files is confused is read back as it was put together.
LEMMA ReadBack ==
  ASSUME CaptureInv, capture # NoCapture, swapped = {} PROVE RawHolds /\ DerivedHold
<1>1. PICK made \in BOOLEAN : capture = Assembled(sources, made)
  BY DEF CaptureInv
<1>2. CaptureHolds(capture.wire) /\ Replays(capture.wire, capture.logs)
  BY DEF CaptureInv
<1> DEFINE w == capture.wire
           l == capture.logs
<1>3. w.id = Request
  BY <1>1, AssembledIs
<1>4. w = [id |-> w.id, request |-> w.request, response |-> w.response, body |-> w.body,
           close |-> w.close, exchange |-> w.exchange]
  BY <1>1 DEF Assembled
<1>5. capture = [wire |-> w, logs |-> l]
  BY <1>1 DEF Assembled
<1>6. \A f : File(f) = Payload(f, capture)
  BY DEF File
<1>7. \A f : Payload(f, capture).wire = w /\ Payload(f, capture).content = Content(f, capture)
  BY DEF Payload
<1>8. /\ Content("request_body", capture) = w.request /\ Content("request_headers", capture) = w.request
      /\ Content("response_headers", capture) = w.response
      /\ Content("raw_response_body", capture) = [body |-> w.body, close |-> w.close]
      /\ Content("http_exchange", capture) = w.exchange /\ Content("server_logs", capture) = l
  BY DEF Content
<1> HIDE DEF w, l
<1>9. Rebuilt = [wire |-> [id |-> w.id, request |-> w.request, response |-> w.response, body |-> w.body,
                           close |-> w.close, exchange |-> w.exchange], logs |-> l]
  BY <1>6, <1>7, <1>8 DEF Rebuilt
<1>10. Rebuilt = capture
  BY <1>4, <1>5, <1>9
<1>11. Rebuilt.wire = w /\ Rebuilt.logs = l
  BY <1>5, <1>10
<1>12. \A f : File(f).wire = w
  BY <1>6, <1>7
<1>13. RawHolds
  <2>1. File("request_headers").content = Rebuilt.wire.request
    BY <1>6, <1>7, <1>8, <1>11
  <2>2. CaptureHolds(Rebuilt.wire) /\ Replays(Rebuilt.wire, Rebuilt.logs)
    BY <1>2, <1>10
  <2> QED BY <1>3, <1>11, <1>12, <2>1, <2>2 DEF RawHolds
<1>14. DerivedHold
  BY <1>6, <1>10 DEF DerivedHold
<1> QED BY <1>13, <1>14

LEMMA AssembleRefuses ==
  ASSUME Assemble, verdict' = "refused"
  PROVE  /\ UNCHANGED <<ids, swapped, lapses>> /\ \A x \in Exchanges : state[x] = "closed"
         /\ \E made \in BOOLEAN :
              /\ sources' \in [Parts -> Exchanges] /\ \A part \in Parts : seen[sources'[part]].chunks # <<>>
              /\ ~(/\ CaptureHolds(Assembled(sources', made).wire)
                   /\ Replays(Assembled(sources', made).wire, Assembled(sources', made).logs))
<1>1. PICK from \in [Parts -> Exchanges], made \in BOOLEAN :
       LET new == Assembled(from, made)
       IN /\ \A part \in Parts : seen[from[part]].chunks # <<>>
          /\ sources' = from
          /\ IF CaptureHolds(new.wire) /\ Replays(new.wire, new.logs)
               THEN capture' = new /\ UNCHANGED verdict
               ELSE verdict' = "refused" /\ UNCHANGED capture
  BY DEF Assemble
<1> DEFINE new == Assembled(from, made)
<1>2. verdict = "none" /\ (\A x \in Exchanges : state[x] = "closed") /\ UNCHANGED <<exchangeVars, swapped>>
  BY DEF Assemble
<1>3. sources' = from /\ \A part \in Parts : seen[from[part]].chunks # <<>>
  BY <1>1
<1>4. ~(CaptureHolds(new.wire) /\ Replays(new.wire, new.logs))
  <2> HIDE DEF new
  <2>1. IF CaptureHolds(new.wire) /\ Replays(new.wire, new.logs)
          THEN capture' = new /\ UNCHANGED verdict
          ELSE verdict' = "refused" /\ UNCHANGED capture
    BY <1>1 DEF new
  <2> QED BY <1>2, <2>1
<1> QED BY <1>2, <1>3, <1>4 DEF exchangeVars

LEMMA StepAccepted ==
  ASSUME TypeOK, TimeInv, CaptureInv, CutsInv, HonestInv, HonestIsAccepted, [Next]_vars
  PROVE  HonestIsAccepted'
<1> SUFFICES ASSUME verdict' = "refused", lapses' = 0, swapped' = {},
                    \A part \in Parts : sources'[part] = sources'["body"] /\ ids'[sources'[part]] = Request'
             PROVE  FALSE
  <2>1. lapses' \in Nat
    BY StepType, Constants DEF TypeOK
  <2> QED BY <2>1 DEF HonestIsAccepted
<1>0. lapses \in Nat
  BY Constants DEF TypeOK
<1>1. ASSUME UNCHANGED <<ids, sources, swapped, verdict>>, lapses = 0 PROVE FALSE
  BY <1>1 DEF HonestIsAccepted, Request
<1>2. ASSUME NEW x \in Exchanges, Observes(x) PROVE FALSE
  <2>1. UNCHANGED <<ids, sources, swapped, verdict>>
    BY <1>2, OthersUntouched
  <2>2. lapses' = lapses \/ lapses' = lapses + 1
    BY <1>2 DEF Observes, Send, Head_, Read, Close
  <2> QED BY <1>0, <1>1, <2>1, <2>2
<1>3. CASE Assemble
  <2>1. UNCHANGED <<ids, swapped, lapses>> /\ \A x \in Exchanges : state[x] = "closed"
    BY <1>3, AssembleRefuses
  <2>2. PICK made \in BOOLEAN :
          /\ sources' \in [Parts -> Exchanges] /\ \A part \in Parts : seen[sources'[part]].chunks # <<>>
          /\ ~(/\ CaptureHolds(Assembled(sources', made).wire)
               /\ Replays(Assembled(sources', made).wire, Assembled(sources', made).logs))
    BY <1>3, AssembleRefuses
  <2>3. PICK from : from = sources'
    OBVIOUS
  <2> DEFINE x == from["body"]
  <2>4. x \in Exchanges /\ seen[x].chunks # <<>>
    BY <2>2, <2>3 DEF Parts
  <2>5. /\ \A part \in Parts : from[part] = x /\ ids[x] = Request
    <3>1. "body" \in Parts
      BY DEF Parts
    <3>2. \A part \in Parts : sources'[part] = sources'["body"] /\ ids[sources'[part]] = Request
      BY <2>1 DEF Request
    <3> QED BY <2>3, <3>1, <3>2
  <2>6. ids[x] = Request
    BY <2>5 DEF Parts
  <2>7. FramesFaithful(x) /\ ChunksFaithful(x)
    BY <2>1, <2>4 DEF HonestInv
  <2> HIDE DEF x
  <2>8. /\ CaptureHolds(Assembled(from, made).wire)
        /\ Replays(Assembled(from, made).wire, Assembled(from, made).logs)
    BY <2>1, <2>4, <2>5, <2>6, <2>7, HonestHolds
  <2> QED BY <2>2, <2>3, <2>8
<1>4. CASE Reconstruct
  <2>1. capture # NoCapture /\ ~(RawHolds /\ DerivedHold) /\ swapped = {}
    BY <1>4 DEF Reconstruct
  <2> QED BY <2>1, ReadBack
<1>5. ASSUME NEW field \in Fields, Swap(field) PROVE FALSE
  BY <1>5 DEF Swap
<1>6. CASE UNCHANGED vars
  BY <1>1, <1>6 DEF vars, exchangeVars, captureVars
<1> QED BY <1>2, <1>3, <1>4, <1>5, <1>6 DEF Next, Observes

\* What is known of an exchange without a lapse.
ObservedInv == CutsInv /\ HonestInv /\ HonestIsAccepted

\* What was observed without a lapse is what the server sent, each frame at a time of its
\* own, and only what was not observed so, or not stored so, is refused.
LEMMA Observation == Spec => []ObservedInv
<1>1. Init => ObservedInv
  <2>1. Init => HonestIsAccepted
    BY DEF Init, HonestIsAccepted
  <2> QED BY <2>1, InitHonest DEF ObservedInv
<1>2. IInv /\ ObservedInv /\ [Next]_vars => ObservedInv'
  BY StepCuts, StepHonest, StepAccepted DEF IInv, ObservedInv
<1> QED BY Invariant, <1>1, <1>2, PTL DEF Spec

\* As long as the end of a stream has not arrived, none of what was seen is [DONE].
Unfinished == [frame : Frames \ {Done}, at : Nat]
OpenInv == \A x \in Exchanges :
             arrived[x] # Len(stream[x]) => Parsed(seen[x].chunks) \in Seq(Unfinished)

LEMMA ReadOpen ==
  ASSUME TypeOK, CutsInv, OpenInv, NEW x \in Exchanges, Read(x), arrived'[x] # Len(stream'[x])
  PROVE  Parsed(seen'[x].chunks) \in Seq(Unfinished)
<1>1. PICK k \in Nat, c \in Cuts :
        /\ k >= 1 /\ Len(c.frames) = k /\ arrived'[x] = arrived[x] + k
        /\ \A i \in 1..k : c.frames[i] = stream[x][arrived[x] + i]
        /\ seen'[x].chunks \in {seen[x].chunks, Append(seen[x].chunks, c),
                                Append(Append(seen[x].chunks, c), c)}
  BY ReadCuts
<1>2. /\ stream' = stream /\ seen[x].chunks \in Seq(Cuts)
      /\ arrived[x] \in Nat /\ arrived[x] <= Len(stream[x]) /\ stream[x] \in Streams
  BY DEF Read, Keep, CutsInv, TypeOK
<1>3. /\ Len(stream[x]) \in Nat
      /\ \A i \in 1..Len(stream[x]) : stream[x][i] = Done <=> i = Len(stream[x])
  BY <1>2, Constants
<1>4. arrived[x] + k < Len(stream[x])
  <2>1. arrived[x] + k <= Len(stream[x])
    <3>1. PICK l \in 1..(Len(stream[x]) - arrived[x]) : arrived' = [arrived EXCEPT ![x] = @ + l]
      BY DEF Read
    <3>2. arrived'[x] = arrived[x] + l
      BY <3>1 DEF TypeOK
    <3> QED BY <1>1, <1>2, <1>3, <3>2
  <2> QED BY <1>1, <1>2, <1>3, <2>1
<1>5. Parsed(seen[x].chunks) \in Seq(Unfinished)
  BY <1>1, <1>2, <1>3, <1>4 DEF OpenInv
<1>6. Pairs(c) \in Seq(Unfinished)
  <2>1. /\ Pairs(c) \in Seq(Timed) /\ Len(Pairs(c)) = k
        /\ \A i \in 1..k : Pairs(c)[i].frame = c.frames[i]
    BY <1>1, PairsAre
  <2>2. ASSUME NEW i \in 1..k PROVE Pairs(c)[i] \in Unfinished
    <3>1. arrived[x] + i \in 1..Len(stream[x]) /\ arrived[x] + i # Len(stream[x])
      BY <1>1, <1>2, <1>3, <1>4
    <3>2. Pairs(c)[i].frame # Done
      BY <1>1, <1>3, <2>1, <3>1
    <3>3. Pairs(c)[i] \in Timed
      BY <2>1, ElementOfSeq
    <3> QED BY <3>2, <3>3 DEF Timed, Unfinished
  <2> DEFINE q == Pairs(c)
  <2>3. q \in Seq(Timed) /\ Len(q) = k /\ \A i \in 1..k : q[i] \in Unfinished
    BY <2>1, <2>2
  <2> HIDE DEF q
  <2>4. q \in Seq(Unfinished)
    BY <2>3, <1>1
  <2> QED BY <2>4 DEF q
<1> DEFINE P == Parsed(seen[x].chunks)
           r == Append(seen[x].chunks, c)
<1>7. Parsed(r) = P \o Pairs(c) /\ Parsed(Append(r, c)) = (P \o Pairs(c)) \o Pairs(c)
  <2>1. Parsed(r) = P \o Pairs(c)
    BY <1>2, ParsedAppend
  <2>2. r \in Seq(Cuts)
    BY <1>2
  <2> HIDE DEF r
  <2>3. Parsed(Append(r, c)) = Parsed(r) \o Pairs(c)
    BY <2>2, ParsedAppend
  <2> QED BY <2>1, <2>3
<1>8. P \o Pairs(c) \in Seq(Unfinished) /\ (P \o Pairs(c)) \o Pairs(c) \in Seq(Unfinished)
  <2> DEFINE q == Pairs(c)
  <2>1. P \in Seq(Unfinished) /\ q \in Seq(Unfinished)
    BY <1>5, <1>6
  <2> HIDE DEF P, q
  <2>2. P \o q \in Seq(Unfinished) /\ (P \o q) \o q \in Seq(Unfinished)
    BY <2>1
  <2> QED BY <2>2 DEF q
<1>9. seen'[x].chunks = seen[x].chunks \/ seen'[x].chunks = r \/ seen'[x].chunks = Append(r, c)
  BY <1>1
<1> HIDE DEF r, P
<1> QED BY <1>5, <1>7, <1>8, <1>9 DEF P

LEMMA StepOpen ==
  ASSUME TypeOK, CutsInv, OpenInv, [Next]_vars PROVE OpenInv'
<1>1. ASSUME NEW x \in Exchanges, Observes(x) PROVE OpenInv'
  <2>1. \A y \in Exchanges \ {x} : seen'[y] = seen[y] /\ arrived'[y] = arrived[y]
    <3>1. \A y \in Exchanges \ {x} : seen'[y] = seen[y]
      BY <1>1, OthersUntouched
    <3> QED BY <1>1, <3>1 DEF Observes, Send, Head_, Read, Close, TypeOK
  <2>2. stream' = stream
    BY <1>1 DEF Observes, Send, Head_, Read, Close, Keep
  <2>3. arrived'[x] # Len(stream'[x]) => Parsed(seen'[x].chunks) \in Seq(Unfinished)
    <3>1. CASE Read(x)
      BY <3>1, ReadOpen
    <3>2. CASE Send(x) \/ Head_(x) \/ Close(x)
      <4>1. seen'[x].chunks = seen[x].chunks
        BY <3>2, SendSees, HeadSees, CloseSees
      <4>2. arrived' = arrived
        BY <3>2 DEF Send, Head_, Close
      <4> QED BY <2>2, <4>1, <4>2 DEF OpenInv
    <3> QED BY <1>1, <3>1, <3>2 DEF Observes
  <2>4. \A y \in Exchanges : arrived'[y] # Len(stream'[y]) => Parsed(seen'[y].chunks) \in Seq(Unfinished)
    BY <2>1, <2>2, <2>3 DEF OpenInv
  <2> QED BY <2>4 DEF OpenInv
<1>2. CASE UNCHANGED <<stream, arrived, seen>>
  BY <1>2 DEF OpenInv
<1>3. Assemble \/ Reconstruct \/ (\E field \in Fields : Swap(field)) \/ UNCHANGED vars
        => UNCHANGED <<stream, arrived, seen>>
  BY DEF Assemble, Reconstruct, Swap, vars, exchangeVars
<1> QED BY <1>1, <1>2, <1>3 DEF Next, Observes

\* A connection that broke is not taken for the end of a stream: whatever was lost or
\* repeated, an accepted body has a [DONE], and the server sends none before its end
\* (Stage2StreamValidator, reached by replay_stage2_wire_capture).
THEOREM NoneBroken == Spec => []BrokenIsRefused
<1>1. Init => OpenInv
  <2>1. Init => \A x \in Exchanges : seen[x].chunks = <<>>
    BY DEF Init, Unseen
  <2>2. Parsed(<<>>) \in Seq(Unfinished)
    <3>1. \A T : <<>> \in Seq(T)
      OBVIOUS
    <3>2. <<>> \in Seq(Unfinished)
      BY <3>1
    <3>3. Parsed(<<>>) = <<>>
      BY ParsedNone
    <3> QED BY <3>2, <3>3
  <2>3. ASSUME Init, NEW x \in Exchanges PROVE Parsed(seen[x].chunks) \in Seq(Unfinished)
    <3>1. seen[x].chunks = <<>>
      BY <2>1, <2>3
    <3> QED BY <2>2, <3>1
  <2> QED BY <2>3 DEF OpenInv
<1>2. IInv /\ ObservedInv /\ OpenInv /\ [Next]_vars => OpenInv'
  BY StepOpen DEF IInv, ObservedInv
<1>3. IInv /\ ObservedInv /\ OpenInv => BrokenIsRefused
  <2> SUFFICES ASSUME IInv, ObservedInv, OpenInv, verdict = "accepted",
                      arrived[sources["body"]] # Len(stream[sources["body"]])
               PROVE  FALSE
    BY DEF BrokenIsRefused
  <2>1. TypeOK /\ CaptureInv /\ CutsInv /\ capture # NoCapture
    BY DEF IInv, ObservedInv, CaptureInv
  <2>2. sources \in [Parts -> Exchanges] /\ Replays(capture.wire, capture.logs)
    BY <2>1 DEF CaptureInv
  <2>3. PICK made \in BOOLEAN : capture = Assembled(sources, made)
    BY <2>1 DEF CaptureInv
  <2> DEFINE x == sources["body"]
             s == seen[x].chunks
             E == Events(s)
             P == Parsed(s)
  <2>4. x \in Exchanges
    BY <2>2 DEF Parts
  <2>5. capture.wire.body.chunks = s
    <3>1. capture.wire.body = BodyOf(x)
      BY <2>3, AssembledIs
    <3> QED BY <3>1 DEF BodyOf
  <2>6. s \in Seq(Cuts) /\ Whole(E)
    BY <2>1, <2>2, <2>4, <2>5 DEF CutsInv, Replays
  <2>7. P \in Seq(Unfinished) /\ E = Select(P, Informative)
    BY <2>4 DEF OpenInv, Events, Informative
  <2> HIDE DEF P, E
  <2>8. E \in Seq(Informative \cap Unfinished)
    BY <2>7, SelectType
  <2>9. Len(E) \in Nat /\ DOMAIN E = 1..Len(E) /\ \A i \in 1..Len(E) : E[i].frame # Done
    <3>1. \A i \in 1..Len(E) : E[i] \in Unfinished
      BY <2>8, ElementOfSeq
    <3> QED BY <2>8, <3>1, LenProperties DEF Unfinished
  <2>10. FramesOf(E) = [i \in 1..Len(E) |-> E[i].frame] /\ Len(FramesOf(E)) = Len(E)
    BY <2>9 DEF FramesOf
  <2>11. Len(E) >= 3 /\ FramesOf(E)[Len(E)] = Done
    <3>1. FramesFit(FramesOf(E))
      BY <2>6 DEF Whole
    <3> QED BY <2>10, <3>1, FitEnds
  <2> QED BY <2>9, <2>10, <2>11
<1> QED BY Invariant, Observation, <1>1, <1>2, <1>3, PTL DEF Spec

\* An exchange that was observed whole, and stored as it was observed, is accepted
\* however its frames were cut into chunks (reconstruct_request_from_raw_evidence).
THEOREM HonestAccepted == Spec => []HonestIsAccepted
<1>1. ObservedInv => HonestIsAccepted
  BY DEF ObservedInv
<1> QED BY Observation, <1>1, PTL
=============================================================================
