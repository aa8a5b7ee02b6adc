------------------------ MODULE StreamValidator_proof ------------------------
(***************************************************************************)
(* Proofs about StreamValidator, for any set of streams, any number of     *)
(* output tokens, any buffer and any clock.                                *)
(***************************************************************************)
EXTENDS StreamValidator, Selection_proof

\* What a frame before the end of the generation may be.
Leads(f) == f.kind = "comment" \/ (f.kind = "choice" /\ ~f.last)

Taken == 1..Len(parsed)

EndsGeneration(g) ==
  /\ g \in Taken /\ script[g].kind = "choice" /\ script[g].last
  /\ \A i \in Taken : i < g => Leads(script[i])

\* The terminals are set in order, and the frames taken are what set them.
OrderInv ==
  /\ usage # 0 => generation # 0 /\ generation < usage
  /\ protocol # 0 => usage # 0 /\ usage < protocol
  /\ status \in {"headers", "body"} => transport = 0

ShapeInv ==
  /\ generation = 0 => \A i \in Taken : Leads(script[i])
  /\ generation # 0 /\ usage = 0 =>
       \E g \in Taken : EndsGeneration(g)
         /\ \A i \in Taken : i > g => script[i].kind = "comment"
  /\ usage # 0 =>
       \E g, u \in Taken : EndsGeneration(g) /\ g < u /\ script[u].kind = "usage"
         /\ (protocol # 0 => u < Len(parsed) /\ script[Len(parsed)].kind = "done")
         /\ \A i \in Taken : i > g /\ i # u /\ (protocol # 0 => i # Len(parsed))
              => script[i].kind = "comment"

\* The frames taken have times, and a read that is over has been taken whole.
ReadInv ==
  /\ \A i \in Taken : parsed[i] <= last
  /\ \A i, j \in Taken : i <= j => parsed[i] <= parsed[j]
  /\ ~feeding => Len(parsed) = read /\ listed = read

EvidenceInv ==
  status = "evidence" => ~tail /\ protocol # 0 /\ ~feeding

IInv == TypeOK /\ OrderInv /\ (status # "refused" => ShapeInv /\ ReadInv) /\ EvidenceInv

LEMMA Typed ==
  ASSUME [script |-> script, clock |-> clock] \in Streams
  PROVE  script \in Seq(Frames) /\ Len(script) \in Nat
  BY StreamAssumption DEF StreamAssumption

LEMMA InitIInv == Init => IInv
<1> SUFFICES ASSUME Init PROVE IInv
  OBVIOUS
<1>1. TypeOK
  <2>0. [script |-> script, clock |-> clock] \in Streams /\ chain \in BOOLEAN
    <3>1. PICK s \in Streams : script = s.script /\ clock = s.clock BY DEF Init
    <3>2. s = [script |-> s.script, clock |-> s.clock] BY StreamAssumption DEF StreamAssumption
    <3> QED BY <3>1, <3>2 DEF Init
  <2>1. Len(script) \in Nat /\ MaxOutput \in Nat /\ MaxOffset \in Nat \ {0}
    BY <2>0, Typed, StreamAssumption DEF StreamAssumption, Init
  <2>2. parsed \in Seq(Nat) /\ Len(parsed) = 0 BY DEF Init
  <2>3. read \in 0..Len(script) /\ Len(parsed) <= read BY <2>1, <2>2 DEF Init
  <2>4. last \in 1..MaxOffset BY <2>1 DEF Init
  <2>5. outputs \in 0..MaxOutput /\ bearer \in 0..events BY <2>1 DEF Init
  <2>7. tail \in BOOLEAN /\ feeding \in BOOLEAN /\ fresh \in BOOLEAN /\ exact \in BOOLEAN BY DEF Init
  <2>8. listed \in Nat /\ prompt \in Prompts /\ events \in Nat /\ generation \in Nat /\ usage \in Nat
        /\ protocol \in Nat /\ transport \in Nat /\ status \in {"headers", "body", "refused", "evidence"}
    BY DEF Init, Prompts
  <2> QED BY <2>0, <2>2, <2>3, <2>4, <2>5, <2>7, <2>8 DEF TypeOK
<1>2. OrderInv /\ ShapeInv /\ ReadInv /\ EvidenceInv
  BY DEF Init, OrderInv, ShapeInv, ReadInv, EvidenceInv, Taken
<1> QED BY <1>1, <1>2 DEF IInv

-----------------------------------------------------------------------------
(* One step at a time                                                       *)

LEMMA HeadersStep == ASSUME IInv, AcceptResponseHeaders PROVE IInv'
<1>1. /\ last' \in 1..MaxOffset /\ last' >= last /\ status' \in {"body", "refused"}
      /\ UNCHANGED <<wireVars, readVars, feeding, fresh, parsed, tokenVars,
                     generation, usage, protocol, transport>>
  BY StreamAssumption DEF StreamAssumption, AcceptResponseHeaders, IInv, TypeOK, Offsets
<1>2. TypeOK' BY <1>1 DEF IInv, TypeOK, wireVars, readVars, tokenVars
<1>3. OrderInv' /\ EvidenceInv' BY <1>1 DEF AcceptResponseHeaders, IInv, OrderInv, EvidenceInv
<1>4. ShapeInv'
  BY <1>1 DEF AcceptResponseHeaders, IInv, ShapeInv, Taken, EndsGeneration, Leads, wireVars
<1>5. ReadInv'
  BY <1>1 DEF AcceptResponseHeaders, IInv, TypeOK, ReadInv, Taken, readVars
<1> QED BY <1>2, <1>3, <1>4, <1>5 DEF IInv

LEMMA FeedStep == ASSUME IInv, Feed PROVE IInv'
<1>1. TypeOK'
  <2>1. Len(script) \in Nat /\ MaxOffset \in Nat BY Typed, StreamAssumption DEF IInv, TypeOK, StreamAssumption
  <2>2. read' \in read..Len(script) /\ listed' \in Nat /\ status' \in {"body", "refused"}
    BY <2>1 DEF Feed, IInv, TypeOK
  <2>3. last' \in 1..MaxOffset BY <2>1 DEF Feed, IInv, TypeOK, Offsets
  <2>4. exact' \in BOOLEAN BY DEF Feed
  <2>5. tail' \in BOOLEAN BY DEF Feed
  <2>6. UNCHANGED <<wireVars, parsed, tokenVars, generation, usage, protocol, transport>>
        /\ feeding' = TRUE /\ fresh' = TRUE
    BY DEF Feed
  <2> QED BY <2>1, <2>2, <2>3, <2>4, <2>5, <2>6 DEF IInv, TypeOK, wireVars, tokenVars
<1>2. OrderInv' BY DEF Feed, IInv, OrderInv, tokenVars
<1>3. status' # "refused" => ShapeInv'
  BY SMTT(30) DEF Feed, IInv, ShapeInv, Taken, EndsGeneration, Leads, wireVars
<1>4. status' # "refused" => ReadInv'
  <2>1. last \in Nat /\ last' >= last BY <1>1 DEF Feed, IInv, TypeOK
  <2> QED BY SMTT(30), <2>1, <1>1 DEF Feed, IInv, TypeOK, ReadInv, Taken
<1>5. EvidenceInv' BY DEF Feed, EvidenceInv
<1> QED BY <1>1, <1>2, <1>3, <1>4, <1>5 DEF IInv

LEMMA LoseStep == ASSUME IInv, LoseFrame PROVE IInv'
  BY DEF LoseFrame, IInv, TypeOK, OrderInv, EvidenceInv, wireVars, readVars, tokenVars

LEMMA EndFeedStep == ASSUME IInv, EndFeed PROVE IInv'
<1>1. TypeOK' BY DEF EndFeed, IInv, TypeOK, wireVars, readVars, tokenVars
<1>2. OrderInv' /\ EvidenceInv' BY DEF EndFeed, IInv, OrderInv, EvidenceInv
<1>3. status' # "refused" => ShapeInv'
  BY DEF EndFeed, IInv, ShapeInv, Taken, EndsGeneration, Leads, wireVars
<1>4. status' # "refused" => ReadInv'
  BY DEF EndFeed, IInv, ReadInv, Taken, readVars
<1> QED BY <1>1, <1>2, <1>3, <1>4 DEF IInv

LEMMA CloseStep == ASSUME IInv, CloseTransport PROVE IInv'
<1>1. TypeOK' BY StreamAssumption DEF StreamAssumption, CloseTransport, IInv, TypeOK, Offsets, wireVars, readVars, tokenVars
<1>2. OrderInv' BY DEF CloseTransport, IInv, OrderInv
<1>3. status' # "refused" => ShapeInv'
  BY DEF CloseTransport, IInv, ShapeInv, Taken, EndsGeneration, Leads, wireVars
<1>4. status' # "refused" => ReadInv'
  <2>1. last \in Nat /\ last' \in Nat /\ last' >= last BY SMTT(30), <1>1 DEF CloseTransport, IInv, TypeOK
  <2> QED BY <2>1, <1>1 DEF CloseTransport, IInv, TypeOK, ReadInv, Taken, readVars
<1>5. EvidenceInv' BY DEF CloseTransport, EvidenceInv, Ended, readVars
<1> QED BY <1>1, <1>2, <1>3, <1>4, <1>5 DEF IInv

-----------------------------------------------------------------------------
(* One frame                                                                *)

\* What every frame does to what has been parsed.
LEMMA Retained ==
  ASSUME IInv, NEW t \in 1..MaxOffset, Retain(t)
  PROVE  /\ t \in Nat \ {0} /\ Frame \in Frames /\ Frame = script[Len(parsed) + 1]
         /\ Len(parsed) \in Nat /\ Len(parsed') = Len(parsed) + 1
         /\ Taken' = 1..(Len(parsed) + 1) /\ Taken = 1..Len(parsed)
         /\ script' = script
         /\ ReadInv'
         /\ last' \in 1..MaxOffset /\ parsed' \in Seq(Nat) /\ Len(parsed') <= read
<1>1. parsed \in Seq(Nat) /\ Len(parsed) \in Nat /\ read \in Nat /\ Len(parsed) < read
      /\ read <= Len(script) /\ t \in Nat \ {0} /\ last \in Nat /\ t >= last
  BY Typed, StreamAssumption DEF StreamAssumption, Retain, IInv, TypeOK
<1>2. Frame \in Frames
  BY <1>1, Typed DEF Frame, IInv, TypeOK
<1>3. /\ parsed' \in Seq(Nat) /\ Len(parsed') = Len(parsed) + 1 /\ parsed'[Len(parsed) + 1] = t
      /\ \A i \in 1..Len(parsed) : parsed'[i] = parsed[i]
  BY <1>1 DEF Retain
<1>4. Taken' = 1..(Len(parsed) + 1) /\ Taken = 1..Len(parsed) BY <1>3 DEF Taken
<1>5. ReadInv'
  <2>1. ReadInv BY DEF Retain, IInv
  <2>2. \A i \in 1..Len(parsed) : parsed[i] \in Nat /\ parsed[i] <= t
    BY <1>1, <2>1 DEF ReadInv, Taken
  <2>3. \A i \in Taken' : parsed'[i] \in Nat /\ parsed'[i] <= last'
    BY <1>1, <1>3, <1>4, <2>2 DEF Retain
  <2>4. ASSUME NEW i \in Taken', NEW j \in Taken', i <= j PROVE parsed'[i] <= parsed'[j]
    <3>1. CASE j = Len(parsed) + 1 BY <1>3, <2>3, <3>1 DEF Retain
    <3>2. CASE j # Len(parsed) + 1
      <4>1. i \in 1..Len(parsed) /\ j \in 1..Len(parsed) BY <1>1, <1>4, <2>4, <3>2
      <4> QED BY <1>3, <2>1, <2>4, <4>1 DEF ReadInv, Taken
    <3> QED BY <3>1, <3>2
  <2>5. feeding' BY DEF Retain
  <2> QED BY <2>3, <2>4, <2>5 DEF ReadInv
<1>6. last' \in 1..MaxOffset /\ script' = script BY DEF Retain, wireVars
<1> QED BY <1>1, <1>2, <1>3, <1>4, <1>5, <1>6 DEF Frame

\* A frame that is refused leaves the invariant nothing to say of the stream.
LEMMA RefuseStep == ASSUME IInv, NEW t \in 1..MaxOffset, RefuseFrame(t) PROVE IInv'
<1>1. TypeOK'
  BY Retained DEF RefuseFrame, Retain, IInv, TypeOK, wireVars, readVars, tokenVars
<1> QED BY <1>1 DEF RefuseFrame, Retain, IInv, OrderInv, EvidenceInv

LEMMA CommentStep == ASSUME IInv, NEW t \in 1..MaxOffset, TakeComment(t) PROVE IInv'
<1>1. Retain(t) /\ Frame.kind = "comment" /\ protocol = 0 /\ status = "body" /\ status' = "body"
      /\ UNCHANGED <<generation, usage, protocol, transport>>
  BY DEF TakeComment, Retain, Fits, Reopened
<1>2. TypeOK'
  BY <1>1, Retained DEF TakeComment, Retain, IInv, TypeOK, wireVars, readVars, tokenVars
<1>3. OrderInv' /\ EvidenceInv' BY <1>1 DEF IInv, OrderInv, EvidenceInv
<1>4. ShapeInv'
  <2>0. /\ Len(parsed) \in Nat /\ script' = script
        /\ Taken' = 1..(Len(parsed) + 1) /\ Taken = 1..Len(parsed)
    BY <1>1, Retained
  <2>1. script'[Len(parsed) + 1].kind = "comment" BY <1>1, Retained
  <2>2. CASE generation = 0
    <3>1. usage = 0 /\ \A i \in Taken : Leads(script[i]) BY <1>1, <2>2 DEF IInv, OrderInv, ShapeInv
    <3>2. \A i \in Taken' : Leads(script'[i]) BY <2>0, <2>1, <3>1 DEF Leads
    <3> QED BY <1>1, <2>2, <3>1, <3>2 DEF ShapeInv, Leads
  <2>3. CASE generation # 0 /\ usage = 0
    <3>1. PICK g \in Taken : EndsGeneration(g) /\ \A i \in Taken : i > g => script[i].kind = "comment"
      BY <1>1, <2>3 DEF IInv, ShapeInv
    <3>2. g \in Taken' /\ EndsGeneration(g)' BY <2>0, <3>1 DEF EndsGeneration, Leads
    <3>3. \A i \in Taken' : i > g => script'[i].kind = "comment" BY <2>0, <2>1, <3>1
    <3> QED BY <1>1, <2>3, <3>2, <3>3 DEF ShapeInv
  <2>4. CASE generation # 0 /\ usage # 0
    <3>1. PICK g, u \in Taken : /\ EndsGeneration(g) /\ g < u /\ script[u].kind = "usage"
                                /\ \A i \in Taken : i > g /\ i # u => script[i].kind = "comment"
      BY <1>1, <2>4 DEF IInv, ShapeInv
    <3>2. g \in Taken' /\ u \in Taken' /\ EndsGeneration(g)' /\ script'[u].kind = "usage"
      BY <2>0, <3>1 DEF EndsGeneration, Leads
    <3>3. \A i \in Taken' : i > g /\ i # u => script'[i].kind = "comment" BY <2>0, <2>1, <3>1
    <3> QED BY <1>1, <2>4, <3>1, <3>2, <3>3 DEF ShapeInv
  <2> QED BY <1>1, <2>2, <2>3, <2>4 DEF IInv, OrderInv
<1> QED BY <1>1, <1>2, <1>3, <1>4, Retained DEF IInv

LEMMA DoneStep == ASSUME IInv, NEW t \in 1..MaxOffset, TakeDone(t) PROVE IInv'
<1>1. /\ Retain(t) /\ Frame.kind = "done" /\ protocol = 0 /\ status = "body" /\ status' = "body"
      /\ usage # 0 /\ t > usage /\ protocol' = t
      /\ UNCHANGED <<generation, usage, transport>>
  BY DEF TakeDone, Retain, Fits, Reopened, DoneFits
<1>2. TypeOK'
  BY <1>1, Retained DEF TakeDone, Retain, IInv, TypeOK, wireVars, readVars, tokenVars
<1>3. OrderInv' /\ EvidenceInv' BY <1>1 DEF IInv, OrderInv, EvidenceInv
<1>4. ShapeInv'
  <2>1. PICK g, u \in Taken : /\ EndsGeneration(g) /\ g < u /\ script[u].kind = "usage"
                              /\ \A i \in Taken : i > g /\ i # u => script[i].kind = "comment"
    BY <1>1 DEF IInv, ShapeInv
  <2>2. g \in Taken' /\ u \in Taken' /\ EndsGeneration(g)' /\ u < Len(parsed')
        /\ script'[u].kind = "usage"
    BY SMTT(30), <2>1, <1>1, Retained DEF EndsGeneration, Leads
  <2>3. script'[Len(parsed')].kind = "done" BY <1>1, Retained
  <2>4. \A i \in Taken' : i > g /\ i # u /\ i # Len(parsed') => script'[i].kind = "comment"
    BY SMTT(30), <2>1, <1>1, Retained
  <2>5. generation' # 0 /\ usage' # 0 BY <1>1 DEF IInv, OrderInv
  <2>6. EndsGeneration(g)' /\ g < u /\ script'[u].kind = "usage"
        /\ u < Len(parsed') /\ script'[Len(parsed')].kind = "done"
        /\ \A i \in Taken' : i > g /\ i # u /\ i # Len(parsed') => script'[i].kind = "comment"
    BY <2>1, <2>2, <2>3, <2>4
  <2>7. \E h, v \in Taken' :
          /\ EndsGeneration(h)' /\ h < v /\ script'[v].kind = "usage"
          /\ (protocol' # 0 => v < Len(parsed') /\ script'[Len(parsed')].kind = "done")
          /\ \A i \in Taken' : i > h /\ i # v /\ (protocol' # 0 => i # Len(parsed'))
               => script'[i].kind = "comment"
    <3>1. protocol' # 0 BY <1>1, Retained
    <3> QED BY <2>2, <2>6, <3>1
  <2> QED BY <2>5, <2>7 DEF ShapeInv
<1> QED BY <1>1, <1>2, <1>3, <1>4, Retained DEF IInv

LEMMA ChoiceStep == ASSUME IInv, NEW t \in 1..MaxOffset, TakeChoice(t) PROVE IInv'
<1>1. /\ Retain(t) /\ Frame.kind = "choice" /\ protocol = 0 /\ status = "body" /\ status' = "body"
      /\ generation = 0 /\ usage = 0 /\ outputs + Frame.ids <= MaxOutput
      /\ generation' = (IF Frame.last THEN t ELSE generation)
      /\ UNCHANGED <<usage, protocol, transport>>
  BY DEF TakeChoice, Retain, Fits, Reopened, ChoiceFits
<1>2. TypeOK'
  <2>1. Frame.ids \in Nat /\ Frame.prompt \in Prompts /\ MaxOutput \in Nat
    BY <1>1, Retained, StreamAssumption DEF Frames, StreamAssumption
  <2>2. outputs' \in 0..MaxOutput BY <2>1, <1>1 DEF TakeChoice, IInv, TypeOK
  <2>3. prompt' \in Prompts /\ events' \in Nat /\ bearer' \in 0..events'
    BY <2>1 DEF TakeChoice, IInv, TypeOK
  <2>4. generation' \in Nat BY <1>1, Retained DEF IInv, TypeOK
  <2> QED BY <1>1, <2>2, <2>3, <2>4, Retained DEF Retain, IInv, TypeOK, wireVars, readVars
<1>3. OrderInv' /\ EvidenceInv' BY <1>1 DEF IInv, OrderInv, EvidenceInv
<1>4. \A i \in Taken : Leads(script[i]) BY <1>1 DEF IInv, ShapeInv
<1>5. ShapeInv'
  <2>1. CASE Frame.last
    <3>0. PICK g \in Nat : g = Len(parsed) + 1 BY <1>1, Retained
    <3>1. g \in Taken' /\ script'[g].kind = "choice" /\ script'[g].last
      BY <1>1, <2>1, <3>0, Retained
    <3>2. \A i \in Taken' : (i < g => Leads(script'[i])) /\ ~(i > g)
      BY <1>1, <1>4, <3>0, Retained DEF Leads
    <3>3. EndsGeneration(g)' BY <3>1, <3>2 DEF EndsGeneration, Leads
    <3>4. generation' # 0 /\ usage' = 0 BY <1>1, <2>1, Retained
    <3> QED BY <3>1, <3>2, <3>3, <3>4 DEF ShapeInv
  <2>2. CASE ~Frame.last
    <3>1. \A i \in Taken' : Leads(script'[i]) BY <1>1, <1>4, <2>2, Retained DEF Leads
    <3> QED BY <3>1, <1>1, <2>2 DEF ShapeInv, Leads
  <2> QED BY <2>1, <2>2
<1> QED BY <1>1, <1>2, <1>3, <1>5, Retained DEF IInv

LEMMA UsageStep == ASSUME IInv, NEW t \in 1..MaxOffset, TakeUsage(t) PROVE IInv'
<1>1. /\ Retain(t) /\ Frame.kind = "usage" /\ protocol = 0 /\ status = "body" /\ status' = "body"
      /\ generation # 0 /\ usage = 0 /\ t > generation /\ usage' = t
      /\ UNCHANGED <<generation, protocol, transport>>
  BY DEF TakeUsage, Retain, Fits, Reopened, UsageFits
<1>2. TypeOK'
  BY <1>1, Retained DEF TakeUsage, Retain, IInv, TypeOK, wireVars, readVars, tokenVars
<1>3. OrderInv' /\ EvidenceInv' BY <1>1 DEF IInv, OrderInv, EvidenceInv
<1>4. ShapeInv'
  <2>1. PICK g \in Taken : EndsGeneration(g) /\ \A i \in Taken : i > g => script[i].kind = "comment"
    BY <1>1 DEF IInv, ShapeInv
  <2>2. /\ g \in Taken' /\ EndsGeneration(g)' /\ Len(parsed) + 1 \in Taken' /\ g < Len(parsed) + 1
        /\ script'[Len(parsed) + 1].kind = "usage"
    BY SMTT(30), <2>1, <1>1, Retained DEF EndsGeneration, Leads
  <2>3. \A i \in Taken' : i > g /\ i # Len(parsed) + 1 => script'[i].kind = "comment"
    BY <2>1, <1>1, Retained
  <2> QED BY <2>2, <2>3, <1>1, Retained DEF ShapeInv
<1> QED BY <1>1, <1>2, <1>3, <1>4, Retained DEF IInv

LEMMA StutterStep == ASSUME IInv, UNCHANGED vars PROVE IInv'
<1>1. TypeOK' /\ OrderInv' /\ EvidenceInv'
  BY DEF vars, wireVars, readVars, tokenVars, IInv, TypeOK, OrderInv, EvidenceInv
<1>2. (status # "refused" => ShapeInv)' BY DEF vars, wireVars, IInv, ShapeInv, Taken, EndsGeneration, Leads
<1>3. (status # "refused" => ReadInv)' BY DEF vars, readVars, IInv, ReadInv, Taken
<1> QED BY <1>1, <1>2, <1>3 DEF IInv

LEMMA Inductive == Spec => []IInv
<1>1. ASSUME IInv, [Next]_vars PROVE IInv'
  BY <1>1, HeadersStep, FeedStep, LoseStep, CommentStep, DoneStep, ChoiceStep, UsageStep, RefuseStep,
     EndFeedStep, CloseStep, StutterStep DEF Next, TakeFrame
<1> QED BY InitIInv, <1>1, PTL DEF Spec

-----------------------------------------------------------------------------
(* What follows                                                             *)

\* Every reachable state of the validator is well typed; in particular it
\* never accumulates more than MaxOutput tokens.
THEOREM TypeCorrect == Spec => []TypeOK
<1>1. IInv => TypeOK BY DEF IInv
<1> QED BY <1>1, Inductive, PTL

\* Stage2StreamValidator returns evidence only of a stream that arrived whole
\* and in order, however it was cut into reads: no frame of it was skipped.
THEOREM OrderOfEvidence == Spec => []EvidenceInOrder
<1>1. ASSUME IInv, status = "evidence"
      PROVE  /\ InOrder(Arrived) /\ ~tail
             /\ Len(parsed) = read /\ listed = read
             /\ \A i, j \in DOMAIN parsed : i <= j => parsed[i] <= parsed[j]
  <2>1. TypeOK /\ OrderInv /\ ShapeInv /\ ReadInv /\ EvidenceInv BY <1>1 DEF IInv
  <2>2. ~tail /\ protocol # 0 /\ usage # 0 /\ Len(parsed) = read /\ listed = read
    BY <1>1, <2>1 DEF OrderInv, ReadInv, EvidenceInv
  <2>3. parsed \in Seq(Nat) /\ script \in Seq(Frames) /\ read \in 0..Len(script)
    BY <2>1, Typed DEF TypeOK
  <2>4. Arrived \in Seq(Frames) /\ Len(Arrived) = read /\ DOMAIN Arrived = Taken
        /\ \A i \in Taken : Arrived[i] = script[i]
    BY <2>2, <2>3 DEF Arrived, Taken
  <2>5. PICK g, u \in Taken :
          /\ EndsGeneration(g) /\ g < u /\ script[u].kind = "usage"
          /\ u < Len(parsed) /\ script[Len(parsed)].kind = "done"
          /\ \A i \in Taken : i > g /\ i # u /\ i # Len(parsed) => script[i].kind = "comment"
    BY <2>1, <2>2 DEF ShapeInv
  <2>6. InOrder(Arrived)
    <3>1. u < Len(Arrived) /\ Len(Arrived) \in Taken BY <2>2, <2>3, <2>4, <2>5 DEF Taken
    <3>2. Arrived[g].kind = "choice" /\ Arrived[g].last /\ Arrived[u].kind = "usage"
          /\ Arrived[Len(Arrived)].kind = "done"
      BY <2>2, <2>4, <2>5, <3>1 DEF EndsGeneration
    <3>3. \A i \in Taken \ {g, u, Len(Arrived)} :
            \/ Arrived[i].kind = "comment"
            \/ i < g /\ Arrived[i].kind = "choice" /\ ~Arrived[i].last
      BY <2>2, <2>3, <2>4, <2>5 DEF EndsGeneration, Leads, Taken
    <3> QED BY <2>4, <2>5, <3>1, <3>2, <3>3 DEF InOrder
  <2>7. \A i, j \in DOMAIN parsed : i <= j => parsed[i] <= parsed[j]
    <3>1. DOMAIN parsed = Taken BY <2>3 DEF Taken
    <3> QED BY <2>1, <3>1 DEF ReadInv
  <2> QED BY <2>2, <2>6, <2>7
<1>2. IInv => EvidenceInOrder BY <1>1 DEF EvidenceInOrder
<1> QED BY <1>2, Inductive, PTL

-----------------------------------------------------------------------------
(* Totals                                                                   *)
(* As in Selection_proof, a claim about every prefix is proved of the       *)
(* shortest one that it could fail for.                                     *)

\* The equation that Totals(s) satisfies up to n.
Adds(g, s, n) == g = [i \in 0..n |-> IF i = 0 THEN 0 ELSE g[i - 1] + s[i].ids]

LEMMA AddsExists == ASSUME NEW s \in Seq(Frames) PROVE \A n \in 0..Len(s) : \E g : Adds(g, s, n)
<1> DEFINE Bad == {n \in 0..Len(s) : ~ \E g : Adds(g, s, n)}
<1> SUFFICES ASSUME Bad # {} PROVE FALSE OBVIOUS
<1>1. PICK n \in Bad : \A k \in Bad : n <= k
  <2>1. Bad \in SUBSET Nat OBVIOUS
  <2> HIDE DEF Bad
  <2> QED BY <2>1, Least
<1>2. n # 0
  <2>1. Adds([i \in 0..0 |-> 0], s, 0) BY DEF Adds
  <2> QED BY <1>1, <2>1
<1>3. PICK g : Adds(g, s, n - 1) BY <1>1, <1>2
<1> DEFINE h == [i \in 0..n |-> IF i = n THEN g[n - 1] + s[n].ids ELSE g[i]]
<1>4. Adds(h, s, n)
  <2>1. \A i \in 0..n : h[i] = IF i = 0 THEN 0 ELSE h[i - 1] + s[i].ids
    BY <1>1, <1>2, <1>3 DEF Adds
  <2> QED BY <2>1 DEF Adds
<1> QED BY <1>1, <1>4

LEMMA TotalsAt ==
  ASSUME NEW s \in Seq(Frames)
  PROVE  /\ Totals(s)[0] = 0
         /\ \A n \in 1..Len(s) : Totals(s)[n] = Totals(s)[n - 1] + s[n].ids
<1>1. Adds(Totals(s), s, Len(s))
  <2>1. PICK g : Adds(g, s, Len(s)) BY AddsExists
  <2> QED BY <2>1 DEF Adds, Totals
<1>2. Len(s) \in Nat OBVIOUS
<1> HIDE DEF Totals
<1> QED BY <1>1, <1>2 DEF Adds

LEMMA TotalsType == ASSUME NEW s \in Seq(Frames) PROVE \A n \in 0..Len(s) : Totals(s)[n] \in Nat
<1> DEFINE Bad == {n \in 0..Len(s) : Totals(s)[n] \notin Nat}
<1> SUFFICES ASSUME Bad # {} PROVE FALSE OBVIOUS
<1>1. PICK n \in Bad : \A k \in Bad : n <= k
  <2>1. Bad \in SUBSET Nat OBVIOUS
  <2> HIDE DEF Bad
  <2> QED BY <2>1, Least
<1>2. n # 0 BY <1>1, TotalsAt
<1>3. n \in 1..Len(s) /\ n - 1 \in 0..Len(s) /\ n - 1 \notin Bad BY <1>1, <1>2
<1>4. s[n].ids \in Nat BY <1>3 DEF Frames
<1>5. Totals(s)[n - 1] \in Nat BY <1>3
<1>6. Totals(s)[n] \in Nat BY <1>3, <1>4, <1>5, TotalsAt
<1> QED BY <1>1, <1>6

\* Sequences that begin alike have the same totals as far as they do.
LEMMA TotalsAgree ==
  ASSUME NEW s \in Seq(Frames), NEW r \in Seq(Frames), NEW m \in Nat, m <= Len(s), m <= Len(r),
         \A i \in 1..m : s[i] = r[i]
  PROVE  \A n \in 0..m : Totals(s)[n] = Totals(r)[n]
<1> DEFINE Bad == {n \in 0..m : Totals(s)[n] # Totals(r)[n]}
<1> SUFFICES ASSUME Bad # {} PROVE FALSE OBVIOUS
<1>1. PICK n \in Bad : \A k \in Bad : n <= k
  <2>1. Bad \in SUBSET Nat OBVIOUS
  <2> HIDE DEF Bad
  <2> QED BY <2>1, Least
<1>2. n # 0 BY <1>1, TotalsAt
<1>3. n \in 1..m /\ n - 1 \notin Bad /\ n - 1 \in 0..m BY <1>1, <1>2
<1>4. n \in 1..Len(s) /\ n \in 1..Len(r) BY <1>3
<1>5. Totals(s)[n] = Totals(s)[n - 1] + s[n].ids /\ Totals(r)[n] = Totals(r)[n - 1] + r[n].ids
  BY <1>4, TotalsAt
<1> QED BY <1>1, <1>3, <1>5

\* Totals do not fall, and stay where they are if no frame brings a token.
LEMMA TotalsGrow ==
  ASSUME NEW s \in Seq(Frames), NEW m \in 0..Len(s)
  PROVE  \A n \in m..Len(s) :
           /\ Totals(s)[m] <= Totals(s)[n]
           /\ (\A i \in (m + 1)..n : s[i].ids = 0) => Totals(s)[n] = Totals(s)[m]
<1> DEFINE Good(n) == /\ Totals(s)[m] <= Totals(s)[n]
                      /\ (\A i \in (m + 1)..n : s[i].ids = 0) => Totals(s)[n] = Totals(s)[m]
           Bad == {n \in m..Len(s) : ~Good(n)}
<1> SUFFICES ASSUME Bad # {} PROVE FALSE OBVIOUS
<1>0. \A n \in 0..Len(s) : Totals(s)[n] \in Nat BY TotalsType
<1>1. PICK n \in Bad : \A k \in Bad : n <= k
  <2>1. Bad \in SUBSET Nat OBVIOUS
  <2> HIDE DEF Bad
  <2> QED BY <2>1, Least
<1>2. n # m BY <1>0, <1>1
<1>3. n \in 1..Len(s) /\ n - 1 \in m..Len(s) /\ n - 1 \notin Bad BY <1>1, <1>2
<1>4. Totals(s)[n] = Totals(s)[n - 1] + s[n].ids BY <1>3, TotalsAt
<1>5. s[n].ids \in Nat BY <1>3 DEF Frames
<1>6. Totals(s)[n - 1] \in Nat /\ Totals(s)[m] \in Nat BY <1>0, <1>3
<1>7. Good(n - 1) BY <1>3
<1>8. Good(n)
  <2>1. (\A i \in (m + 1)..n : s[i].ids = 0) => s[n].ids = 0 /\ \A i \in (m + 1)..(n - 1) : s[i].ids = 0
    BY <1>2, <1>3
  <2> QED BY <1>4, <1>5, <1>6, <1>7, <2>1
<1> QED BY <1>1, <1>8

-----------------------------------------------------------------------------
(* What has been taken of the stream                                        *)

\* The terminals have the times of frames that were taken.
TerminalInv ==
  /\ generation # 0 => (\E i \in Taken : parsed[i] = generation) /\ outputs = MaxOutput
  /\ usage # 0 => \E i \in Taken : parsed[i] = usage
  /\ protocol # 0 => \E i \in Taken : parsed[i] = protocol

IsFirst(i) == \A j \in Taken : j < i => script[j].kind # "choice"

\* The returned prompt is that of one choice, and bearer says if it was first.
Bears(i) ==
  /\ script[i].kind = "choice" /\ script[i].prompt = prompt
  /\ \A j \in Taken \ {i} : script[j].prompt = "none"
  /\ bearer = 1 <=> IsFirst(i)

TokenInv ==
  /\ outputs = Totals(script)[Len(parsed)]
  /\ events = 0 <=> \A i \in Taken : script[i].kind # "choice"
  /\ prompt = "none" => \A i \in Taken : script[i].prompt = "none"
  /\ prompt # "none" => \E i \in Taken : Bears(i)

\* Only a replay takes its frame offsets from elsewhere.
CaptureInv == clock # "recorded" => exact /\ listed = read

ContentInv ==
  /\ status # "refused" => TerminalInv /\ TokenInv
  /\ CaptureInv
  /\ status = "evidence" => generation # 0 /\ Reconciles

LEMMA InitContent == Init => ContentInv
<1> SUFFICES ASSUME Init PROVE ContentInv
  OBVIOUS
<1>1. script \in Seq(Frames) BY InitIInv, Typed DEF IInv, TypeOK
<1>2. Totals(script)[0] = 0 BY <1>1, TotalsAt
<1>3. Len(parsed) = 0 /\ Taken = {} BY DEF Init, Taken
<1>4. TokenInv BY <1>2, <1>3 DEF Init, TokenInv
<1>5. TerminalInv /\ CaptureInv BY DEF Init, TerminalInv, CaptureInv
<1> QED BY <1>4, <1>5 DEF Init, ContentInv

\* Steps that take no frame.
LEMMA ContentKept ==
  ASSUME ContentInv, UNCHANGED <<wireVars, parsed, tokenVars, generation, usage, protocol>>,
         status = "refused" => status' = "refused"
  PROVE  (status # "refused" => TerminalInv /\ TokenInv)'
<1>1. (status # "refused" => TerminalInv)' BY DEF ContentInv, TerminalInv, Taken, tokenVars
<1>2. (status # "refused" => TokenInv)'
  BY DEF ContentInv, TokenInv, Bears, IsFirst, Taken, wireVars, tokenVars
<1> QED BY <1>1, <1>2

LEMMA QuietContent ==
  ASSUME IInv, ContentInv,
         AcceptResponseHeaders \/ LoseFrame \/ EndFeed \/ CloseTransport \/ UNCHANGED vars
  PROVE  ContentInv'
<1>1. UNCHANGED <<wireVars, readVars, parsed, tokenVars, generation, usage, protocol>>
      /\ (status = "refused" => status' = "refused")
  BY DEF AcceptResponseHeaders, LoseFrame, EndFeed, CloseTransport, vars
<1>2. CaptureInv' BY <1>1 DEF ContentInv, CaptureInv, wireVars, readVars
<1>3. (status = "evidence" => generation # 0 /\ Reconciles)'
  BY <1>1 DEF AcceptResponseHeaders, LoseFrame, EndFeed, CloseTransport, vars, ContentInv, Reconciles,
              Ended, IInv, OrderInv, wireVars, tokenVars
<1> QED BY <1>1, <1>2, <1>3, ContentKept DEF ContentInv

LEMMA FeedContent == ASSUME IInv, ContentInv, Feed PROVE ContentInv'
<1>1. UNCHANGED <<wireVars, parsed, tokenVars, generation, usage, protocol>>
      /\ status = "body" /\ status' \in {"body", "refused"}
  BY DEF Feed
<1>2. CaptureInv'
  <2>1. ~feeding /\ status # "refused" BY DEF Feed
  <2>2. read \in Nat /\ Len(script) \in Nat /\ listed = read BY <2>1, Typed DEF IInv, TypeOK, ReadInv
  <2>3. clock # "recorded" => listed' = listed + (read' - read) /\ exact' = TRUE /\ read' \in read..Len(script)
    BY DEF Feed
  <2> QED BY <1>1, <2>2, <2>3 DEF CaptureInv, wireVars
<1> QED BY <1>1, <1>2, ContentKept DEF ContentInv

\* The times of the frames taken stay, and that of the next one is added.
LEMMA TimesStay ==
  ASSUME IInv, NEW t \in 1..MaxOffset, Retain(t)
  PROVE  /\ \A v : (\E i \in Taken : parsed[i] = v) => \E i \in Taken' : parsed'[i] = v
         /\ \E i \in Taken' : parsed'[i] = t
<1>1. /\ Len(parsed) \in Nat /\ Taken' = 1..(Len(parsed) + 1) /\ Taken = 1..Len(parsed)
      /\ parsed' = Append(parsed, t)
  BY Retained DEF Retain
<1>2. parsed \in Seq(Nat) BY DEF IInv, TypeOK
<1>3. t \in Nat BY Retained
<1>4. parsed'[Len(parsed) + 1] = t /\ \A i \in Taken : parsed'[i] = parsed[i] BY <1>1, <1>2, <1>3
<1> QED BY <1>1, <1>4

\* The total of the frames taken grows by what the next one brings.
LEMMA TotalStep ==
  ASSUME IInv, NEW t \in 1..MaxOffset, Retain(t)
  PROVE  /\ Len(parsed) + 1 \in 1..Len(script)
         /\ Totals(script)'[Len(parsed')] = Totals(script)[Len(parsed)] + Frame.ids
         /\ Totals(script)[Len(parsed)] \in Nat
<1>1. script \in Seq(Frames) /\ Len(script) \in Nat /\ read <= Len(script) /\ read \in Nat
      /\ Len(parsed) \in Nat /\ Len(parsed) < read
  BY Retained, Typed DEF Retain, IInv, TypeOK
<1>2. Len(parsed) + 1 \in 1..Len(script) /\ Len(parsed) \in 0..Len(script) BY <1>1
<1>3. Totals(script)[Len(parsed) + 1] = Totals(script)[Len(parsed)] + script[Len(parsed) + 1].ids
  BY <1>1, <1>2, TotalsAt
<1>4. Totals(script)' = Totals(script) BY Retained DEF Totals
<1>5. Totals(script)[Len(parsed)] \in Nat BY <1>1, <1>2, TotalsType
<1> QED BY <1>2, <1>3, <1>4, <1>5, Retained

\* A frame that is no choice adds to the stream's tokens nothing.
LEMMA OtherTokens ==
  ASSUME IInv, ContentInv, NEW t \in 1..MaxOffset, Retain(t), Frame.kind # "choice",
         UNCHANGED tokenVars
  PROVE  TokenInv'
<1>1. TokenInv BY DEF ContentInv, Retain
<1>2. /\ Len(parsed) \in Nat /\ Len(parsed') = Len(parsed) + 1 /\ script' = script
      /\ Taken' = 1..(Len(parsed) + 1) /\ Taken = 1..Len(parsed)
      /\ Frame = script[Len(parsed) + 1]
      /\ Frame.ids = 0 /\ Frame.prompt = "none" /\ Frame.kind # "choice"
  BY Retained DEF Frames
<1>3. outputs' = Totals(script)'[Len(parsed')]
  BY <1>1, <1>2, TotalStep DEF TokenInv, tokenVars
<1>4. events' = 0 <=> \A i \in Taken' : script'[i].kind # "choice"
  BY <1>1, <1>2 DEF TokenInv, tokenVars
<1>5. prompt' = "none" => \A i \in Taken' : script'[i].prompt = "none"
  BY <1>1, <1>2 DEF TokenInv, tokenVars
<1>6. ASSUME prompt # "none" PROVE \E i \in Taken' : Bears(i)'
  <2>1. PICK i \in Taken : Bears(i) BY <1>1, <1>6 DEF TokenInv
  <2>2. IsFirst(i)' <=> IsFirst(i) BY <1>2, <2>1 DEF IsFirst
  <2>3. \A j \in Taken' \ {i} : script'[j].prompt = "none" BY <1>2, <2>1 DEF Bears
  <2>4. i \in Taken' BY <1>2, <2>1
  <2>5. Bears(i)' BY <1>2, <2>1, <2>2, <2>3, <2>4 DEF Bears, tokenVars
  <2> QED BY <2>4, <2>5
<1>7. prompt' = prompt BY DEF tokenVars
<1>8. prompt' # "none" => \E i \in Taken' : Bears(i)' BY <1>6, <1>7
<1> QED BY <1>3, <1>4, <1>5, <1>8 DEF TokenInv

\* A choice adds its output tokens, one token event, and perhaps the prompt.
LEMMA ChoiceTokens ==
  ASSUME IInv, ContentInv, NEW t \in 1..MaxOffset, TakeChoice(t)
  PROVE  TokenInv'
<1>0. /\ Retain(t) /\ Frame.kind = "choice" /\ outputs' = outputs + Frame.ids /\ events' = events + 1
      /\ (Frame.prompt # "none" => prompt = "none")
      /\ IF Frame.prompt = "none" THEN UNCHANGED <<prompt, bearer>>
                                  ELSE prompt' = Frame.prompt /\ bearer' = events + 1
  BY DEF TakeChoice, Fits, ChoiceFits
<1>1. TokenInv /\ events \in Nat BY <1>0 DEF ContentInv, Retain, IInv, TypeOK
<1>2. /\ Len(parsed) \in Nat /\ Len(parsed') = Len(parsed) + 1 /\ script' = script
      /\ Taken' = 1..(Len(parsed) + 1) /\ Taken = 1..Len(parsed)
      /\ Frame = script[Len(parsed) + 1]
  BY <1>0, Retained
<1>3. outputs' = Totals(script)'[Len(parsed')] BY <1>0, <1>1, <1>2, TotalStep DEF TokenInv
<1>4. events' = 0 <=> \A i \in Taken' : script'[i].kind # "choice"
  <2>1. events' # 0 BY <1>0, <1>1
  <2>2. Len(parsed) + 1 \in Taken' /\ script'[Len(parsed) + 1].kind = "choice" BY <1>0, <1>2
  <2> QED BY <2>1, <2>2
<1>5. prompt' = "none" => \A i \in Taken' : script'[i].prompt = "none"
  BY <1>0, <1>1, <1>2 DEF TokenInv
<1>6. ASSUME Frame.prompt = "none", prompt # "none" PROVE \E i \in Taken' : Bears(i)'
  <2>1. PICK i \in Taken : Bears(i) BY <1>1, <1>6 DEF TokenInv
  <2>2. IsFirst(i)' <=> IsFirst(i) BY <1>2, <2>1 DEF IsFirst
  <2>3. \A j \in Taken' \ {i} : script'[j].prompt = "none" BY <1>2, <1>6, <2>1 DEF Bears
  <2>4. i \in Taken' BY <1>2, <2>1
  <2>5. Bears(i)' BY <1>0, <1>2, <1>6, <2>1, <2>2, <2>3, <2>4 DEF Bears
  <2> QED BY <2>4, <2>5
<1>7. ASSUME Frame.prompt # "none" PROVE \E i \in Taken' : Bears(i)'
  <2>0. PICK n \in Nat : n = Len(parsed) + 1 BY <1>2
  <2>1. n \in Taken' /\ script'[n] = Frame BY <1>2, <2>0
  <2>2. \A j \in Taken : script[j].prompt = "none" BY <1>0, <1>1, <1>7 DEF TokenInv
  <2>3. \A j \in Taken' \ {n} : script'[j].prompt = "none" BY <1>2, <2>0, <2>2
  <2>4. IsFirst(n)' <=> \A j \in Taken : script[j].kind # "choice" BY <1>2, <2>0 DEF IsFirst
  <2>5. bearer' = 1 <=> events = 0 BY <1>0, <1>1, <1>7
  <2>6. bearer' = 1 <=> IsFirst(n)' BY <1>1, <2>4, <2>5 DEF TokenInv
  <2>7. Bears(n)' BY <1>0, <1>7, <2>1, <2>3, <2>6 DEF Bears
  <2> QED BY <2>1, <2>7
<1>8. prompt' # "none" => \E i \in Taken' : Bears(i)' BY <1>0, <1>6, <1>7
<1> QED BY <1>3, <1>4, <1>5, <1>8 DEF TokenInv

LEMMA FrameContent ==
  ASSUME IInv, ContentInv, NEW t \in 1..MaxOffset, TakeFrame(t)
  PROVE  ContentInv'
<1>1. Retain(t) /\ status = "body"
  BY DEF TakeFrame, TakeComment, TakeDone, TakeChoice, TakeUsage, RefuseFrame, Retain
<1>2. CaptureInv' BY <1>1 DEF Retain, ContentInv, CaptureInv, wireVars, readVars
<1>3. status' \in {"body", "refused"}
  BY <1>1 DEF TakeFrame, TakeComment, TakeDone, TakeChoice, TakeUsage, RefuseFrame
<1>4. TerminalInv BY <1>1 DEF ContentInv
<1>5. CASE RefuseFrame(t) BY <1>2, <1>5 DEF RefuseFrame, ContentInv
<1>6. CASE TakeComment(t)
  <2>1. TokenInv' BY <1>1, <1>6, OtherTokens DEF TakeComment
  <2>2. TerminalInv' BY <1>1, <1>4, <1>6, TimesStay DEF TakeComment, TerminalInv, tokenVars
  <2> QED BY <1>2, <1>3, <2>1, <2>2 DEF ContentInv
<1>7. CASE TakeDone(t)
  <2>1. TokenInv' BY <1>1, <1>7, OtherTokens DEF TakeDone
  <2>2. TerminalInv' BY <1>1, <1>4, <1>7, TimesStay DEF TakeDone, TerminalInv, tokenVars
  <2> QED BY <1>2, <1>3, <2>1, <2>2 DEF ContentInv
<1>8. CASE TakeUsage(t)
  <2>1. TokenInv' BY <1>1, <1>8, OtherTokens DEF TakeUsage
  <2>2. TerminalInv' BY <1>1, <1>4, <1>8, TimesStay DEF TakeUsage, TerminalInv, tokenVars
  <2> QED BY <1>2, <1>3, <2>1, <2>2 DEF ContentInv
<1>9. CASE TakeChoice(t)
  <2>1. TokenInv' BY <1>9, ChoiceTokens
  <2>2. /\ generation = 0 /\ generation' = (IF Frame.last THEN t ELSE generation)
        /\ (Frame.last => outputs' = MaxOutput)
        /\ UNCHANGED <<usage, protocol>>
    BY <1>9 DEF TakeChoice, Fits, ChoiceFits
  <2>3. TerminalInv' BY <1>1, <1>4, <2>2, TimesStay DEF TerminalInv
  <2> QED BY <1>2, <1>3, <2>1, <2>3 DEF ContentInv
<1> QED BY <1>5, <1>6, <1>7, <1>8, <1>9 DEF TakeFrame

LEMMA Content == Spec => []ContentInv
<1>1. ASSUME IInv, ContentInv, [Next]_vars PROVE ContentInv'
  BY <1>1, QuietContent, FeedContent, FrameContent DEF Next
<1> QED BY InitContent, Inductive, <1>1, PTL DEF Spec

\* Stage2StreamValidator returns evidence only of a stream that brought the
\* prompt that was sent, once and with its first choice, and all the output
\* tokens, and whose request the logs identify.
THEOREM ContentOfEvidence == Spec => []EvidenceComplete
<1>1. ASSUME IInv, ContentInv, status = "evidence" PROVE Complete(Arrived) /\ chain
  <2>1. TokenInv /\ outputs = MaxOutput /\ chain /\ prompt = "sent" /\ bearer = 1
    BY <1>1 DEF ContentInv, TerminalInv, Reconciles
  <2>2. Len(parsed) = read /\ script \in Seq(Frames) /\ read \in 0..Len(script)
    BY <1>1, Typed DEF IInv, TypeOK, ReadInv, EvidenceInv
  <2>3. Arrived \in Seq(Frames) /\ Len(Arrived) = read /\ DOMAIN Arrived = Taken
        /\ \A i \in 1..read : Arrived[i] = script[i]
    BY <2>2 DEF Arrived, Taken
  <2>4. Totals(Arrived)[Len(Arrived)] = MaxOutput
    <3>1. read \in Nat /\ read <= Len(script) BY <2>2
    <3>2. \A n \in 0..read : Totals(Arrived)[n] = Totals(script)[n]
      BY <2>2, <2>3, <3>1, TotalsAgree
    <3>3. Totals(script)[read] = MaxOutput BY <2>1, <2>2 DEF TokenInv
    <3>4. read \in 0..read BY <3>1
    <3>5. Totals(Arrived)[read] = MaxOutput BY <3>2, <3>3, <3>4
    <3> QED BY <2>3, <3>5
  <2>5. PICK i \in Taken : Bears(i) BY <2>1 DEF TokenInv
  <2>6. Taken = 1..read BY <2>2 DEF Taken
  <2>7. Arrived[i].kind = "choice" /\ Arrived[i].prompt = "sent"
        /\ \A j \in Taken \ {i} : Arrived[j].prompt = "none" /\ (j < i => Arrived[j].kind # "choice")
    BY <2>1, <2>3, <2>5, <2>6 DEF Bears, IsFirst
  <2> QED BY <2>1, <2>3, <2>4, <2>5, <2>7 DEF Complete
<1>2. IInv /\ ContentInv => EvidenceComplete BY <1>1 DEF EvidenceComplete
<1> QED BY <1>2, Inductive, Content, PTL

-----------------------------------------------------------------------------
(* A completed stream is taken                                              *)

\* script is in the order of a completed stream, g ends the generation and u
\* is the usage.
Ends(g, u) ==
  /\ g \in DOMAIN script /\ u \in DOMAIN script /\ g < u /\ u < Len(script)
  /\ script[g].kind = "choice" /\ script[g].last
  /\ script[u].kind = "usage"
  /\ script[Len(script)].kind = "done"
  /\ \A i \in DOMAIN script \ {g, u, Len(script)} :
       \/ script[i].kind = "comment"
       \/ i < g /\ script[i].kind = "choice" /\ ~script[i].last

\* Its terminals are in g, u and the last frame, and nowhere else.
LEMMA OrderFacts ==
  ASSUME IInv, NEW g, NEW u, Ends(g, u)
  PROVE  /\ DOMAIN script = 1..Len(script) /\ Len(script) \in Nat
         /\ Taken \subseteq DOMAIN script /\ Len(parsed) \in Nat /\ read \in Nat /\ Len(parsed) <= read
         /\ g \in Nat /\ u \in Nat /\ g < u /\ u < Len(script)
         /\ \A i \in DOMAIN script :
              /\ script[i].kind \in {"comment", "choice", "usage", "done"}
              /\ script[i].kind = "choice" /\ script[i].last <=> i = g
              /\ script[i].kind = "choice" => i <= g
              /\ script[i].kind = "usage" <=> i = u
              /\ script[i].kind = "done" <=> i = Len(script)
<1>1. script \in Seq(Frames) /\ Len(script) \in Nat /\ DOMAIN script = 1..Len(script)
  BY Typed DEF IInv, TypeOK
<1>2. Len(parsed) \in Nat /\ Len(parsed) <= Len(script) /\ read \in Nat /\ Len(parsed) <= read
  BY <1>1 DEF IInv, TypeOK
<1>3. Taken \subseteq DOMAIN script BY <1>1, <1>2 DEF Taken
<1>4. g \in Nat /\ u \in Nat /\ g < u /\ u < Len(script) BY <1>1 DEF Ends
<1>5. ASSUME NEW i \in DOMAIN script
      PROVE  /\ script[i].kind \in {"comment", "choice", "usage", "done"}
             /\ script[i].kind = "choice" /\ script[i].last <=> i = g
             /\ script[i].kind = "choice" => i <= g
             /\ script[i].kind = "usage" <=> i = u
             /\ script[i].kind = "done" <=> i = Len(script)
  <2>1. CASE i \in {g, u, Len(script)} BY <1>1, <1>4, <2>1 DEF Ends
  <2>2. CASE i \notin {g, u, Len(script)} BY <1>1, <1>4, <2>2 DEF Ends
  <2> QED BY <2>1, <2>2
<1> QED BY <1>1, <1>2, <1>3, <1>4, <1>5

\* Of a completed stream the terminals taken are those that are set.
LEMMA TerminalsTaken ==
  ASSUME IInv, status # "refused", NEW g, NEW u, Ends(g, u)
  PROVE  /\ generation # 0 <=> g \in Taken
         /\ usage # 0 <=> u \in Taken
         /\ protocol # 0 <=> Len(script) \in Taken
<1>1. ShapeInv /\ OrderInv BY DEF IInv
<1>2. \A h : EndsGeneration(h) => h = g
  BY OrderFacts DEF EndsGeneration
<1>3. generation # 0 => g \in Taken
  <2>1. generation # 0 => \E h \in Taken : EndsGeneration(h) BY <1>1 DEF ShapeInv
  <2> QED BY <1>2, <2>1
<1>4. g \in Taken => generation # 0
  <2>1. generation = 0 => \A i \in Taken : Leads(script[i]) BY <1>1 DEF ShapeInv
  <2>2. ~Leads(script[g]) BY DEF Ends, Leads
  <2> QED BY <2>1, <2>2
<1>5. usage # 0 => u \in Taken
  <2>1. usage # 0 => \E v \in Taken : script[v].kind = "usage" BY <1>1 DEF ShapeInv
  <2> QED BY <2>1, OrderFacts
<1>6. ASSUME u \in Taken PROVE usage # 0
  <2>1. SUFFICES ASSUME usage = 0 PROVE FALSE OBVIOUS
  <2>2. script[u].kind = "usage" BY DEF Ends
  <2>3. CASE generation = 0 BY <1>1, <1>6, <2>2, <2>3 DEF ShapeInv, Leads
  <2>4. CASE generation # 0
    <3>1. PICK h \in Taken : EndsGeneration(h) /\ \A i \in Taken : i > h => script[i].kind = "comment"
      BY <1>1, <2>1, <2>4 DEF ShapeInv
    <3>2. h = g BY <1>2, <3>1
    <3>3. u > g BY OrderFacts
    <3> QED BY <1>6, <2>2, <3>1, <3>2, <3>3
  <2> QED BY <2>3, <2>4
<1>7. protocol # 0 => Len(script) \in Taken
  <2>1. ASSUME protocol # 0 PROVE Len(script) \in Taken
    <3>1. PICK v \in Taken : v < Len(parsed) /\ script[Len(parsed)].kind = "done"
      BY <1>1, <2>1 DEF ShapeInv, OrderInv
    <3>2. Len(parsed) \in Taken BY <3>1, OrderFacts DEF Taken
    <3> QED BY <3>1, <3>2, OrderFacts
  <2> QED BY <2>1
<1>8. ASSUME Len(script) \in Taken PROVE protocol # 0
  <2>1. u \in Taken BY <1>8, OrderFacts DEF Taken
  <2>2. usage # 0 BY <1>6, <2>1
  <2>3. SUFFICES ASSUME protocol = 0 PROVE FALSE OBVIOUS
  <2>4. PICK h, v \in Taken : /\ EndsGeneration(h) /\ h < v /\ script[v].kind = "usage"
                              /\ \A i \in Taken : i > h /\ i # v => script[i].kind = "comment"
    BY <1>1, <2>2, <2>3 DEF ShapeInv
  <2>5. h = g /\ v = u BY <1>2, <2>4, OrderFacts
  <2>6. script[Len(script)].kind = "comment" BY <1>8, <2>4, <2>5, OrderFacts
  <2> QED BY <2>6 DEF Ends
<1> QED BY <1>3, <1>4, <1>5, <1>6, <1>7, <1>8

\* The read that brings the next frames of a completed stream does not raise
\* unless it is too long.
LEMMA FeedTakes ==
  ASSUME IInv, NEW g, NEW u, Ends(g, u), NEW n \in read..Len(script), ParserRaises(n)
  PROVE  n - read > BufferFrames
<1>1. SUFFICES ASSUME NEW i \in (read + 1)..n,
                      \/ script[i].kind = "notSSE"
                      \/ script[i].kind # "comment" /\ \E j \in 1..(i - 1) : script[j].kind = "done"
               PROVE FALSE
  BY DEF ParserRaises
<1>2. i \in DOMAIN script /\ \A j \in 1..(i - 1) : j \in DOMAIN script /\ j # Len(script)
  BY OrderFacts
<1>3. script[i].kind \in {"comment", "choice", "usage", "done"} BY <1>2, OrderFacts
<1>4. \A j \in 1..(i - 1) : script[j].kind # "done" BY <1>2, OrderFacts
<1> QED BY <1>1, <1>3, <1>4

\* A choice of a completed stream fits whenever it comes.
LEMMA ChoiceTaken ==
  ASSUME IInv, ContentInv, status = "body", NEW g, NEW u, Ends(g, u), Complete(script),
         Len(parsed) < read, Frame.kind = "choice"
  PROVE  ChoiceFits(Frame)
<1> DEFINE p == Len(parsed) + 1
<1>1. /\ p \in DOMAIN script /\ Frame = script[p] /\ Taken = 1..(p - 1) /\ p \in Nat /\ Len(parsed) = p - 1
      /\ script \in Seq(Frames) /\ read <= Len(script)
  BY OrderFacts, Typed DEF Frame, Taken, IInv, TypeOK
<1> HIDE DEF p
<1>2. p <= g /\ g \in 1..Len(script) /\ u \notin Taken /\ g \notin Taken /\ (Frame.last => p = g)
  BY <1>1, OrderFacts
<1>3. generation = 0 /\ usage = 0 BY <1>2, TerminalsTaken
<1>4. TokenInv BY DEF ContentInv
<1>5. Frame.prompt # "none" => prompt = "none"
  <2>1. SUFFICES ASSUME Frame.prompt # "none", prompt # "none" PROVE FALSE OBVIOUS
  <2>2. PICK i \in Taken : script[i].prompt # "none" BY <1>4, <2>1 DEF TokenInv, Bears
  <2>3. i # p /\ i \in DOMAIN script BY <1>1, OrderFacts
  <2>4. PICK k \in DOMAIN script : \A j \in DOMAIN script \ {k} : script[j].prompt = "none"
    BY DEF Complete
  <2>5. p = k BY <1>1, <2>1, <2>4
  <2>6. i = k BY <2>2, <2>3, <2>4
  <2> QED BY <2>3, <2>5, <2>6
<1>6. outputs + Frame.ids = Totals(script)[p]
  <2>1. p \in 1..Len(script) BY <1>1, OrderFacts
  <2> QED BY <1>1, <1>4, <2>1, TotalsAt DEF TokenInv
<1>7. Totals(script)[p] <= MaxOutput /\ (Frame.last => Totals(script)[p] = MaxOutput)
  <2>1. p \in 0..Len(script) /\ Len(script) \in p..Len(script) BY <1>1, OrderFacts
  <2>2. /\ Totals(script)[p] <= Totals(script)[Len(script)]
        /\ (\A i \in (p + 1)..Len(script) : script[i].ids = 0) =>
             Totals(script)[Len(script)] = Totals(script)[p]
    BY <1>1, <2>1, TotalsGrow
  <2>3. ASSUME Frame.last, NEW i \in (p + 1)..Len(script) PROVE script[i].ids = 0
    <3>1. p = g BY <1>2, <2>3
    <3>2. i \in DOMAIN script /\ i > g BY <1>1, <2>3, <3>1, OrderFacts
    <3>3. script[i].kind # "choice" BY <3>2, OrderFacts
    <3>4. script[i] \in Frames BY <1>1, <3>2
    <3> QED BY <3>3, <3>4 DEF Frames
  <2> QED BY <2>2, <2>3 DEF Complete
<1> QED BY <1>3, <1>5, <1>6, <1>7 DEF ChoiceFits

\* A frame of a completed stream is refused only if it is the usage or [DONE],
\* with the time of the terminal before it.
LEMMA RefusedIsTied ==
  ASSUME IInv, ContentInv, NEW t \in 1..MaxOffset, RefuseFrame(t), NEW g, NEW u, Ends(g, u),
         Complete(script)
  PROVE  Tied(parsed')
<1> DEFINE p == Len(parsed) + 1
<1>1. /\ status = "body" /\ Len(parsed) < read /\ t >= last /\ ~Fits(Frame, t)
      /\ parsed' = Append(parsed, t)
  BY DEF RefuseFrame, Retain
<1>2. /\ p \in DOMAIN script /\ Frame = script[p] /\ Taken = 1..(p - 1) /\ p \in Nat /\ Len(parsed) = p - 1
      /\ script \in Seq(Frames) /\ Len(script) \in Nat /\ parsed \in Seq(Nat) /\ t \in Nat /\ last \in Nat
      /\ generation \in Nat /\ usage \in Nat
  BY <1>1, OrderFacts, Typed, StreamAssumption DEF Frame, Taken, IInv, TypeOK, StreamAssumption
<1>3. /\ DOMAIN parsed' = 1..p /\ parsed'[p] = t
      /\ \A i \in Taken : parsed'[i] = parsed[i] /\ parsed[i] \in Nat /\ parsed[i] <= last
  BY <1>1, <1>2 DEF IInv, ReadInv, Taken
<1> HIDE DEF p
<1>4. ASSUME NEW v \in Nat, \E i \in Taken : parsed[i] = v, ~(t > v), Frame.kind \in {"usage", "done"}
      PROVE  Tied(parsed')
  <2>1. PICK i \in Taken : parsed[i] = v BY <1>4
  <2>2. v <= last /\ v = t BY <1>1, <1>2, <1>3, <1>4, <2>1
  <2>3. i \in DOMAIN parsed' /\ p \in DOMAIN parsed' /\ i < p BY <1>2, <1>3, <2>1
  <2>4. parsed'[i] = parsed'[p] /\ script[p].kind \in {"usage", "done"}
    BY <1>2, <1>3, <1>4, <2>1, <2>2
  <2> QED BY <2>3, <2>4 DEF Tied
<1>5. TerminalInv BY <1>1 DEF ContentInv
<1>6. protocol = 0
  <2>1. Len(script) \notin Taken BY <1>2, OrderFacts
  <2> QED BY <1>1, <2>1, TerminalsTaken
<1>7. CASE Frame.kind = "done"
  <2>1. p = Len(script) /\ u \in Taken BY <1>2, <1>7, OrderFacts
  <2>2. usage # 0 BY <1>1, <2>1, TerminalsTaken
  <2>3. ~(t > usage) BY <1>1, <1>6, <1>7, <2>2 DEF Fits, Reopened, DoneFits
  <2> QED BY <1>2, <1>4, <1>5, <1>7, <2>2, <2>3 DEF TerminalInv
<1>8. CASE Frame.kind = "usage"
  <2>0. p = u /\ g \in 1..Len(script) /\ g < u BY <1>2, <1>8, OrderFacts DEF Ends
  <2>1. g \in Taken /\ u \notin Taken BY <1>2, <2>0
  <2>2. generation # 0 /\ usage = 0 BY <1>1, <2>1, TerminalsTaken
  <2>3. ~(t > generation) BY <1>1, <1>6, <1>8, <2>2 DEF Fits, Reopened, UsageFits
  <2> QED BY <1>2, <1>4, <1>5, <1>8, <2>2, <2>3 DEF TerminalInv
<1>9. CASE Frame.kind = "choice"
  <2>1. ChoiceFits(Frame) BY <1>1, <1>9, ChoiceTaken
  <2> QED BY <1>1, <1>6, <1>9, <2>1 DEF Fits, Reopened
<1>10. Frame.kind # "comment" BY <1>1, <1>6 DEF Fits, Reopened
<1> QED BY <1>2, <1>7, <1>8, <1>9, <1>10, OrderFacts

\* A stream that was taken whole and is complete reconciles.
LEMMA CompleteReconciles ==
  ASSUME IInv, ContentInv, status # "refused", chain, Complete(script),
         script \in Seq(Frames), Len(parsed) = Len(script)
  PROVE  Reconciles
<1>1. TokenInv BY DEF ContentInv
<1>2. Taken = DOMAIN script BY DEF Taken
<1>3. PICK i \in Taken : /\ script[i].kind = "choice" /\ script[i].prompt = "sent"
                         /\ \A j \in Taken \ {i} : script[j].prompt = "none" /\ (j < i => script[j].kind # "choice")
  BY <1>2 DEF Complete
<1>4. PICK k \in Taken : Bears(k) BY <1>1, <1>3 DEF TokenInv
<1>5. prompt # "none" BY <1>1, <1>3 DEF TokenInv
<1>6. k = i BY <1>3, <1>4, <1>5 DEF Bears
<1>7. IsFirst(k) BY <1>3, <1>6 DEF IsFirst, Taken
<1> QED BY <1>3, <1>4, <1>6, <1>7 DEF Bears, Reconciles

\* close_transport refuses a completed stream only in the middle, with its
\* clock standing still, or for want of a log chain.
LEMMA CloseTakes ==
  ASSUME IInv, ContentInv, CloseTransport, status' = "refused", clock # "recorded",
         NEW g, NEW u, Ends(g, u), Complete(script)
  PROVE  read < Len(script) \/ tail \/ last' = last \/ ~chain
<1>1. SUFFICES ASSUME read = Len(script), ~tail, last' # last, chain PROVE FALSE
  BY Typed DEF IInv, TypeOK
<1>2. PICK t \in last..MaxOffset :
        /\ last' = (IF t >= last THEN t ELSE last)
        /\ ~(Ended(t) /\ Reconciles)
  BY DEF CloseTransport, Offsets
<1>3. status = "body" /\ ~feeding BY DEF CloseTransport
<1>4. Len(parsed) = Len(script) /\ script \in Seq(Frames) /\ Len(script) \in Nat /\ protocol \in Nat
      /\ last \in Nat /\ MaxOffset \in Nat
  BY <1>1, <1>3, Typed, StreamAssumption DEF IInv, TypeOK, ReadInv, StreamAssumption
<1>5. t > last BY <1>1, <1>2, <1>4
<1>6. protocol # 0
  <2>1. Len(script) \in Taken BY <1>4, OrderFacts DEF Taken
  <2> QED BY <1>3, <2>1, TerminalsTaken
<1>7. protocol <= last
  <2>1. PICK i \in Taken : parsed[i] = protocol BY <1>3, <1>6 DEF ContentInv, TerminalInv
  <2> QED BY <1>3, <2>1 DEF IInv, ReadInv
<1>8. Ended(t) BY <1>1, <1>4, <1>5, <1>6, <1>7 DEF Ended
<1>9. Reconciles BY <1>1, <1>3, <1>4, CompleteReconciles
<1> QED BY <1>2, <1>8, <1>9

\* Stage2StreamValidator refuses a completed stream only for the buffer, for a
\* clock that stands still, or at a close of the transport that is early or
\* finds no log chain, however the stream is cut into reads.
THEOREM CompletedStreamIsTaken == Spec => CompletedIsTaken
<1> DEFINE A == status = "body" /\ status' = "refused" /\ clock # "recorded"
                  /\ InOrder(script) /\ Complete(script)
           B == \/ feeding' /\ (read' - read > BufferFrames \/ Tied(parsed'))
                \/ ~feeding' /\ (read < Len(script) \/ tail \/ last' = last \/ ~chain)
<1>1. ASSUME IInv, ContentInv, [Next]_vars, A PROVE B
  <2>1. PICK g, u \in DOMAIN script : Ends(g, u) BY <1>1 DEF InOrder, Ends
  <2>2. CASE Feed
    <3>1. PICK n \in read..Len(script), t \in Offsets :
            read' = n /\ status' = IF t < last \/ ParserRaises(n) THEN "refused" ELSE status
      BY <2>2 DEF Feed
    <3>2. last \in Nat /\ MaxOffset \in Nat /\ t \in last..MaxOffset
      BY <1>1, StreamAssumption DEF StreamAssumption, IInv, TypeOK, Offsets
    <3>3. ParserRaises(n) BY <1>1, <3>1, <3>2
    <3>4. n - read > BufferFrames BY <1>1, <2>1, <3>3, FeedTakes
    <3> QED BY <2>2, <3>1, <3>4 DEF Feed
  <2>3. CASE LoseFrame BY <1>1, <2>3 DEF LoseFrame
  <2>4. CASE \E t \in 1..MaxOffset : TakeFrame(t)
    <3>1. PICK t \in 1..MaxOffset : TakeFrame(t) BY <2>4
    <3>2. RefuseFrame(t) BY <1>1, <3>1 DEF TakeFrame, TakeComment, TakeDone, TakeChoice, TakeUsage
    <3>3. feeding' BY <3>2 DEF RefuseFrame, Retain, readVars
    <3>4. Tied(parsed') BY <1>1, <2>1, <3>2, RefusedIsTied
    <3> QED BY <3>3, <3>4
  <2>5. CASE EndFeed
    <3>1. listed = Len(parsed) /\ exact BY <1>1, <2>5 DEF EndFeed, ContentInv, CaptureInv
    <3> QED BY <1>1, <2>5, <3>1 DEF EndFeed
  <2>6. CASE CloseTransport
    <3>1. ~feeding' BY <2>6 DEF CloseTransport
    <3>2. read < Len(script) \/ tail \/ last' = last \/ ~chain BY <1>1, <2>1, <2>6, CloseTakes
    <3> QED BY <3>1, <3>2
  <2>7. CASE AcceptResponseHeaders BY <1>1, <2>7 DEF AcceptResponseHeaders
  <2>8. CASE UNCHANGED vars BY <1>1, <2>8 DEF vars
  <2> HIDE DEF B
  <2> QED BY <1>1, <2>2, <2>3, <2>4, <2>5, <2>6, <2>7, <2>8 DEF Next
<1>2. IInv /\ ContentInv /\ [Next]_vars => [A => B]_vars BY <1>1
<1> QED BY <1>2, Inductive, Content, PTL DEF Spec, CompletedIsTaken

-----------------------------------------------------------------------------
(* Implementation of FourTerminals                                          *)

at == <<generation, usage, protocol, transport>>

LEMMA InitMaps == Init => Contract!Init
  BY DEF Init, Contract!Init, Contract!Terminals

\* The steps between frames change no terminal; they may refuse the stream.
LEMMA QuietStep ==
  ASSUME status \in {"headers", "body"}, status' \in {"headers", "body", "refused"},
         UNCHANGED <<generation, usage, protocol, transport>>
  PROVE  [Contract!Next]_(Contract!vars)
  BY DEF Contract!Next, Contract!Refuse, Contract!vars

LEMMA FrameMaps ==
  ASSUME IInv, NEW t \in 1..MaxOffset, TakeFrame(t)
  PROVE  [Contract!Next]_(Contract!vars)
<1>1. status = "body" /\ transport' = transport /\ transport = 0
      /\ generation \in Nat /\ usage \in Nat /\ protocol \in Nat
  BY DEF TakeFrame, TakeComment, TakeDone, TakeChoice, TakeUsage, RefuseFrame, Retain, IInv, TypeOK, OrderInv
<1>2. CASE TakeComment(t) BY <1>1, <1>2, QuietStep DEF TakeComment
<1>3. CASE RefuseFrame(t) BY <1>1, <1>3, QuietStep DEF RefuseFrame
<1>4. CASE TakeDone(t)
  <2>1. protocol = 0 /\ usage # 0 /\ generation # 0 /\ generation < usage /\ usage < t
        /\ protocol' = t /\ UNCHANGED <<generation, usage, status>>
    BY <1>1, <1>4 DEF TakeDone, Fits, Reopened, DoneFits, IInv, OrderInv
  <2>2. at' = [at EXCEPT ![3] = t] /\ at[3] = 0 BY <1>1, <2>1 DEF at
  <2>3. \A j \in 1..(3 - 1) : at[j] # 0 /\ at[j] < t BY <1>1, <2>1 DEF at
  <2>4. Contract!Reach(3) BY <1>1, <2>2, <2>3 DEF Contract!Reach, at
  <2> QED BY <2>1, <2>4 DEF Contract!Next, Contract!Observe
<1>5. CASE TakeUsage(t)
  <2>1. usage = 0 /\ generation # 0 /\ generation < t
        /\ usage' = t /\ UNCHANGED <<generation, protocol, status>>
    BY <1>1, <1>5 DEF TakeUsage, Fits, UsageFits
  <2>2. at' = [at EXCEPT ![2] = t] /\ at[2] = 0 BY <1>1, <2>1 DEF at
  <2>3. \A j \in 1..(2 - 1) : at[j] # 0 /\ at[j] < t BY <1>1, <2>1 DEF at
  <2>4. Contract!Reach(2) BY <1>1, <2>2, <2>3 DEF Contract!Reach, at
  <2> QED BY <2>1, <2>4 DEF Contract!Next, Contract!Observe
<1>6. CASE TakeChoice(t)
  <2>1. generation = 0 /\ generation' = (IF Frame.last THEN t ELSE generation)
        /\ UNCHANGED <<usage, protocol, status>>
    BY <1>6 DEF TakeChoice, Fits, ChoiceFits
  <2>2. CASE ~Frame.last BY <1>1, <2>1, <2>2, QuietStep
  <2>3. CASE Frame.last
    <3>1. at' = [at EXCEPT ![1] = t] /\ at[1] = 0 BY <1>1, <2>1, <2>3 DEF at
    <3>2. \A j \in 1..(1 - 1) : at[j] # 0 /\ at[j] < t OBVIOUS
    <3>3. Contract!Reach(1) BY <1>1, <3>1, <3>2 DEF Contract!Reach, at
    <3> QED BY <2>1, <3>3 DEF Contract!Next, Contract!Observe
  <2> QED BY <2>2, <2>3
<1> QED BY <1>2, <1>3, <1>4, <1>5, <1>6 DEF TakeFrame

LEMMA CloseMaps == ASSUME IInv, CloseTransport PROVE [Contract!Next]_(Contract!vars)
<1>1. PICK t \in Offsets :
        /\ transport' = IF Ended(t) THEN t ELSE transport
        /\ status' = IF Ended(t) /\ Reconciles THEN "evidence" ELSE "refused"
  BY DEF CloseTransport
<1>2. status = "body" /\ transport = 0 /\ UNCHANGED <<generation, usage, protocol>>
      /\ t \in 1..MaxOffset /\ generation \in Nat /\ usage \in Nat /\ protocol \in Nat
  BY StreamAssumption DEF StreamAssumption, CloseTransport, IInv, TypeOK, OrderInv, Offsets
<1>3. CASE ~Ended(t) BY <1>1, <1>2, <1>3, QuietStep
<1>4. CASE Ended(t)
  <2>1. /\ generation # 0 /\ usage # 0 /\ protocol # 0
        /\ generation < t /\ usage < t /\ protocol < t /\ transport' = t
    BY <1>1, <1>2, <1>4 DEF Ended, IInv, OrderInv
  <2>2. at' = [at EXCEPT ![4] = t] /\ at[4] = 0 BY <1>2, <2>1 DEF at
  <2>3. \A j \in 1..(4 - 1) : at[j] # 0 /\ at[j] < t BY <1>2, <2>1 DEF at
  <2>4. Contract!Reach(4) BY <1>2, <2>2, <2>3 DEF Contract!Reach, at
  <2> QED BY <1>1, <2>4 DEF Contract!Next, Contract!Finish
<1> QED BY <1>3, <1>4

\* Each step of the validator is a step of FourTerminals or leaves its
\* terminals and its outcome alone: evidence stands on four terminals, reached
\* once each, in order and at strictly increasing times.
THEOREM Refinement == Spec => ImplementsFourTerminals
<1>1. ASSUME IInv, [Next]_vars PROVE [Contract!Next]_(Contract!vars)
  <2>1. CASE AcceptResponseHeaders
    BY <2>1, QuietStep DEF AcceptResponseHeaders
  <2>2. CASE Feed BY <2>2, QuietStep DEF Feed
  <2>3. CASE LoseFrame BY <2>3, QuietStep DEF LoseFrame
  <2>4. CASE EndFeed BY <2>4, QuietStep DEF EndFeed
  <2>5. CASE CloseTransport BY <1>1, <2>5, CloseMaps
  <2>6. CASE \E t \in 1..MaxOffset : TakeFrame(t) BY <1>1, <2>6, FrameMaps
  <2>7. CASE UNCHANGED vars BY <2>7 DEF vars, Contract!vars
  <2> QED BY <1>1, <2>1, <2>2, <2>3, <2>4, <2>5, <2>6, <2>7 DEF Next
<1> QED BY InitMaps, Inductive, <1>1, PTL DEF Spec, ImplementsFourTerminals, Contract!Spec
=============================================================================
