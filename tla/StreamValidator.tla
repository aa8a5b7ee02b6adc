--------------------------- MODULE StreamValidator ---------------------------
(***************************************************************************)
(* Stage2StreamValidator (stage2_protocol.py): one response stream of a    *)
(* Stage 2 request, from its headers to the evidence or the refusal.       *)
(*                                                                         *)
(* A server sends the frames of script; how they are cut into reads of the *)
(* body, and when each read and each frame is observed, is arbitrary.  A   *)
(* live client feeds what it reads, with a frame clock or without one;     *)
(* replay_stage2_wire_capture (stage2_experiment.py) feeds what a capture  *)
(* retains and takes the frame offsets the capture lists.  Both stop at    *)
(* the first exception, so a refusal is final, and what the validator has  *)
(* half changed when it raises is of no account.                           *)
(***************************************************************************)
EXTENDS Naturals, Sequences

CONSTANTS
  Streams,       \* what a server sends (script) and who stamps the frames (clock)
  MaxOutput,     \* output tokens of a request (32)
  BufferFrames,  \* complete frames that fit into the buffer of the parser
  MaxOffset      \* bound on the clock

Kinds == {"choice", "usage", "badUsage", "done", "comment", "badData", "notSSE"}
Prompts == {"none", "sent", "other"}

\* Only a choice brings tokens, the prompt, or the end of the generation.
Frames ==
  {f \in [kind : Kinds, ids : Nat, prompt : Prompts, last : BOOLEAN] :
     f.kind # "choice" => f.ids = 0 /\ f.prompt = "none" /\ ~f.last}

ASSUME StreamAssumption ==
  /\ Streams \subseteq [script : Seq(Frames), clock : {"live", "none", "recorded"}]
  /\ MaxOutput \in Nat \ {0}
  /\ BufferFrames \in Nat
  /\ MaxOffset \in Nat \ {0}

VARIABLES
  script,    \* what the server sends
  clock,     \* who stamps the frames
  chain,     \* whether the request logs correlate to one chain without an abort
  read,      \* how many complete frames the reads so far have brought
  tail,      \* whether the buffer holds the beginning of another frame
  feeding,   \* inside feed
  fresh,     \* the next frame is the first one of its read
  listed,    \* how many frame offsets the reads so far come with
  exact,     \* the first of them, in this read, is the offset of the read
  last,      \* _last_observation_offset_ns
  parsed,    \* the offsets of _parsed_sse_events
  outputs,   \* len(_output_ids)
  prompt,    \* _returned_prompt_ids
  events,    \* len(_token_events)
  bearer,    \* the token event that carries the returned prompt, 0 if none does
  generation, usage, protocol, transport,  \* the terminals, 0 when None
  status     \* "headers" and "body" are awaited; "refused", "evidence" are final

wireVars == <<script, clock, chain>>
readVars == <<read, tail, listed, exact>>
tokenVars == <<outputs, prompt, events, bearer>>
vars == <<wireVars, readVars, feeding, fresh, last, parsed, tokenVars,
          generation, usage, protocol, transport, status>>

TypeOK ==
  /\ [script |-> script, clock |-> clock] \in Streams /\ chain \in BOOLEAN
  /\ read \in 0..Len(script) /\ Len(parsed) <= read
  /\ tail \in BOOLEAN /\ feeding \in BOOLEAN /\ fresh \in BOOLEAN /\ exact \in BOOLEAN
  /\ listed \in Nat /\ last \in 1..MaxOffset
  /\ parsed \in Seq(Nat)
  /\ outputs \in 0..MaxOutput
  /\ prompt \in Prompts /\ events \in Nat /\ bearer \in 0..events
  /\ generation \in Nat /\ usage \in Nat /\ protocol \in Nat /\ transport \in Nat
  /\ status \in {"headers", "body", "refused", "evidence"}

Init ==
  /\ \E s \in Streams : script = s.script /\ clock = s.clock
  /\ chain \in BOOLEAN
  /\ read = 0 /\ tail = FALSE /\ listed = 0 /\ exact = TRUE
  /\ feeding = FALSE /\ fresh = FALSE
  /\ last = 1 /\ parsed = <<>>
  /\ outputs = 0 /\ prompt = "none" /\ events = 0 /\ bearer = 0
  /\ generation = 0 /\ usage = 0 /\ protocol = 0 /\ transport = 0
  /\ status = "headers"

\* A clock does not run backwards; the offsets of a capture are only data.
Offsets == IF clock = "recorded" THEN 1..MaxOffset ELSE last..MaxOffset

AcceptResponseHeaders ==
  /\ status = "headers"
  /\ \E t \in Offsets, same \in BOOLEAN :
       IF same /\ t >= last
       THEN last' = t /\ status' = "body"
       ELSE UNCHANGED last /\ status' = "refused"
  /\ UNCHANGED <<wireVars, readVars, feeding, fresh, parsed, tokenVars,
                 generation, usage, protocol, transport>>

-----------------------------------------------------------------------------
(* feed                                                                     *)

\* A read raises in the parser, and then none of its frames is looked at, if
\* it is too long, a frame is no SSE, or anything but a comment follows [DONE].
ParserRaises(n) ==
  \/ n - read > BufferFrames
  \/ \E i \in (read + 1)..n :
       \/ script[i].kind = "notSSE"
       \/ script[i].kind # "comment" /\ \E j \in 1..(i - 1) : script[j].kind = "done"

\* A read of the body: it completes frames, begins one, or both.  A capture
\* may list any number of frame offsets with it, the first one a wrong one.
Feed ==
  /\ status = "body" /\ ~feeding
  /\ \E n \in read..Len(script), t \in Offsets, list \in 0..(Len(script) + 1) :
       /\ IF clock = "recorded" THEN list <= n - read + 1 ELSE list = n - read
       /\ read' = n
       /\ listed' = listed + list
       /\ exact' \in (IF clock = "recorded" /\ list > 0 THEN BOOLEAN ELSE {TRUE})
       /\ tail' \in (IF tail /\ n = read THEN {TRUE} ELSE BOOLEAN)
       /\ last' = IF t >= last THEN t ELSE last
       /\ status' = IF t < last \/ ParserRaises(n) THEN "refused" ELSE status
  /\ feeding' = TRUE /\ fresh' = TRUE
  /\ UNCHANGED <<wireVars, parsed, tokenVars, generation, usage, protocol, transport>>

Frame == script[Len(parsed) + 1]

\* The first frame of a read has the offset of the read; without a frame clock
\* all of them have.
Stamps == IF fresh \/ clock = "none" THEN {last} ELSE Offsets

\* frame_clock raises, or steps back: the frame is not retained.
LoseFrame ==
  /\ status = "body" /\ feeding /\ Len(parsed) < read
  /\ ~fresh /\ clock = "recorded"
  /\ listed <= Len(parsed) \/ \E t \in Stamps : t < last
  /\ status' = "refused"
  /\ UNCHANGED <<wireVars, readVars, feeding, fresh, last, parsed, tokenVars,
                 generation, usage, protocol, transport>>

Retain(t) ==
  /\ status = "body" /\ feeding /\ Len(parsed) < read
  /\ t \in Stamps /\ t >= last
  /\ ~fresh /\ clock = "recorded" => listed > Len(parsed)
  /\ last' = t
  /\ parsed' = Append(parsed, t)
  /\ fresh' = FALSE
  /\ UNCHANGED <<wireVars, readVars, feeding, transport>>

\* Variant: only data is refused after [DONE].
ReopenedByData(f) == protocol # 0 /\ f.kind # "comment"

Reopened(f) == protocol # 0

DoneFits(t) == usage # 0 /\ t > usage

\* Variant: the output tokens are not counted.
ChoiceFitsUncounted(f) ==
  /\ usage = 0 /\ generation = 0
  /\ f.prompt # "none" => prompt = "none"

\* Variant: a choice without output tokens is refused.
ChoiceFitsBearing(f) ==
  /\ usage = 0 /\ generation = 0
  /\ f.prompt # "none" => prompt = "none"
  /\ f.ids > 0 /\ outputs + f.ids <= MaxOutput
  /\ f.last => outputs + f.ids = MaxOutput

ChoiceFits(f) ==
  /\ usage = 0 /\ generation = 0
  /\ f.prompt # "none" => prompt = "none"
  /\ outputs + f.ids <= MaxOutput
  /\ f.last => outputs + f.ids = MaxOutput

\* Variant: the usage may be observed together with the end of the generation.
UsageFitsTied(t) == generation # 0 /\ usage = 0 /\ t >= generation

UsageFits(t) == generation # 0 /\ usage = 0 /\ t > generation

Fits(f, t) ==
  /\ ~Reopened(f)
  /\ \/ f.kind = "comment"
     \/ f.kind = "done" /\ DoneFits(t)
     \/ f.kind = "choice" /\ ChoiceFits(f)
     \/ f.kind = "usage" /\ UsageFits(t)

TakeComment(t) ==
  /\ Retain(t)
  /\ Frame.kind = "comment" /\ Fits(Frame, t)
  /\ UNCHANGED <<tokenVars, generation, usage, protocol, status>>

TakeDone(t) ==
  /\ Retain(t)
  /\ Frame.kind = "done" /\ Fits(Frame, t)
  /\ protocol' = t
  /\ UNCHANGED <<tokenVars, generation, usage, status>>

TakeChoice(t) ==
  /\ Retain(t)
  /\ Frame.kind = "choice" /\ Fits(Frame, t)
  /\ outputs' = outputs + Frame.ids
  /\ events' = events + 1
  /\ IF Frame.prompt = "none"
     THEN UNCHANGED <<prompt, bearer>>
     ELSE prompt' = Frame.prompt /\ bearer' = events + 1
  /\ generation' = IF Frame.last THEN t ELSE generation
  /\ UNCHANGED <<usage, protocol, status>>

TakeUsage(t) ==
  /\ Retain(t)
  /\ Frame.kind = "usage" /\ Fits(Frame, t)
  /\ usage' = t
  /\ UNCHANGED <<tokenVars, generation, protocol, status>>

RefuseFrame(t) ==
  /\ Retain(t)
  /\ ~Fits(Frame, t)
  /\ status' = "refused"
  /\ UNCHANGED <<tokenVars, generation, usage, protocol>>

\* Variant: the replay does not compare.
EndFeedUnchecked ==
  /\ status = "body" /\ feeding /\ Len(parsed) = read
  /\ feeding' = FALSE
  /\ UNCHANGED <<wireVars, readVars, fresh, last, parsed, tokenVars,
                 generation, usage, protocol, transport, status>>

\* A replay compares what was parsed of the read with what the capture lists.
EndFeed ==
  /\ status = "body" /\ feeding /\ Len(parsed) = read
  /\ feeding' = FALSE
  /\ status' = IF listed = Len(parsed) /\ exact THEN "body" ELSE "refused"
  /\ UNCHANGED <<wireVars, readVars, fresh, last, parsed, tokenVars,
                 generation, usage, protocol, transport>>

-----------------------------------------------------------------------------
(* close_transport and _evidence                                            *)

Ended(t) == t >= last /\ ~tail /\ protocol # 0 /\ t > protocol

\* Variant: the prompt may come with any token event.
ReconcilesAnywhere == chain /\ prompt = "sent"

\* The contract of the evidence wants the prompt in its first token event.
Reconciles == chain /\ prompt = "sent" /\ bearer = 1

CloseTransport ==
  /\ status = "body" /\ ~feeding
  /\ \E t \in Offsets :
       /\ last' = IF t >= last THEN t ELSE last
       /\ transport' = IF Ended(t) THEN t ELSE transport
       /\ status' = IF Ended(t) /\ Reconciles THEN "evidence" ELSE "refused"
  /\ UNCHANGED <<wireVars, readVars, feeding, fresh, parsed, tokenVars,
                 generation, usage, protocol>>

TakeFrame(t) == TakeComment(t) \/ TakeDone(t) \/ TakeChoice(t) \/ TakeUsage(t) \/ RefuseFrame(t)

Next ==
  \/ AcceptResponseHeaders
  \/ Feed
  \/ LoseFrame
  \/ \E t \in 1..MaxOffset : TakeFrame(t)
  \/ EndFeed
  \/ CloseTransport

Spec == Init /\ [][Next]_vars
-----------------------------------------------------------------------------
(* Properties                                                               *)

Arrived == SubSeq(script, 1, read)

\* The order of a completed stream: choices up to the one that finishes, one
\* usage, [DONE] as the last frame, and comments anywhere before it.
InOrder(s) ==
  \E g, u \in DOMAIN s :
    /\ g < u /\ u < Len(s)
    /\ s[g].kind = "choice" /\ s[g].last
    /\ s[u].kind = "usage"
    /\ s[Len(s)].kind = "done"
    /\ \A i \in DOMAIN s \ {g, u, Len(s)} :
         \/ s[i].kind = "comment"
         \/ i < g /\ s[i].kind = "choice" /\ ~s[i].last

\* Totals(s)[n] is the number of tokens in the first n frames of s.
Totals(s) ==
  LET total[n \in 0..Len(s)] == IF n = 0 THEN 0 ELSE total[n - 1] + s[n].ids
  IN total

Complete(s) ==
  /\ Totals(s)[Len(s)] = MaxOutput
  /\ \E i \in DOMAIN s :
       /\ s[i].kind = "choice" /\ s[i].prompt = "sent"
       /\ \A j \in DOMAIN s \ {i} : s[j].prompt = "none" /\ (j < i => s[j].kind # "choice")

\* Evidence is returned only of a stream that arrived in the order of a
\* completed one, every frame of it with a time and none before its
\* predecessor (Stage2StreamValidator.feed and close_transport; a replay takes
\* the times from the capture).  Whatever the cutting, no frame is skipped.
EvidenceInOrder ==
  status = "evidence" =>
    /\ InOrder(Arrived) /\ ~tail
    /\ Len(parsed) = read /\ listed = read
    /\ \A i, j \in DOMAIN parsed : i <= j => parsed[i] <= parsed[j]

\* Evidence is returned only of a stream that returned the prompt that was
\* sent, once and first, and all output tokens, and whose request the logs
\* identify (_accept_response, _evidence and its contract).
EvidenceComplete == status = "evidence" => Complete(Arrived) /\ chain

\* The offsets of the three terminals that frames carry.
Tied(offsets) ==
  \E i, j \in DOMAIN offsets : i < j /\ offsets[i] = offsets[j] /\ script[j].kind \in {"usage", "done"}

\* No step of feed refuses a completed stream, however it is cut into reads,
\* unless a read does not fit into the buffer or the clock stands still
\* between two frames, as it does within a read without a frame clock; and
\* close_transport refuses it only in the middle, with its clock standing
\* still, or for want of a log chain.
CompletedIsTaken ==
  [][ status = "body" /\ status' = "refused" /\ clock # "recorded"
        /\ InOrder(script) /\ Complete(script)
      => \/ feeding' /\ (read' - read > BufferFrames \/ Tied(parsed'))
         \/ ~feeding' /\ (read < Len(script) \/ tail \/ last' = last \/ ~chain)
    ]_vars

\* The validator implements FourTerminals: the terminals come once, in order
\* and at strictly increasing times, and all of them before any evidence.
Contract == INSTANCE FourTerminals WITH
  Times <- 1..MaxOffset,
  at <- <<generation, usage, protocol, transport>>,
  outcome <- IF status \in {"headers", "body"} THEN "open" ELSE status

ImplementsFourTerminals == Contract!Spec
=============================================================================
