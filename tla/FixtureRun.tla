------------------------------ MODULE FixtureRun ------------------------------
(***************************************************************************)
(* One Stage 1 run: runner.py starts the fixture server, loadgen.py runs   *)
(* the warmup request and then the measured ones under a semaphore, each   *)
(* executed by streaming.py against a handler of fixture_server.py; the    *)
(* runner stops the server and validates the evidence it has written.      *)
(*                                                                         *)
(* Everything runs on one asyncio event loop, so an action here is what    *)
(* runs between two awaits that may suspend.  Recording an event does not  *)
(* suspend: nothing awaits while it holds a lock of the EvidenceCollector, *)
(* so the lock is always free.                                             *)
(***************************************************************************)
EXTENDS Stage1Evidence

CONSTANTS
  Warmup,          \* the warmup request
  Loads,           \* what a run may execute: the measured requests, in their
                   \* declared order; how many read timeouts that no stall
                   \* explains and cancellations of the main task there may
                   \* be, taken together; and how many misses of the SLO
  Script,          \* the fixture actions the server takes for each request
  ExpectedTokens,  \* expected_output_token_count of each request's case
  Concurrency      \* requested_client_concurrency

Requests == {Warmup} \cup UNION {Range(l.measured) : l \in Loads}

\* Besides frames a script has stalls, longer than the read timeout, and
\* HTTP errors, which only make sense as the first action.
FixtureActions == Frames \cup {"stall", "httpError"}

ASSUME FixtureAssumption ==
  /\ \A l \in Loads : /\ l.measured \in Seq(Range(l.measured)) /\ Warmup \notin Range(l.measured)
                      /\ l.measured # <<>> /\ IsInjective(l.measured)
                      /\ l.upsets \in Nat /\ l.misses \in Nat
  /\ \A r \in Requests : Script[r] # <<>> /\ Script[r] \in Seq(FixtureActions)
  /\ ExpectedTokens \in [Requests -> Nat]
  /\ Concurrency \in Nat \ {0}

VARIABLES
  phase,      \* how far the runner is
  aborting,   \* the main task is being cancelled
  ready,      \* the tasks that were handed a permit and have not resumed yet
  waiting,    \* the tasks queued at the semaphore
  permits,    \* the value of the semaphore
  client,     \* the await each client task is at
  status,     \* the response status a client has seen: 2xx, an error or none
  deltas,     \* the token counts of its request record
  kind,       \* its failure_kind, NONE for a success
  gone,       \* the requests whose connection the client has closed
  overdue,    \* the successes that took longer than the threshold of the SLO
  wire,       \* what the server has sent and the client has not read
  handler,    \* the state of each request's handler
  at,         \* the fixture action the handler is at
  evidence,   \* the stream events of each request, in log order
  lifecycle,  \* the STARTED and ENDED events of all requests, in log order
  served,     \* the server events of each request
  load,       \* what this run executes
  slow, interrupts

taskVars == <<ready, waiting, permits>>
clientVars == <<client, status, deltas, kind, gone, overdue>>
serverVars == <<handler, at, served>>
logVars == <<evidence, lifecycle>>
vars == <<phase, aborting, taskVars, clientVars, wire, serverVars, logVars, load, slow, interrupts>>

Phases == {"warmup", "created", "measured", "stopping", "accepted", "refused", "aborted"}
InFlight == {"sending", "reading", "draining", "closing"}

Measured == load.measured
Planned == {Warmup} \cup Range(Measured)

Event0(k) == Event(k, "none")

Init ==
  /\ phase = "warmup" /\ aborting = FALSE
  /\ ready = <<>> /\ waiting = <<>> /\ permits = Concurrency
  /\ client = [r \in Requests |-> "new"]
  /\ status = [r \in Requests |-> "none"]
  /\ deltas = [r \in Requests |-> <<>>]
  /\ kind = [r \in Requests |-> "NONE"]
  /\ gone = {} /\ overdue = {}
  /\ wire = [r \in Requests |-> <<>>]
  /\ handler = [r \in Requests |-> "new"]
  /\ at = [r \in Requests |-> 1]
  /\ evidence = [r \in Requests |-> <<>>]
  /\ lifecycle = <<>>
  /\ served = [r \in Requests |-> <<>>]
  /\ load \in Loads /\ slow = 0 /\ interrupts = 0

-----------------------------------------------------------------------------
(* The load generator.                                                      *)

Log(r, events) == evidence' = [evidence EXCEPT ![r] = @ \o events]
Started == <<Event0("CLIENT_REQUEST_STARTED")>>
LogLifecycle(k, rs) == lifecycle' = lifecycle \o [i \in DOMAIN rs |-> Event(k, rs[i])]
KeepIdle == UNCHANGED <<aborting, status, deltas, kind, gone, overdue, wire, serverVars, load, slow, interrupts>>

\* Record the start, build the request and await the response head.
StartWarmup ==
  /\ phase = "warmup" /\ client[Warmup] = "new"
  /\ client' = [client EXCEPT ![Warmup] = "sending"]
  /\ Log(Warmup, Started)
  /\ LogLifecycle("CLIENT_REQUEST_STARTED", <<Warmup>>)
  /\ UNCHANGED <<phase, taskVars>> /\ KeepIdle

\* The tasks created for gather run in turn before the loop polls again: the
\* first ones find the semaphore free, the others queue.
StartTasks ==
  /\ phase = "created"
  /\ phase' = "measured"
  /\ LET n == IF Len(Measured) < Concurrency THEN Len(Measured) ELSE Concurrency
         first == SubSeq(Measured, 1, n)
     IN /\ client' = [r \in Requests |->
                        IF r \in Range(first) THEN "sending"
                        ELSE IF r \in Range(Measured) THEN "queued" ELSE client[r]]
        /\ evidence' = [r \in Requests |->
                          evidence[r] \o (IF r \in Range(first) THEN Started ELSE <<>>)]
        /\ LogLifecycle("CLIENT_REQUEST_STARTED", first)
        /\ permits' = permits - n
        /\ waiting' = SubSeq(Measured, n + 1, Len(Measured))
  /\ UNCHANGED ready /\ KeepIdle

\* The event loop resumes the task that was handed a permit first.
Resume ==
  /\ phase = "measured" /\ ready # <<>>
  /\ client' = [client EXCEPT ![Head(ready)] = "sending"]
  /\ Log(Head(ready), Started)
  /\ LogLifecycle("CLIENT_REQUEST_STARTED", <<Head(ready)>>)
  /\ ready' = Tail(ready)
  /\ UNCHANGED <<phase, permits, waiting>> /\ KeepIdle

\* Variant: leaving the semaphore wakes every waiter.
ReleaseAll ==
  /\ permits' = permits + (IF waiting = <<>> THEN 1 ELSE 0)
  /\ ready' = ready \o waiting
  /\ waiting' = <<>>

\* Variant: the permit is handed over and given back too.
ReleaseTwice ==
  /\ permits' = permits + 1
  /\ ready' = IF waiting = <<>> THEN ready ELSE Append(ready, Head(waiting))
  /\ waiting' = IF waiting = <<>> THEN waiting ELSE Tail(waiting)

\* Variant: the permit is given back and nobody is woken.
ReleaseSilently == permits' = permits + 1 /\ UNCHANGED <<ready, waiting>>

\* Leaving "async with semaphore" hands the permit to the first waiter.
Release ==
  IF waiting = <<>>
    THEN permits' = permits + 1 /\ UNCHANGED <<ready, waiting>>
    ELSE /\ ready' = Append(ready, Head(waiting))
         /\ waiting' = Tail(waiting)
         /\ UNCHANGED permits

-----------------------------------------------------------------------------
(* execute_streaming_request.                                               *)

\* Variant: an exception closes the stream and leaves the outcome a success.
DecideNothing(r, k) ==
  /\ client' = [client EXCEPT ![r] = "closing"]
  /\ kind' = kind

\* An exception decides the terminal class; what is left is to await aclose.
Decide(r, k) ==
  /\ client' = [client EXCEPT ![r] = "closing"]
  /\ kind' = [kind EXCEPT ![r] = k]

Reads(r, item) ==
  /\ wire[r] # <<>> /\ Head(wire[r]) = item
  /\ wire' = [wire EXCEPT ![r] = Tail(@)]

KeepAround == UNCHANGED <<phase, aborting, taskVars, overdue, serverVars, lifecycle>>

ReadHead(r) ==
  /\ client[r] = "sending"
  /\ \E s \in {"ok", "error"} : Reads(r, s) /\ status' = [status EXCEPT ![r] = s]
  /\ client' = [client EXCEPT ![r] = "reading"]
  /\ KeepAround /\ UNCHANGED <<deltas, kind, gone, evidence, load, slow, interrupts>>

\* A raw chunk is recorded before it is parsed; the body of an error response
\* is not parsed.
ReadChunk(r) ==
  /\ client[r] = "reading"
  /\ \E f \in Frames \cup {"text"} :
       LET seen == Raw(evidence[r])
           raw == Event("RAW_BODY_CHUNK", f)
           verdict == FrameFailure(seen, f)
       IN /\ Reads(r, f)
          /\ \/ /\ status[r] = "error"
                /\ Log(r, <<raw>>)
                /\ UNCHANGED <<client, kind, deltas>>
             \/ /\ status[r] = "ok" /\ verdict # "NONE"
                /\ Log(r, <<raw>>)
                /\ Decide(r, verdict)
                /\ UNCHANGED deltas
             \/ /\ status[r] = "ok" /\ verdict = "NONE"
                /\ Log(r, <<raw, EventOf(f)>>)
                /\ deltas' = [deltas EXCEPT ![r] = IF f \in Data THEN Append(@, Tokens(f)) ELSE @]
                /\ UNCHANGED <<client, kind>>
  /\ KeepAround /\ UNCHANGED <<status, gone, load, slow, interrupts>>

\* aiter_raw closes the response itself at the end of the body.
ReadEof(r) ==
  /\ client[r] = "reading"
  /\ Reads(r, "eof")
  /\ client' = [client EXCEPT ![r] = "draining"]
  /\ kind' = [kind EXCEPT ![r] =
       IF status[r] = "error" THEN "HTTP_STATUS"
       ELSE KindAtEof(Raw(evidence[r]), deltas[r], ExpectedTokens[r])]
  /\ KeepAround /\ UNCHANGED <<status, deltas, gone, evidence, load, slow, interrupts>>

\* The server closed the connection in the middle of a response.
ReadReset(r) ==
  /\ client[r] = "reading"
  /\ Reads(r, "reset")
  /\ Decide(r, "TRANSPORT")
  /\ KeepAround /\ UNCHANGED <<status, deltas, gone, evidence, load, slow, interrupts>>

\* httpx gives up on a read: the server stalls, or is slow.
Timeout(r) ==
  /\ client[r] \in {"sending", "reading"}
  /\ wire[r] = <<>>
  /\ \/ handler[r] = "stalled" /\ UNCHANGED slow
     \/ handler[r] # "stalled" /\ slow + interrupts < load.upsets /\ slow' = slow + 1
  /\ Decide(r, "TIMEOUT")
  /\ KeepAround /\ UNCHANGED <<status, deltas, gone, wire, evidence, load, interrupts>>

\* The response is closed: the terminal event and the end are recorded, and the task
\* is done.  A success is told by the clock, read now, whether it meets the SLO.
\* After the warmup the measured tasks are created.
Close(r) ==
  /\ client[r] \in {"draining", "closing"}
  /\ gone' = gone \cup {r}
  /\ wire' = [wire EXCEPT ![r] = <<>>]
  /\ \/ UNCHANGED overdue
     \/ /\ kind[r] = "NONE" /\ Cardinality(overdue) < load.misses
        /\ overdue' = overdue \cup {r}
  /\ Log(r, <<Event("REQUEST_TERMINAL", kind[r]), Event0("CLIENT_REQUEST_ENDED")>>)
  /\ LogLifecycle("CLIENT_REQUEST_ENDED", <<r>>)
  /\ IF r = Warmup
       THEN /\ phase' = "created"
            /\ client' = [client EXCEPT ![r] = "ended"]
            /\ UNCHANGED taskVars
       ELSE /\ Release
            /\ client' = [c \in Requests |->
                 IF c = r THEN "ended"
                 ELSE IF waiting # <<>> /\ c = Head(waiting) THEN "granted" ELSE client[c]]
            /\ UNCHANGED phase
  /\ UNCHANGED <<aborting, status, deltas, kind, serverVars, load, slow, interrupts>>

-----------------------------------------------------------------------------
(* FixtureServer._handle_client and _execute_case.                          *)

KeepClient == UNCHANGED <<phase, aborting, taskVars, clientVars, logVars, load, slow, interrupts>>

\* What the server writes to a closed connection is lost.
Send(r, items) == wire' = [wire EXCEPT ![r] = IF r \in gone THEN @ ELSE @ \o items]
Serve(r, events) == served' = [served EXCEPT ![r] = @ \o events]
Finish(r, events) ==
  /\ handler' = [handler EXCEPT ![r] = "done"]
  /\ Serve(r, events \o <<Event0("REQUEST_HANDLER_ENDED")>>)

Accept(r) ==
  /\ handler[r] = "new"
  /\ client[r] \notin {"new", "queued", "granted"}
  /\ client[r] # "abandoned" \/ r \in gone    \* one that never connected has no handler
  /\ phase \in {"warmup", "created", "measured", "stopping"}
  /\ IF Script[r][1] = "httpError"
       THEN /\ Send(r, <<"error", "text", "eof">>)
            /\ Finish(r, <<Event0("REQUEST_ACCEPTED"), Event0("HTTP_ERROR_SENT")>>)
       ELSE /\ Send(r, <<"ok">>)
            /\ Serve(r, <<Event0("REQUEST_ACCEPTED"), Event0("RESPONSE_HEADERS_SENT")>>)
            /\ handler' = [handler EXCEPT ![r] = "serving"]
  /\ UNCHANGED at
  /\ KeepClient

\* The next action, after its delay; the last chunk when there is none left.
Act(r) ==
  /\ handler[r] = "serving"
  /\ \/ /\ at[r] > Len(Script[r])
        /\ Send(r, <<"eof">>)
        /\ Finish(r, <<>>)
        /\ UNCHANGED at
     \/ /\ at[r] <= Len(Script[r]) /\ Script[r][at[r]] \in Frames
        /\ Send(r, <<Script[r][at[r]]>>)
        /\ Serve(r, <<Event("SENT", Script[r][at[r]])>>)
        /\ at' = [at EXCEPT ![r] = @ + 1]
        /\ UNCHANGED handler
     \/ /\ at[r] <= Len(Script[r]) /\ Script[r][at[r]] = "stall"
        /\ Serve(r, <<Event0("STALL_STARTED")>>)
        /\ handler' = [handler EXCEPT ![r] = "stalled"]
        /\ UNCHANGED <<wire, at>>
     \/ /\ at[r] <= Len(Script[r]) /\ Script[r][at[r]] = "httpError"   \* RuntimeError
        /\ Send(r, <<"reset">>)
        /\ Finish(r, <<>>)
        /\ UNCHANGED at
  /\ KeepClient

\* A stall outlasts the read timeout of the client.
StallEnds(r) ==
  /\ handler[r] = "stalled"
  /\ client[r] \notin {"sending", "reading"}
  /\ handler' = [handler EXCEPT ![r] = "serving"]
  /\ at' = [at EXCEPT ![r] = @ + 1]
  /\ UNCHANGED <<wire, served>>
  /\ KeepClient

\* A write finds the connection closed.
Disconnected(r) ==
  /\ handler[r] = "serving"
  /\ r \in gone
  /\ Finish(r, <<Event0("CLIENT_DISCONNECTED")>>)
  /\ UNCHANGED <<wire, at>>
  /\ KeepClient

-----------------------------------------------------------------------------
(* The runner.                                                              *)

KeepRun == UNCHANGED <<taskVars, clientVars, wire, logVars, load, slow, interrupts>>

\* gather returns, at once if a task was cancelled; the client is closed and the
\* server is told to stop.
Gathered ==
  /\ phase = "measured"
  /\ \/ \A r \in Range(Measured) : client[r] = "ended"
     \/ \E r \in Range(Measured) : client[r] = "abandoned"
  /\ phase' = "stopping"
  /\ UNCHANGED <<aborting, serverVars>> /\ KeepRun

\* stop cancels a handler whose connection is already lost.
CancelHandler(r) ==
  /\ phase = "stopping"
  /\ handler[r] \in {"serving", "stalled"} /\ r \in gone
  /\ Finish(r, <<>>)
  /\ UNCHANGED <<phase, aborting, at>> /\ KeepRun

\* validate_execution_bundle on the files just written.
BundleValid ==
  /\ \A r \in Planned : RequestValid(evidence[r], status[r] = "ok", kind[r], deltas[r])
  /\ LifecycleValid(lifecycle, Concurrency)

\* Variant: stop does not wait for the handlers.
StoppedEarly ==
  /\ phase = "stopping"
  /\ phase' = IF aborting THEN "aborted" ELSE IF BundleValid THEN "accepted" ELSE "refused"
  /\ UNCHANGED <<aborting, serverVars>> /\ KeepRun

\* stop returns when every handler has ended; an aborted run writes nothing.
Stopped ==
  /\ phase = "stopping"
  /\ \A r \in Requests : handler[r] \in {"new", "done"}
  /\ phase' = IF aborting THEN "aborted" ELSE IF BundleValid THEN "accepted" ELSE "refused"
  /\ UNCHANGED <<aborting, serverVars>> /\ KeepRun

\* The main task is cancelled.  It awaits the warmup itself, which takes the
\* cancellation for its own outcome unless it is already closing; later it
\* awaits gather, which cancels every task, or the server's stop.
Interrupt ==
  /\ slow + interrupts < load.upsets
  /\ interrupts' = interrupts + 1
  /\ LET awaited == CASE phase = "warmup" -> {Warmup}
                      [] phase = "measured" -> Range(Measured)
                      [] OTHER -> {}
         caught == {r \in awaited : client[r] \in {"sending", "reading", "draining"}}
         lost == {r \in awaited : client[r] \in {"new", "queued", "granted", "closing"}}
         held == {r \in lost \ {Warmup} : client[r] \in {"granted", "closing"}}
     IN /\ phase \in {"warmup", "measured", "stopping"}
        /\ client' = [r \in Requests |-> IF r \in caught THEN "closing"
                                         ELSE IF r \in lost THEN "abandoned" ELSE client[r]]
        /\ kind' = [r \in Requests |-> IF r \in caught THEN "CANCELLED" ELSE kind[r]]
        /\ gone' = gone \cup {r \in lost : client[r] = "closing"}
        /\ IF phase = "warmup" /\ caught # {}
             THEN UNCHANGED <<phase, aborting, ready>>
             ELSE /\ aborting' = TRUE
                  /\ ready' = <<>>
                  /\ phase' = IF phase = "warmup" THEN "stopping" ELSE phase
        /\ permits' = permits + Cardinality(held)
  /\ waiting' = <<>>
  /\ UNCHANGED <<status, deltas, overdue, wire, serverVars, logVars, load, slow>>

Client(r) == ReadHead(r) \/ ReadChunk(r) \/ ReadEof(r) \/ ReadReset(r) \/ Close(r)
Server(r) == Accept(r) \/ Act(r) \/ StallEnds(r) \/ Disconnected(r) \/ CancelHandler(r)
Runner == StartWarmup \/ StartTasks \/ Resume \/ Gathered \/ Stopped

Next ==
  \/ Runner \/ Interrupt
  \/ \E r \in Requests : Client(r) \/ Server(r) \/ Timeout(r)

(* The event loop runs every task that can run, the loopback connection      *)
(* delivers, and the timers of a stall and of a read expire.                 *)
Fairness ==
  /\ WF_vars(Runner)
  /\ \A r \in Requests : /\ WF_vars(Client(r))
                         /\ WF_vars(Server(r))
                         /\ WF_vars(Timeout(r) /\ handler[r] = "stalled")

Spec == Init /\ [][Next]_vars /\ Fairness

-----------------------------------------------------------------------------
TypeOK ==
  /\ phase \in Phases /\ aborting \in BOOLEAN
  /\ ready \in Seq(Requests) /\ waiting \in Seq(Requests) /\ permits \in 0..Concurrency
  /\ client \in [Requests -> InFlight \cup {"new", "queued", "granted", "ended", "abandoned"}]
  /\ status \in [Requests -> {"none", "ok", "error"}]
  /\ deltas \in [Requests -> Seq(Nat)]
  /\ kind \in [Requests -> Kinds]
  /\ gone \in SUBSET Requests /\ overdue \in SUBSET Requests
  /\ handler \in [Requests -> {"new", "serving", "stalled", "done"}]
  /\ at \in [Requests -> Nat \ {0}]
  /\ load \in Loads /\ slow + interrupts \in 0..load.upsets

Over == phase \in {"accepted", "refused"}

(* The load is closed-loop as the lifecycle evidence tells it: the measured  *)
(* requests start in their declared order and at most Concurrency of them    *)
(* have started and not ended, whatever fails, times out or is cancelled.    *)
StartPositions(log) ==
  {i \in DOMAIN log : log[i].kind = "CLIENT_REQUEST_STARTED" /\ log[i].of # Warmup}
StartedOf(log) ==
  LET starts == StartPositions(log)
      nth(k) == CHOOSE i \in starts : Cardinality({j \in starts : j <= i}) = k
  IN [k \in 1..Cardinality(starts) |-> log[nth(k)].of]
Loop == INSTANCE ClosedLoop
          WITH order <- Measured,
               started <- StartedOf(lifecycle),
               running <- ActiveAfter(lifecycle, Len(lifecycle)) \ {Warmup}
ImplementsClosedLoop == Loop!Spec

(* The validator accepts what a run retained, in every interleaving of       *)
(* clients, handlers and failures, unless a request failed after it had      *)
(* already seen [DONE].                                                      *)
OwnEvidenceAccepted ==
  phase = "refused" =>
    \E r \in Requests : kind[r] # "NONE" /\ "done" \in Range(Raw(evidence[r]))

(* Without a read timeout that no stall explains and without a cancellation, *)
(* a run compares equal to what its load declares (compare_validated_bundles) *)
(* exactly if every success met the SLO: its requests end as their scripts    *)
(* have it, with the body and the tokens the client should have read, and     *)
(* the concurrency is reached, however they interleave.                       *)
ThisRun ==
  [records |-> [r \in Planned |-> RequestRecord(kind[r], deltas[r], evidence[r])],
   slo |-> {r \in Planned : kind[r] = "NONE" /\ r \notin overdue},
   log |-> lifecycle]
\* Where a client stops reading the stream of script s: at the frame it refuses, or at the
\* stall or the error that the server goes no further than.
StopsAt(s) ==
  Min({i \in DOMAIN s : s[i] \notin Frames \/ FrameFailure(SubSeq(s, 1, i - 1), s[i]) # "NONE"}
      \cup {Len(s) + 1})
DeclaredRecord(r) ==
  LET s == Script[r]
      stop == StopsAt(s)
      parsed == SubSeq(s, 1, stop - 1)
      refuses == stop <= Len(s) /\ s[stop] \in Frames
  IN [kind |-> CASE s[1] = "httpError" -> "HTTP_STATUS"
                 [] stop > Len(s) -> KindAtEof(parsed, Shapes(parsed), ExpectedTokens[r])
                 [] refuses -> FrameFailure(parsed, s[stop])
                 [] OTHER -> IF s[stop] = "stall" THEN "TIMEOUT" ELSE "TRANSPORT",
      deltas |-> Shapes(parsed),
      body |-> IF s[1] = "httpError" THEN <<"text">>
               ELSE IF refuses THEN Append(parsed, s[stop]) ELSE parsed,
      protocol |-> [i \in DOMAIN parsed |->
                      [kind |-> EventOf(parsed[i]).kind, tokens |-> Tokens(parsed[i])]]]
DeclaredLog ==
  LET first == SubSeq(Measured, 1, Min({Concurrency, Len(Measured)}))
      each(k, rs) == [i \in DOMAIN rs |-> Event(k, rs[i])]
  IN each("CLIENT_REQUEST_STARTED", first) \o each("CLIENT_REQUEST_ENDED", first)
DeclaredRun ==
  [records |-> [r \in Planned |-> DeclaredRecord(r)],
   slo |-> {r \in Planned : DeclaredRecord(r).kind = "NONE"},
   log |-> DeclaredLog]
Calm == slow = 0 /\ interrupts = 0
ComparesAsDeclared == PolicyPassed(ThisRun, DeclaredRun, Range(Measured))
ComparesEqual == Over /\ Calm => (ComparesAsDeclared <=> overdue = {})

(* The server events that are written tell the whole story of each accepted  *)
(* request, also of one its client gave up on: its handler has ended, once,  *)
(* and every frame the client retained is recorded as sent, in order.        *)
ServerEventsComplete ==
  Over => \A r \in Requests : served[r] # <<>> =>
    /\ served[r][1].kind = "REQUEST_ACCEPTED"
    /\ Last(served[r]).kind = "REQUEST_HANDLER_ENDED"
    /\ Len(Recorded(served[r], "REQUEST_HANDLER_ENDED")) = 1
    /\ status[r] = "ok" =>
         IsPrefix(Raw(evidence[r]), Subjects(Recorded(served[r], "SENT")))

(* The run ends: no request waits for ever at the semaphore, for a stalled   *)
(* handler or for the server to stop.                                        *)
RunEnds == <>(phase \in {"accepted", "refused", "aborted"})
=============================================================================
