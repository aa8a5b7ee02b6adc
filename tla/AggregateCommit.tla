--------------------------- MODULE AggregateCommit ---------------------------
(***************************************************************************)
(* The aggregate root of a Stage 2 experiment (stage2_experiment.py): the  *)
(* bundles of the repetitions, the documents derived from them, and the    *)
(* manifest that write_aggregate_manifest_last publishes over them.        *)
(*                                                                         *)
(* A bundle behaves as BundleContract promises where every sync is durable *)
(* and the directory of the bundle has a durable parent.  The collector,   *)
(* not part of the code, is a process that runs the repetitions, writes    *)
(* the documents and calls write_aggregate_manifest_last.  A new one may   *)
(* be started in the same root, after a crash or because the one before    *)
(* seems to hang: each is an attempt, and the root may hold parts of       *)
(* several.  What a part says is abstracted to the attempt that made it.   *)
(***************************************************************************)
EXTENDS Naturals, FiniteSets

CONSTANTS
  Repetitions,       \* the code requires three
  MaxAttempts,       \* bound on the attempts of the collector
  Reproducing,       \* the attempts whose repetitions return the same outputs
  MaxTime,           \* bound on the ticks of the file system's clock
  MaxFaults          \* bound on failed steps, killed processes and power losses

Shared == "shared"            \* environment, locks, snapshot, launch specification, workload
Comparisons == "comparisons"  \* the cross-restart comparisons and their result
Documents == {Shared, Comparisons}
Parts == Repetitions \cup Documents
Attempts == 1..MaxAttempts
Writers == Attempts  \* each calls write_aggregate_manifest_last once

ASSUME AggregateAssumption ==
  /\ Repetitions # {} /\ Repetitions \cap Documents = {}
  /\ MaxAttempts \in Nat \ {0}
  /\ Reproducing \subseteq Attempts
  /\ MaxTime \in Nat \ {0} /\ MaxFaults \in Nat

VARIABLES
  now,        \* the clock of the file system, as coarse as its time stamps
  attempt,    \* the attempt under way
  seen, told, \* of the bundles, as in BundleContract
  tied,       \* the bundles whose manifest is no later than their last file
  of,         \* the attempt that made each part, 0 if it is missing
  final,      \* the final attestation: the attempt of each part it retains, or Nothing
  last,       \* the latest time stamp of a part or of the attestation
  synced,     \* the documents that are on stable storage
  temps,      \* the writers whose temporary file is in the root
  manifest,   \* the aggregate manifest in the root, or NoFile
  stable,     \* the one a power loss would restore
  pc, draft,  \* of each writer: its next step, the manifest it was called with,
  wrote,      \* and when it wrote its temporary file
  faults

collectorVars == <<attempt, tied, of, final, last, synced>>
bundleVars == <<seen, told>>
rootVars == <<temps, manifest, stable>>
writerVars == <<pc, draft, wrote>>
vars == <<now, collectorVars, bundleVars, rootVars, writerVars, faults>>

\* A power loss is one of the faults that are counted here.
Bundle == INSTANCE BundleContract WITH Bundles <- Repetitions, losses <- faults

NoFile == [kind |-> "absent"]
States == {"COMMITTED", "INVALID"}
Retained == [Parts -> Attempts]
Nothing == [x \in Parts |-> 0]
Listing == [kind : {"listing"}, parts : Retained, final : Retained, state : States]
Manifests ==
  [kind : {"manifest"}, by : Writers, at : 1..MaxTime, bytes : {"cached", "flushed", "torn"},
   listing : Listing]

InFlight == {"absent", "validated", "written", "flushed", "replaced"}
TypeOK ==
  /\ now \in 1..MaxTime /\ attempt \in Attempts
  /\ seen \in [Repetitions -> Bundle!Seen] /\ told \in [Repetitions -> Bundle!Told]
  /\ tied \subseteq Repetitions
  /\ of \in [Parts -> Attempts \cup {0}]
  /\ final \in Retained \cup {Nothing}
  /\ last \in 0..MaxTime
  /\ synced \subseteq Documents \cup {"final"}
  /\ temps \subseteq Writers
  /\ manifest \in Manifests \cup {NoFile} /\ stable \in Manifests \cup {NoFile}
  /\ pc \in [Writers -> InFlight \cup {"idle", "published", "refused", "failed", "dead"}]
  /\ draft \in [Writers -> Listing \cup {NoFile}]
  /\ \A w \in Writers : draft[w] # NoFile <=> pc[w] \in InFlight
  /\ wrote \in [Writers -> 0..MaxTime]
  /\ faults \in 0..MaxFaults

Init ==
  /\ now = 1 /\ attempt = 1
  /\ Bundle!Init
  /\ tied = {} /\ of = [x \in Parts |-> 0] /\ final = Nothing
  /\ last = 0 /\ synced = {}
  /\ temps = {} /\ manifest = NoFile /\ stable = NoFile
  /\ pc = [w \in Writers |-> "idle"] /\ draft = [w \in Writers |-> NoFile]
  /\ wrote = [w \in Writers |-> 0]
  /\ faults = 0

Tick ==
  /\ now < MaxTime /\ now' = now + 1
  /\ UNCHANGED <<collectorVars, bundleVars, rootVars, writerVars, faults>>

-----------------------------------------------------------------------------
(* What must agree before a root is accepted                                *)

\* The three records of a case agree in every field, or the case does not reproduce.
CompareRestarts(a) == IF a \in Reproducing THEN "COMMITTED" ELSE "INVALID"

\* The result is that of the comparisons, whose records name the manifests of
\* the bundles they were taken from.
RecordsNumbered(retained) == \A r \in Repetitions : retained[Comparisons] # 0  \* variant: not bound
RecordsBound(retained) == \A r \in Repetitions : retained[Comparisons] = retained[r]
Result(retained) == CompareRestarts(retained[Comparisons])

\* Every repetition retains the whole process sequence, its own server in it.
OneProcessSequence(retained) == \A r, q \in Repetitions : retained[r] = retained[q]

\* Environment, launch specification, snapshot and workload are those of every repetition.
SharedByAll(retained) == \A r \in Repetitions : retained[Shared] = retained[r]

ExperimentHolds(retained) ==
  /\ OneProcessSequence(retained)
  /\ SharedByAll(retained)
  /\ RecordsBound(retained)

\* Every file is what the final attestation retains of it.
DocumentsMatch(listing) == \A d \in Documents : listing.parts[d] = listing.final[d]
RepetitionsMatch(listing) == \A r \in Repetitions : listing.parts[r] = listing.final[r]

BundlesStand == \A r \in Repetitions : seen[r] = "COMMITTED" /\ r \notin tied

TerminalGraph(listing) ==
  /\ ExperimentHolds(listing.final)
  /\ DocumentsMatch(listing)
  /\ RepetitionsMatch(listing)
  /\ BundlesStand

\* The state of the root is the result of the attestation.
RootMatches(listing) == listing.state = Result(listing.final)

Inventoried(listing) == listing.parts = of /\ listing.final = final

\* What reconstruct_experiment_attestation accepts.
StrictlyLast(m) == last < m.at
Reconstructs ==
  /\ manifest # NoFile
  /\ manifest.bytes # "torn"
  /\ temps = {}
  /\ Inventoried(manifest.listing)
  /\ StrictlyLast(manifest)
  /\ TerminalGraph(manifest.listing)
  /\ RootMatches(manifest.listing)

-----------------------------------------------------------------------------
(* The collector                                                            *)

\* The latest attempt, as long as it has not called the writer.
Collecting == pc[attempt] = "idle"

\* The builder of a bundle begins only in a directory that does not exist.
Publish(r) ==
  /\ Collecting
  /\ of[r] = 0
  /\ Bundle!Publish(r)
  /\ of' = [of EXCEPT ![r] = attempt]
  /\ last' = now
  /\ tied' \in {tied, tied \cup {r}}
  /\ UNCHANGED <<now, attempt, final, synced, rootVars, writerVars, faults>>

Conclude(r) ==
  /\ Collecting
  /\ of[r] # 0
  /\ Bundle!Confirm(r) \/ Bundle!Retract(r)
  /\ UNCHANGED <<now, collectorVars, rootVars, writerVars, faults>>

\* The operator removes the bundle of an earlier attempt.
Remove(r) ==
  /\ Collecting
  /\ of[r] \in 1..(attempt - 1)
  /\ of' = [of EXCEPT ![r] = 0]
  /\ tied' = tied \ {r}
  /\ seen' = [seen EXCEPT ![r] = "INCOMPLETE"]
  /\ told' = [told EXCEPT ![r] = "nothing"]
  /\ UNCHANGED <<now, attempt, final, last, synced, rootVars, writerVars, faults>>

\* The documents are written when the bundles stand, whichever attempt they are of.
PutDocument(d) ==
  /\ Collecting
  /\ of[d] # attempt
  /\ \A r \in Repetitions : told[r] = "committed"
  /\ of' = [of EXCEPT ![d] = attempt]
  /\ last' = now
  /\ synced' = synced \ {d}
  /\ UNCHANGED <<now, attempt, tied, final, bundleVars, rootVars, writerVars, faults>>

\* From the parts that are in the root, those of earlier attempts included.
PutFinal ==
  /\ Collecting
  /\ of \in Retained
  /\ final # of
  /\ final' = of
  /\ last' = now
  /\ synced' = synced \ {"final"}
  /\ UNCHANGED <<now, attempt, tied, of, bundleVars, rootVars, writerVars, faults>>

SyncDocuments ==
  /\ Collecting
  /\ final = of
  /\ synced' = {d \in Documents : of[d] # 0} \cup (IF final = Nothing THEN {} ELSE {"final"})
  /\ synced' # synced
  /\ UNCHANGED <<now, attempt, tied, of, final, last, bundleVars, rootVars, writerVars, faults>>

NextAttempt ==
  /\ attempt + 1 \in Attempts
  /\ attempt' = attempt + 1
  /\ UNCHANGED <<now, tied, of, final, last, synced, bundleVars, rootVars, writerVars, faults>>

-----------------------------------------------------------------------------
(* write_aggregate_manifest_last                                            *)

Goto(w, from, to) ==
  /\ pc[w] = from
  /\ pc' = [pc EXCEPT ![w] = to]
  /\ UNCHANGED <<draft, wrote>>

\* The call ends.
Leave(w, how) ==
  /\ pc' = [pc EXCEPT ![w] = how]
  /\ draft' = [draft EXCEPT ![w] = NoFile]
  /\ wrote' = [wrote EXCEPT ![w] = 0]

InRoot == <<now, collectorVars, bundleVars, faults>>

Valid(listing) ==
  /\ temps = {} /\ manifest = NoFile
  /\ Inventoried(listing)
  /\ TerminalGraph(listing)
  /\ RootMatches(listing)

\* Variant: a part may be missing.
BeginPartly(w) ==
  /\ w = attempt /\ pc[w] = "idle" /\ manifest = NoFile
  /\ pc' = [pc EXCEPT ![w] = "absent"]
  /\ draft' = [draft EXCEPT ![w] =
                 [kind |-> "listing", parts |-> of, final |-> final, state |-> "COMMITTED"]]
  /\ UNCHANGED <<InRoot, rootVars, wrote>>

\* The caller builds the manifest from the files in the root; the state is its
\* claim.  A manifest is never replaced, which is tested here, and only here.
Begin(w) ==
  /\ w = attempt /\ pc[w] = "idle"
  /\ of \in Retained /\ final # Nothing
  /\ IF manifest # NoFile THEN Leave(w, "refused")
     ELSE /\ pc' = [pc EXCEPT ![w] = "absent"]
          /\ \E s \in States :
               draft' = [draft EXCEPT ![w] =
                           [kind |-> "listing", parts |-> of, final |-> final, state |-> s]]
          /\ UNCHANGED wrote
  /\ UNCHANGED <<InRoot, rootVars>>

Validate(w) ==
  /\ pc[w] = "absent"
  /\ IF Valid(draft[w]) THEN Goto(w, "absent", "validated") ELSE Leave(w, "refused")
  /\ UNCHANGED <<InRoot, rootVars>>

WriteTemporary(w) ==
  /\ pc[w] = "validated"
  /\ pc' = [pc EXCEPT ![w] = "written"]
  /\ temps' = temps \cup {w}
  /\ wrote' = [wrote EXCEPT ![w] = now]
  /\ UNCHANGED <<InRoot, manifest, stable, draft>>

SyncTemporary(w) == Goto(w, "written", "flushed") /\ UNCHANGED <<InRoot, rootVars>>

PutManifest(w, bytes) ==
  /\ manifest' =
       [kind |-> "manifest", by |-> w, at |-> wrote[w], bytes |-> bytes, listing |-> draft[w]]
  /\ temps' = temps \ {w}
  /\ UNCHANGED <<InRoot, stable>>

\* Variant: the temporary file is not flushed.
ReplaceUnflushed(w) == Goto(w, "written", "replaced") /\ PutManifest(w, "cached")

Replace(w) == Goto(w, "flushed", "replaced") /\ PutManifest(w, "flushed")

\* Variant: the root is not synced.
ReturnUnsynced(w) ==
  /\ pc[w] = "replaced" /\ Leave(w, "published")
  /\ UNCHANGED <<InRoot, rootVars>>

SyncRoot(w) ==
  /\ pc[w] = "replaced" /\ Leave(w, "published")
  /\ stable' = manifest
  /\ UNCHANGED <<InRoot, temps, manifest>>

\* An operation fails: the temporary file is removed, a manifest in place is not.
Fail(w) ==
  /\ pc[w] \in {"validated", "written", "flushed", "replaced"}
  /\ faults < MaxFaults /\ faults' = faults + 1
  /\ Leave(w, "failed")
  /\ temps' = temps \ {w}
  /\ UNCHANGED <<now, collectorVars, bundleVars, manifest, stable>>

Kill(w) ==
  /\ pc[w] \in InFlight
  /\ faults < MaxFaults /\ faults' = faults + 1
  /\ Leave(w, "dead")
  /\ UNCHANGED <<now, collectorVars, bundleVars, rootVars>>

Torn(m) == IF m # NoFile /\ m.bytes = "cached" THEN [m EXCEPT !.bytes = "torn"] ELSE m

\* A document that was not synced may be lost, be it its name or its bytes, and so may
\* the rename of the manifest; told bundles stand.
PowerLoss ==
  /\ faults < MaxFaults /\ faults' = faults + 1
  /\ Bundle!PowerLoss
  /\ \E lost \in SUBSET ((Documents \cup {"final"}) \ synced) :
       /\ of' = [x \in Parts |-> IF x \in lost THEN 0 ELSE of[x]]
       /\ final' = IF "final" \in lost THEN Nothing ELSE final
  /\ synced' = {d \in Documents : of'[d] # 0} \cup (IF final' = Nothing THEN {} ELSE {"final"})
  /\ \E m \in {manifest, stable} : manifest' \in {m, Torn(m)} /\ stable' = manifest'
  /\ temps' \in SUBSET (temps \cup (IF manifest' = manifest THEN {} ELSE {manifest.by}))
  /\ pc' = [w \in Writers |-> IF pc[w] \in InFlight THEN "dead" ELSE pc[w]]
  /\ draft' = [w \in Writers |-> NoFile] /\ wrote' = [w \in Writers |-> 0]
  /\ UNCHANGED <<now, attempt, tied, last>>

Collect ==
  \/ Tick \/ NextAttempt \/ PutFinal \/ SyncDocuments
  \/ \E r \in Repetitions : Publish(r) \/ Conclude(r) \/ Remove(r)
  \/ \E d \in Documents : PutDocument(d)

Write(w) ==
  \/ Begin(w) \/ Validate(w)
  \/ WriteTemporary(w) \/ SyncTemporary(w) \/ Replace(w) \/ SyncRoot(w)
  \/ Fail(w) \/ Kill(w)

Next == Collect \/ (\E w \in Writers : Write(w)) \/ PowerLoss

Spec == Init /\ [][Next]_vars

-----------------------------------------------------------------------------
(* Properties                                                               *)

\* Whatever is rerun, replaced, lost or raced for, a manifest in the root lists
\* the parts of one attempt, as its final attestation retains them, and its state
\* is what the comparisons of that attempt come to: no outcome is put together
\* from several attempts.  Which attempt it is may change: see InvalidIsKept.
VisibleIsTruthful ==
  manifest # NoFile =>
    \E a \in Attempts :
      /\ \A x \in Parts : manifest.listing.parts[x] = a /\ manifest.listing.final[x] = a
      /\ manifest.listing.state = "COMMITTED" <=> a \in Reproducing

\* Once a caller has been told that it published, there is a manifest in the
\* root for good: the root was synced after the rename.
PublishedStays == (\E w \in Writers : pc[w] = "published") => manifest # NoFile

\* The reader accepts what a writer published, as long as nothing it lists has
\* changed, no other writer has left a file, and its time stamp tells it from
\* the files it lists: the two validations are the same, and no power loss leaves
\* less than the whole manifest.
PublishedReconstructs ==
  (\E w \in Writers :
     /\ pc[w] = "published" /\ manifest.by = w
     /\ temps = {} /\ Inventoried(manifest.listing) /\ BundlesStand /\ StrictlyLast(manifest))
  => Reconstructs

\* security-cost-and-provenance.md: the manifest is replaced only after every
\* referenced byte "validates, is fsynced, and is later than each inventoried file".
ReplacedIsLatest ==
  \A w \in Writers :
    pc[w] = "replaced" /\ manifest.by = w /\ Inventoried(manifest.listing)
    => StrictlyLast(manifest)

\* failure-semantics.md: an INVALID aggregate root retains an output mismatch, which
\* "cannot become a committed aggregate, ..., or select a replacement run".
InvalidIsKept ==
  stable # NoFile /\ stable.listing.state = "INVALID"
  => manifest # NoFile /\ manifest.listing.state = "INVALID"
=============================================================================
