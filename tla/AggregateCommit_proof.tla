------------------------ MODULE AggregateCommit_proof ------------------------
(***************************************************************************)
(* Proofs about AggregateCommit, for any repetitions, any number of        *)
(* attempts, any set of attempts that reproduce, any clock and any number  *)
(* of faults.                                                              *)
(***************************************************************************)
EXTENDS AggregateCommit, TLAPS

\* What a listing must be before it may be published.
Truthful(listing) ==
  \E a \in Attempts :
    /\ \A x \in Parts : listing.parts[x] = a /\ listing.final[x] = a
    /\ listing.state = "COMMITTED" <=> a \in Reproducing

\* The steps of a writer that follow the validation of its listing.
AfterValidation == {"validated", "written", "flushed", "replaced"}

\* A writer has validated what it publishes, whatever the root has become since.
DraftInv == \A w \in Writers : pc[w] \in AfterValidation => Truthful(draft[w])

\* A temporary file has a time stamp as long as it may be renamed.
StampInv == \A w \in Writers : pc[w] \in {"written", "flushed"} => wrote[w] \in 1..MaxTime

\* What is in the root, and what a power loss restores, was flushed and validated.
Sound(m) == m # NoFile => m.bytes = "flushed" /\ Truthful(m.listing)
RootInv == Sound(manifest) /\ Sound(stable)

\* A manifest does not disappear once it is renamed, unless by a power loss
\* before the root is synced; the root has no older manifest that a loss could restore.
StayInv ==
  /\ \A w \in Writers : pc[w] = "replaced" => manifest # NoFile
  /\ \A w \in Writers : pc[w] = "published" => stable # NoFile
  /\ stable # NoFile => manifest # NoFile

IInv == TypeOK /\ DraftInv /\ StampInv /\ RootInv /\ StayInv

-----------------------------------------------------------------------------
(* What the validations establish                                           *)

\* The two documents of the root have different names.
LEMMA DocumentNames == Shared \in Documents /\ Comparisons \in Documents /\ Shared # Comparisons
BY DEF Documents, Shared, Comparisons

\* Everything a validated listing names is of one attempt, and the state is its
\* result: the comparisons are bound to every bundle, the documents to the
\* attestation, and there is a bundle.
LEMMA ValidIsTruthful ==
  ASSUME NEW listing \in Listing, TerminalGraph(listing), RootMatches(listing)
  PROVE  Truthful(listing)
<1> DEFINE a == listing.final[Comparisons]
<1>1. listing.final \in Retained /\ listing.state \in States
  BY DEF Listing
<1>2. a \in Attempts
  BY <1>1, DocumentNames DEF Retained, Parts
<1>3. \A r \in Repetitions : listing.final[r] = a
  BY DEF TerminalGraph, ExperimentHolds, RecordsBound
<1>4. \A d \in Documents : listing.final[d] = a
  BY <1>3, AggregateAssumption
     DEF AggregateAssumption, TerminalGraph, ExperimentHolds, SharedByAll, Documents
<1>5. \A x \in Parts : listing.final[x] = a /\ listing.parts[x] = a
  BY <1>3, <1>4 DEF TerminalGraph, DocumentsMatch, RepetitionsMatch, Parts
<1>6. listing.state = "COMMITTED" <=> a \in Reproducing
  BY DEF RootMatches, Result, CompareRestarts
<1> QED BY <1>2, <1>5, <1>6 DEF Truthful

\* Conversely, a truthful listing over bundles that stand passes both validations.
LEMMA TruthfulIsValid ==
  ASSUME NEW listing \in Listing, Truthful(listing), BundlesStand
  PROVE  TerminalGraph(listing) /\ RootMatches(listing)
<1>1. PICK a \in Attempts :
        /\ \A x \in Parts : listing.parts[x] = a /\ listing.final[x] = a
        /\ listing.state = "COMMITTED" <=> a \in Reproducing
  BY DEF Truthful
<1>2. TerminalGraph(listing)
  BY <1>1, DocumentNames
     DEF TerminalGraph, ExperimentHolds, OneProcessSequence, SharedByAll, RecordsBound,
         DocumentsMatch, RepetitionsMatch, Parts
<1>3. RootMatches(listing)
  BY <1>1, DocumentNames DEF RootMatches, Result, CompareRestarts, Parts, Listing, States
<1> QED BY <1>2, <1>3

-----------------------------------------------------------------------------
(* The invariant holds initially, and each step preserves it                *)

LEMMA InitIInv == Init => IInv
<1> SUFFICES ASSUME Init PROVE IInv
  OBVIOUS
<1>1. TypeOK
  BY AggregateAssumption
     DEF AggregateAssumption, Init, TypeOK, Bundle!Init, Bundle!Seen, Bundle!Told, Attempts, Writers,
         InFlight, Nothing
<1>2. DraftInv /\ StampInv /\ RootInv /\ StayInv
  BY DEF Init, DraftInv, AfterValidation, StampInv, RootInv, Sound, StayInv
<1> QED BY <1>1, <1>2 DEF IInv

\* A step of the collector does not touch the root's manifest or its writers.
LEMMA CollectKeeps == Collect => UNCHANGED <<rootVars, writerVars, faults>>
BY DEF Collect, Tick, NextAttempt, PutFinal, SyncDocuments, Publish, Conclude, Remove, PutDocument

LEMMA CollectTypes == ASSUME TypeOK, Collect PROVE TypeOK'
<1>0. UNCHANGED <<rootVars, writerVars, faults>>
  BY CollectKeeps
<1>1. now' \in 1..MaxTime /\ attempt' \in Attempts
  BY AggregateAssumption
     DEF AggregateAssumption, Attempts, TypeOK, Collect, Tick, NextAttempt, PutFinal, SyncDocuments,
         Publish, Conclude, Remove, PutDocument, collectorVars
<1>2. seen' \in [Repetitions -> Bundle!Seen] /\ told' \in [Repetitions -> Bundle!Told]
  BY DEF TypeOK, Collect, Tick, NextAttempt, PutFinal, SyncDocuments, Publish, Conclude, Remove,
         PutDocument, bundleVars, Bundle!Publish, Bundle!Confirm, Bundle!Retract, Bundle!Turn,
         Bundle!Answer, Bundle!Seen, Bundle!Told
<1>3. tied' \subseteq Repetitions /\ of' \in [Parts -> Attempts \cup {0}]
  BY DEF TypeOK, Collect, Tick, NextAttempt, PutFinal, SyncDocuments, Publish, Conclude, Remove,
         PutDocument, collectorVars, Parts
<1>4. final' \in Retained \cup {Nothing} /\ last' \in 0..MaxTime
  BY AggregateAssumption
     DEF AggregateAssumption, TypeOK, Collect, Tick, NextAttempt, PutFinal, SyncDocuments, Publish, Conclude, Remove,
         PutDocument, collectorVars
<1>5. synced' \subseteq Documents \cup {"final"}
  BY DEF TypeOK, Collect, Tick, NextAttempt, PutFinal, SyncDocuments, Publish, Conclude, Remove,
         PutDocument, collectorVars
<1> QED BY <1>0, <1>1, <1>2, <1>3, <1>4, <1>5 DEF TypeOK, rootVars, writerVars

LEMMA CollectStep == ASSUME IInv, Collect PROVE IInv'
<1>1. TypeOK' BY CollectTypes DEF IInv
<1>2. UNCHANGED <<rootVars, writerVars>> BY CollectKeeps
<1>3. DraftInv' /\ StampInv' /\ RootInv' /\ StayInv'
  BY <1>2 DEF IInv, DraftInv, StampInv, RootInv, Sound, StayInv, rootVars, writerVars
<1> QED BY <1>1, <1>3 DEF IInv

-----------------------------------------------------------------------------
(* The steps of a writer                                                    *)

\* A writer outside of a call has no draft, one inside a call has a listing.
LEMMA DraftIsListing ==
  ASSUME TypeOK, NEW w \in Writers, pc[w] \in InFlight
  PROVE  draft[w] \in Listing
BY DEF TypeOK

\* A call that ends leaves no draft.
LEMMA LeaveTypes ==
  ASSUME TypeOK, NEW w \in Writers, NEW how \in {"published", "refused", "failed", "dead"},
         Leave(w, how)
  PROVE  /\ pc' \in [Writers -> InFlight \cup {"idle", "published", "refused", "failed", "dead"}]
         /\ draft' \in [Writers -> Listing \cup {NoFile}]
         /\ \A v \in Writers : draft'[v] # NoFile <=> pc'[v] \in InFlight
         /\ wrote' \in [Writers -> 0..MaxTime]
<1> USE DEF TypeOK, Leave, InFlight
<1>1. pc' \in [Writers -> InFlight \cup {"idle", "published", "refused", "failed", "dead"}]
  OBVIOUS
<1>2. draft' \in [Writers -> Listing \cup {NoFile}]
  OBVIOUS
<1>3. \A v \in Writers : draft'[v] # NoFile <=> pc'[v] \in InFlight
  OBVIOUS
<1>4. wrote' \in [Writers -> 0..MaxTime]
  BY AggregateAssumption DEF AggregateAssumption
<1> QED BY <1>1, <1>2, <1>3, <1>4

LEMMA BeginStep == ASSUME IInv, NEW w \in Writers, Begin(w) PROVE IInv'
<1>1. TypeOK'
  <2>1. CASE manifest # NoFile
    BY <2>1, LeaveTypes DEF IInv, TypeOK, Begin, InRoot, collectorVars, bundleVars, rootVars
  <2>2. CASE manifest = NoFile
    <3>1. PICK s \in States :
            draft' = [draft EXCEPT ![w] =
                        [kind |-> "listing", parts |-> of, final |-> final, state |-> s]]
      BY <2>2 DEF Begin
    <3>2. [kind |-> "listing", parts |-> of, final |-> final, state |-> s] \in Listing
      BY DEF IInv, TypeOK, Begin, Listing
    <3>3. [kind |-> "listing", parts |-> of, final |-> final, state |-> s] # NoFile
      BY DEF NoFile
    <3> HIDE DEF Listing, NoFile
    <3> QED
      BY <2>2, <3>1, <3>2, <3>3
         DEF IInv, TypeOK, Begin, InFlight, InRoot, collectorVars, bundleVars, rootVars
  <2> QED BY <2>1, <2>2
<1>2. \A v \in Writers : pc'[v] \in AfterValidation => pc[v] \in AfterValidation /\ draft'[v] = draft[v]
  BY DEF IInv, TypeOK, Begin, Leave, AfterValidation
<1>3. DraftInv'
  BY <1>2 DEF IInv, DraftInv, Truthful
<1>4. StampInv'
  BY DEF IInv, TypeOK, StampInv, Begin, Leave
<1>5. RootInv' /\ StayInv'
  BY DEF IInv, TypeOK, RootInv, Sound, Truthful, StayInv, Begin, Leave, rootVars
<1> QED BY <1>1, <1>3, <1>4, <1>5 DEF IInv

LEMMA ValidateStep == ASSUME IInv, NEW w \in Writers, Validate(w) PROVE IInv'
<1>1. TypeOK'
  <2>1. CASE Valid(draft[w])
    BY <2>1 DEF IInv, TypeOK, Validate, Goto, InFlight, InRoot, collectorVars, bundleVars, rootVars
  <2>2. CASE ~Valid(draft[w])
    BY <2>2, LeaveTypes DEF IInv, TypeOK, Validate, InRoot, collectorVars, bundleVars, rootVars
  <2> QED BY <2>1, <2>2
<1>2. draft[w] \in Listing
  BY DraftIsListing DEF IInv, Validate, InFlight
<1>3. Valid(draft[w]) => Truthful(draft[w])
  BY <1>2, ValidIsTruthful DEF Valid
<1>4. DraftInv'
  BY <1>3 DEF IInv, TypeOK, DraftInv, Truthful, AfterValidation, Validate, Goto, Leave
<1>5. StampInv' /\ RootInv' /\ StayInv'
  BY DEF IInv, TypeOK, StampInv, RootInv, Sound, Truthful, StayInv, Validate, Goto, Leave, rootVars
<1> QED BY <1>1, <1>4, <1>5 DEF IInv

LEMMA WriteTemporaryStep == ASSUME IInv, NEW w \in Writers, WriteTemporary(w) PROVE IInv'
<1>1. TypeOK'
  BY DEF IInv, TypeOK, WriteTemporary, InFlight, InRoot, collectorVars, bundleVars, rootVars
<1>2. DraftInv'
  BY DEF IInv, TypeOK, DraftInv, Truthful, AfterValidation, WriteTemporary
<1>3. StampInv' /\ RootInv' /\ StayInv'
  BY DEF IInv, TypeOK, StampInv, RootInv, Sound, Truthful, StayInv, WriteTemporary
<1> QED BY <1>1, <1>2, <1>3 DEF IInv

LEMMA SyncTemporaryStep == ASSUME IInv, NEW w \in Writers, SyncTemporary(w) PROVE IInv'
<1>1. TypeOK'
  BY DEF IInv, TypeOK, SyncTemporary, Goto, InFlight, InRoot, collectorVars, bundleVars, rootVars
<1>2. DraftInv'
  BY DEF IInv, TypeOK, DraftInv, Truthful, AfterValidation, SyncTemporary, Goto
<1>3. StampInv' /\ RootInv' /\ StayInv'
  BY DEF IInv, TypeOK, StampInv, RootInv, Sound, Truthful, StayInv, SyncTemporary, Goto, rootVars
<1> QED BY <1>1, <1>2, <1>3 DEF IInv

\* The rename publishes a listing that was validated, and a file that was flushed,
\* even over the manifest of another writer.
LEMMA ReplaceStep == ASSUME IInv, NEW w \in Writers, Replace(w) PROVE IInv'
<1>1. /\ pc[w] = "flushed" /\ draft[w] \in Listing /\ Truthful(draft[w])
      /\ wrote[w] \in 1..MaxTime
  BY DraftIsListing DEF IInv, DraftInv, StampInv, AfterValidation, InFlight, Replace, Goto
<1>2. /\ manifest' \in Manifests
      /\ manifest' # NoFile
      /\ manifest'.bytes = "flushed" /\ manifest'.listing = draft[w]
  BY <1>1 DEF Replace, PutManifest, Manifests, NoFile
<1>3. TypeOK'
  BY <1>2
     DEF IInv, TypeOK, Replace, PutManifest, Goto, InFlight, InRoot, collectorVars, bundleVars
<1>4. DraftInv'
  BY DEF IInv, TypeOK, DraftInv, Truthful, AfterValidation, Replace, Goto
<1>5. StampInv'
  BY DEF IInv, TypeOK, StampInv, Replace, Goto
<1>6. RootInv'
  BY <1>1, <1>2 DEF IInv, RootInv, Sound, Truthful, Replace, PutManifest
<1>7. StayInv'
  BY <1>2 DEF IInv, TypeOK, StayInv, Replace, PutManifest, Goto
<1> QED BY <1>3, <1>4, <1>5, <1>6, <1>7 DEF IInv

LEMMA SyncRootStep == ASSUME IInv, NEW w \in Writers, SyncRoot(w) PROVE IInv'
<1>1. manifest # NoFile
  BY DEF IInv, StayInv, SyncRoot
<1>2. TypeOK'
  BY LeaveTypes DEF IInv, TypeOK, SyncRoot, InRoot, collectorVars, bundleVars
<1>3. DraftInv'
  BY DEF IInv, TypeOK, DraftInv, Truthful, AfterValidation, SyncRoot, Leave
<1>4. StampInv' /\ RootInv' /\ StayInv'
  BY <1>1 DEF IInv, TypeOK, StampInv, RootInv, Sound, Truthful, StayInv, SyncRoot, Leave
<1> QED BY <1>2, <1>3, <1>4 DEF IInv

LEMMA FailStep == ASSUME IInv, NEW w \in Writers, Fail(w) PROVE IInv'
<1>1. TypeOK'
  <2>1. faults' \in 0..MaxFaults
    BY AggregateAssumption DEF AggregateAssumption, IInv, TypeOK, Fail
  <2> QED BY <2>1, LeaveTypes DEF IInv, TypeOK, Fail, collectorVars, bundleVars
<1>2. DraftInv'
  BY DEF IInv, TypeOK, DraftInv, Truthful, AfterValidation, Fail, Leave
<1>3. StampInv' /\ RootInv' /\ StayInv'
  BY DEF IInv, TypeOK, StampInv, RootInv, Sound, Truthful, StayInv, Fail, Leave
<1> QED BY <1>1, <1>2, <1>3 DEF IInv

LEMMA KillStep == ASSUME IInv, NEW w \in Writers, Kill(w) PROVE IInv'
<1>1. TypeOK'
  <2>1. faults' \in 0..MaxFaults
    BY AggregateAssumption DEF AggregateAssumption, IInv, TypeOK, Kill
  <2> QED BY <2>1, LeaveTypes DEF IInv, TypeOK, Kill, collectorVars, bundleVars, rootVars
<1>2. DraftInv'
  BY DEF IInv, TypeOK, DraftInv, Truthful, AfterValidation, Kill, Leave
<1>3. StampInv' /\ RootInv' /\ StayInv'
  BY DEF IInv, TypeOK, StampInv, RootInv, Sound, Truthful, StayInv, Kill, Leave, rootVars
<1> QED BY <1>1, <1>2, <1>3 DEF IInv

-----------------------------------------------------------------------------
(* A power loss                                                             *)

\* It restores the manifest or an older one, never a torn one: both were flushed.
LEMMA PowerLossRestores ==
  ASSUME IInv, PowerLoss
  PROVE  manifest' \in {manifest, stable} /\ stable' = manifest'
<1>1. PICK m \in {manifest, stable} : manifest' \in {m, Torn(m)} /\ stable' = manifest'
  BY DEF PowerLoss
<1>2. Torn(m) = m
  BY <1>1 DEF IInv, RootInv, Sound, Torn
<1> QED BY <1>1, <1>2

LEMMA PowerLossStep == ASSUME IInv, PowerLoss PROVE IInv'
<1>1. manifest' \in {manifest, stable} /\ stable' = manifest'
  BY PowerLossRestores
<1>2. TypeOK'
  <2>1. seen' \in [Repetitions -> Bundle!Seen] /\ told' \in [Repetitions -> Bundle!Told]
    BY DEF IInv, TypeOK, PowerLoss, Bundle!PowerLoss
  <2>2. of' \in [Parts -> Attempts \cup {0}] /\ final' \in Retained \cup {Nothing}
    BY DEF IInv, TypeOK, PowerLoss
  <2>3. synced' \subseteq Documents \cup {"final"}
    BY DEF PowerLoss
  <2>4. temps' \subseteq Writers
    <3>1. manifest' # manifest => manifest \in Manifests
      BY <1>1 DEF IInv, TypeOK, StayInv
    <3>2. manifest' # manifest => manifest.by \in Writers
      BY <3>1 DEF Manifests
    <3> QED BY <3>2 DEF IInv, TypeOK, PowerLoss
  <2>5. /\ pc' \in [Writers -> InFlight \cup {"idle", "published", "refused", "failed", "dead"}]
        /\ draft' \in [Writers -> Listing \cup {NoFile}]
        /\ \A w \in Writers : draft'[w] = NoFile /\ pc'[w] \notin InFlight
        /\ wrote' \in [Writers -> 0..MaxTime]
    BY AggregateAssumption DEF AggregateAssumption, IInv, TypeOK, PowerLoss, InFlight
  <2>6. faults' \in 0..MaxFaults
    BY AggregateAssumption DEF AggregateAssumption, IInv, TypeOK, PowerLoss
  <2> QED BY <1>1, <2>1, <2>2, <2>3, <2>4, <2>5, <2>6 DEF IInv, TypeOK, PowerLoss
<1>3. \A w \in Writers : pc'[w] \notin InFlight /\ (pc'[w] = "published" => pc[w] = "published")
  BY DEF IInv, TypeOK, PowerLoss, InFlight
<1>4. DraftInv' /\ StampInv'
  BY <1>3 DEF DraftInv, StampInv, AfterValidation, InFlight
<1>5. RootInv'
  BY <1>1 DEF IInv, RootInv, Sound, Truthful
<1>6. StayInv'
  BY <1>1, <1>3 DEF IInv, StayInv, InFlight
<1> QED BY <1>2, <1>4, <1>5, <1>6 DEF IInv

-----------------------------------------------------------------------------
(* The theorems                                                             *)

LEMMA StepIInv == IInv /\ [Next]_vars => IInv'
<1> SUFFICES ASSUME IInv, [Next]_vars PROVE IInv'
  OBVIOUS
<1>1. CASE Collect
  BY <1>1, CollectStep
<1>2. ASSUME NEW w \in Writers, Write(w) PROVE IInv'
  BY <1>2, BeginStep, ValidateStep, WriteTemporaryStep, SyncTemporaryStep, ReplaceStep,
     SyncRootStep, FailStep, KillStep DEF Write
<1>3. CASE PowerLoss
  BY <1>3, PowerLossStep
<1>4. CASE UNCHANGED vars
  <2>1. TypeOK'
    BY <1>4 DEF IInv, TypeOK, vars, collectorVars, bundleVars, rootVars, writerVars
  <2>2. DraftInv' /\ StampInv' /\ RootInv' /\ StayInv'
    BY <1>4 DEF IInv, DraftInv, StampInv, RootInv, Sound, Truthful, StayInv, vars, rootVars, writerVars
  <2> QED BY <2>1, <2>2 DEF IInv
<1> QED BY <1>1, <1>2, <1>3, <1>4 DEF Next

\* The invariant that the theorems rest on.
LEMMA Inductive == Spec => []IInv
BY InitIInv, StepIInv, PTL DEF Spec

\* Every variable stays in its type, whatever fails and whoever races.
THEOREM TypeCorrect == Spec => []TypeOK
<1>1. IInv => TypeOK BY DEF IInv
<1> QED BY <1>1, Inductive, PTL

\* A manifest in the root, COMMITTED or INVALID, lists the parts of one attempt and
\* the state that the comparisons of this attempt come to, although the root may change
\* after the validation and another writer may replace what it finds
\* (validate_experiment_terminal_graph, write_aggregate_manifest_last).
THEOREM Truth == Spec => []VisibleIsTruthful
<1>1. IInv => VisibleIsTruthful
  BY DEF IInv, RootInv, Sound, Truthful, VisibleIsTruthful
<1> QED BY <1>1, Inductive, PTL

\* The root is synced before the writer returns, so that a manifest stays once
\* its writer was told.
THEOREM Stays == Spec => []PublishedStays
<1>1. IInv => PublishedStays BY DEF IInv, StayInv, PublishedStays
<1> QED BY <1>1, Inductive, PTL

\* The reader repeats the writer's validation and nothing stricter, except for
\* the time stamps, and finds the bytes that were flushed before the rename
\* (reconstruct_experiment_attestation).
THEOREM Reconstructible == Spec => []PublishedReconstructs
<1>1. IInv => PublishedReconstructs
  <2> SUFFICES ASSUME IInv, NEW w \in Writers, pc[w] = "published",
                      temps = {}, Inventoried(manifest.listing), BundlesStand, StrictlyLast(manifest)
               PROVE  Reconstructs
    BY DEF PublishedReconstructs
  <2>1. manifest # NoFile
    BY DEF IInv, StayInv
  <2>2. manifest.bytes = "flushed" /\ Truthful(manifest.listing)
    BY <2>1 DEF IInv, RootInv, Sound
  <2>3. manifest.listing \in Listing
    BY <2>1 DEF IInv, TypeOK, Manifests
  <2> QED BY <2>1, <2>2, <2>3, TruthfulIsValid DEF Reconstructs
<1> QED BY <1>1, Inductive, PTL
=============================================================================
