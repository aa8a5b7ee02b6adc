--------------------------- MODULE BundleLifecycle ---------------------------
(***************************************************************************)
(* The life of one Stage 2 evidence bundle: Stage2BundleBuilder of         *)
(* stage2_bundle.py, every durable operation of which is a step of its     *)
(* own.  Any of them may raise OSError, a builder's process may be killed  *)
(* between any two, and the machine may lose power.                        *)
(*                                                                         *)
(* All builders here are given the same parent and bundle name, so they    *)
(* contend for the same two directory names, .<name>.staging and <name>.   *)
(* A directory is identified by the builder that made it; the builder      *)
(* reaches it by name, as the code does.                                   *)
(*                                                                         *)
(* The file system: state, manifest, files and dirs are what a process     *)
(* sees in each directory, staging and final where the directories are.    *)
(* The variables called ...Disk say what a power loss may leave: an entry  *)
(* survives for certain only once its directory is synced (_sync_path),    *)
(* until then any value it had since the last sync may be found.  File     *)
(* contents are fsynced before os.replace gives them their name, so an     *)
(* entry never has torn contents.                                          *)
(*                                                                         *)
(* Two things lie outside the builder's hands.  Not every file system lets *)
(* a directory be synced, and _sync_path passes over the EINVAL or ENOTSUP *)
(* it then gets: Syncs says whether this one does.  And the parent may not *)
(* exist: the constructor makes it, no one syncs the directory above it,   *)
(* and a power loss may take the parent away with everything in it.        *)
(***************************************************************************)
EXTENDS Naturals

CONSTANTS
  Builders,        \* builder objects, each of its own process
  NoDir, NoFile,   \* a name that leads nowhere; no evidence file
  Raw, Derived,    \* relative evidence paths under raw/ and under derived/
  Reconstruct(_),  \* the caller's Reconstructor: raw files -> derived files
  Syncs,           \* the file system syncs directories
  Exclusive,       \* TRUE: builders of one name are run one after the other
  MaxFaults,       \* bound on the operations that raise OSError
  MaxCrashes       \* bound on the power losses

ASSUME BundleAssumption ==
  /\ NoDir \notin Builders
  /\ NoFile \notin Raw \cup Derived
  /\ Raw \cap Derived = {}
  /\ \A R \in SUBSET Raw : Reconstruct(R) \in SUBSET Derived
  /\ Syncs \in BOOLEAN
  /\ Exclusive \in BOOLEAN
  /\ MaxFaults \in Nat
  /\ MaxCrashes \in Nat

VARIABLES
  parent,                 \* the parent directory: no one, its entry new, or kept
  exposed,                \* bundles made in a parent whose entry was not durable
  staging, final,         \* the directory each of the two names leads to
  namesDisk,              \* the name assignments a power loss may leave
  state, manifest,        \* bundle-state.json and evidence-manifest.json
  files, dirs,            \* evidence files, and raw/ and derived/ themselves
  stateDisk, manifestDisk, \* the values a power loss may leave
  filesDisk, dirsDisk,    \* the entries that survive for certain
  pc,                     \* the step each builder is at
  file,                   \* the evidence file a builder is writing
  listed,                 \* the inventory a builder computed for its manifest
  result,                 \* how the bundle's last commit or invalidate went
  tainted,                \* bundles with an evidence write that raised
  faults, crashes

nameVars == <<parent, exposed, staging, final, namesDisk>>
stateVars == <<state, stateDisk>>
manifestVars == <<manifest, manifestDisk>>
evidenceVars == <<files, dirs, filesDisk, dirsDisk>>
nodeVars == <<stateVars, manifestVars, evidenceVars>>
memVars == <<file, listed, result, tainted>>
vars == <<nameVars, nodeVars, memVars, pc, faults, crashes>>

Files == Raw \cup Derived
Dirs == {"raw", "derived"}
DirOf(f) == IF f \in Raw THEN "raw" ELSE "derived"

\* A committed inventory is never empty, so {} stands for a missing manifest.
NoManifest == {}
States == {"NONE", "INCOMPLETE", "INVALID"}
Places == [staging : Builders \cup {NoDir}, final : Builders \cup {NoDir}]
Names == [staging |-> staging, final |-> final]

InitSteps == {"checked", "parented", "made", "stated", "rooted"}
EvidenceSteps == {"mkdir", "syncMkdir", "put", "syncPut", "note", "syncNote"}
MarkSteps == {"mark", "syncMark"}
CommitSteps == {"sync", "rename", "syncParent", "unlinkState", "syncFinal",
                "manifest", "syncManifest"}
RecoverySteps == {"unlinkManifest", "record", "syncRecord", "syncRecordParent"}
Busy == InitSteps \cup EvidenceSteps \cup MarkSteps \cup CommitSteps
        \cup RecoverySteps \cup {"recover"}
Alive == Busy \cup {"open"}
Results == {"none", "committed", "invalidated", "failing", "failed", "unconfirmed"}

Each(v) == [n \in Builders |-> v]

Init ==
  /\ parent \in {"none", "kept"} /\ exposed = {}
  /\ staging = NoDir /\ final = NoDir /\ namesDisk = {Names}
  /\ state = Each("NONE") /\ stateDisk = Each({"NONE"})
  /\ manifest = Each(NoManifest) /\ manifestDisk = Each({NoManifest})
  /\ files = Each({}) /\ filesDisk = Each({})
  /\ dirs = Each({}) /\ dirsDisk = Each({})
  /\ pc = Each("new") /\ file = Each(NoFile) /\ listed = Each({}) /\ result = Each("none")
  /\ tainted = {}
  /\ faults = 0
  /\ crashes = 0

-----------------------------------------------------------------------------
(* What a reader concludes of directory n: inspect_bundle_state, and        *)
(* whether validate_committed_bundle accepts it.  File times are not        *)
(* modelled: the clock is taken not to step back while a bundle is made, so *)
(* that no inventoried file is younger than the manifest.                   *)

Inspect(n) ==
  IF manifest[n] # NoManifest THEN "COMMITTED"
  ELSE IF state[n] = "INVALID" THEN "INVALID" ELSE "INCOMPLETE"

Accepts(n) ==
  /\ Inspect(n) = "COMMITTED"
  /\ state[n] = "NONE"           \* a bundle-state.json is not listed
  /\ files[n] = manifest[n]
  /\ files[n] \cap Derived = Reconstruct(files[n] \cap Raw)

-----------------------------------------------------------------------------
(* The file system operations the builder is made of.                       *)

Goto(b, from, to) == pc[b] = from /\ pc' = [pc EXCEPT ![b] = to]
Keep(vs) == UNCHANGED <<vs, faults, crashes>>
Do(b, from, to) == Goto(b, from, to) /\ Keep(memVars)
Tell(b, r) == result' = [result EXCEPT ![b] = r]

SetNames(s, f) ==
  /\ staging' = s /\ final' = f
  /\ namesDisk' = namesDisk \cup {[staging |-> s, final |-> f]}
  /\ exposed' = IF parent = "new" THEN exposed \cup ({s, f} \ {NoDir}) ELSE exposed
  /\ UNCHANGED parent

\* The entries of the parent; its own entry, one directory up, is not synced.
SyncParent ==
  /\ namesDisk' = IF Syncs THEN {Names} ELSE namesDisk
  /\ UNCHANGED <<parent, exposed, staging, final, nodeVars>>

PutState(n, s) ==
  /\ state' = [state EXCEPT ![n] = s]
  /\ stateDisk' = [stateDisk EXCEPT ![n] = @ \cup {s}]
  /\ UNCHANGED <<nameVars, manifestVars, evidenceVars>>

PutManifest(n, m) ==
  /\ manifest' = [manifest EXCEPT ![n] = m]
  /\ manifestDisk' = [manifestDisk EXCEPT ![n] = @ \cup {m}]
  /\ UNCHANGED <<nameVars, stateVars, evidenceVars>>

SyncRoot(n) ==
  /\ IF Syncs
       THEN /\ stateDisk' = [stateDisk EXCEPT ![n] = {state[n]}]
            /\ manifestDisk' = [manifestDisk EXCEPT ![n] = {manifest[n]}]
            /\ dirsDisk' = [dirsDisk EXCEPT ![n] = dirs[n]]
       ELSE UNCHANGED <<stateDisk, manifestDisk, dirsDisk>>
  /\ UNCHANGED <<nameVars, state, manifest, files, dirs, filesDisk>>

SyncDir(n, d) ==
  /\ IF Syncs
       THEN filesDisk' = [filesDisk EXCEPT ![n] = @ \cup {f \in files[n] : DirOf(f) = d}]
       ELSE UNCHANGED filesDisk
  /\ UNCHANGED <<nameVars, stateVars, manifestVars, files, dirs, dirsDisk>>

-----------------------------------------------------------------------------
(* __init__: the final name is tested first, then the staging name; the     *)
(* staging test and the exclusive mkdir refuse in the same cases.  The      *)
(* parent is made in between, with its ancestors, unless it is there.       *)

CheckFinal(b) ==
  /\ Exclusive => \A o \in Builders : pc[o] \notin Alive
  /\ Goto(b, "new", IF final = NoDir THEN "checked" ELSE "closed")
  /\ Keep(<<nameVars, nodeVars, memVars>>)

MakeParent(b) ==
  /\ Goto(b, "checked", "parented")
  /\ parent' = IF parent = "none" THEN "new" ELSE parent
  /\ Keep(<<exposed, staging, final, namesDisk, nodeVars, memVars>>)

\* Variant: the staging directory is made with exist_ok and shared.
MakeStagingExistOk(b) ==
  /\ Goto(b, "parented", "made")
  /\ IF staging = NoDir THEN SetNames(b, final) ELSE UNCHANGED nameVars
  /\ UNCHANGED nodeVars
  /\ Keep(memVars)

MakeStaging(b) ==
  /\ IF staging = NoDir
       THEN /\ Goto(b, "parented", "made")
            /\ SetNames(b, final)
            /\ UNCHANGED nodeVars
       ELSE Goto(b, "parented", "closed") /\ UNCHANGED <<nameVars, nodeVars>>
  /\ Keep(memVars)

CreateState(b) == Do(b, "made", "stated") /\ PutState(staging, "INCOMPLETE")

\* The sync in _durable_write and the one __init__ repeats after it.
SyncCreated(b) == Do(b, "stated", "rooted") /\ SyncRoot(staging)
SyncCreatedParent(b) == Do(b, "rooted", "open") /\ SyncParent

-----------------------------------------------------------------------------
\* Variant: the staging directory only has to exist.
RequireStaging(b) == pc[b] = "open" /\ staging # NoDir

(* _require_incomplete: whatever directory is at the staging path, it has   *)
(* to hold an INCOMPLETE state.  A call that is refused changes nothing.    *)
RequireIncomplete(b) ==
  /\ pc[b] = "open"
  /\ staging # NoDir
  /\ state[staging] = "INCOMPLETE"

(* write_raw and write_derived.  A path that exists is refused.             *)
WriteEvidence(b, f) ==
  /\ RequireIncomplete(b)
  /\ f \notin files[staging]
  /\ file' = [file EXCEPT ![b] = f]
  /\ Goto(b, "open", IF DirOf(f) \in dirs[staging] THEN "put" ELSE "mkdir")
  /\ Keep(<<nameVars, nodeVars, listed, result, tainted>>)

MakeDir(b) ==
  /\ Goto(b, "mkdir", "syncMkdir")
  /\ dirs' = [dirs EXCEPT ![staging] = @ \cup {DirOf(file[b])}]
  /\ Keep(<<nameVars, stateVars, manifestVars, files, filesDisk, dirsDisk, memVars>>)

SyncMadeDir(b) == Do(b, "syncMkdir", "put") /\ SyncRoot(staging)

PutFile(b) ==
  /\ Goto(b, "put", "syncPut")
  /\ files' = [files EXCEPT ![staging] = @ \cup {file[b]}]
  /\ Keep(<<nameVars, stateVars, manifestVars, dirs, filesDisk, dirsDisk, memVars>>)

SyncFile(b) == Do(b, "syncPut", "note") /\ SyncDir(staging, DirOf(file[b]))
NoteRetained(b) == Do(b, "note", "syncNote") /\ PutState(staging, "INCOMPLETE")

SyncNote(b) ==
  /\ Goto(b, "syncNote", "open")
  /\ SyncRoot(staging)
  /\ file' = [file EXCEPT ![b] = NoFile]
  /\ Keep(<<listed, result, tainted>>)

-----------------------------------------------------------------------------
(* invalidate, called by the user of the builder or by a commit whose       *)
(* validation fails.                                                        *)

BeginInvalidate(b) ==
  RequireIncomplete(b) /\ Do(b, "open", "mark") /\ UNCHANGED <<nameVars, nodeVars>>

\* Variant: the state is recorded as COMMITTED.
MarkCommitted(b) == Do(b, "mark", "syncMark") /\ PutState(staging, "COMMITTED")

MarkInvalid(b) == Do(b, "mark", "syncMark") /\ PutState(staging, "INVALID")

SyncMark(b) ==
  /\ Goto(b, "syncMark", "open")
  /\ SyncRoot(staging)
  /\ Tell(b, "invalidated")
  /\ Keep(<<file, listed, tainted>>)

-----------------------------------------------------------------------------
(* commit: the reconstruction and inventory checks read the staging         *)
(* directory, the manifest is computed before anything moves.               *)

Committable(fs) ==
  /\ fs \cap Derived = Reconstruct(fs \cap Raw)
  /\ fs \cap Raw # {}
  /\ fs \cap Derived # {}

BeginCommit(b) ==
  /\ RequireIncomplete(b)
  /\ LET inventory == files[staging]
     IN IF Committable(inventory)
          THEN /\ Goto(b, "open", "sync")
               /\ listed' = [listed EXCEPT ![b] = inventory]
          ELSE Goto(b, "open", "mark") /\ UNCHANGED listed
  /\ Keep(<<nameVars, nodeVars, file, result, tainted>>)

SyncStaging(b) == Do(b, "sync", "rename") /\ SyncRoot(staging)

\* os.replace of a directory onto one that is not empty raises; a bundle
\* directory at the final name always holds raw/ and derived/.
Rename(b) ==
  /\ IF final = NoDir
       THEN /\ Goto(b, "rename", "syncParent")
            /\ SetNames(NoDir, staging)
            /\ UNCHANGED <<nodeVars, result>>
       ELSE /\ Goto(b, "rename", "recover")
            /\ Tell(b, "failing")
            /\ UNCHANGED <<nameVars, nodeVars>>
  /\ Keep(<<file, listed, tainted>>)

SyncRenamed(b) == Do(b, "syncParent", "unlinkState") /\ SyncParent
UnlinkState(b) == Do(b, "unlinkState", "syncFinal") /\ PutState(final, "NONE")
\* Variant: the removal of the state file is not synced.
SkipSyncFinal(b) == Do(b, "syncFinal", "manifest") /\ UNCHANGED <<nameVars, nodeVars>>

SyncFinal(b) == Do(b, "syncFinal", "manifest") /\ SyncRoot(final)
WriteManifest(b) == Do(b, "manifest", "syncManifest") /\ PutManifest(final, listed[b])

\* Variant: commit returns without syncing the directory of its manifest.
SkipSyncManifest(b) ==
  /\ Goto(b, "syncManifest", "open")
  /\ Tell(b, "committed")
  /\ Keep(<<nameVars, nodeVars, file, listed, tainted>>)

SyncManifest(b) ==
  /\ Goto(b, "syncManifest", "open")
  /\ SyncRoot(final)
  /\ Tell(b, "committed")
  /\ Keep(<<file, listed, tainted>>)

-----------------------------------------------------------------------------
(* _record_commit_failure: the final directory if there is one, else the    *)
(* staging directory; its manifest goes, INVALID is recorded.               *)

FailedDir == IF final # NoDir THEN final ELSE staging

BeginRecovery(b) ==
  /\ Goto(b, "recover",
          IF manifest[FailedDir] # NoManifest THEN "unlinkManifest" ELSE "record")
  /\ Keep(<<nameVars, nodeVars, memVars>>)

UnlinkManifest(b) == Do(b, "unlinkManifest", "record") /\ PutManifest(FailedDir, NoManifest)
RecordInvalid(b) == Do(b, "record", "syncRecord") /\ PutState(FailedDir, "INVALID")

\* Variant: the record of the failure is not synced.
SkipSyncRecord(b) ==
  /\ IF final # NoDir
       THEN Goto(b, "syncRecord", "syncRecordParent") /\ UNCHANGED result
       ELSE Goto(b, "syncRecord", "open") /\ Tell(b, "failed")
  /\ Keep(<<nameVars, nodeVars, file, listed, tainted>>)

SyncRecord(b) ==
  /\ IF final # NoDir
       THEN Goto(b, "syncRecord", "syncRecordParent") /\ UNCHANGED result
       ELSE /\ Goto(b, "syncRecord", "open")
            /\ Tell(b, "failed")
  /\ SyncRoot(FailedDir)
  /\ Keep(<<file, listed, tainted>>)

SyncRecordParent(b) ==
  /\ Goto(b, "syncRecordParent", "open")
  /\ SyncParent
  /\ Tell(b, "failed")
  /\ Keep(<<file, listed, tainted>>)

-----------------------------------------------------------------------------
(* An operation raises OSError and does nothing.  A constructor that raises *)
(* gives no builder; commit catches the error and starts the recovery; an   *)
(* error in the recovery, or in any other call, reaches the caller.         *)
Raises(b, steps, to) == pc[b] \in steps /\ pc' = [pc EXCEPT ![b] = to]

Fault(b) ==
  /\ faults < MaxFaults
  /\ faults' = faults + 1
  /\ \/ Raises(b, InitSteps, "closed") /\ UNCHANGED <<result, tainted>>
     \/ Raises(b, EvidenceSteps, "open") /\ tainted' = tainted \cup {staging} /\ UNCHANGED result
     \/ Raises(b, MarkSteps, "open") /\ UNCHANGED <<result, tainted>>
     \/ Raises(b, CommitSteps, "recover") /\ Tell(b, "failing") /\ UNCHANGED tainted
     \/ Raises(b, RecoverySteps, "open") /\ Tell(b, "unconfirmed") /\ UNCHANGED tainted
  /\ UNCHANGED <<nameVars, nodeVars, file, listed, crashes>>

\* The caller is done with an idle builder.
Drop(b) == Goto(b, "open", "closed") /\ Keep(<<nameVars, nodeVars, memVars>>)

\* The process dies; what it wrote stays visible.
Kill(b) == Raises(b, Busy, "closed") /\ Keep(<<nameVars, nodeVars, memVars>>)

Between(low, high) == {s \in SUBSET high : low \subseteq s}

\* An evidence file is reached only if the directory it is in survives.
Left(n, ds, fs) ==
  LET reached == {f \in files[n] : DirOf(f) \in ds}
  IN fs \in Between(filesDisk[n] \cap reached, reached)

\* The parent is found again, with any of the entries that may survive.
Survive ==
  /\ parent' = IF parent = "new" THEN "kept" ELSE parent
  /\ \E ns \in namesDisk :
       staging' = ns.staging /\ final' = ns.final /\ namesDisk' = {ns}
  /\ state' \in {g \in [Builders -> States] : \A n \in Builders : g[n] \in stateDisk[n]}
  /\ manifest' \in {g \in [Builders -> UNION {manifestDisk[n] : n \in Builders}] :
                      \A n \in Builders : g[n] \in manifestDisk[n]}
  /\ dirs' \in {g \in [Builders -> SUBSET Dirs] :
                  \A n \in Builders : g[n] \in Between(dirsDisk[n], dirs[n])}
  /\ files' \in {g \in [Builders -> SUBSET Files] :
                   \A n \in Builders : Left(n, dirs'[n], g[n])}
  /\ stateDisk' = [n \in Builders |-> {state'[n]}]
  /\ manifestDisk' = [n \in Builders |-> {manifest'[n]}]
  /\ dirsDisk' = dirs' /\ filesDisk' = files'

\* A parent whose own entry was never synced is gone, and all it held.
Vanish ==
  /\ parent = "new" /\ parent' = "none"
  /\ staging' = NoDir /\ final' = NoDir /\ namesDisk' = {Names'}
  /\ state' = Each("NONE") /\ stateDisk' = Each({"NONE"})
  /\ manifest' = Each(NoManifest) /\ manifestDisk' = Each({NoManifest})
  /\ files' = Each({}) /\ filesDisk' = Each({})
  /\ dirs' = Each({}) /\ dirsDisk' = Each({})

PowerLoss ==
  /\ crashes < MaxCrashes
  /\ crashes' = crashes + 1
  /\ Survive \/ Vanish
  /\ pc' = [b \in Builders |-> IF pc[b] = "new" THEN "new" ELSE "closed"]
  /\ UNCHANGED <<exposed, memVars, faults>>

Step(b) ==
  \/ CheckFinal(b) \/ MakeParent(b) \/ MakeStaging(b) \/ CreateState(b)
  \/ SyncCreated(b) \/ SyncCreatedParent(b)
  \/ \E f \in Files : WriteEvidence(b, f)
  \/ MakeDir(b) \/ SyncMadeDir(b) \/ PutFile(b) \/ SyncFile(b)
  \/ NoteRetained(b) \/ SyncNote(b)
  \/ BeginInvalidate(b) \/ MarkInvalid(b) \/ SyncMark(b)
  \/ BeginCommit(b) \/ SyncStaging(b) \/ Rename(b) \/ SyncRenamed(b)
  \/ UnlinkState(b) \/ SyncFinal(b) \/ WriteManifest(b) \/ SyncManifest(b)
  \/ BeginRecovery(b) \/ UnlinkManifest(b) \/ RecordInvalid(b)
  \/ SyncRecord(b) \/ SyncRecordParent(b)
  \/ Fault(b) \/ Drop(b) \/ Kill(b)

Next == (\E b \in Builders : Step(b)) \/ PowerLoss

Spec == Init /\ [][Next]_vars

-----------------------------------------------------------------------------
TypeOK ==
  /\ parent \in {"none", "new", "kept"} /\ exposed \in SUBSET Builders
  /\ staging \in Builders \cup {NoDir} /\ final \in Builders \cup {NoDir}
  /\ namesDisk \in SUBSET Places
  /\ state \in [Builders -> States] /\ stateDisk \in [Builders -> SUBSET States]
  /\ manifest \in [Builders -> SUBSET Files]
  /\ manifestDisk \in [Builders -> SUBSET SUBSET Files]
  /\ files \in [Builders -> SUBSET Files] /\ filesDisk \in [Builders -> SUBSET Files]
  /\ dirs \in [Builders -> SUBSET Dirs] /\ dirsDisk \in [Builders -> SUBSET Dirs]
  /\ pc \in [Builders -> Alive \cup {"new", "closed"}]
  /\ file \in [Builders -> Files \cup {NoFile}]
  /\ listed \in [Builders -> SUBSET Files]
  /\ result \in [Builders -> Results]
  /\ tainted \in SUBSET Builders
  /\ faults \in Nat
  /\ crashes \in Nat

\* The file system has the syncs the code calls for, and the parent was durable
\* when the bundle's directory was made in it.
Kept(b) == Syncs /\ b \notin exposed
Sheltered(b) == crashes = 0 \/ Kept(b)

(* A commit() that returned is permanent: the bundle stays at its final name *)
(* and validate_committed_bundle accepts it, whatever fails, is killed or is *)
(* called later, and also after a power loss where the code's syncs reach.   *)
(* Only a caller who committed in spite of an evidence write that raised is  *)
(* not promised this.                                                        *)
CommitIsPermanent ==
  \A b \in Builders : result[b] = "committed" /\ b \notin tainted /\ Sheltered(b) =>
    final = b /\ Accepts(b)

(* A bundle that inspect_bundle_state reports COMMITTED is accepted by       *)
(* validate_committed_bundle, even before commit() returned and after a      *)
(* power loss in the middle of it, also in a parent that may be lost as a    *)
(* whole, unless the recording of a failure was itself cut short.            *)
CommittedIsWhole ==
  \A n \in Builders :
    /\ Syncs \/ crashes = 0
    /\ Inspect(n) = "COMMITTED"
    /\ n \notin tainted
    /\ result[n] \in {"none", "committed"}
    => final = n /\ Accepts(n)

(* Once invalidate(), or a commit() whose failure was recorded, has come     *)
(* back to the caller, the bundle is INVALID at whichever name it has; no    *)
(* call changes that, and where the code's syncs reach a power loss brings   *)
(* back neither its manifest nor an INCOMPLETE state.                        *)
FailureIsPermanent ==
  \A b \in Builders : result[b] \in {"invalidated", "failed"} /\ Sheltered(b) =>
    Inspect(b) = "INVALID" /\ b \in {staging, final}

(* The builder implements BundleContract: until the caller is told, a bundle *)
(* goes from INCOMPLETE to COMMITTED or INVALID, and COMMITTED is withdrawn  *)
(* only to INCOMPLETE; no call leaves INVALID; once told, neither a call nor *)
(* a power loss changes what a reader sees.  What is said of a bundle the    *)
(* code's syncs do not keep counts as nothing told.                          *)
ToldOf(b) == CASE result[b] = "committed" /\ Kept(b) -> "committed"
               [] result[b] \in {"invalidated", "failed"} /\ Kept(b) -> "invalid"
               [] OTHER -> "nothing"
Contract == INSTANCE BundleContract
              WITH Bundles <- Builders,
                   seen <- [b \in Builders |-> Inspect(b)],
                   told <- [b \in Builders |-> ToldOf(b)],
                   losses <- crashes
ImplementsContract == Contract!Spec

(* Builders that overlap touch each other's directories in two ways only,    *)
(* both of them because the names are resolved anew at each step: one whose  *)
(* directory is still at the staging name records the failure of its own     *)
(* rename in the bundle that is at the final name, and one whose bundle is   *)
(* at the final name writes evidence or INVALID into the staging directory   *)
(* that came after it.                                                       *)
MeddlesOnlyBesideOwn ==
  [][\A b, n \in Builders : pc'[b] # pc[b] /\ crashes' = crashes =>
        \/ b = n
        \/ <<state[n], manifest[n], files[n], dirs[n]>>' =
           <<state[n], manifest[n], files[n], dirs[n]>>
        \/ staging = b /\ final = n /\ pc[b] \in RecoverySteps
        \/ final = b /\ staging = n /\ pc[b] \in EvidenceSteps \cup MarkSteps]_vars

(* docs/failure-semantics.md: a durability-operation failure is recorded as  *)
(* invalid.  An evidence write that raises leaves the bundle INCOMPLETE, and *)
(* commit() may still accept it.                                             *)
DurabilityFailureRecorded ==
  \A b \in tainted : pc[b] = "open" => Inspect(b) = "INVALID"

(* docs/security-cost-and-provenance.md: a failed post-rename durability     *)
(* operation leaves the visible bundle non-committed.                        *)
FailedCommitNotCommitted ==
  \A b \in Builders : result[b] \in {"failed", "unconfirmed"} => Inspect(b) # "COMMITTED"
=============================================================================
