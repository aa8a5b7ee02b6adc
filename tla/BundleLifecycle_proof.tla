------------------------ MODULE BundleLifecycle_proof ------------------------
(***************************************************************************)
(* Proofs about BundleLifecycle, for any builders, evidence files,         *)
(* reconstructor and number of faults and power losses, on file systems    *)
(* that sync directories and on those that do not.                         *)
(***************************************************************************)
EXTENDS BundleLifecycle, TLAPS

\* What may be found later, as far as the code can know: after a power loss, if
\* directories are synced, else what is visible.
NamesLeft == IF Syncs THEN namesDisk ELSE {Names}
StateLeft(n) == IF Syncs THEN stateDisk[n] ELSE {state[n]}
ManifestLeft(n) == IF Syncs THEN manifestDisk[n] ELSE {manifest[n]}
FilesLeft(n) == IF Syncs THEN filesDisk[n] ELSE files[n]
DirsLeft(n) == IF Syncs THEN dirsDisk[n] ELSE dirs[n]

Settled(n, s) == \A x \in StateLeft(n) : x = s
Unpublished(n) == \A m \in ManifestLeft(n) : m = NoManifest

\* Directory n has not been through a power loss the syncs do not cover.
Covered(n) == Syncs \/ crashes = 0 \/ pc[n] \in Alive

Blank(n) ==
  /\ state[n] = "NONE" /\ \A x \in stateDisk[n] : x = "NONE"
  /\ manifest[n] = NoManifest /\ \A m \in manifestDisk[n] : m = NoManifest
  /\ files[n] = {} /\ filesDisk[n] = {}
  /\ dirs[n] = {} /\ dirsDisk[n] = {}

Staged(b) == staging = b /\ final = NoDir
Placed(b) == staging = NoDir /\ final = b

Unmade == {"new", "checked", "parented"}
InStaging == (InitSteps \ Unmade) \cup EvidenceSteps \cup MarkSteps \cup {"sync", "rename"}
InFinal == {"syncParent", "unlinkState", "syncFinal", "manifest", "syncManifest"}
InEither == {"open", "recover"} \cup RecoverySteps

\* At most one builder is running, and only its directory is at a name while
\* it works.
OneAlive == \A a, b \in Builders : pc[a] \in Alive /\ pc[b] \in Alive => a = b

PlaceInv(b) ==
  /\ pc[b] \in {"checked", "parented"} => final = NoDir
  /\ pc[b] \in InStaging => Staged(b)
  /\ pc[b] \in InFinal => Placed(b)
  /\ pc[b] \in InEither => Staged(b) \/ Placed(b)

\* What a power loss may leave includes what is visible, and a directory is
\* never at both names.
DiskInv ==
  /\ Names \in namesDisk
  /\ \A ns \in namesDisk : ns.staging = NoDir \/ ns.final = NoDir
  /\ \A n \in Builders : /\ state[n] \in stateDisk[n]
                         /\ manifest[n] \in manifestDisk[n]
                         /\ filesDisk[n] \subseteq files[n]
                         /\ dirsDisk[n] \subseteq dirs[n]

\* A builder that has not made its directory has none.
FreshInv(b) ==
  pc[b] \in Unmade =>
    /\ Blank(b)
    /\ result[b] = "none"
    /\ \A ns \in namesDisk : ns.staging # b /\ ns.final # b

\* Every name a power loss may leave leads to the directory of a builder
\* whose constructor has returned.
KnownInv(b) ==
  /\ pc[b] \in Alive \ InitSteps =>
       \A ns \in NamesLeft : ns.staging = b \/ ns.final = b
  /\ pc[b] \in {"unlinkState", "syncFinal", "manifest", "syncManifest"} =>
       NamesLeft = {Names}

\* What was made in a parent that is not kept for certain is exposed.
ExposedInv(b) ==
  /\ parent = "none" => pc[b] \notin Alive \ {"checked"}
  /\ parent # "kept" /\ (pc[b] \in Alive \ Unmade \/ result[b] # "none") => b \in exposed

\* Evidence: what survives for certain is what is there, except for the
\* entry being made.
Reached(fs, ds) == \A f \in fs : DirOf(f) \in ds
Durable(n) ==
  files[n] = FilesLeft(n) /\ dirs[n] = DirsLeft(n)
  /\ Reached(files[n], dirs[n])

EvidenceInv(b) ==
  b \notin tainted =>
    /\ pc[b] \in (Alive \ {"syncMkdir", "syncPut"}) \cup {"new"} => Durable(b)
    /\ pc[b] = "syncMkdir" =>
         /\ files[b] = FilesLeft(b)
         /\ dirs[b] = DirsLeft(b) \cup {DirOf(file[b])}
         /\ Reached(files[b], DirsLeft(b))
    /\ pc[b] \in {"put", "syncPut"} => DirOf(file[b]) \in DirsLeft(b)
    /\ pc[b] = "syncPut" =>
         /\ files[b] = FilesLeft(b) \cup {file[b]}
         /\ dirs[b] = DirsLeft(b)
         /\ Reached(files[b], dirs[b])

WriterInv(b) == pc[b] \in EvidenceSteps => file[b] \in Files

ListedInv(b) ==
  pc[b] \in {"sync", "rename", "syncParent", "unlinkState", "syncFinal",
             "manifest", "syncManifest"} =>
    listed[b] = files[b] /\ Committable(listed[b]) /\ listed[b] # NoManifest

\* A manifest is written only when the directory is at its final name for
\* certain, its state file gone for certain and its evidence complete.
ManifestInv(n) ==
  /\ pc[n] \in {"syncParent", "unlinkState", "syncFinal", "manifest"} =>
       Unpublished(n)
  /\ pc[n] = "syncFinal" => state[n] = "NONE"
  /\ pc[n] = "manifest" => Settled(n, "NONE")
  /\ Covered(n) /\ ~Unpublished(n) =>
       /\ \A ns \in NamesLeft : ns.final = n
       /\ result[n] \in {"none", "committed"} \/ pc[n] = "syncManifest" => Settled(n, "NONE")
       /\ n \notin tainted => Durable(n)
       /\ \A m \in ManifestLeft(n) : n \notin tainted /\ m # NoManifest =>
            m = files[n] /\ Committable(m)
  /\ pc[n] = "syncManifest" => manifest[n] # NoManifest

RecoveryInv(b) ==
  /\ pc[b] \in {"record", "syncRecord", "syncRecordParent"} => manifest[b] = NoManifest
  /\ pc[b] = "syncRecord" => state[b] = "INVALID"
  /\ pc[b] = "syncRecordParent" =>
       Settled(b, "INVALID") /\ Unpublished(b)
  /\ pc[b] = "syncMark" => state[b] = "INVALID"
  /\ pc[b] \in {"recover"} \cup RecoverySteps => result[b] = "failing"

IsTold(b) == result[b] \in {"committed", "invalidated", "failed"}
TellerInv(b) ==
  IsTold(b) => pc[b] = "closed" \/ (pc[b] = "open" /\ state[b] # "INCOMPLETE")
ToldInv(b) ==
  /\ TellerInv(b)
  /\ result[b] = "committed" /\ Sheltered(b) =>
       /\ \A ns \in NamesLeft : ns.final = b
       /\ NoManifest \notin ManifestLeft(b)
  /\ result[b] \in {"invalidated", "failed"} /\ Sheltered(b) =>
       /\ Settled(b, "INVALID")
       /\ Unpublished(b)
       /\ \A ns \in NamesLeft : ns.staging = b \/ ns.final = b

\* A directory whose work goes on is not INVALID, so no step turns an INVALID
\* bundle into anything else.
IntactInv(b) ==
  /\ pc[b] \in EvidenceSteps \cup {"made", "mark", "sync", "rename", "syncParent", "unlinkState"} =>
       state[b] # "INVALID"
  /\ pc[b] \in {"recover", "unlinkManifest"} /\ manifest[b] # NoManifest =>
       state[b] = "NONE"

BuilderInv(b) ==
  /\ PlaceInv(b) /\ FreshInv(b) /\ KnownInv(b) /\ ExposedInv(b)
  /\ EvidenceInv(b) /\ WriterInv(b) /\ ListedInv(b)
  /\ ManifestInv(b) /\ RecoveryInv(b) /\ IntactInv(b) /\ ToldInv(b)

IInv == TypeOK /\ OneAlive /\ DiskInv /\ \A b \in Builders : BuilderInv(b)

USE BundleAssumption
USE DEF Goto, Keep, Do, Tell, Raises, SetNames, SyncParent, PutState, PutManifest, SyncRoot,
        SyncDir, FailedDir, RequireIncomplete
USE DEF nameVars, nodeVars, stateVars, manifestVars, evidenceVars, memVars, Names, NoManifest
USE DEF Alive, Busy, InitSteps, EvidenceSteps, MarkSteps, CommitSteps, RecoverySteps,
        Unmade, InStaging, InFinal, InEither
USE DEF Staged, Placed, Settled, Unpublished, Covered, Sheltered, Kept,
        NamesLeft, StateLeft, ManifestLeft, FilesLeft, DirsLeft

-----------------------------------------------------------------------------
(* A step of one builder.                                                   *)

\* While a builder takes a step every other one is idle.
LEMMA OthersIdle ==
  ASSUME IInv, Exclusive, NEW b \in Builders, Step(b)
  PROVE  /\ TypeOK /\ OneAlive /\ DiskInv /\ BuilderInv(b) /\ b # NoDir
         /\ \A c \in Builders : /\ c = b \/ pc[c] \notin Alive
                                /\ BuilderInv(c) /\ c # NoDir
<1>1. pc[b] \in Alive \/ CheckFinal(b)
  BY DEF Step, MakeParent, MakeStaging, CreateState, SyncCreated, SyncCreatedParent,
               WriteEvidence, MakeDir, SyncMadeDir, PutFile, SyncFile, NoteRetained,
               SyncNote, BeginInvalidate, MarkInvalid, SyncMark, BeginCommit,
               SyncStaging, Rename, SyncRenamed, UnlinkState, SyncFinal,
               WriteManifest, SyncManifest, BeginRecovery, UnlinkManifest,
               RecordInvalid, SyncRecord, SyncRecordParent, Fault, Drop, Kill
<1> QED BY <1>1 DEF IInv, OneAlive, TypeOK, CheckFinal

\* Types, and what is visible can survive.
LEMMA StepTypeOK ==
  ASSUME IInv, Exclusive, NEW b \in Builders, Step(b)
  PROVE  TypeOK' /\ DiskInv'
<1> USE DEF TypeOK, DiskInv, BuilderInv, PlaceInv, WriterInv, Places, States,
            Results, DirOf, Files, Dirs
<1>0. /\ TypeOK /\ OneAlive /\ DiskInv /\ BuilderInv(b) /\ b # NoDir
      /\ \A c \in Builders : c = b \/ pc[c] \notin Alive
  BY OthersIdle
<1>1. CASE CheckFinal(b)
  BY <1>0, <1>1 DEF CheckFinal
<1>2. CASE MakeStaging(b)
  BY <1>0, <1>2 DEF MakeStaging
<1>32. CASE MakeParent(b)
  BY <1>0, <1>32 DEF MakeParent
<1>3. CASE CreateState(b)
  BY <1>0, <1>3 DEF CreateState
<1>4. CASE SyncCreated(b)
  BY <1>0, <1>4 DEF SyncCreated
<1>5. CASE SyncCreatedParent(b)
  BY <1>0, <1>5 DEF SyncCreatedParent
<1>6. ASSUME NEW f \in Files, WriteEvidence(b, f) PROVE TypeOK' /\ DiskInv'
  BY <1>0, <1>6 DEF WriteEvidence
<1>7. CASE MakeDir(b)
  BY <1>0, <1>7 DEF MakeDir
<1>8. CASE SyncMadeDir(b)
  BY <1>0, <1>8 DEF SyncMadeDir
<1>9. CASE PutFile(b)
  BY <1>0, <1>9 DEF PutFile
<1>10. CASE SyncFile(b)
  BY <1>0, <1>10 DEF SyncFile
<1>11. CASE NoteRetained(b)
  BY <1>0, <1>11 DEF NoteRetained
<1>12. CASE SyncNote(b)
  BY <1>0, <1>12 DEF SyncNote
<1>13. CASE BeginInvalidate(b)
  BY <1>0, <1>13 DEF BeginInvalidate
<1>14. CASE MarkInvalid(b)
  BY <1>0, <1>14 DEF MarkInvalid
<1>15. CASE SyncMark(b)
  BY <1>0, <1>15 DEF SyncMark
<1>16. CASE BeginCommit(b)
  BY <1>0, <1>16 DEF BeginCommit
<1>17. CASE SyncStaging(b)
  BY <1>0, <1>17 DEF SyncStaging
<1>18. CASE Rename(b)
  BY <1>0, <1>18 DEF Rename
<1>19. CASE SyncRenamed(b)
  BY <1>0, <1>19 DEF SyncRenamed
<1>20. CASE UnlinkState(b)
  BY <1>0, <1>20 DEF UnlinkState
<1>21. CASE SyncFinal(b)
  BY <1>0, <1>21 DEF SyncFinal
<1>22. CASE WriteManifest(b)
  BY <1>0, <1>22 DEF WriteManifest
<1>23. CASE SyncManifest(b)
  BY <1>0, <1>23 DEF SyncManifest
<1>24. CASE BeginRecovery(b)
  BY <1>0, <1>24 DEF BeginRecovery
<1>25. CASE UnlinkManifest(b)
  BY <1>0, <1>25 DEF UnlinkManifest
<1>26. CASE RecordInvalid(b)
  BY <1>0, <1>26 DEF RecordInvalid
<1>27. CASE SyncRecord(b)
  BY <1>0, <1>27 DEF SyncRecord
<1>28. CASE SyncRecordParent(b)
  BY <1>0, <1>28 DEF SyncRecordParent
<1>29. CASE Fault(b)
  BY <1>0, <1>29 DEF Fault
<1>30. CASE Drop(b)
  BY <1>0, <1>30 DEF Drop
<1>31. CASE Kill(b)
  BY <1>0, <1>31 DEF Kill
<1> QED BY <1>1, <1>2, <1>3, <1>4, <1>5, <1>6, <1>7, <1>8, <1>9, <1>10, <1>11,
           <1>12, <1>13, <1>14, <1>15, <1>16, <1>17, <1>18, <1>19, <1>20, <1>21,
           <1>22, <1>23, <1>24, <1>25, <1>26, <1>27, <1>28, <1>29, <1>30, <1>31,
           <1>32 DEF Step

\* Where a builder's directory is, and that only one builder runs.
LEMMA StepPlace ==
  ASSUME IInv, Exclusive, NEW b \in Builders, Step(b), NEW c \in Builders
  PROVE  OneAlive' /\ (PlaceInv(c) /\ FreshInv(c) /\ KnownInv(c) /\ ExposedInv(c))'
<1> USE DEF TypeOK, OneAlive, DiskInv, BuilderInv, PlaceInv, FreshInv, Blank,
            KnownInv, ExposedInv, Places
<1>0. /\ TypeOK /\ OneAlive /\ DiskInv /\ BuilderInv(b) /\ b # NoDir
      /\ c = b \/ pc[c] \notin Alive
      /\ BuilderInv(c) /\ c # NoDir
  BY OthersIdle
<1>1. CASE CheckFinal(b)
  BY <1>0, <1>1 DEF CheckFinal
<1>2. CASE MakeStaging(b)
  BY <1>0, <1>2 DEF MakeStaging
<1>32. CASE MakeParent(b)
  BY <1>0, <1>32 DEF MakeParent
<1>3. CASE CreateState(b)
  BY <1>0, <1>3 DEF CreateState
<1>4. CASE SyncCreated(b)
  BY <1>0, <1>4 DEF SyncCreated
<1>5. CASE SyncCreatedParent(b)
  BY <1>0, <1>5 DEF SyncCreatedParent
<1>6. ASSUME NEW f \in Files, WriteEvidence(b, f) PROVE OneAlive' /\ (PlaceInv(c) /\ FreshInv(c) /\ KnownInv(c) /\ ExposedInv(c))'
  BY <1>0, <1>6 DEF WriteEvidence
<1>7. CASE MakeDir(b)
  BY <1>0, <1>7 DEF MakeDir
<1>8. CASE SyncMadeDir(b)
  BY <1>0, <1>8 DEF SyncMadeDir
<1>9. CASE PutFile(b)
  BY <1>0, <1>9 DEF PutFile
<1>10. CASE SyncFile(b)
  BY <1>0, <1>10 DEF SyncFile
<1>11. CASE NoteRetained(b)
  BY <1>0, <1>11 DEF NoteRetained
<1>12. CASE SyncNote(b)
  BY <1>0, <1>12 DEF SyncNote
<1>13. CASE BeginInvalidate(b)
  BY <1>0, <1>13 DEF BeginInvalidate
<1>14. CASE MarkInvalid(b)
  BY <1>0, <1>14 DEF MarkInvalid
<1>15. CASE SyncMark(b)
  BY <1>0, <1>15 DEF SyncMark
<1>16. CASE BeginCommit(b)
  BY <1>0, <1>16 DEF BeginCommit
<1>17. CASE SyncStaging(b)
  BY <1>0, <1>17 DEF SyncStaging
<1>18. CASE Rename(b)
  BY <1>0, <1>18 DEF Rename
<1>19. CASE SyncRenamed(b)
  BY <1>0, <1>19 DEF SyncRenamed
<1>20. CASE UnlinkState(b)
  BY <1>0, <1>20 DEF UnlinkState
<1>21. CASE SyncFinal(b)
  BY <1>0, <1>21 DEF SyncFinal
<1>22. CASE WriteManifest(b)
  BY <1>0, <1>22 DEF WriteManifest
<1>23. CASE SyncManifest(b)
  BY <1>0, <1>23 DEF SyncManifest
<1>24. CASE BeginRecovery(b)
  BY <1>0, <1>24 DEF BeginRecovery
<1>25. CASE UnlinkManifest(b)
  BY <1>0, <1>25 DEF UnlinkManifest
<1>26. CASE RecordInvalid(b)
  BY <1>0, <1>26 DEF RecordInvalid
<1>27. CASE SyncRecord(b)
  BY <1>0, <1>27, SMTT(30) DEF SyncRecord
<1>28. CASE SyncRecordParent(b)
  BY <1>0, <1>28 DEF SyncRecordParent
<1>29. CASE Fault(b)
  BY <1>0, <1>29 DEF Fault
<1>30. CASE Drop(b)
  BY <1>0, <1>30 DEF Drop
<1>31. CASE Kill(b)
  BY <1>0, <1>31 DEF Kill
<1> QED BY <1>1, <1>2, <1>3, <1>4, <1>5, <1>6, <1>7, <1>8, <1>9, <1>10, <1>11,
           <1>12, <1>13, <1>14, <1>15, <1>16, <1>17, <1>18, <1>19, <1>20, <1>21,
           <1>22, <1>23, <1>24, <1>25, <1>26, <1>27, <1>28, <1>29, <1>30, <1>31,
           <1>32 DEF Step

\* What an evidence write leaves is what commit lists.
LEMMA StepEvidence ==
  ASSUME IInv, Exclusive, NEW b \in Builders, Step(b), NEW c \in Builders
  PROVE  (EvidenceInv(c) /\ WriterInv(c) /\ ListedInv(c))'
<1> USE DEF TypeOK, DiskInv, BuilderInv, PlaceInv, FreshInv, Blank, EvidenceInv,
            Durable, Reached, WriterInv, ListedInv
<1>0. /\ TypeOK /\ OneAlive /\ DiskInv /\ BuilderInv(b) /\ b # NoDir
      /\ c = b \/ pc[c] \notin Alive
      /\ BuilderInv(c) /\ c # NoDir
  BY OthersIdle
<1>1. CASE CheckFinal(b)
  BY <1>0, <1>1 DEF CheckFinal
<1>2. CASE MakeStaging(b)
  BY <1>0, <1>2 DEF MakeStaging
<1>32. CASE MakeParent(b)
  BY <1>0, <1>32 DEF MakeParent
<1>3. CASE CreateState(b)
  BY <1>0, <1>3 DEF CreateState
<1>4. CASE SyncCreated(b)
  BY <1>0, <1>4 DEF SyncCreated
<1>5. CASE SyncCreatedParent(b)
  BY <1>0, <1>5 DEF SyncCreatedParent
<1>6. ASSUME NEW f \in Files, WriteEvidence(b, f) PROVE (EvidenceInv(c) /\ WriterInv(c) /\ ListedInv(c))'
  BY <1>0, <1>6 DEF WriteEvidence
<1>7. CASE MakeDir(b)
  BY <1>0, <1>7 DEF MakeDir
<1>8. CASE SyncMadeDir(b)
  BY <1>0, <1>8 DEF SyncMadeDir
<1>9. CASE PutFile(b)
  BY <1>0, <1>9 DEF PutFile
<1>10. CASE SyncFile(b)
  <2>1. WriterInv(c)' /\ ListedInv(c)'
    BY <1>0, <1>10 DEF SyncFile
  <2>2. CASE c # b
    BY <1>0, <1>10, <2>2 DEF SyncFile
  <2>3. CASE c = b /\ ~Syncs
    BY <1>0, <1>10, <2>3 DEF SyncFile
  <2>4. CASE c = b /\ Syncs
    <3>1. /\ staging = b /\ file[b] \in Files /\ files' = files /\ dirs' = dirs /\ dirsDisk' = dirsDisk
          /\ filesDisk'[b] = filesDisk[b] \cup {f \in files[b] : DirOf(f) = DirOf(file[b])}
          /\ pc[b] = "syncPut" /\ pc'[b] = "note" /\ tainted' = tainted /\ filesDisk[b] \subseteq files[b]
      BY <1>0, <1>10, <2>4 DEF SyncFile
    <3>2. ASSUME b \notin tainted PROVE filesDisk'[b] = files[b]
      BY <1>0, <2>4, <3>1, <3>2
    <3> QED BY <1>0, <2>1, <2>4, <3>1, <3>2
  <2> QED BY <2>1, <2>2, <2>3, <2>4
<1>11. CASE NoteRetained(b)
  BY <1>0, <1>11 DEF NoteRetained
<1>12. CASE SyncNote(b)
  BY <1>0, <1>12 DEF SyncNote
<1>13. CASE BeginInvalidate(b)
  BY <1>0, <1>13 DEF BeginInvalidate
<1>14. CASE MarkInvalid(b)
  BY <1>0, <1>14 DEF MarkInvalid
<1>15. CASE SyncMark(b)
  BY <1>0, <1>15 DEF SyncMark
<1>16. CASE BeginCommit(b)
  <2>1. ASSUME Committable(files[staging]) PROVE files[staging] # NoManifest
    BY <2>1 DEF Committable
  <2> QED BY <1>0, <1>16, <2>1 DEF BeginCommit
<1>17. CASE SyncStaging(b)
  BY <1>0, <1>17 DEF SyncStaging
<1>18. CASE Rename(b)
  BY <1>0, <1>18 DEF Rename
<1>19. CASE SyncRenamed(b)
  BY <1>0, <1>19 DEF SyncRenamed
<1>20. CASE UnlinkState(b)
  BY <1>0, <1>20 DEF UnlinkState
<1>21. CASE SyncFinal(b)
  BY <1>0, <1>21 DEF SyncFinal
<1>22. CASE WriteManifest(b)
  BY <1>0, <1>22 DEF WriteManifest
<1>23. CASE SyncManifest(b)
  BY <1>0, <1>23 DEF SyncManifest
<1>24. CASE BeginRecovery(b)
  BY <1>0, <1>24 DEF BeginRecovery
<1>25. CASE UnlinkManifest(b)
  BY <1>0, <1>25 DEF UnlinkManifest
<1>26. CASE RecordInvalid(b)
  BY <1>0, <1>26 DEF RecordInvalid
<1>27. CASE SyncRecord(b)
  BY <1>0, <1>27 DEF SyncRecord
<1>28. CASE SyncRecordParent(b)
  BY <1>0, <1>28 DEF SyncRecordParent
<1>29. CASE Fault(b)
  BY <1>0, <1>29 DEF Fault
<1>30. CASE Drop(b)
  BY <1>0, <1>30 DEF Drop
<1>31. CASE Kill(b)
  BY <1>0, <1>31 DEF Kill
<1> QED BY <1>1, <1>2, <1>3, <1>4, <1>5, <1>6, <1>7, <1>8, <1>9, <1>10, <1>11,
           <1>12, <1>13, <1>14, <1>15, <1>16, <1>17, <1>18, <1>19, <1>20, <1>21,
           <1>22, <1>23, <1>24, <1>25, <1>26, <1>27, <1>28, <1>29, <1>30, <1>31,
           <1>32 DEF Step

\* The manifest comes last.
LEMMA StepManifest ==
  ASSUME IInv, Exclusive, NEW b \in Builders, Step(b), NEW c \in Builders
  PROVE  ManifestInv(c)'
<1> USE DEF TypeOK, DiskInv, BuilderInv, PlaceInv, FreshInv, Blank, KnownInv,
            EvidenceInv, Durable, ListedInv, ManifestInv, RecoveryInv
<1>0. /\ TypeOK /\ OneAlive /\ DiskInv /\ BuilderInv(b) /\ b # NoDir
      /\ c = b \/ pc[c] \notin Alive
      /\ BuilderInv(c) /\ c # NoDir
  BY OthersIdle
<1>1. CASE CheckFinal(b)
  BY <1>0, <1>1 DEF CheckFinal
<1>2. CASE MakeStaging(b)
  BY <1>0, <1>2 DEF MakeStaging
<1>32. CASE MakeParent(b)
  BY <1>0, <1>32 DEF MakeParent
<1>3. CASE CreateState(b)
  BY <1>0, <1>3 DEF CreateState
<1>4. CASE SyncCreated(b)
  BY <1>0, <1>4 DEF SyncCreated
<1>5. CASE SyncCreatedParent(b)
  BY <1>0, <1>5 DEF SyncCreatedParent
<1>6. ASSUME NEW f \in Files, WriteEvidence(b, f) PROVE ManifestInv(c)'
  BY <1>0, <1>6 DEF WriteEvidence
<1>7. CASE MakeDir(b)
  BY <1>0, <1>7 DEF MakeDir
<1>8. CASE SyncMadeDir(b)
  BY <1>0, <1>8 DEF SyncMadeDir
<1>9. CASE PutFile(b)
  BY <1>0, <1>9 DEF PutFile
<1>10. CASE SyncFile(b)
  BY <1>0, <1>10 DEF SyncFile
<1>11. CASE NoteRetained(b)
  BY <1>0, <1>11 DEF NoteRetained
<1>12. CASE SyncNote(b)
  BY <1>0, <1>12 DEF SyncNote
<1>13. CASE BeginInvalidate(b)
  BY <1>0, <1>13 DEF BeginInvalidate
<1>14. CASE MarkInvalid(b)
  BY <1>0, <1>14 DEF MarkInvalid
<1>15. CASE SyncMark(b)
  BY <1>0, <1>15 DEF SyncMark
<1>16. CASE BeginCommit(b)
  BY <1>0, <1>16 DEF BeginCommit
<1>17. CASE SyncStaging(b)
  BY <1>0, <1>17 DEF SyncStaging
<1>18. CASE Rename(b)
  BY <1>0, <1>18 DEF Rename
<1>19. CASE SyncRenamed(b)
  BY <1>0, <1>19 DEF SyncRenamed
<1>20. CASE UnlinkState(b)
  BY <1>0, <1>20 DEF UnlinkState
<1>21. CASE SyncFinal(b)
  BY <1>0, <1>21 DEF SyncFinal
<1>22. CASE WriteManifest(b)
  BY <1>0, <1>22 DEF WriteManifest
<1>23. CASE SyncManifest(b)
  BY <1>0, <1>23 DEF SyncManifest
<1>24. CASE BeginRecovery(b)
  BY <1>0, <1>24 DEF BeginRecovery
<1>25. CASE UnlinkManifest(b)
  BY <1>0, <1>25 DEF UnlinkManifest
<1>26. CASE RecordInvalid(b)
  BY <1>0, <1>26 DEF RecordInvalid
<1>27. CASE SyncRecord(b)
  BY <1>0, <1>27 DEF SyncRecord
<1>28. CASE SyncRecordParent(b)
  BY <1>0, <1>28 DEF SyncRecordParent
<1>29. CASE Fault(b)
  BY <1>0, <1>29 DEF Fault
<1>30. CASE Drop(b)
  BY <1>0, <1>30 DEF Drop
<1>31. CASE Kill(b)
  BY <1>0, <1>31 DEF Kill
<1> QED BY <1>1, <1>2, <1>3, <1>4, <1>5, <1>6, <1>7, <1>8, <1>9, <1>10, <1>11,
           <1>12, <1>13, <1>14, <1>15, <1>16, <1>17, <1>18, <1>19, <1>20, <1>21,
           <1>22, <1>23, <1>24, <1>25, <1>26, <1>27, <1>28, <1>29, <1>30, <1>31,
           <1>32 DEF Step

\* What the caller was told.
LEMMA StepTold ==
  ASSUME IInv, Exclusive, NEW b \in Builders, Step(b), NEW c \in Builders
  PROVE  (RecoveryInv(c) /\ IntactInv(c) /\ ToldInv(c))'
<1> USE DEF TypeOK, DiskInv, BuilderInv, PlaceInv, FreshInv, Blank, KnownInv,
            ManifestInv, RecoveryInv, IntactInv, ToldInv, TellerInv, IsTold
<1>0. /\ TypeOK /\ OneAlive /\ DiskInv /\ BuilderInv(b) /\ b # NoDir
      /\ c = b \/ pc[c] \notin Alive
      /\ BuilderInv(c) /\ c # NoDir
  BY OthersIdle
<1>1. CASE CheckFinal(b)
  BY <1>0, <1>1 DEF CheckFinal
<1>2. CASE MakeStaging(b)
  BY <1>0, <1>2 DEF MakeStaging
<1>32. CASE MakeParent(b)
  BY <1>0, <1>32 DEF MakeParent
<1>3. CASE CreateState(b)
  BY <1>0, <1>3 DEF CreateState
<1>4. CASE SyncCreated(b)
  BY <1>0, <1>4 DEF SyncCreated
<1>5. CASE SyncCreatedParent(b)
  BY <1>0, <1>5 DEF SyncCreatedParent
<1>6. ASSUME NEW f \in Files, WriteEvidence(b, f) PROVE (RecoveryInv(c) /\ IntactInv(c) /\ ToldInv(c))'
  BY <1>0, <1>6 DEF WriteEvidence
<1>7. CASE MakeDir(b)
  BY <1>0, <1>7 DEF MakeDir
<1>8. CASE SyncMadeDir(b)
  BY <1>0, <1>8 DEF SyncMadeDir
<1>9. CASE PutFile(b)
  BY <1>0, <1>9 DEF PutFile
<1>10. CASE SyncFile(b)
  BY <1>0, <1>10 DEF SyncFile
<1>11. CASE NoteRetained(b)
  BY <1>0, <1>11 DEF NoteRetained
<1>12. CASE SyncNote(b)
  BY <1>0, <1>12 DEF SyncNote
<1>13. CASE BeginInvalidate(b)
  BY <1>0, <1>13 DEF BeginInvalidate
<1>14. CASE MarkInvalid(b)
  BY <1>0, <1>14 DEF MarkInvalid
<1>15. CASE SyncMark(b)
  BY <1>0, <1>15 DEF SyncMark
<1>16. CASE BeginCommit(b)
  BY <1>0, <1>16 DEF BeginCommit
<1>17. CASE SyncStaging(b)
  BY <1>0, <1>17 DEF SyncStaging
<1>18. CASE Rename(b)
  BY <1>0, <1>18 DEF Rename
<1>19. CASE SyncRenamed(b)
  BY <1>0, <1>19 DEF SyncRenamed
<1>20. CASE UnlinkState(b)
  BY <1>0, <1>20 DEF UnlinkState
<1>21. CASE SyncFinal(b)
  BY <1>0, <1>21 DEF SyncFinal
<1>22. CASE WriteManifest(b)
  BY <1>0, <1>22 DEF WriteManifest
<1>23. CASE SyncManifest(b)
  BY <1>0, <1>23 DEF SyncManifest
<1>24. CASE BeginRecovery(b)
  BY <1>0, <1>24 DEF BeginRecovery
<1>25. CASE UnlinkManifest(b)
  BY <1>0, <1>25 DEF UnlinkManifest
<1>26. CASE RecordInvalid(b)
  BY <1>0, <1>26 DEF RecordInvalid
<1>27. CASE SyncRecord(b)
  BY <1>0, <1>27 DEF SyncRecord
<1>28. CASE SyncRecordParent(b)
  BY <1>0, <1>28 DEF SyncRecordParent
<1>29. CASE Fault(b)
  BY <1>0, <1>29 DEF Fault
<1>30. CASE Drop(b)
  BY <1>0, <1>30 DEF Drop
<1>31. CASE Kill(b)
  BY <1>0, <1>31 DEF Kill
<1> QED BY <1>1, <1>2, <1>3, <1>4, <1>5, <1>6, <1>7, <1>8, <1>9, <1>10, <1>11,
           <1>12, <1>13, <1>14, <1>15, <1>16, <1>17, <1>18, <1>19, <1>20, <1>21,
           <1>22, <1>23, <1>24, <1>25, <1>26, <1>27, <1>28, <1>29, <1>30, <1>31,
           <1>32 DEF Step

-----------------------------------------------------------------------------
(* A power loss, the initial state, and the induction.                      *)

\* After a power loss nothing is pending: what is visible is what survives.
LEMMA SurviveStep == ASSUME IInv, PowerLoss, Survive PROVE IInv'
<1>0. TypeOK /\ DiskInv /\ \A c \in Builders : BuilderInv(c)
  BY DEF IInv
<1>1. /\ faults' = faults /\ file' = file /\ listed' = listed /\ exposed' = exposed
      /\ result' = result /\ tainted' = tainted /\ crashes' = crashes + 1
      /\ pc' = [b \in Builders |-> IF pc[b] = "new" THEN "new" ELSE "closed"]
      /\ stateDisk' = [n \in Builders |-> {state'[n]}]
      /\ manifestDisk' = [n \in Builders |-> {manifest'[n]}]
      /\ dirsDisk' = dirs' /\ filesDisk' = files'
      /\ parent' = IF parent = "new" THEN "kept" ELSE parent
  BY DEF PowerLoss, Survive
<1>2. /\ \E ns \in namesDisk : staging' = ns.staging /\ final' = ns.final /\ namesDisk' = {ns}
      /\ state' \in [Builders -> States] /\ \A n \in Builders : state'[n] \in stateDisk[n]
      /\ dirs' \in [Builders -> SUBSET Dirs] /\ files' \in [Builders -> SUBSET Files]
  BY DEF Survive
<1>3. \A n \in Builders : /\ dirsDisk[n] \subseteq dirs'[n] /\ dirs'[n] \subseteq dirs[n]
                          /\ files'[n] \subseteq files[n]
                          /\ \A f \in filesDisk[n] :
                               f \in files[n] /\ DirOf(f) \in dirs'[n] => f \in files'[n]
  BY DEF Survive, Left, Between
<1>4. manifest' \in [Builders -> SUBSET Files] /\ \A n \in Builders : manifest'[n] \in manifestDisk[n]
  <2> DEFINE Ms == UNION {manifestDisk[n] : n \in Builders}
  <2>1. manifest' \in [Builders -> Ms] /\ \A n \in Builders : manifest'[n] \in manifestDisk[n]
    BY DEF Survive
  <2>2. \A n \in Builders : manifestDisk[n] \subseteq SUBSET Files
    BY <1>0 DEF TypeOK
  <2>3. \A n \in Builders : manifest'[n] \in SUBSET Files
    BY <2>1, <2>2
  <2> HIDE DEF Ms
  <2> QED BY <2>1, <2>3
<1>5. Names' \in namesDisk /\ namesDisk' = {Names'}
  BY <1>0, <1>2 DEF TypeOK, Places
<1>6. TypeOK'
  BY <1>0, <1>1, <1>2, <1>4 DEF TypeOK, Places
<1>7. OneAlive' /\ DiskInv'
  <2>1. \A b \in Builders : pc'[b] \notin Alive
    BY <1>1 DEF Alive, Busy
  <2>2. \A ns \in namesDisk' : ns.staging = NoDir \/ ns.final = NoDir
    BY <1>0, <1>5 DEF DiskInv
  <2>3. \A n \in Builders : /\ state'[n] \in stateDisk'[n] /\ manifest'[n] \in manifestDisk'[n]
                            /\ filesDisk'[n] \subseteq files'[n] /\ dirsDisk'[n] \subseteq dirs'[n]
    BY <1>1
  <2> QED BY <1>5, <2>1, <2>2, <2>3 DEF OneAlive, DiskInv
<1>8. ASSUME NEW c \in Builders PROVE BuilderInv(c)'
  <2>0. BuilderInv(c) /\ crashes \in Nat /\ crashes' # 0
    BY <1>0, <1>1 DEF TypeOK
  <2>1. PlaceInv(c)' /\ KnownInv(c)' /\ WriterInv(c)' /\ ListedInv(c)' /\ RecoveryInv(c)' /\ IntactInv(c)'
    BY <1>0, <1>1 DEF PlaceInv, KnownInv, WriterInv, ListedInv, RecoveryInv, IntactInv, TypeOK
  <2>2. FreshInv(c)'
    BY <1>0, <1>1, <1>2, <1>3, <1>4, <2>0 DEF BuilderInv, FreshInv, Blank, TypeOK
  <2>3. ExposedInv(c)'
    BY <1>0, <1>1, <2>0 DEF BuilderInv, ExposedInv, TypeOK
  <2>4. EvidenceInv(c)'
    <3>1. pc'[c] = "new" => Blank(c)'
      BY <1>1, <2>2 DEF FreshInv, TypeOK
    <3>2. Blank(c)' => Durable(c)'
      BY DEF Blank, Durable, Reached
    <3>3. pc'[c] \in {"new", "closed"}
      BY <1>1
    <3> QED BY <3>1, <3>2, <3>3 DEF EvidenceInv
  <2>5. ManifestInv(c)'
    <3>1. pc'[c] \in {"new", "closed"}
      BY <1>1
    <3>2. CASE Syncs
      <4>1. Durable(c) => Durable(c)' /\ files'[c] = files[c]
        BY <1>0, <1>1, <1>3, <3>2 DEF Durable, Reached, DiskInv
      <4> QED BY <1>0, <1>1, <1>2, <1>4, <2>0, <3>1, <3>2, <4>1 DEF BuilderInv, ManifestInv, TypeOK
    <3>3. CASE ~Syncs
      BY <2>0, <3>1, <3>3 DEF ManifestInv
    <3> QED BY <3>2, <3>3
  <2>6. ToldInv(c)'
    <3>1. /\ result'[c] = result[c] /\ (Sheltered(c)' => Sheltered(c) /\ Syncs)
          /\ stateDisk'[c] = {state'[c]} /\ state'[c] \in stateDisk[c]
          /\ manifestDisk'[c] = {manifest'[c]} /\ manifest'[c] \in manifestDisk[c]
      BY <1>1, <1>2, <1>4, <2>0
    <3>2. ToldInv(c) /\ FreshInv(c)
      BY <2>0 DEF BuilderInv
    <3>3. TellerInv(c)'
      <4>1. IsTold(c)' => pc[c] # "new"
        BY <3>1, <3>2 DEF FreshInv, IsTold
      <4>2. pc[c] # "new" => pc'[c] = "closed"
        BY <1>1
      <4> QED BY <4>1, <4>2 DEF TellerInv, IsTold
    <3>4. \A ns \in namesDisk' : ns \in namesDisk
      BY <1>5
    <3>5. CASE result[c] = "committed" /\ Sheltered(c)'
      <4>1. (\A ns \in namesDisk : ns.final = c) /\ NoManifest \notin manifestDisk[c] /\ Syncs
        BY <3>1, <3>2, <3>5 DEF ToldInv
      <4> QED BY <3>1, <3>3, <3>4, <3>5, <4>1 DEF ToldInv
    <3>6. CASE result[c] \in {"invalidated", "failed"} /\ Sheltered(c)'
      <4>1. Settled(c, "INVALID") /\ Unpublished(c) /\ Syncs
            /\ \A ns \in namesDisk : ns.staging = c \/ ns.final = c
        BY <3>1, <3>2, <3>6 DEF ToldInv
      <4>2. Settled(c, "INVALID")' /\ Unpublished(c)'
        BY <3>1, <4>1
      <4>3. \A ns \in namesDisk' : ns.staging = c \/ ns.final = c
        BY <3>4, <4>1
      <4> QED BY <3>1, <3>3, <3>6, <4>1, <4>2, <4>3 DEF ToldInv
    <3> QED BY <3>1, <3>3, <3>5, <3>6 DEF ToldInv
  <2> QED BY <2>1, <2>2, <2>3, <2>4, <2>5, <2>6 DEF BuilderInv
<1> QED BY <1>6, <1>7, <1>8 DEF IInv

\* With the parent everything goes; only what was exposed had been told of.
LEMMA VanishStep == ASSUME IInv, PowerLoss, Vanish PROVE IInv'
<1>0. TypeOK /\ DiskInv /\ \A c \in Builders : BuilderInv(c)
  BY DEF IInv
<1>1. /\ faults' = faults /\ file' = file /\ listed' = listed /\ exposed' = exposed
      /\ result' = result /\ tainted' = tainted /\ crashes' = crashes + 1
      /\ pc' = [b \in Builders |-> IF pc[b] = "new" THEN "new" ELSE "closed"]
      /\ parent = "new" /\ parent' = "none"
      /\ staging' = NoDir /\ final' = NoDir /\ namesDisk' = {Names'}
  BY DEF PowerLoss, Vanish
<1>2. /\ state' = [n \in Builders |-> "NONE"] /\ stateDisk' = [n \in Builders |-> {"NONE"}]
      /\ manifest' = [n \in Builders |-> {}] /\ manifestDisk' = [n \in Builders |-> {{}}]
      /\ files' = [n \in Builders |-> {}] /\ filesDisk' = [n \in Builders |-> {}]
      /\ dirs' = [n \in Builders |-> {}] /\ dirsDisk' = [n \in Builders |-> {}]
  BY DEF Vanish, Each
<1>3. TypeOK'
  BY <1>0, <1>1, <1>2 DEF TypeOK, Places, States
<1>4. OneAlive' /\ DiskInv'
  BY <1>1, <1>2 DEF OneAlive, DiskInv
<1>5. ASSUME NEW c \in Builders PROVE BuilderInv(c)'
  <2>0. BuilderInv(c) /\ crashes' # 0 /\ pc'[c] \in {"new", "closed"} /\ c # NoDir
    BY <1>0, <1>1 DEF TypeOK
  <2>1. Blank(c)' /\ Durable(c)' /\ Unpublished(c)'
    BY <1>2 DEF Blank, Durable, Reached
  <2>2. PlaceInv(c)' /\ KnownInv(c)' /\ WriterInv(c)' /\ ListedInv(c)' /\ RecoveryInv(c)'
        /\ IntactInv(c)' /\ EvidenceInv(c)' /\ ManifestInv(c)'
    BY <2>0, <2>1 DEF PlaceInv, KnownInv, WriterInv, ListedInv, RecoveryInv, IntactInv,
                      EvidenceInv, ManifestInv
  <2>3. FreshInv(c)' /\ ExposedInv(c)'
    BY <1>0, <1>1, <2>0, <2>1 DEF BuilderInv, FreshInv, ExposedInv, TypeOK
  <2>4. ToldInv(c)'
    <3>1. TellerInv(c)'
      <4>1. IsTold(c)' => pc[c] # "new"
        BY <1>1, <2>0 DEF BuilderInv, FreshInv, IsTold
      <4>2. pc[c] # "new" => pc'[c] = "closed"
        BY <1>1
      <4> QED BY <4>1, <4>2 DEF TellerInv, IsTold
    <3>2. ~Sheltered(c)' \/ ~IsTold(c)'
      BY <1>1, <2>0 DEF BuilderInv, ExposedInv, IsTold
    <3> QED BY <3>1, <3>2 DEF ToldInv, IsTold
  <2> QED BY <2>2, <2>3, <2>4 DEF BuilderInv
<1> QED BY <1>3, <1>4, <1>5 DEF IInv

LEMMA PowerLossStep == ASSUME IInv, PowerLoss PROVE IInv'
BY SurviveStep, VanishStep DEF PowerLoss

LEMMA InitIInv == Init => IInv
<1> SUFFICES ASSUME Init PROVE IInv
  OBVIOUS
<1>1. TypeOK /\ OneAlive /\ DiskInv
  BY DEF Init, Each, TypeOK, OneAlive, DiskInv, Places, States, Results
<1>2. ASSUME NEW b \in Builders PROVE BuilderInv(b)
  BY DEF Init, Each, BuilderInv, PlaceInv, FreshInv, Blank, KnownInv, ExposedInv, EvidenceInv, Durable, Reached,
         WriterInv, ListedInv, ManifestInv, RecoveryInv, IntactInv, ToldInv, TellerInv, IsTold
<1> QED BY <1>1, <1>2 DEF IInv

LEMMA StutterIInv == ASSUME IInv, UNCHANGED vars PROVE IInv'
<1>1. TypeOK' /\ OneAlive' /\ DiskInv'
  BY DEF IInv, vars, TypeOK, OneAlive, DiskInv
<1>2. ASSUME NEW b \in Builders PROVE BuilderInv(b)'
  <2>1. BuilderInv(b) BY DEF IInv
  <2> QED
    BY <2>1 DEF vars, BuilderInv, PlaceInv, FreshInv, Blank, KnownInv, ExposedInv, EvidenceInv, Durable, Reached,
           WriterInv, ListedInv, ManifestInv, RecoveryInv, IntactInv, ToldInv, TellerInv, IsTold
<1> QED BY <1>1, <1>2 DEF IInv

(* The inductive invariant holds of every behaviour in which the builders of *)
(* a name do not overlap.                                                    *)
THEOREM Inductive == ASSUME Exclusive PROVE Spec => []IInv
<1>1. ASSUME IInv, [Next]_vars PROVE IInv'
  <2>1. ASSUME NEW b \in Builders, Step(b) PROVE IInv'
    <3>1. TypeOK' /\ DiskInv' /\ OneAlive'
      BY <1>1, <2>1, StepTypeOK, StepPlace
    <3>2. ASSUME NEW c \in Builders PROVE BuilderInv(c)'
      BY <1>1, <2>1, StepPlace, StepEvidence, StepManifest, StepTold DEF BuilderInv
    <3> QED BY <3>1, <3>2 DEF IInv
  <2> QED BY <1>1, <2>1, PowerLossStep, StutterIInv DEF Next
<1> QED BY InitIInv, <1>1, PTL DEF Spec

(* Every variable keeps its type.                                           *)
THEOREM TypeCorrect == ASSUME Exclusive PROVE Spec => []TypeOK
<1>1. IInv => TypeOK BY DEF IInv
<1> QED BY <1>1, Inductive, PTL

(* commit() that returned stays committed and valid, through any number of  *)
(* later calls, failures, kills and power losses.                           *)
THEOREM CommitPermanent == ASSUME Exclusive PROVE Spec => []CommitIsPermanent
<1>1. ASSUME IInv, NEW b \in Builders, result[b] = "committed", b \notin tainted, Sheltered(b)
      PROVE  final = b /\ Accepts(b)
  <2>1. TypeOK /\ DiskInv /\ BuilderInv(b) BY <1>1 DEF IInv
  <2>2. final = b /\ manifest[b] # NoManifest
    BY <1>1, <2>1 DEF DiskInv, BuilderInv, ToldInv
  <2>3. state[b] = "NONE" /\ manifest[b] = files[b] /\ Committable(manifest[b])
    BY <1>1, <2>1, <2>2 DEF DiskInv, BuilderInv, ManifestInv
  <2> QED BY <2>2, <2>3 DEF Accepts, Inspect, Committable
<1>2. IInv => CommitIsPermanent BY <1>1 DEF CommitIsPermanent
<1> QED BY <1>2, Inductive, PTL

(* A bundle that reads COMMITTED is whole, even while commit() runs and     *)
(* after a power loss in the middle of it.                                  *)
THEOREM CommittedWhole == ASSUME Exclusive PROVE Spec => []CommittedIsWhole
<1>1. ASSUME IInv, NEW n \in Builders, Syncs \/ crashes = 0, Inspect(n) = "COMMITTED", n \notin tainted,
             result[n] \in {"none", "committed"}
      PROVE  final = n /\ Accepts(n)
  <2>1. TypeOK /\ DiskInv /\ BuilderInv(n) BY <1>1 DEF IInv
  <2>2. manifest[n] # NoManifest
    BY <1>1 DEF Inspect
  <2>3. final = n /\ state[n] = "NONE" /\ manifest[n] = files[n] /\ Committable(manifest[n])
    BY <1>1, <2>1, <2>2 DEF DiskInv, BuilderInv, ManifestInv
  <2> QED BY <1>1, <2>3 DEF Accepts, Committable
<1>2. IInv => CommittedIsWhole BY <1>1 DEF CommittedIsWhole
<1> QED BY <1>2, Inductive, PTL

(* A failure that was reported as recorded stays recorded.                  *)
THEOREM FailurePermanent == ASSUME Exclusive PROVE Spec => []FailureIsPermanent
<1>1. ASSUME IInv, NEW b \in Builders, result[b] \in {"invalidated", "failed"}, Sheltered(b)
      PROVE  Inspect(b) = "INVALID" /\ b \in {staging, final}
  <2>1. TypeOK /\ DiskInv /\ BuilderInv(b) BY <1>1 DEF IInv
  <2> QED BY <1>1, <2>1 DEF DiskInv, BuilderInv, ToldInv, Inspect
<1>2. IInv => FailureIsPermanent BY <1>1 DEF FailureIsPermanent
<1> QED BY <1>2, Inductive, PTL

-----------------------------------------------------------------------------
(* A builder implements BundleContract and touches no directory but its own *)

\* What a step of b leaves alone.
OnlyOwn(b) ==
  /\ crashes' = crashes
  /\ \A c \in Builders \ {b} :
       /\ pc'[c] = pc[c] /\ result'[c] = result[c]
       /\ state'[c] = state[c] /\ manifest'[c] = manifest[c]
       /\ files'[c] = files[c] /\ dirs'[c] = dirs[c]
       /\ c \in exposed' <=> c \in exposed

\* How a step may change what a reader sees of bundle b and what its caller was
\* told: not at all, one of them before the caller is told, or the telling.
SeenAsPromised(b) ==
  \/ Inspect(b)' = Inspect(b) /\ ToldOf(b)' = ToldOf(b)
  \/ /\ ToldOf(b) = "nothing" /\ ToldOf(b)' = "nothing"
     /\ \/ Inspect(b) = "INCOMPLETE" /\ Inspect(b)' = "COMMITTED"
        \/ Inspect(b) = "COMMITTED" /\ Inspect(b)' = "INCOMPLETE"
        \/ Inspect(b) = "INCOMPLETE" /\ Inspect(b)' = "INVALID"
  \/ /\ ToldOf(b) = "nothing" /\ Inspect(b)' = Inspect(b)
     /\ \/ ToldOf(b)' = "committed" /\ Inspect(b) = "COMMITTED"
        \/ ToldOf(b)' = "invalid" /\ Inspect(b) = "INVALID"

-----------------------------------------------------------------------------
(* What one step of a builder does.                                         *)

\* A step of b moves no other builder and touches no other directory.
LEMMA StepOwn ==
  ASSUME IInv, Exclusive, NEW b \in Builders, Step(b)
  PROVE  OnlyOwn(b)
<1> USE DEF OnlyOwn, TypeOK, BuilderInv, PlaceInv
<1>0. /\ TypeOK /\ OneAlive /\ DiskInv /\ BuilderInv(b) /\ b # NoDir
      /\ \A c \in Builders : c = b \/ pc[c] \notin Alive
  BY OthersIdle
<1>1. CASE CheckFinal(b)
  BY <1>0, <1>1 DEF CheckFinal
<1>2. CASE MakeStaging(b)
  BY <1>0, <1>2 DEF MakeStaging
<1>32. CASE MakeParent(b)
  BY <1>0, <1>32 DEF MakeParent
<1>3. CASE CreateState(b)
  BY <1>0, <1>3 DEF CreateState
<1>4. CASE SyncCreated(b)
  BY <1>0, <1>4 DEF SyncCreated
<1>5. CASE SyncCreatedParent(b)
  BY <1>0, <1>5 DEF SyncCreatedParent
<1>6. ASSUME NEW f \in Files, WriteEvidence(b, f) PROVE OnlyOwn(b)
  BY <1>0, <1>6 DEF WriteEvidence
<1>7. CASE MakeDir(b)
  BY <1>0, <1>7 DEF MakeDir
<1>8. CASE SyncMadeDir(b)
  BY <1>0, <1>8 DEF SyncMadeDir
<1>9. CASE PutFile(b)
  BY <1>0, <1>9 DEF PutFile
<1>10. CASE SyncFile(b)
  BY <1>0, <1>10 DEF SyncFile
<1>11. CASE NoteRetained(b)
  BY <1>0, <1>11 DEF NoteRetained
<1>12. CASE SyncNote(b)
  BY <1>0, <1>12 DEF SyncNote
<1>13. CASE BeginInvalidate(b)
  BY <1>0, <1>13 DEF BeginInvalidate
<1>14. CASE MarkInvalid(b)
  BY <1>0, <1>14 DEF MarkInvalid
<1>15. CASE SyncMark(b)
  BY <1>0, <1>15 DEF SyncMark
<1>16. CASE BeginCommit(b)
  BY <1>0, <1>16 DEF BeginCommit
<1>17. CASE SyncStaging(b)
  BY <1>0, <1>17 DEF SyncStaging
<1>18. CASE Rename(b)
  BY <1>0, <1>18 DEF Rename
<1>19. CASE SyncRenamed(b)
  BY <1>0, <1>19 DEF SyncRenamed
<1>20. CASE UnlinkState(b)
  BY <1>0, <1>20 DEF UnlinkState
<1>21. CASE SyncFinal(b)
  BY <1>0, <1>21 DEF SyncFinal
<1>22. CASE WriteManifest(b)
  BY <1>0, <1>22 DEF WriteManifest
<1>23. CASE SyncManifest(b)
  BY <1>0, <1>23 DEF SyncManifest
<1>24. CASE BeginRecovery(b)
  BY <1>0, <1>24 DEF BeginRecovery
<1>25. CASE UnlinkManifest(b)
  BY <1>0, <1>25 DEF UnlinkManifest
<1>26. CASE RecordInvalid(b)
  BY <1>0, <1>26 DEF RecordInvalid
<1>27. CASE SyncRecord(b)
  BY <1>0, <1>27 DEF SyncRecord
<1>28. CASE SyncRecordParent(b)
  BY <1>0, <1>28 DEF SyncRecordParent
<1>29. CASE Fault(b)
  BY <1>0, <1>29 DEF Fault
<1>30. CASE Drop(b)
  BY <1>0, <1>30 DEF Drop
<1>31. CASE Kill(b)
  BY <1>0, <1>31 DEF Kill
<1> QED BY <1>1, <1>2, <1>3, <1>4, <1>5, <1>6, <1>7, <1>8, <1>9, <1>10, <1>11,
           <1>12, <1>13, <1>14, <1>15, <1>16, <1>17, <1>18, <1>19, <1>20, <1>21,
           <1>22, <1>23, <1>24, <1>25, <1>26, <1>27, <1>28, <1>29, <1>30, <1>31,
           <1>32 DEF Step

\* What a reader sees of b, and what its caller was told, change as promised.
LEMMA StepSeen ==
  ASSUME IInv, Exclusive, NEW b \in Builders, Step(b)
  PROVE  SeenAsPromised(b)
<1> USE DEF SeenAsPromised, TypeOK, DiskInv, BuilderInv, PlaceInv, ListedInv,
            ManifestInv, RecoveryInv, IntactInv, ToldInv, TellerInv, IsTold, Inspect, ToldOf
<1>0. /\ TypeOK /\ OneAlive /\ DiskInv /\ BuilderInv(b) /\ b # NoDir
      /\ \A c \in Builders : c = b \/ pc[c] \notin Alive
  BY OthersIdle
<1>1. CASE CheckFinal(b)
  BY <1>0, <1>1 DEF CheckFinal
<1>2. CASE MakeStaging(b)
  BY <1>0, <1>2 DEF MakeStaging
<1>32. CASE MakeParent(b)
  BY <1>0, <1>32 DEF MakeParent
<1>3. CASE CreateState(b)
  BY <1>0, <1>3 DEF CreateState
<1>4. CASE SyncCreated(b)
  BY <1>0, <1>4 DEF SyncCreated
<1>5. CASE SyncCreatedParent(b)
  BY <1>0, <1>5 DEF SyncCreatedParent
<1>6. ASSUME NEW f \in Files, WriteEvidence(b, f) PROVE SeenAsPromised(b)
  BY <1>0, <1>6 DEF WriteEvidence
<1>7. CASE MakeDir(b)
  BY <1>0, <1>7 DEF MakeDir
<1>8. CASE SyncMadeDir(b)
  BY <1>0, <1>8 DEF SyncMadeDir
<1>9. CASE PutFile(b)
  BY <1>0, <1>9 DEF PutFile
<1>10. CASE SyncFile(b)
  BY <1>0, <1>10 DEF SyncFile
<1>11. CASE NoteRetained(b)
  BY <1>0, <1>11 DEF NoteRetained
<1>12. CASE SyncNote(b)
  BY <1>0, <1>12 DEF SyncNote
<1>13. CASE BeginInvalidate(b)
  BY <1>0, <1>13 DEF BeginInvalidate
<1>14. CASE MarkInvalid(b)
  BY <1>0, <1>14 DEF MarkInvalid
<1>15. CASE SyncMark(b)
  BY <1>0, <1>15 DEF SyncMark
<1>16. CASE BeginCommit(b)
  BY <1>0, <1>16 DEF BeginCommit
<1>17. CASE SyncStaging(b)
  BY <1>0, <1>17 DEF SyncStaging
<1>18. CASE Rename(b)
  BY <1>0, <1>18 DEF Rename
<1>19. CASE SyncRenamed(b)
  BY <1>0, <1>19 DEF SyncRenamed
<1>20. CASE UnlinkState(b)
  BY <1>0, <1>20 DEF UnlinkState
<1>21. CASE SyncFinal(b)
  BY <1>0, <1>21 DEF SyncFinal
<1>22. CASE WriteManifest(b)
  BY <1>0, <1>22 DEF WriteManifest
<1>23. CASE SyncManifest(b)
  BY <1>0, <1>23 DEF SyncManifest
<1>24. CASE BeginRecovery(b)
  BY <1>0, <1>24 DEF BeginRecovery
<1>25. CASE UnlinkManifest(b)
  BY <1>0, <1>25 DEF UnlinkManifest
<1>26. CASE RecordInvalid(b)
  BY <1>0, <1>26 DEF RecordInvalid
<1>27. CASE SyncRecord(b)
  BY <1>0, <1>27 DEF SyncRecord
<1>28. CASE SyncRecordParent(b)
  BY <1>0, <1>28 DEF SyncRecordParent
<1>29. CASE Fault(b)
  BY <1>0, <1>29 DEF Fault
<1>30. CASE Drop(b)
  BY <1>0, <1>30 DEF Drop
<1>31. CASE Kill(b)
  BY <1>0, <1>31 DEF Kill
<1> QED BY <1>1, <1>2, <1>3, <1>4, <1>5, <1>6, <1>7, <1>8, <1>9, <1>10, <1>11,
           <1>12, <1>13, <1>14, <1>15, <1>16, <1>17, <1>18, <1>19, <1>20, <1>21,
           <1>22, <1>23, <1>24, <1>25, <1>26, <1>27, <1>28, <1>29, <1>30, <1>31,
           <1>32 DEF Step

-----------------------------------------------------------------------------
(* Every step is a step of the contract, or none.                           *)

LEMMA StepImplements ==
  ASSUME IInv, Exclusive, NEW b \in Builders, Step(b)
  PROVE  [Contract!Next]_(Contract!vars)
<1> USE DEF Contract!Turn, Contract!Answer
<1>1. /\ crashes' = crashes
      /\ \A c \in Builders \ {b} : Inspect(c)' = Inspect(c) /\ ToldOf(c)' = ToldOf(c)
  BY StepOwn DEF OnlyOwn, Inspect, ToldOf
<1>2. SeenAsPromised(b)
  BY StepSeen
<1>3. CASE Inspect(b)' = Inspect(b) /\ ToldOf(b)' = ToldOf(b)
  <2>1. \A c \in Builders : Inspect(c)' = Inspect(c) /\ ToldOf(c)' = ToldOf(c)
    BY <1>1, <1>3
  <2> QED BY <1>1, <2>1 DEF Contract!vars
<1>4. CASE /\ ToldOf(b) = "nothing" /\ ToldOf(b)' = "nothing"
           /\ Inspect(b) = "INCOMPLETE" /\ Inspect(b)' = "COMMITTED"
  <2>1. Contract!Publish(b) BY <1>1, <1>4 DEF Contract!Publish
  <2> QED BY <2>1 DEF Contract!Next
<1>5. CASE /\ ToldOf(b) = "nothing" /\ ToldOf(b)' = "nothing"
           /\ Inspect(b) = "COMMITTED" /\ Inspect(b)' = "INCOMPLETE"
  <2>1. Contract!Retract(b) BY <1>1, <1>5 DEF Contract!Retract
  <2> QED BY <2>1 DEF Contract!Next
<1>6. CASE /\ ToldOf(b) = "nothing" /\ ToldOf(b)' = "nothing"
           /\ Inspect(b) = "INCOMPLETE" /\ Inspect(b)' = "INVALID"
  <2>1. Contract!Condemn(b) BY <1>1, <1>6 DEF Contract!Condemn
  <2> QED BY <2>1 DEF Contract!Next
<1>7. CASE /\ ToldOf(b) = "nothing" /\ Inspect(b)' = Inspect(b)
           /\ ToldOf(b)' = "committed" /\ Inspect(b) = "COMMITTED"
  <2>1. Contract!Confirm(b) BY <1>1, <1>7 DEF Contract!Confirm
  <2> QED BY <2>1 DEF Contract!Next
<1>8. CASE /\ ToldOf(b) = "nothing" /\ Inspect(b)' = Inspect(b)
           /\ ToldOf(b)' = "invalid" /\ Inspect(b) = "INVALID"
  <2>1. Contract!Reject(b) BY <1>1, <1>8 DEF Contract!Reject
  <2> QED BY <2>1 DEF Contract!Next
<1> QED BY <1>2, <1>3, <1>4, <1>5, <1>6, <1>7, <1>8 DEF SeenAsPromised

\* A power loss leaves what was told of a bundle the syncs keep as it is.
LEMMA PowerLossImplements == ASSUME IInv, PowerLoss PROVE Contract!PowerLoss
<1>1. /\ result' = result /\ exposed' = exposed /\ crashes' = crashes + 1
      /\ \A b \in Builders : ToldOf(b)' = ToldOf(b)
  BY DEF PowerLoss, ToldOf
<1>2. ASSUME NEW b \in Builders, ToldOf(b) # "nothing" PROVE Inspect(b)' = Inspect(b)
  <2>1. /\ ToldInv(b) /\ state[b] \in stateDisk[b] /\ manifest[b] \in manifestDisk[b]
        /\ ExposedInv(b)
    BY DEF IInv, BuilderInv, DiskInv
  <2>2. /\ Kept(b) /\ Sheltered(b) /\ result[b] # "none"
        /\ result[b] \in {"committed", "invalidated", "failed"}
    BY <1>2 DEF ToldOf
  <2>3. Survive
    BY <2>1, <2>2 DEF PowerLoss, Vanish, ExposedInv
  <2>4. state'[b] \in stateDisk[b] /\ manifest'[b] \in manifestDisk[b]
    BY <2>3 DEF Survive
  <2>5. CASE result[b] = "committed"
    <3>1. manifest[b] # NoManifest /\ manifest'[b] # NoManifest
      BY <2>1, <2>2, <2>4, <2>5 DEF ToldInv
    <3> QED BY <3>1 DEF Inspect
  <2>6. CASE result[b] \in {"invalidated", "failed"}
    <3>1. /\ manifest[b] = NoManifest /\ manifest'[b] = NoManifest
          /\ state[b] = "INVALID" /\ state'[b] = "INVALID"
      BY <2>1, <2>2, <2>4, <2>6 DEF ToldInv
    <3> QED BY <3>1 DEF Inspect
  <2> QED BY <2>2, <2>5, <2>6
<1>3. \A b \in Builders : Inspect(b)' \in Contract!Seen
  BY DEF Inspect, Contract!Seen
<1> QED BY <1>1, <1>2, <1>3 DEF Contract!PowerLoss

(* The builder implements its contract: what commit() or invalidate() told   *)
(* the caller is never withdrawn, and what a reader sees before that only    *)
(* goes where the contract lets it.                                          *)
THEOREM Refinement == ASSUME Exclusive PROVE Spec => ImplementsContract
<1>1. Init => Contract!Init
  BY DEF Init, Each, Contract!Init, Inspect, ToldOf
<1>2. ASSUME IInv, [Next]_vars PROVE [Contract!Next]_(Contract!vars)
  <2>1. CASE \E b \in Builders : Step(b)
    BY <1>2, <2>1, StepImplements
  <2>2. CASE PowerLoss
    BY <1>2, <2>2, PowerLossImplements DEF Contract!Next
  <2>3. CASE UNCHANGED vars
    BY <2>3 DEF vars, Contract!vars, Inspect, ToldOf
  <2> QED BY <1>2, <2>1, <2>2, <2>3 DEF Next
<1> QED BY <1>1, <1>2, Inductive, PTL DEF Spec, ImplementsContract, Contract!Spec

(* Builders that overlap touch each other's directories only as              *)
(* MeddlesOnlyBesideOwn says, with no assumption on how they are run.        *)

\* A builder that has made its directory has it at one of the names.
OwnPlace(b) ==
  /\ pc[b] \in Unmade => \A ns \in namesDisk : ns.staging # b /\ ns.final # b
  /\ pc[b] \in Alive \ Unmade => staging = b \/ final = b
  /\ pc[b] = "made" => staging = b
  /\ pc[b] \in InStaging => staging # NoDir
  /\ pc[b] \in InFinal => final = b
  /\ pc[b] \in EvidenceSteps => file[b] \in Files

Apart ==
  /\ TypeOK /\ Names \in namesDisk
  /\ \A ns \in namesDisk : ns.staging = NoDir \/ ns.staging # ns.final
  /\ \A b \in Builders : OwnPlace(b)

Meddling(b, n) ==
  \/ b = n
  \/ <<state[n], manifest[n], files[n], dirs[n]>>' =
     <<state[n], manifest[n], files[n], dirs[n]>>
  \/ staging = b /\ final = n /\ pc[b] \in RecoverySteps
  \/ final = b /\ staging = n /\ pc[b] \in EvidenceSteps \cup MarkSteps

\* A step keeps every directory at a name of its own.
LEMMA StepApart ==
  ASSUME Apart, NEW b \in Builders, Step(b)
  PROVE  Apart'
<1> USE DEF Apart, TypeOK, OwnPlace, Places, States, Results, DirOf, Files, Dirs
<1>1. CASE CheckFinal(b)
  BY <1>1 DEF CheckFinal
<1>2. CASE MakeParent(b)
  BY <1>2 DEF MakeParent
<1>3. CASE MakeStaging(b)
  BY <1>3 DEF MakeStaging
<1>4. CASE CreateState(b)
  BY <1>4 DEF CreateState
<1>5. CASE SyncCreated(b)
  <2>1. /\ stateDisk' \in [Builders -> SUBSET States]
        /\ manifestDisk' \in [Builders -> SUBSET SUBSET Files]
        /\ dirsDisk' \in [Builders -> SUBSET Dirs]
    BY <1>5 DEF SyncCreated
  <2>2. \A c \in Builders : OwnPlace(c)'
    BY <1>5 DEF SyncCreated
  <2>3. /\ UNCHANGED <<nameVars, state, manifest, files, dirs, filesDisk, memVars, faults, crashes>>
        /\ pc' = [pc EXCEPT ![b] = "rooted"]
    BY <1>5 DEF SyncCreated
  <2> QED BY <2>1, <2>2, <2>3
<1>6. CASE SyncCreatedParent(b)
  BY <1>6 DEF SyncCreatedParent
<1>7. ASSUME NEW f \in Files, WriteEvidence(b, f) PROVE Apart'
  BY <1>7 DEF WriteEvidence
<1>8. CASE MakeDir(b)
  BY <1>8 DEF MakeDir
<1>9. CASE SyncMadeDir(b)
  BY <1>9 DEF SyncMadeDir
<1>10. CASE PutFile(b)
  <2>1. files' \in [Builders -> SUBSET Files]
    BY <1>10 DEF PutFile
  <2>2. \A c \in Builders : OwnPlace(c)'
    BY <1>10 DEF PutFile
  <2>3. /\ UNCHANGED <<nameVars, stateVars, manifestVars, dirs, filesDisk, dirsDisk, memVars, faults, crashes>>
        /\ pc' = [pc EXCEPT ![b] = "syncPut"]
    BY <1>10 DEF PutFile
  <2> QED BY <2>1, <2>2, <2>3
<1>11. CASE SyncFile(b)
  BY <1>11 DEF SyncFile
<1>12. CASE NoteRetained(b)
  BY <1>12 DEF NoteRetained
<1>13. CASE SyncNote(b)
  BY <1>13 DEF SyncNote
<1>14. CASE BeginInvalidate(b)
  BY <1>14 DEF BeginInvalidate
<1>15. CASE MarkInvalid(b)
  BY <1>15 DEF MarkInvalid
<1>16. CASE SyncMark(b)
  BY <1>16 DEF SyncMark
<1>17. CASE BeginCommit(b)
  BY <1>17 DEF BeginCommit
<1>18. CASE SyncStaging(b)
  BY <1>18 DEF SyncStaging
<1>19. CASE Rename(b)
  BY <1>19 DEF Rename
<1>20. CASE SyncRenamed(b)
  BY <1>20 DEF SyncRenamed
<1>21. CASE UnlinkState(b)
  BY <1>21 DEF UnlinkState
<1>22. CASE SyncFinal(b)
  BY <1>22 DEF SyncFinal
<1>23. CASE WriteManifest(b)
  BY <1>23 DEF WriteManifest
<1>24. CASE SyncManifest(b)
  BY <1>24 DEF SyncManifest
<1>25. CASE BeginRecovery(b)
  BY <1>25 DEF BeginRecovery
<1>26. CASE UnlinkManifest(b)
  BY <1>26 DEF UnlinkManifest
<1>27. CASE RecordInvalid(b)
  BY <1>27 DEF RecordInvalid
<1>28. CASE SyncRecord(b)
  BY <1>28 DEF SyncRecord
<1>29. CASE SyncRecordParent(b)
  BY <1>29 DEF SyncRecordParent
<1>30. CASE Fault(b)
  BY <1>30 DEF Fault
<1>31. CASE Drop(b)
  BY <1>31 DEF Drop
<1>32. CASE Kill(b)
  BY <1>32 DEF Kill
<1> QED BY <1>1, <1>2, <1>3, <1>4, <1>5, <1>6, <1>7, <1>8, <1>9, <1>10,
           <1>11, <1>12, <1>13, <1>14, <1>15, <1>16, <1>17, <1>18, <1>19,
           <1>20, <1>21, <1>22, <1>23, <1>24, <1>25, <1>26, <1>27, <1>28,
           <1>29, <1>30, <1>31, <1>32 DEF Step

\* The step moves one builder, and writes where it may.
LEMMA StepMeddles ==
  ASSUME Apart, NEW b \in Builders, Step(b), NEW c \in Builders, NEW n \in Builders, pc'[c] # pc[c]
  PROVE  Meddling(c, n)
<1> USE DEF Apart, TypeOK, OwnPlace, Meddling
<1>1. CASE CheckFinal(b)
  BY <1>1 DEF CheckFinal
<1>2. CASE MakeParent(b)
  BY <1>2 DEF MakeParent
<1>3. CASE MakeStaging(b)
  BY <1>3 DEF MakeStaging
<1>4. CASE CreateState(b)
  BY <1>4 DEF CreateState
<1>5. CASE SyncCreated(b)
  BY <1>5 DEF SyncCreated
<1>6. CASE SyncCreatedParent(b)
  BY <1>6 DEF SyncCreatedParent
<1>7. ASSUME NEW f \in Files, WriteEvidence(b, f) PROVE Meddling(c, n)
  BY <1>7 DEF WriteEvidence
<1>8. CASE MakeDir(b)
  BY <1>8 DEF MakeDir
<1>9. CASE SyncMadeDir(b)
  BY <1>9 DEF SyncMadeDir
<1>10. CASE PutFile(b)
  BY <1>10 DEF PutFile
<1>11. CASE SyncFile(b)
  BY <1>11 DEF SyncFile
<1>12. CASE NoteRetained(b)
  BY <1>12 DEF NoteRetained
<1>13. CASE SyncNote(b)
  BY <1>13 DEF SyncNote
<1>14. CASE BeginInvalidate(b)
  BY <1>14 DEF BeginInvalidate
<1>15. CASE MarkInvalid(b)
  BY <1>15 DEF MarkInvalid
<1>16. CASE SyncMark(b)
  BY <1>16 DEF SyncMark
<1>17. CASE BeginCommit(b)
  BY <1>17 DEF BeginCommit
<1>18. CASE SyncStaging(b)
  BY <1>18 DEF SyncStaging
<1>19. CASE Rename(b)
  BY <1>19 DEF Rename
<1>20. CASE SyncRenamed(b)
  BY <1>20 DEF SyncRenamed
<1>21. CASE UnlinkState(b)
  BY <1>21 DEF UnlinkState
<1>22. CASE SyncFinal(b)
  BY <1>22 DEF SyncFinal
<1>23. CASE WriteManifest(b)
  BY <1>23 DEF WriteManifest
<1>24. CASE SyncManifest(b)
  BY <1>24 DEF SyncManifest
<1>25. CASE BeginRecovery(b)
  BY <1>25 DEF BeginRecovery
<1>26. CASE UnlinkManifest(b)
  BY <1>26 DEF UnlinkManifest
<1>27. CASE RecordInvalid(b)
  BY <1>27 DEF RecordInvalid
<1>28. CASE SyncRecord(b)
  BY <1>28 DEF SyncRecord
<1>29. CASE SyncRecordParent(b)
  BY <1>29 DEF SyncRecordParent
<1>30. CASE Fault(b)
  BY <1>30 DEF Fault
<1>31. CASE Drop(b)
  BY <1>31 DEF Drop
<1>32. CASE Kill(b)
  BY <1>32 DEF Kill
<1> QED BY <1>1, <1>2, <1>3, <1>4, <1>5, <1>6, <1>7, <1>8, <1>9, <1>10,
           <1>11, <1>12, <1>13, <1>14, <1>15, <1>16, <1>17, <1>18, <1>19,
           <1>20, <1>21, <1>22, <1>23, <1>24, <1>25, <1>26, <1>27, <1>28,
           <1>29, <1>30, <1>31, <1>32 DEF Step

\* A power loss moves directories only to names they had.
LEMMA PowerLossApart == ASSUME Apart, PowerLoss PROVE Apart'
<1>1. /\ crashes' = crashes + 1
      /\ pc' = [b \in Builders |-> IF pc[b] = "new" THEN "new" ELSE "closed"]
      /\ UNCHANGED <<exposed, memVars, faults>>
  BY DEF PowerLoss
<1>2. \A b \in Builders : pc'[b] = "new" \/ pc'[b] = "closed"
  BY <1>1
<1>3. CASE Survive
  <2>1. /\ parent' = IF parent = "new" THEN "kept" ELSE parent
        /\ Names' \in namesDisk /\ namesDisk' = {Names'}
    <3>1. \E ns \in namesDisk : staging' = ns.staging /\ final' = ns.final /\ namesDisk' = {ns}
      BY <1>3 DEF Survive
    <3>2. PICK ns \in namesDisk : staging' = ns.staging /\ final' = ns.final /\ namesDisk' = {ns}
      BY <3>1
    <3>3. ns = [staging |-> ns.staging, final |-> ns.final]
      BY <3>2 DEF Apart, TypeOK, Places
    <3>4. parent' = IF parent = "new" THEN "kept" ELSE parent
      BY <1>3 DEF Survive
    <3> QED BY <3>2, <3>3, <3>4
  <2>2. /\ state' \in [Builders -> States] /\ stateDisk' = [n \in Builders |-> {state'[n]}]
        /\ manifestDisk' = [n \in Builders |-> {manifest'[n]}]
        /\ dirs' \in [Builders -> SUBSET Dirs] /\ files' \in [Builders -> SUBSET Files]
        /\ dirsDisk' = dirs' /\ filesDisk' = files'
    BY <1>3 DEF Survive
  <2>3. manifest' \in [Builders -> SUBSET Files]
    <3> DEFINE Ms == UNION {manifestDisk[n] : n \in Builders}
    <3>1. manifest' \in [Builders -> Ms] /\ \A n \in Builders : manifest'[n] \in manifestDisk[n]
      BY <1>3 DEF Survive
    <3>2. \A n \in Builders : manifestDisk[n] \subseteq SUBSET Files
      BY DEF Apart, TypeOK
    <3>3. \A n \in Builders : manifest'[n] \in SUBSET Files
      BY <3>1, <3>2
    <3> HIDE DEF Ms
    <3> QED BY <3>1, <3>3
  <2>4. TypeOK'
    BY <1>1, <2>1, <2>2, <2>3 DEF Apart, TypeOK, Places
  <2>5. \A b \in Builders : OwnPlace(b)'
    BY <1>1, <1>2, <2>1 DEF Apart, OwnPlace, TypeOK
  <2> QED BY <2>1, <2>4, <2>5 DEF Apart
<1>4. CASE Vanish
  <2>1. /\ parent' = "none" /\ staging' = NoDir /\ final' = NoDir /\ namesDisk' = {Names'}
        /\ state' = [n \in Builders |-> "NONE"] /\ stateDisk' = [n \in Builders |-> {"NONE"}]
        /\ manifest' = [n \in Builders |-> {}] /\ manifestDisk' = [n \in Builders |-> {{}}]
        /\ files' = [n \in Builders |-> {}] /\ filesDisk' = [n \in Builders |-> {}]
        /\ dirs' = [n \in Builders |-> {}] /\ dirsDisk' = [n \in Builders |-> {}]
    BY <1>4 DEF Vanish, Each
  <2>2. TypeOK'
    BY <1>1, <2>1 DEF Apart, TypeOK, Places, States
  <2>3. \A b \in Builders : OwnPlace(b)'
    BY <1>1, <1>2, <2>1 DEF OwnPlace
  <2> QED BY <2>1, <2>2, <2>3 DEF Apart
<1> QED BY <1>3, <1>4 DEF PowerLoss

(* No step of one builder writes into the directory of another but as         *)
(* MeddlesOnlyBesideOwn says, however the two are interleaved.               *)
THEOREM MeddlesLittle == Spec => MeddlesOnlyBesideOwn
<1> DEFINE A == \A b, n \in Builders : pc'[b] # pc[b] /\ crashes' = crashes => Meddling(b, n)
<1>1. Init => Apart
  BY DEF Init, Each, Apart, OwnPlace, TypeOK, Places, States, Results
<1>2. ASSUME Apart, [Next]_vars PROVE Apart'
  <2>1. CASE \E b \in Builders : Step(b)
    BY <1>2, <2>1, StepApart
  <2>2. CASE PowerLoss
    BY <1>2, <2>2, PowerLossApart
  <2>3. CASE UNCHANGED vars
    BY <1>2, <2>3 DEF vars, Apart, TypeOK, OwnPlace
  <2> QED BY <1>2, <2>1, <2>2, <2>3 DEF Next
<1>3. ASSUME Apart, [Next]_vars PROVE [A]_vars
  <2>1. CASE \E b \in Builders : Step(b)
    BY <1>2, <2>1, <1>3, StepMeddles
  <2>2. CASE PowerLoss
    BY <1>3, <2>2 DEF Apart, TypeOK, PowerLoss
  <2> QED BY <1>3, <2>1, <2>2 DEF Next
<1> QED BY <1>1, <1>2, <1>3, PTL DEF Spec, MeddlesOnlyBesideOwn, Meddling
=============================================================================
