\* One name, two builders one after the other, up to two failing operations
\* and two power losses.
SPECIFICATION Spec
CONSTANTS
  b1 = b1
  b2 = b2
  Builders = {b1, b2}
  NoDir = NoDir
  NoFile = NoFile
  requests = requests
  summary = summary
  stray = stray
  Raw <- MCRaw
  Derived <- MCDerived
  Reconstruct <- MCReconstruct
  Syncs = TRUE
  Exclusive = TRUE
  MaxFaults = 2
  MaxCrashes = 2
INVARIANTS
  TypeOK
  CommitIsPermanent
  CommittedIsWhole
  FailureIsPermanent
PROPERTIES
  ImplementsContract
  MeddlesOnlyBesideOwn
CHECK_DEADLOCK FALSE
