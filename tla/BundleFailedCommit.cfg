\* Two failing operations, no power loss: the last sync of commit and the unlink of its recovery.
SPECIFICATION Spec
CONSTANTS
  b1 = b1
  b2 = b2
  Builders = {b1, b2}
  NoDir = NoDir
  NoFile = NoFile
  requests = requests
  summary = summary
  stray = stray
  Raw <- MCRaw
  Derived <- MCDerived
  Reconstruct <- MCReconstruct
  Syncs = TRUE
  Exclusive = TRUE
  MaxFaults = 2
  MaxCrashes = 0
INVARIANTS
  FailedCommitNotCommitted
CHECK_DEADLOCK FALSE
