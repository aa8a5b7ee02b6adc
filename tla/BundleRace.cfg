\* Two builders of one name at the same time; nothing fails.
SPECIFICATION Spec
CONSTANTS
  b1 = b1
  b2 = b2
  Builders = {b1, b2}
  NoDir = NoDir
  NoFile = NoFile
  requests = requests
  summary = summary
  stray = stray
  Raw <- MCRaw
  Derived <- MCDerived
  Reconstruct <- MCReconstruct
  Syncs = TRUE
  Exclusive = FALSE
  MaxFaults = 0
  MaxCrashes = 0
INVARIANTS
  CommitIsPermanent
CHECK_DEADLOCK FALSE
