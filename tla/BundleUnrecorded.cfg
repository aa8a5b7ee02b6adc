\* One failing operation, no power loss: an evidence write that raises.
SPECIFICATION Spec
CONSTANTS
  b1 = b1
  b2 = b2
  Builders = {b1, b2}
  NoDir = NoDir
  NoFile = NoFile
  requests = requests
  summary = summary
  stray = stray
  Raw <- MCRaw
  Derived <- MCDerived
  Reconstruct <- MCReconstruct
  Syncs = TRUE
  Exclusive = TRUE
  MaxFaults = 1
  MaxCrashes = 0
INVARIANTS
  DurabilityFailureRecorded
CHECK_DEADLOCK FALSE
