SPECIFICATION Spec
CONSTANTS
  Probes <- MCProbes
  PreCount = 2
  DrainCount = 2
  Cadence = 1
  StableSpan = 1
  CooldownSpan = 1
  Patience = 1
  Deadline = 4
  MaxTime = 9
  MaxTokens = 2
INVARIANTS
  TypeOK
  AcceptedIsAborted
  FixtureDrainIsAccepted
  CloseFollowsFirstDelivery
PROPERTY
  LostConnectionIsDrained
CHECK_DEADLOCK FALSE
