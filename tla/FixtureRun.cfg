\* Six measured requests, two at a time as in the shipped configuration, and nothing
\* but the fixture's own stalls is slow; or three, and one read times out without a
\* stall or the run is cancelled once, at any point; or three, and any success may
\* miss the threshold.
SPECIFICATION Spec
CONSTANTS
  warmup = warmup
  success = success
  keepalive = keepalive
  malformed = malformed
  failure = failure
  timeout = timeout
  broken = broken
  garbled = garbled
  truncated = truncated
  Warmup = warmup
  Loads <- MCLoads
  Script <- MCScript
  ExpectedTokens <- MCExpectedTokens
  Concurrency = 2
INVARIANTS
  TypeOK
  ComparesEqual
  OwnEvidenceAccepted
  ServerEventsComplete
PROPERTIES
  ImplementsClosedLoop
  RunEnds
CHECK_DEADLOCK FALSE
