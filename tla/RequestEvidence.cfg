\* Two exchanges of one request or of two, two tokens each; one lapse and two confused
\* files, any records put together.
SPECIFICATION Spec
SYMMETRY MCSymmetry
CONSTANTS
  Requests = {r1, r2}
  Streams <- MCStreams
  OutputTokens = 2
  MaxLapses = 1
  MaxSwaps = 2
INVARIANTS
  TypeOK
  NeverFaster
  BrokenIsRefused
  FilesOfOneExchange
  
CHECK_DEADLOCK FALSE
