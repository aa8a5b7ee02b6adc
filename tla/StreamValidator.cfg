SPECIFICATION Spec
CONSTANTS
  Streams <- MCStreams
  MaxOutput = 2
  BufferFrames = 3
  MaxOffset = 4
INVARIANTS
  TypeOK
  EvidenceInOrder
  EvidenceComplete
PROPERTIES
  CompletedIsTaken
  ImplementsFourTerminals
CHECK_DEADLOCK FALSE
