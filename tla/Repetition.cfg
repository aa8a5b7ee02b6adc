SPECIFICATION Spec
CONSTANTS
  Cases = {c1, c2, c3}
  SteadyCount = 2
  Cadence = 1
  QuietSpan = 1
  GateSpan = 1
  MaxTime = 14
  MaxFaults = 1
SYMMETRY MCSymmetry
INVARIANTS
  TypeOK
  WindowIsExclusive
  OneServer
  TwoAtATime
  UndisturbedIsAccepted
CHECK_DEADLOCK FALSE
