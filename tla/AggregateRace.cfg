SPECIFICATION Spec
CONSTANTS
  Repetitions = {r1, r2}
  MaxAttempts = 2
  Reproducing = {2}
  MaxTime = 2
  MaxFaults = 1
SYMMETRY MCSymmetry
INVARIANTS
  InvalidIsKept
CHECK_DEADLOCK FALSE
