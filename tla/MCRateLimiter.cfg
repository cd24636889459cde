\* A quota of two per window of three units, over a clock of nine: several
\* windows follow each other and entries expire one by one.
CONSTANTS
  Window = 3
  RateLimit = 2
  MaxTime = 9
SPECIFICATION Spec
INVARIANTS WindowBound ExactQuota
CHECK_DEADLOCK FALSE
