\* RateLimit + 2 calls at the same time, over two windows; any of their RPCs
\* may hang.
CONSTANTS
  Calls = {c1, c2, c3}
  Window = 0
  RateLimit = 1
  MaxTime = 1
SPECIFICATION FairSpec
INVARIANTS AuditTellsTheTruth SubmissionRate
PROPERTIES CallsCompleteAlone
CHECK_DEADLOCK FALSE
