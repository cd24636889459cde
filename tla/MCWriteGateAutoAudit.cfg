\* What the audit log says of auto-approved transactions.
CONSTANTS
  NoCall = NoCall
  Calls = {w1, s1}
  SequenceCalls = {s1}
  AutoApprove = TRUE
  DialogTimeout = 0
  Window = 0
  RateLimit = 2
  MaxTime = 0
SPECIFICATION Spec
INVARIANTS AutoApprovedIsAudited
