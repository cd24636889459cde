\* An answer that arrives between the timeout and the cleanup.
CONSTANTS
  NoCall = NoCall
  Calls = {w1, w2}
  SequenceCalls = {}
  AutoApprove = FALSE
  DialogTimeout = 0
  Window = 0
  RateLimit = 2
  MaxTime = 0
SPECIFICATION FairSpec
PROPERTIES LateAnswerIsRefused
