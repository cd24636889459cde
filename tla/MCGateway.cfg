\* Two calls and two lives of the process, with dialogs.  The approval timer
\* may expire at any moment after it is set (DialogTimeout = 0): the clock is
\* not fair and stops at its bound.  The bound on lives ends a behaviour.
CONSTANTS
  w1 = w1
  s1 = s1
  NoCall = NoCall
  Calls = {w1, s1}
  SequenceCalls = {s1}
  AutoApprove = FALSE
  DialogTimeout = 0
  Window = 0
  RateLimit = 1
  MaxTime = 1
  Environments <- MCEnvironments
  MaxLives = 2
SPECIFICATION GatewayFairSpec
INVARIANTS OnlyTheTokenOpens UnfinishedIsKilled AuditTellsTheTruth
PROPERTIES ImplementsRestartedTier ComesUp StopEnds CallsComplete
CHECK_DEADLOCK FALSE
