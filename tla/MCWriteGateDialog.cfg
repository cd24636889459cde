\* Three calls behind one permit; the operator answers in time, late or never.
\* The clock lets all three be admitted, RateLimit + 2 of them, and a dialog
\* moves their submissions away from the admissions that the limiter counted.
CONSTANTS
  NoCall = NoCall
  Calls = {w1, w2, s1}
  SequenceCalls = {s1}
  AutoApprove = FALSE
  DialogTimeout = 1
  Window = 0
  RateLimit = 1
  MaxTime = 2
SPECIFICATION Spec
SYMMETRY CallSymmetry
INVARIANTS GateIsExclusive InflightIsTheHolders PendingIsAnswerable
  SentOnlyIfApproved AuditTellsTheTruth SubmissionRate
PROPERTIES AnswerStands SubmittedOnce ImplementsTier
