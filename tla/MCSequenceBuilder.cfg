\* All requests of up to four steps over three keys, with steps that fit
\* their ABI entry and steps of every kind that does not; a third withdrawal
\* runs out of ids.
CONSTANTS
  Keys = {"a", "b", "c"}
  Literal = "literal"
  MaxWorkspaceId = 2
  MaxSteps = 4
  Steps <- MCSteps
SPECIFICATION Spec
INVARIANTS ReferencesResolve InstructionsFollowSteps AcceptsExactlyTheWellFormed
CHECK_DEADLOCK FALSE
