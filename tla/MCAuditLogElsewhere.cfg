\* The log's path is overridden by one without "mcp_audit." in its name.
CONSTANTS
  MaxBuffer = 2
  MaxLines = 2
  MaxRotated = 1
  CleanupSees = FALSE
  Faults = {}
  MaxEntries = 7
  MaxSetbacks = 0
SPECIFICATION Spec
INVARIANTS RotatedFilesAreBounded
CHECK_DEADLOCK FALSE
