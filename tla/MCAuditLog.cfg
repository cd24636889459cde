\* A disk on which renames, opens and writes fail, rotations that may fall into
\* one second, and one crash, failed removal or listing cut off.  Files of two
\* lines, seven entries: three rotations, removals, a ring that wraps and
\* starts again.
CONSTANTS
  MaxBuffer = 2
  MaxLines = 2
  MaxRotated = 1
  CleanupSees = TRUE
  Faults = {"rename", "open", "write", "stamp", "list"}
  MaxEntries = 7
  MaxSetbacks = 1
SPECIFICATION Spec
INVARIANTS TypeOK RecentIsNewest RotatedFilesAreBounded EntriesAreKept
  FilesAreInOrder LiveFileIsBounded
CHECK_DEADLOCK FALSE
