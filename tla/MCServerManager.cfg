\* Three operations at the same time, two of them configured with the same
\* port and one with port 0; connections may never drain.
CONSTANTS
  NoServer = NoServer
  Tasks = {t1, t2, t3}
  FixedPort = {t1, t2}
SPECIFICATION FairSpec
INVARIANTS RunningIsTrue NoServerIsOrphaned
PROPERTIES OperationsReturn OnlyTheManagedListens
CHECK_DEADLOCK FALSE
