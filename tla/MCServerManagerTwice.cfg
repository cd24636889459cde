\* Port 0, and two tasks that start at the same time.
CONSTANTS
  NoServer = NoServer
  Tasks = {t1, t2}
  FixedPort = {}
SPECIFICATION Spec
INVARIANTS StartsAgree
CHECK_DEADLOCK FALSE
