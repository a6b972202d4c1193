SPECIFICATION FairSpec
INVARIANTS RegisteredAlive NoOrphan
PROPERTIES HeldByBlockedOnly StopEndsAll
\* the process may have nothing left to do
CHECK_DEADLOCK FALSE
CONSTANTS
  Tasks = {t1}
  Creates = {a, b}
  Starts = {startA}
  Stops = {stopA}
  Inbound = {connA, connA2}
  Second = {}
  TaskOf <- MCTaskOf
  AddPeerCap = 1
  Timeouts = TRUE
  Blocking = TRUE
  t1 = t1
  t2 = t2
  None = None
