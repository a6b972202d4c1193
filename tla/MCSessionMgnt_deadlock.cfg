SPECIFICATION FairSpec
PROPERTIES ManagerReturns
\* the process may have nothing left to do
CHECK_DEADLOCK FALSE
CONSTANTS
  Tasks = {t1, t2}
  Creates = {a, b}
  Starts = {startA}
  Stops = {stopA, stopA2}
  Inbound = {}
  Second = {b}
  TaskOf <- MCTaskOf
  AddPeerCap = 1
  Timeouts = TRUE
  Blocking = FALSE
  t1 = t1
  t2 = t2
  None = None
