SPECIFICATION Spec
INVARIANTS TypeOK AnnouncedHeld HaveToAll
\* the session stops when it has quit, crashed or lost its upstream
CHECK_DEADLOCK FALSE
CONSTANTS
  NumPieces = 1
  FirstBlocks = 1
  Pieces <- MCPieces
  BlocksOf <- MCBlocksOf
  UpConns = {u1}
  DownConns = {d1}
  SelfPos = 2
  MaxOurRequests = 2
  Roles = {TRUE, FALSE}
  Faults = {"init", "dial", "header", "drop", "corrupt", "disk", "slow", "idle"}
  NoConn = NoConn
