SPECIFICATION Spec
INVARIANTS Verified ReportedComplete ActiveUnfinished NoStall RequestsHeld LiveRegistered
PROPERTY ImplementsDownload
\* the session stops when it has quit, crashed or lost its upstream
CHECK_DEADLOCK FALSE
CONSTANTS
  NumPieces = 2
  FirstBlocks = 2
  Pieces <- MCPieces
  BlocksOf <- MCBlocksOf
  UpConns = {u1, u2}
  DownConns = {}
  SelfPos = 2
  MaxOurRequests = 2
  Roles = {FALSE}
  Faults = {"disk", "corrupt"}
  NoConn = NoConn
