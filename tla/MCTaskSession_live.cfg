SPECIFICATION FairSpec
INVARIANT AskedCounted
PROPERTIES DownloadCompletes QuitServed
\* the session stops when it has quit, crashed or lost its upstream
CHECK_DEADLOCK FALSE
CONSTANTS
  NumPieces = 2
  FirstBlocks = 2
  Pieces <- MCPieces
  BlocksOf <- MCBlocksOf
  UpConns = {u1}
  DownConns = {}
  SelfPos = 2
  MaxOurRequests = 2
  Roles = {FALSE}
  Faults = {"header", "drop"}
  NoConn = NoConn
