SPECIFICATION FairSpec
PROPERTY KeepAliveSkipped
\* a copy that is made has nothing left to do
CHECK_DEADLOCK FALSE
CONSTANTS
  Layouts <- OneLayout
  Leftovers <- NoLeftovers
  PieceLen = 4
  BlockLen = 2
  Rate = 15
  Sizes = {2, 3}
  TicksPerSecond = 10
  SampleTicks = 2
  MaxTime = 1
  LenBytes = 2
  HeadBytes = 1
  ByteBits = 2
  MaxConns = 2
  MaxStarts = 1
  Faults = {"idle"}
  None = None
