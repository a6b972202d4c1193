SPECIFICATION FairSpec
INVARIANTS TypeOK StreamWhole RateKept FilesRight BlocksStored
PROPERTIES ImplementsCopy Completes
\* a copy that is made has nothing left to do
CHECK_DEADLOCK FALSE
CONSTANTS
  Layouts <- MCLayouts
  Leftovers <- MCLeftovers
  PieceLen = 4
  BlockLen = 2
  Rate = 15
  Sizes = {2, 3}
  TicksPerSecond = 10
  SampleTicks = 2
  MaxTime = 2
  LenBytes = 2
  HeadBytes = 1
  ByteBits = 2
  MaxConns = 2
  MaxStarts = 2
  Faults = {"short", "idle", "drop", "corrupt", "disk", "crash"}
  None = None
