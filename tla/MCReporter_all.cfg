SPECIFICATION FairSpec
INVARIANTS CompletedWhole RoomForAll WordArrived DeployedRight
PROPERTIES Deploys BothEnd
\* a session that quit, and a process that died, have nothing left to do
CHECK_DEADLOCK FALSE
CONSTANTS
  Total = 3
  Step = 100
  ChanCap = 3
  Names = {f, g, d}
  Packings <- MCPackings
  Leftovers <- MCLeftovers
  MaxBad = 1
  MaxStarts = 2
  Faults = {"lost", "misnamed", "kill"}
  None = None
  f = f
  g = g
  d = d
