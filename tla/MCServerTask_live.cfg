SPECIFICATION FairSpec
PROPERTIES HandlersServed TaskEnds
\* a task that is over has nothing left to do
CHECK_DEADLOCK FALSE
CONSTANTS
  DestIPs <- Two
  IPsOf <- MCIPsOf
  Cancels = {stop}
  Queries = {query}
  Resubmits = {}
  Faults = {"post", "late"}
  a1 = a1
  a2 = a2
  same = same
  other = other
