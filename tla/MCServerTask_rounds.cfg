SPECIFICATION Spec
INVARIANTS StillAwaited CreatesFirst RoundsSeparate EndedExpires
\* a task that is over has nothing left to do
CHECK_DEADLOCK FALSE
CONSTANTS
  DestIPs <- Two
  IPsOf <- MCIPsOf
  Cancels = {stop}
  Queries = {}
  Resubmits = {same, other}
  Faults = {"meta", "post", "bad", "report", "ttl"}
  a1 = a1
  a2 = a2
  same = same
  other = other
