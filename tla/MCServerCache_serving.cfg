SPECIFICATION FairSpec
INVARIANTS WorkReachable
PROPERTIES CallsServed EvictedQuits OverLeaves
\* nothing has to be called, and the server may have ended
CHECK_DEADLOCK FALSE
CONSTANTS
  Ids = {x}
  Creates = {t1, t2, a1}
  Queries = {q1}
  Cancels = {k1}
  Reports = {r1}
  IdOf <- MCIdOf
  KindOf <- MCKindOf
  BodyOf <- MCBodyOf
  ChanCap = 1
  Fatal = TRUE
  None = None
  t1 = t1
  t2 = t2
  a1 = a1
  q1 = q1
  k1 = k1
  r1 = r1
  x = x
  y = y
  Apart = {}
