-------------------------- MODULE ServerCache_proofs --------------------------
(* A theorem about ServerCache, for any ids, calls, bodies and channels, and *)
(* any order of creations, restarts, ends and evictions: what takes work out *)
(* of the cache.                                                             *)
EXTENDS ServerCache, TLAPS

\* the maps the proof reads
Shape ==
  /\ entry \in [Ids -> Objects \cup {None}]
  /\ expiry \in [Ids -> {"never", "running", "past"}]
  /\ at \in [Objects -> {"none", "made", "busy", "select", "quit"}]
  /\ status \in [Objects -> Final \cup {"INIT", "INPROGESS"}]
  /\ call \in [Calls -> {"new", "make", "hook", "send", "waiting", "done"}]

\* between Set and go Start(), the goroutine is not there yet
MakersOK ==
  \A h \in Calls :
    /\ call[h] \in {"make", "hook"} => h \in Creates
    /\ call[h] = "hook" => at[h] = "made"

\* An object keeps its entry until it is dropped, and the entry of one that
\* is made, or at work, has no lifetime.
Kept(o) ==
  /\ entry[IdOf[o]] = o /\ expiry[IdOf[o]] # "past"
  /\ at[o] = "made" \/ Working(o) => expiry[IdOf[o]] = "never"
KeptOK == \A o \in Objects \ dropped : at[o] # "none" => Kept(o)

CacheInv == Shape /\ MakersOK /\ KeptOK

-----------------------------------------------------------------------------
\* Put gives its object the entry, with the lifetime it is given, and drops
\* whatever had it.
LEMMA PutKept ==
  ASSUME CacheInv, NEW o \in Objects, NEW life \in {"never", "running"}, Put(o, life),
         at' \in [Objects -> {"none", "made", "busy", "select", "quit"}],
         status' \in [Objects -> Final \cup {"INIT", "INPROGESS"}],
         \A p \in Objects \ {o} : at'[p] = at[p] /\ status'[p] = status[p],
         life = "never" \/ ~(at'[o] = "made" \/ Working(o)')
  PROVE  /\ entry' \in [Ids -> Objects \cup {None}]
         /\ expiry' \in [Ids -> {"never", "running", "past"}]
         /\ KeptOK'
<1> USE ArgumentsAssumption, CallsAssumption DEF Objects, Calls
<1>1. /\ IdOf[o] \in Ids /\ entry'[IdOf[o]] = o /\ expiry'[IdOf[o]] = life
      /\ \A i \in Ids \ {IdOf[o]} : entry'[i] = entry[i] /\ expiry'[i] = expiry[i]
  BY DEF Put, CacheInv, Shape
<1>2. dropped' = dropped \cup ({entry[IdOf[o]]} \ {o, None})
  BY DEF Put
<1>3. Kept(o)'
  BY <1>1 DEF Kept
<1>4. ASSUME NEW p \in Objects \ dropped', p # o, at'[p] # "none"
      PROVE  Kept(p)'
  <2>1. Kept(p)
    BY <1>2, <1>4 DEF CacheInv, KeptOK
  <2>2. IdOf[p] \in Ids /\ p # None
    OBVIOUS
  <2>3. IdOf[p] # IdOf[o]
    BY <1>2, <1>4, <2>1, <2>2 DEF Kept
  <2>4. Working(p)' <=> Working(p)
    BY <1>4 DEF Working
  <2> QED
    BY <1>1, <1>4, <2>1, <2>2, <2>3, <2>4 DEF Kept
<1>5. /\ entry' \in [Ids -> Objects \cup {None}]
      /\ expiry' \in [Ids -> {"never", "running", "past"}]
  BY <1>1 DEF Put, CacheInv, Shape
<1> QED
  BY <1>3, <1>4, <1>5 DEF KeptOK

\* The end of an object: if it is not dropped its entry is there to be given
\* a lifetime, and it works no more.
LEMMA EndKept ==
  ASSUME CacheInv, NEW o \in Objects, NEW ts \in Final, End(o, ts),
         at' = [at EXCEPT ![o] = "select"], at[o] # "none"
  PROVE  /\ entry' \in [Ids -> Objects \cup {None}]
         /\ expiry' \in [Ids -> {"never", "running", "past"}]
         /\ status' \in [Objects -> Final \cup {"INIT", "INPROGESS"}]
         /\ KeptOK'
<1> USE ArgumentsAssumption, CallsAssumption DEF Objects, Calls
<1>1. /\ status' \in [Objects -> Final \cup {"INIT", "INPROGESS"}]
      /\ at' \in [Objects -> {"none", "made", "busy", "select", "quit"}]
      /\ \A p \in Objects \ {o} : at'[p] = at[p] /\ status'[p] = status[p]
      /\ at'[o] = "select" /\ ~Working(o)'
  BY DEF End, CacheInv, Shape, Working, Final
<1>2. CASE Put(o, "running")
  BY <1>1, <1>2, PutKept
<1>3. CASE ~Held(IdOf[o]) /\ UNCHANGED <<entry, expiry, dropped>>
  <2>1. o \in dropped
    <3> SUFFICES ASSUME o \notin dropped PROVE FALSE
      OBVIOUS
    <3>1. Kept(o)
      BY DEF CacheInv, KeptOK
    <3> QED
      BY <1>3, <3>1 DEF Kept, Held
  <2>2. ASSUME NEW p \in Objects \ dropped', at'[p] # "none" PROVE Kept(p)'
    <3>1. p # o /\ Kept(p)
      BY <1>1, <1>3, <2>1, <2>2 DEF CacheInv, KeptOK
    <3> QED
      BY <1>1, <1>3, <3>1 DEF Kept, Working
  <2> QED
    BY <1>1, <1>3, <2>2 DEF KeptOK, CacheInv, Shape
<1> QED
  BY <1>2, <1>3 DEF End, Replace

LEMMA CacheInit == Init => CacheInv
BY CallsAssumption DEF Init, CacheInv, Shape, MakersOK, KeptOK, Calls, Objects

\* A step keeps the entries: only Put, an expiry and the janitor touch them.
LEMMA CacheStep == CacheInv /\ [Next]_vars => CacheInv'
<1> SUFFICES ASSUME CacheInv, [Next]_vars PROVE CacheInv'
  OBVIOUS
<1> USE CallsAssumption, ArgumentsAssumption DEF Objects, Calls, cache, objects
<1>0. Shape /\ MakersOK /\ KeptOK
  BY DEF CacheInv
<1>1. ASSUME NEW i \in Ids, Expire(i) PROVE CacheInv'
  <2>1. Shape' /\ MakersOK'
    BY <1>0, <1>1 DEF Expire, Shape, MakersOK
  <2>2. ASSUME NEW o \in Objects \ dropped', at'[o] # "none" PROVE Kept(o)'
    <3>1. Kept(o) /\ IdOf[o] # i /\ IdOf[o] \in Ids
      BY <1>0, <1>1, <2>2 DEF Expire, KeptOK, Kept
    <3> QED
      BY <1>0, <1>1, <3>1 DEF Expire, Kept, Working, Shape
  <2> QED
    BY <2>1, <2>2 DEF CacheInv, KeptOK
<1>2. CASE Evict
  <2>1. Shape' /\ MakersOK'
    BY <1>0, <1>2 DEF Evict, Shape, MakersOK
  <2>2. ASSUME NEW o \in Objects \ dropped', at'[o] # "none" PROVE Kept(o)'
    <3>1. Kept(o) /\ IdOf[o] \in Ids
      BY <1>0, <1>2, <2>2 DEF Evict, KeptOK
    <3>2. entry'[IdOf[o]] = entry[IdOf[o]] /\ expiry'[IdOf[o]] = expiry[IdOf[o]]
      BY <1>2, <3>1 DEF Evict, Kept
    <3> QED
      BY <1>2, <3>1, <3>2 DEF Evict, Kept, Working
  <2> QED
    BY <2>1, <2>2 DEF CacheInv, KeptOK
<1>3. ASSUME NEW h \in Calls, SetEntry(h) PROVE CacheInv'
  <2>1. h \in Objects /\ Put(h, "never") /\ at' = [at EXCEPT ![h] = "made"] /\ status' = status
    BY <1>0, <1>3 DEF SetEntry, MakersOK
  <2>2. /\ at' \in [Objects -> {"none", "made", "busy", "select", "quit"}]
        /\ \A p \in Objects \ {h} : at'[p] = at[p]
        /\ at'[h] = "made"
    BY <1>0, <2>1 DEF Shape
  <2>3. /\ entry' \in [Ids -> Objects \cup {None}]
        /\ expiry' \in [Ids -> {"never", "running", "past"}]
        /\ KeptOK'
    BY <1>0, <2>1, <2>2, PutKept DEF Shape
  <2>4. Shape'
    BY <1>0, <1>3, <2>2, <2>3 DEF SetEntry, Shape
  <2>5. MakersOK'
    BY <1>0, <1>3, <2>2 DEF SetEntry, MakersOK, Shape
  <2> QED
    BY <2>3, <2>4, <2>5 DEF CacheInv
<1>4. ASSUME NEW h \in Calls, Hook(h) PROVE CacheInv'
  <2>1. h \in Objects /\ at[h] = "made"
    BY <1>0, <1>4 DEF Hook, MakersOK
  <2>2. Shape' /\ MakersOK'
    BY <1>0, <1>4, <2>1 DEF Hook, Done, Shape, MakersOK
  <2>3. ASSUME NEW o \in Objects \ dropped', at'[o] # "none" PROVE Kept(o)'
    <3>1. Kept(o)
      BY <1>0, <1>4, <2>1, <2>3 DEF Hook, KeptOK, Shape
    <3> QED
      BY <1>0, <1>4, <2>1, <3>1 DEF Hook, Kept, Working, Shape
  <2> QED
    BY <2>2, <2>3 DEF CacheInv, KeptOK
<1>5. ASSUME NEW o \in Objects, TaskCreated(o) PROVE CacheInv'
  <2>1. Shape' /\ MakersOK'
    BY <1>0, <1>5 DEF TaskCreated, Shape, MakersOK
  <2>2. ASSUME NEW p \in Objects \ dropped', at'[p] # "none" PROVE Kept(p)'
    <3>1. Kept(p)
      BY <1>0, <1>5, <2>2 DEF TaskCreated, KeptOK, Shape
    <3> QED
      BY <1>0, <1>5, <3>1 DEF TaskCreated, Kept, Working, Shape
  <2> QED
    BY <2>1, <2>2 DEF CacheInv, KeptOK
<1>6. ASSUME NEW o \in Objects, Created(o) PROVE CacheInv'
  <2>1. PICK ts \in Final : End(o, ts)
    BY <1>6 DEF Created, Final
  <2>2. at' = [at EXCEPT ![o] = "select"] /\ at[o] = "busy" /\ call' = call
    BY <1>6 DEF Created
  <2>3. /\ entry' \in [Ids -> Objects \cup {None}]
        /\ expiry' \in [Ids -> {"never", "running", "past"}]
        /\ status' \in [Objects -> Final \cup {"INIT", "INPROGESS"}]
        /\ KeptOK'
    BY <2>1, <2>2, EndKept
  <2>4. Shape' /\ MakersOK'
    BY <1>0, <2>2, <2>3 DEF Shape, MakersOK
  <2> QED
    BY <2>3, <2>4 DEF CacheInv
<1>7. ASSUME NEW o \in Objects, NEW h \in Calls, Compare(o, h) PROVE CacheInv'
  <2>0. at[o] = "select" /\ Done(h) /\ status' = status
    BY <1>7 DEF Compare, Selecting
  <2>1. CASE at' = [at EXCEPT ![o] = "busy"] /\ Put(o, "never")
    <3>1. /\ at' \in [Objects -> {"none", "made", "busy", "select", "quit"}]
          /\ \A p \in Objects \ {o} : at'[p] = at[p]
      BY <1>0, <2>1 DEF Shape
    <3>2. /\ entry' \in [Ids -> Objects \cup {None}]
          /\ expiry' \in [Ids -> {"never", "running", "past"}]
          /\ KeptOK'
      BY <1>0, <2>0, <2>1, <3>1, PutKept DEF Shape
    <3>3. Shape' /\ MakersOK'
      BY <1>0, <2>0, <2>1, <3>1, <3>2 DEF Done, Shape, MakersOK
    <3> QED
      BY <3>2, <3>3 DEF CacheInv
  <2>2. CASE at' = [at EXCEPT ![o] = "busy"] /\ ~Held(IdOf[o]) /\ UNCHANGED <<entry, expiry, dropped>>
    <3>1. o \in dropped
      BY <1>0, <2>0, <2>2 DEF KeptOK, Kept, Held
    <3>2. Shape' /\ MakersOK'
      BY <1>0, <2>0, <2>2 DEF Done, Shape, MakersOK
    <3>3. ASSUME NEW p \in Objects \ dropped', at'[p] # "none" PROVE Kept(p)'
      <4>1. p # o /\ Kept(p) /\ at'[p] = at[p]
        BY <1>0, <2>2, <3>1, <3>3 DEF KeptOK, Shape
      <4> QED
        BY <2>0, <2>2, <4>1 DEF Kept, Working
    <3> QED
      BY <3>2, <3>3 DEF CacheInv, KeptOK
  <2>3. CASE UNCHANGED <<at, entry, expiry, dropped>>
    BY <1>0, <2>0, <2>3 DEF Done, CacheInv, Shape, MakersOK, KeptOK, Kept, Working
  <2> QED
    BY <1>7, <2>1, <2>2, <2>3 DEF Compare, Restart, Replace
<1>8. ASSUME NEW o \in Objects, NEW h \in Calls, Cancel(o, h) PROVE CacheInv'
  <2>1. at[o] = "select" /\ at' = at /\ Done(h) /\ End(o, "FAILED")
    BY <1>8 DEF Cancel, Selecting
  <2>2. at' = [at EXCEPT ![o] = "select"]
    BY <1>0, <2>1 DEF Shape
  <2>3. /\ entry' \in [Ids -> Objects \cup {None}]
        /\ expiry' \in [Ids -> {"never", "running", "past"}]
        /\ status' \in [Objects -> Final \cup {"INIT", "INPROGESS"}]
        /\ KeptOK'
    BY <2>1, <2>2, EndKept DEF Final
  <2>4. Shape' /\ MakersOK'
    BY <1>0, <2>1, <2>3 DEF Done, Shape, MakersOK
  <2> QED
    BY <2>3, <2>4 DEF CacheInv
<1>9. ASSUME NEW o \in Objects, NEW h \in Calls, Reported(o, h) PROVE CacheInv'
  <2>1. at[o] = "select" /\ at' = at /\ call' = call
    BY <1>9 DEF Reported, Selecting
  <2>2. CASE End(o, "COMPLETED")
    <3>1. at' = [at EXCEPT ![o] = "select"]
      BY <1>0, <2>1 DEF Shape
    <3>2. /\ entry' \in [Ids -> Objects \cup {None}]
          /\ expiry' \in [Ids -> {"never", "running", "past"}]
          /\ status' \in [Objects -> Final \cup {"INIT", "INPROGESS"}]
          /\ KeptOK'
      BY <2>1, <2>2, <3>1, EndKept DEF Final
    <3>3. Shape' /\ MakersOK'
      BY <1>0, <2>1, <3>2 DEF Shape, MakersOK
    <3> QED
      BY <3>2, <3>3 DEF CacheInv
  <2>3. CASE UNCHANGED <<status, entry, expiry, dropped>>
    BY <1>0, <2>1, <2>3 DEF CacheInv, Shape, MakersOK, KeptOK, Kept, Working
  <2> QED
    BY <1>9, <2>2, <2>3 DEF Reported
<1>10. ASSUME NEW o \in Objects, Quit(o) PROVE CacheInv'
  <2>1. at[o] = "select" /\ at' = [at EXCEPT ![o] = "quit"]
    BY <1>10 DEF Quit, Selecting
  <2>2. Shape' /\ MakersOK'
    BY <1>0, <1>10, <2>1 DEF Quit, Shape, MakersOK
  <2>3. ASSUME NEW p \in Objects \ dropped', at'[p] # "none" PROVE Kept(p)'
    <3>1. Kept(p)
      BY <1>0, <1>10, <2>1, <2>3 DEF Quit, KeptOK, Shape
    <3> QED
      BY <1>0, <1>10, <2>1, <3>1 DEF Quit, Kept, Working, Shape
  <2> QED
    BY <2>2, <2>3 DEF CacheInv, KeptOK
<1>11. ASSUME NEW h \in Calls, Lookup(h) PROVE CacheInv'
  <2>1. UNCHANGED <<entry, expiry, dropped, at, status>>
    BY <1>11 DEF Lookup
  <2>2. Shape' /\ MakersOK'
    BY <1>0, <1>11, <2>1 DEF Lookup, Done, Shape, MakersOK
  <2> QED
    BY <1>0, <2>1, <2>2 DEF CacheInv, KeptOK, Kept, Working
<1>12. ASSUME NEW h \in Calls, Ask(h) \/ Report(h) PROVE CacheInv'
  <2>1. UNCHANGED <<entry, expiry, dropped, at, status>>
    BY <1>12 DEF Ask, Report
  <2>2. Shape' /\ MakersOK'
    BY <1>0, <1>12, <2>1 DEF Ask, Report, Done, Shape, MakersOK
  <2> QED
    BY <1>0, <2>1, <2>2 DEF CacheInv, KeptOK, Kept, Working
<1>13. ASSUME NEW o \in Objects, NEW h \in Calls, Answer(o, h) PROVE CacheInv'
  <2>1. UNCHANGED <<entry, expiry, dropped, at, status>>
    BY <1>13 DEF Answer
  <2>2. Shape' /\ MakersOK'
    BY <1>0, <1>13, <2>1 DEF Answer, Done, Shape, MakersOK
  <2> QED
    BY <1>0, <2>1, <2>2 DEF CacheInv, KeptOK, Kept, Working
<1>14. ASSUME NEW o \in Objects, CallBack(o) \/ ArchiveFatal(o) PROVE CacheInv'
  <2>1. UNCHANGED <<entry, expiry, dropped, at, status, call>>
    BY <1>14 DEF CallBack, ArchiveFatal
  <2> QED
    BY <1>0, <2>1 DEF CacheInv, Shape, MakersOK, KeptOK, Kept, Working
<1>15. CASE UNCHANGED vars
  BY <1>0, <1>15 DEF vars, CacheInv, Shape, MakersOK, KeptOK, Kept, Working
<1> QED
  BY <1>1, <1>2, <1>3, <1>4, <1>5, <1>6, <1>7, <1>8, <1>9, <1>10, <1>11, <1>12,
     <1>13, <1>14, <1>15
     DEF Next, Janitor, Handler, Object, Served

\* What is at work can be found, and is not evicted, unless its lifetime had
\* passed before it was started again or another object took its entry.
THEOREM WorkReachableAlways == Spec => []WorkReachable
<1>1. CacheInv => WorkReachable
  BY DEF CacheInv, KeptOK, Kept, WorkReachable, Working
<1> QED
  BY <1>1, CacheInit, CacheStep, PTL DEF Spec
===============================================================================
