----------------------------- MODULE ServerCache -----------------------------
(***************************************************************************)
(* The server's cache of tasks and archives (src/server/handler.go,        *)
(* archivemgnt.go, and what taskmgnt.go does with the cache).  Each entry  *)
(* is an object with a goroutine of its own; the REST handlers look it up  *)
(* and then talk to the goroutine over channels; the cache's janitor       *)
(* evicts expired entries and tells their goroutines to quit.  What a task *)
(* does meanwhile is ServerTask's: here it is busy, or at its select.      *)
(***************************************************************************)
EXTENDS Integers, FiniteSets

CONSTANTS
  Ids,
  Creates,         \* calls of CreateTask and StartArchive
  Queries,         \* calls of QueryTask and QueryArchiveTask
  Cancels,         \* calls of CancelTask
  Reports,         \* calls of ReportTask
  IdOf, KindOf,    \* the id a call names, and the type its handler expects
  BodyOf,          \* what a Create asks for
  ChanCap,         \* room in cmpChan, in queryChan and in reportChan
  Fatal,           \* common.TarGz may panic
  None

Objects == Creates               \* the object a call makes has its name
Calls == Creates \cup Queries \cup Cancels \cup Reports
Kinds == {"task", "archive"}

ASSUME CallsAssumption ==
  /\ Creates \cap (Queries \cup Cancels \cup Reports) = {}
  /\ Queries \cap (Cancels \cup Reports) = {} /\ Cancels \cap Reports = {}
  /\ None \notin Creates
ASSUME ArgumentsAssumption ==
  /\ IdOf \in [Calls -> Ids] /\ KindOf \in [Calls -> Kinds]
  /\ \A h \in Cancels \cup Reports : KindOf[h] = "task"
ASSUME CapAssumption == IsFiniteSet(Calls) /\ ChanCap \in Nat \ {0}
ASSUME FatalAssumption == Fatal \in BOOLEAN

VARIABLES
  entry,           \* entry[i]: the object cached for i
  expiry,          \* "never", "running", or "past": no longer found by Get
  callback,        \* the function OnEvicted was last given, by its type
  evicted, janitor,\* objects deleted, and the one being told to quit
  at,              \* an object's goroutine
  status,          \* ti.Status
  reportChan,      \* reports an object has still to handle
  call, found,     \* where a REST call is, and the object it found
  down,            \* a panic ended the server
  dropped          \* history: objects that expired, or lost their entry to
                   \* another object

cache == <<entry, expiry, callback, evicted, janitor, dropped>>
objects == <<at, status, reportChan>>
vars == <<cache, objects, call, found, down>>

Final == {"COMPLETED", "FAILED", "FILE_NOT_EXISTED"}

TypeOK ==
  /\ entry \in [Ids -> Objects \cup {None}]
  /\ expiry \in [Ids -> {"never", "running", "past"}]
  /\ callback \in Kinds \cup {"none"}
  /\ evicted \subseteq Objects /\ janitor \in Objects \cup {None}
  /\ at \in [Objects -> {"none", "made", "busy", "select", "quit"}]
  /\ status \in [Objects -> Final \cup {"INIT", "INPROGESS"}]
  /\ reportChan \in [Objects -> SUBSET Reports]
  /\ call \in [Calls -> {"new", "make", "hook", "send", "waiting", "done"}]
  /\ found \in [Calls -> Objects \cup {None}]
  /\ down \in BOOLEAN /\ dropped \subseteq Objects

Init ==
  /\ entry = [i \in Ids |-> None] /\ expiry = [i \in Ids |-> "never"]
  /\ callback = "none" /\ evicted = {} /\ janitor = None /\ dropped = {}
  /\ at = [o \in Objects |-> "none"] /\ status = [o \in Objects |-> "INIT"]
  /\ reportChan = [o \in Objects |-> {}]
  /\ call = [h \in Calls |-> "new"] /\ found = [h \in Calls |-> None]
  /\ down = FALSE

-----------------------------------------------------------------------------
(* The cache (gcache.Cache).                                               *)

\* Get: an expired entry is not found, whether it is still there or not
Held(i) == entry[i] # None /\ expiry[i] # "past"

\* Set: whatever has the entry loses it
Put(o, life) ==
  /\ entry' = [entry EXCEPT ![IdOf[o]] = o]
  /\ expiry' = [expiry EXCEPT ![IdOf[o]] = life]
  /\ dropped' = dropped \cup ({entry[IdOf[o]]} \ {o, None})

\* Replace fails if there is nothing to replace, which nobody looks at; it
\* does not look at what is there, either
Replace(o, life) ==
  \/ Held(IdOf[o]) /\ Put(o, life)
  \/ ~Held(IdOf[o]) /\ UNCHANGED <<entry, expiry, dropped>>

\* The lifetime runs from the object's end, whoever has looked it up since
Expire(i) ==
  /\ ~down /\ entry[i] # None /\ expiry[i] = "running"
  /\ expiry' = [expiry EXCEPT ![i] = "past"]
  /\ dropped' = dropped \cup {entry[i]}
  /\ UNCHANGED <<entry, callback, evicted, janitor, objects, call, found, down>>

\* the janitor deletes what has expired, and then calls back for each
Evict ==
  LET expired == {i \in Ids : entry[i] # None /\ expiry[i] = "past"} IN
  /\ ~down /\ evicted = {} /\ janitor = None /\ expired # {}
  /\ evicted' = {entry[i] : i \in expired}
  /\ entry' = [i \in Ids |-> IF i \in expired THEN None ELSE entry[i]]
  /\ expiry' = [i \in Ids |-> IF i \in expired THEN "never" ELSE expiry[i]]
  /\ UNCHANGED <<callback, janitor, dropped, objects, call, found, down>>

\* v.(*CachedTaskInfo) or v.(*CachedArchiveInfo), whatever v is: a panic in
\* the janitor's goroutine ends the process
CallBack(o) ==
  /\ ~down /\ janitor = None /\ o \in evicted
  /\ evicted' = evicted \ {o}
  /\ IF callback = KindOf[o] THEN janitor' = o /\ UNCHANGED down
                             ELSE down' = TRUE /\ UNCHANGED janitor
  /\ UNCHANGED <<entry, expiry, callback, dropped, objects, call, found>>

-----------------------------------------------------------------------------
(* The REST handlers.                                                      *)

\* a response is sent, or a panic recovered by net/http
Done(h) ==
  /\ call' = [call EXCEPT ![h] = "done"]
  /\ found' = [found EXCEPT ![h] = None]

\* A handler keeps no lock: what it found, or did not find, may not be so
\* when it makes an object or sends to the one it has
Lookup(h) ==
  LET o == entry[IdOf[h]] IN
  /\ ~down /\ call[h] = "new"
  /\ IF Held(IdOf[h])
     THEN IF KindOf[o] = KindOf[h]
          THEN /\ call' = [call EXCEPT ![h] = "send"]
               /\ found' = [found EXCEPT ![h] = o]
          ELSE Done(h)                             \* the type assertion panics
     ELSE IF h \in Creates
          THEN call' = [call EXCEPT ![h] = "make"] /\ UNCHANGED found
          ELSE Done(h)
  /\ UNCHANGED <<cache, objects, down>>

\* cache.Set: what is there, expired or just made by another call, is
\* overwritten, and nobody tells its goroutine
SetEntry(h) ==
  /\ ~down /\ call[h] = "make"
  /\ Put(h, "never")
  /\ at' = [at EXCEPT ![h] = "made"]
  /\ call' = [call EXCEPT ![h] = "hook"]
  /\ UNCHANGED <<callback, evicted, janitor, status, reportChan, found, down>>

\* OnEvicted, and go Start()
Hook(h) ==
  /\ ~down /\ call[h] = "hook"
  /\ callback' = KindOf[h]
  /\ at' = [at EXCEPT ![h] = "busy"]
  /\ Done(h)
  /\ UNCHANGED <<entry, expiry, evicted, janitor, dropped, status, reportChan, down>>

\* EqualCmp and Query: a send on a channel with some room
Room(o, S) ==
  Cardinality({g \in S : call[g] = "waiting" /\ found[g] = o}) < ChanCap
Ask(h) ==
  /\ ~down /\ call[h] = "send"
  /\ \/ h \in Creates /\ Room(found[h], Creates)
     \/ h \in Queries /\ Room(found[h], Queries)
  /\ call' = [call EXCEPT ![h] = "waiting"]
  /\ UNCHANGED <<cache, objects, found, down>>

Report(h) ==
  /\ ~down /\ call[h] = "send" /\ h \in Reports
  /\ Cardinality(reportChan[found[h]]) < ChanCap
  /\ reportChan' = [reportChan EXCEPT ![found[h]] = @ \cup {h}]
  /\ Done(h)
  /\ UNCHANGED <<cache, at, status, down>>

-----------------------------------------------------------------------------
(* The goroutine of an object.                                             *)

\* endTask and endArchive
EndNever(o, ts) ==                            \* mutant: no lifetime is set
  /\ status' = [status EXCEPT ![o] = ts]
  /\ Replace(o, "never")
End(o, ts) ==
  /\ status' = [status EXCEPT ![o] = ts]
  /\ Replace(o, "running")

\* createTask of a task succeeds; until it is started on the agents
TaskCreated(o) ==
  /\ ~down /\ at[o] = "busy" /\ KindOf[o] = "task"
  /\ at' = [at EXCEPT ![o] = "select"]
  /\ status' = [status EXCEPT ![o] = "INPROGESS"]
  /\ UNCHANGED <<cache, reportChan, call, found, down>>

\* createTask of an archive does all of its work
Created(o) ==
  /\ ~down /\ at[o] = "busy"
  /\ \E ts \in {"FILE_NOT_EXISTED", IF KindOf[o] = "task" THEN "FAILED" ELSE "COMPLETED"} :
       End(o, ts)
  /\ at' = [at EXCEPT ![o] = "select"]
  /\ UNCHANGED <<callback, evicted, janitor, reportChan, call, found, down>>

\* common.TarGz goes on after an error: a source that cannot be opened has no
\* FileInfo, and asking it whether it is a directory panics (archive.go:33)
ArchiveFatal(o) ==
  /\ ~down /\ at[o] = "busy" /\ KindOf[o] = "archive" /\ Fatal
  /\ down' = TRUE
  /\ UNCHANGED <<cache, objects, call, found>>

Selecting(o) == ~down /\ at[o] = "select"

\* <-cmpChan: a second answer goes to a channel the handler may have closed;
\* a failed task is kept, and started again
RestartUnkept(o) == at' = [at EXCEPT ![o] = "busy"] /\ UNCHANGED <<entry, expiry, dropped>>
                                                             \* mutant: no Replace
Restart(o) == at' = [at EXCEPT ![o] = "busy"] /\ Replace(o, "never")

Compare(o, h) ==
  LET same == BodyOf[h] = BodyOf[o] IN
  /\ Selecting(o) /\ h \in Creates /\ call[h] = "waiting" /\ found[h] = o
  /\ Done(h)
  /\ down' \in IF same THEN {FALSE} ELSE BOOLEAN
  /\ IF status[o] = "FAILED" THEN Restart(o) ELSE UNCHANGED <<at, entry, expiry, dropped>>
  /\ UNCHANGED <<callback, evicted, janitor, status, reportChan>>

Answer(o, h) ==
  /\ Selecting(o) /\ h \in Queries /\ call[h] = "waiting" /\ found[h] = o
  /\ Done(h)
  /\ UNCHANGED <<cache, objects, down>>

\* stopChan has no buffer: the handler waits for the select
CancelNone(o, h) == FALSE                     \* mutant: no case for stopChan
Cancel(o, h) ==
  /\ Selecting(o) /\ h \in Cancels /\ call[h] = "send" /\ found[h] = o
  /\ Done(h)
  /\ End(o, "FAILED")
  /\ UNCHANGED <<callback, evicted, janitor, at, reportChan, down>>

\* a report, perhaps the last one: checkFinished looks at all agents each time
Reported(o, h) ==
  /\ Selecting(o) /\ h \in reportChan[o]
  /\ reportChan' = [reportChan EXCEPT ![o] = @ \ {h}]
  /\ \/ UNCHANGED <<status, entry, expiry, dropped>>
     \/ End(o, "COMPLETED")
  /\ UNCHANGED <<callback, evicted, janitor, at, call, found, down>>

\* quitChan has no buffer either: the janitor waits for the select
QuitNone(o) == FALSE                          \* mutant: no case for quitChan
Quit(o) ==
  /\ Selecting(o) /\ janitor = o
  /\ at' = [at EXCEPT ![o] = "quit"]
  /\ janitor' = None
  /\ UNCHANGED <<entry, expiry, callback, evicted, dropped, status, reportChan, call, found, down>>

-----------------------------------------------------------------------------
Handler(h) == Lookup(h) \/ SetEntry(h) \/ Hook(h) \/ Ask(h) \/ Report(h)

Served(o) == \E h \in Calls : Compare(o, h) \/ Answer(o, h) \/ Cancel(o, h) \/ Reported(o, h)

Object(o) ==
  TaskCreated(o) \/ Created(o) \/ ArchiveFatal(o) \/ Served(o) \/ Quit(o)

Janitor == Evict \/ (\E o \in Objects : CallBack(o)) \/ \E i \in Ids : Expire(i)

Next == Janitor \/ (\E h \in Calls : Handler(h)) \/ \E o \in Objects : Object(o)

Spec == Init /\ [][Next]_vars

\* Goroutines and the janitor run, and time passes.  Each call is made at
\* most once, so a behaviour is finite, and it is enough that the server as a
\* whole does not stop while one of these can go on.  Nobody has to call.
Fairness ==
  /\ WF_vars(Janitor \/ \E h \in Calls : SetEntry(h) \/ Hook(h) \/ Ask(h) \/ Report(h))
  /\ WF_vars(\E o \in Objects : TaskCreated(o) \/ Created(o) \/ Served(o) \/ Quit(o))

FairSpec == Spec /\ Fairness

-----------------------------------------------------------------------------
(* Properties.                                                             *)

\* A task or an archive at work is in the cache, kept without limit: it can
\* be queried and cancelled, its reports arrive, and nothing evicts it.  Only
\* two things take that from it: an object made, or ended, for the same id,
\* and a lifetime that had passed before the restart.
Working(o) == at[o] = "busy" \/ (at[o] = "select" /\ status[o] = "INPROGESS")
WorkReachable ==
  \A o \in Objects \ dropped :
    Working(o) => entry[IdOf[o]] = o /\ expiry[IdOf[o]] = "never"

\* One cached object, one goroutine for all operations on a task
\* (taskmgnt.go:34): no two are at work on the same id.
OneGoroutine ==
  \A o, p \in Objects :
    Working(o) /\ Working(p) /\ IdOf[o] = IdOf[p] => o = p

\* Every call that found an object is answered, whatever the other calls, the
\* restarts and the full channels, unless the object it found was evicted
\* and has quit meanwhile: then its client waits for ever.
CallsServed ==
  <>[](\/ down
       \/ \A h \in Calls : call[h] \in {"send", "waiting"} => at[found[h]] = "quit")

\* What has expired is deleted and quits: it does not hold up the janitor,
\* which has no other goroutine to evict the rest, unless an object that has
\* quit was put back into the cache and is evicted again.
Twice == janitor # None /\ at[janitor] = "quit"
EvictedQuits ==
  <>[](\/ down \/ Twice
       \/ evicted = {} /\ janitor = None /\ \A i \in Ids : expiry[i] # "past")

\* What is over leaves the cache, unless it is started again
OverLeaves ==
  <>[](down \/ \A i \in Ids : Held(i) => status[entry[i]] \notin Final)
==============================================================================
