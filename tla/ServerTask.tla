------------------------------ MODULE ServerTask ------------------------------
(***************************************************************************)
(* A dispatch task on the server (src/server/taskmgnt.go, handler.go): the *)
(* goroutine that has the task created and then started on every agent,    *)
(* collects their reports, and answers the REST handlers, which find it in *)
(* the server's cache and talk to it over channels.  The agents are what   *)
(* the server can tell of them; TaskSession and SessionMgnt have the rest. *)
(***************************************************************************)
EXTENDS Integers, Sequences, FiniteSets, Functions

CONSTANTS
  DestIPs,      \* the agents, as listed by the task
  Cancels,      \* calls of CancelTask
  Queries,      \* calls of QueryTask
  Resubmits,    \* calls of CreateTask for a task in the cache
  IPsOf,        \* the agents each of those lists
  Faults

Agents == Range(DestIPs)
Handlers == Cancels \cup Queries \cup Resubmits
FaultKinds == {"meta", "post", "late", "bad", "report", "ttl"}

ASSUME DestAssumption == DestIPs \in Seq(Agents) /\ IsFiniteSet(Agents)
                           /\ Cardinality(Agents) = Len(DestIPs)
ASSUME HandlersAssumption ==
  /\ Cancels \cap Queries = {} /\ (Cancels \cup Queries) \cap Resubmits = {}
  /\ IPsOf \in [Resubmits -> Seq(UNION {Range(IPsOf[h]) : h \in Resubmits})]
ASSUME FaultsAssumption == Faults \subseteq FaultKinds

VARIABLES
  at,           \* where the task's goroutine is
  status,       \* ti.Status
  dispatch,     \* ti.DispatchInfos[ip].Status
  succCount, failCount, allCount,
  round,        \* how often createTask ran
  session,      \* the last call made to the server's session manager
  cache,        \* the task's entry: "kept", "expiring" or "gone"
  posts,        \* POSTs to agents under way
  agentRsp,     \* agentRspChan and the goroutines sending on it
  deletes,      \* DELETEs to agents under way
  reports,      \* reports under way, and those in reportChan
  agent,        \* the task's session on each agent
  handler       \* where each REST call is

counts == <<succCount, failCount, allCount>>
task == <<at, status, dispatch, counts, round, session, cache>>
network == <<posts, agentRsp, deletes, reports>>
vars == <<task, network, agent, handler>>

Final == {"COMPLETED", "FAILED"}
Statuses == Final \cup {"INIT", "INPROGESS"}
Posts == Agents \X {"create", "start"} \X Nat

TypeOK ==
  /\ at \in {"create", "creating", "starting", "select", "quit", "crashed"}
  /\ status \in Statuses \cup {"FILE_NOT_EXISTED"}
  /\ dispatch \in [Agents -> Statuses]
  /\ succCount \in Nat /\ failCount \in Nat /\ allCount \in 0 .. Len(DestIPs)
  /\ "late" \notin Faults => succCount + failCount <= allCount
  /\ round \in Nat
  /\ session \in {"none", "create", "start", "stop"}
  /\ cache \in {"kept", "expiring", "gone"}
  /\ posts \subseteq Posts /\ agentRsp \subseteq Posts \X BOOLEAN
  /\ deletes \subseteq Agents /\ reports \subseteq Agents \X {100, -1}
  /\ agent \in [Agents -> {"none", "created", "started", "finished", "unheard", "stopped"}]
  /\ handler \in [Handlers -> {"new", "waiting", "accepted", "refused"}]

Init ==
  /\ at = "create" /\ status = "INIT" /\ dispatch = [a \in Agents |-> "INIT"]
  /\ succCount = 0 /\ failCount = 0 /\ allCount = 0 /\ round = 0
  /\ session = "none" /\ cache = "kept"
  /\ posts = {} /\ agentRsp = {} /\ deletes = {} /\ reports = {}
  /\ agent = [a \in Agents |-> "none"]
  /\ handler = [h \in Handlers |-> "new"]

-----------------------------------------------------------------------------
(* createTask and startTask.                                               *)

EndKept(ts) ==                     \* mutant: the entry is not to expire
  /\ status' = ts /\ session' = "stop" /\ UNCHANGED cache
  /\ at' = "select"
\* the entry is kept for 5 more minutes, if it is there still; the server's
\* own session is stopped
EndTask(ts) ==
  /\ status' = ts /\ session' = "stop"
  /\ cache' = IF cache = "gone" THEN "gone" ELSE "expiring"
  /\ at' = "select"

\* the files of the task cannot be read
MetaFails ==
  /\ at = "create" /\ "meta" \in Faults
  /\ EndTask("FILE_NOT_EXISTED")
  /\ UNCHANGED <<dispatch, counts, round, network, agent, handler>>

CreateTask ==
  /\ at = "create"
  /\ at' = "creating" /\ status' = "INPROGESS" /\ session' = "create"
  /\ round' = round + 1
  /\ succCount' = 0 /\ failCount' = 0 /\ allCount' = Len(DestIPs)
  /\ posts' = posts \cup {<<a, "create", round'>> : a \in Agents}
  /\ UNCHANGED <<dispatch, cache, agentRsp, deletes, reports, agent, handler>>

\* createLinkChain: the agents that answered the creation
Chain(d) == {a \in Agents : d[a] = "INPROGESS"}

StartAll(d) ==                             \* mutant: allCount is not updated
  /\ at' = "starting" /\ session' = "start"
  /\ succCount' = 0 /\ failCount' = 0 /\ UNCHANGED allCount
  /\ posts' = posts \cup {<<a, "start", round>> : a \in Chain(d)}
StartTask(d) ==
  /\ at' = "starting" /\ session' = "start"
  /\ succCount' = 0 /\ failCount' = 0 /\ allCount' = Cardinality(Chain(d))
  /\ posts' = posts \cup {<<a, "start", round>> : a \in Chain(d)}

\* checkAgentRsp
AnsweredAlike(r) ==                      \* mutant: a failure is not looked at
  dispatch' = [dispatch EXCEPT ![r[1][1]] = "INPROGESS"]
Answered(r) ==
  dispatch' = [dispatch EXCEPT ![r[1][1]] = IF r[2] THEN "INPROGESS" ELSE "FAILED"]

AnyFailed(fail) == fail > 0                        \* mutant: one is enough
AllFailed(fail) == fail = allCount

SomeAnswered(succ, fail) == succ > 0               \* mutant: one is enough
AllAnswered(succ, fail) == succ + fail = allCount

\* A response received while waiting for them: everybody failed, everybody
\* answered, or the wait goes on.
Response(r) ==
  LET fail == failCount + (IF r[2] THEN 0 ELSE 1)
      succ == succCount + (IF r[2] THEN 1 ELSE 0) IN
  /\ at \in {"creating", "starting"} /\ r \in agentRsp
  /\ agentRsp' = agentRsp \ {r}
  /\ Answered(r)
  /\ \/ /\ AllFailed(fail)
        /\ EndTask("FAILED")
        /\ failCount' = fail /\ UNCHANGED <<succCount, allCount, posts>>
     \/ /\ ~AllFailed(fail) /\ AllAnswered(succ, fail) /\ at = "creating"
        /\ StartTask(dispatch')
        /\ UNCHANGED <<status, cache>>
     \/ /\ ~AllFailed(fail) /\ AllAnswered(succ, fail) /\ at = "starting"
        /\ at' = "select" /\ succCount' = succ /\ failCount' = fail
        /\ UNCHANGED <<allCount, status, session, cache, posts>>
     \/ /\ ~AllFailed(fail) /\ ~AllAnswered(succ, fail)
        /\ succCount' = succ /\ failCount' = fail
        /\ UNCHANGED <<at, allCount, status, session, cache, posts>>
  /\ UNCHANGED <<round, deletes, reports, agent, handler>>

\* 5 seconds without a response: an HTTP request gives up after 2, so the
\* posts under way are then over, unless the process lags ("late")
WaitTimeout ==
  /\ at \in {"creating", "starting"} /\ agentRsp = {}
  /\ posts = {} \/ "late" \in Faults
  /\ succCount = 0
  /\ EndTask("FAILED")
  /\ UNCHANGED <<dispatch, counts, round, network, agent, handler>>

-----------------------------------------------------------------------------
(* The select loop.                                                        *)

Selecting == at = "select"

\* stopAllClientTask follows endTask
StopAll(ts) == EndTask(ts) /\ deletes' = Agents

\* CancelTask
Stop(h) ==
  /\ Selecting /\ h \in Cancels /\ handler[h] = "waiting"
  /\ handler' = [handler EXCEPT ![h] = "accepted"]
  /\ StopAll("FAILED")
  /\ UNCHANGED <<dispatch, counts, round, posts, agentRsp, reports, agent>>

Query(h) ==
  /\ Selecting /\ h \in Queries /\ handler[h] = "waiting"
  /\ handler' = [handler EXCEPT ![h] = "accepted"]
  /\ UNCHANGED <<task, network, agent>>

\* equalSlice compares every element with every other
EqualSlice(x, y) ==
  Len(x) = Len(y) /\ \A i \in DOMAIN x, j \in DOMAIN y : x[i] = y[j]

\* A resubmission: answered false if it differs and then, in any case, true.
\* The second answer of the former panics when EqualCmp has closed the
\* channel after the first.  A task that FAILED is created again.
Compare(h) ==
  /\ Selecting /\ h \in Resubmits /\ handler[h] = "waiting"
  /\ LET equal == EqualSlice(IPsOf[h], DestIPs) IN
     /\ handler' = [handler EXCEPT ![h] = IF equal THEN "accepted" ELSE "refused"]
     /\ \/ status = "FAILED" /\ at' = "create"
           /\ cache' = IF cache = "gone" THEN "gone" ELSE "kept"
        \/ status # "FAILED" /\ UNCHANGED <<at, cache>>
        \/ ~equal /\ at' = "crashed" /\ UNCHANGED cache
  /\ UNCHANGED <<status, dispatch, counts, round, session, network, agent>>

\* checkFinished
AllCompleted(d) == \A a \in Agents : d[a] = "COMPLETED"      \* mutant
Finished(d) == \A a \in Agents : d[a] \in Final

\* reportStatus
Reported(r) ==
  dispatch' = [dispatch EXCEPT ![r[1]] = IF r[2] = 100 THEN "COMPLETED" ELSE "FAILED"]

Report(r) ==
  /\ Selecting /\ r \in reports
  /\ reports' = reports \ {r}
  /\ Reported(r)
  /\ \/ Finished(dispatch') /\ StopAll("COMPLETED")
     \/ ~Finished(dispatch') /\ UNCHANGED <<at, status, session, cache, deletes>>
  /\ UNCHANGED <<counts, round, posts, agentRsp, agent, handler>>

\* the entry was evicted: OnEvicted sends on quitChan
Quit ==
  /\ Selecting /\ cache = "gone"
  /\ at' = "quit"
  /\ UNCHANGED <<status, dispatch, counts, round, session, cache, network, agent, handler>>

-----------------------------------------------------------------------------
(* The cache, the REST handlers, the network and the agents.               *)

Alive == at # "crashed"

Expire ==
  /\ Alive /\ "ttl" \in Faults /\ cache = "expiring"
  /\ cache' = "gone"
  /\ UNCHANGED <<at, status, dispatch, counts, round, session, network, agent, handler>>

\* a handler finds the task in the cache
Call(h) ==
  /\ Alive /\ cache # "gone" /\ handler[h] = "new"
  /\ handler' = [handler EXCEPT ![h] = "waiting"]
  /\ UNCHANGED <<task, network, agent>>

\* what the agent's handler and its session manager make of a POST
Received(p) ==
  agent' = [agent EXCEPT ![p[1]] =
              IF p[2] = "create" THEN "created"
              ELSE IF @ = "created" THEN "started" ELSE @]

\* sendReqToClients: the request may be lost, or only its answer
Post(p) ==
  /\ Alive /\ p \in posts
  /\ posts' = posts \ {p}
  /\ \/ Received(p) /\ agentRsp' = agentRsp \cup {<<p, TRUE>>}
     \/ /\ "post" \in Faults
        /\ Received(p) \/ UNCHANGED agent
        /\ agentRsp' = agentRsp \cup {<<p, FALSE>>}
  /\ UNCHANGED <<task, deletes, reports, handler>>

Delete(a) ==
  /\ Alive /\ a \in deletes
  /\ deletes' = deletes \ {a}
  /\ \/ agent' = [agent EXCEPT ![a] = IF @ = "none" THEN "none" ELSE "stopped"]
     \/ "post" \in Faults /\ UNCHANGED agent
  /\ UNCHANGED <<task, posts, agentRsp, reports, handler>>

\* the agent's session has all pieces, or met a bad one and goes on
AgentFinishes(a) ==
  /\ Alive /\ agent[a] = "started"
  /\ agent' = [agent EXCEPT ![a] = "finished"]
  /\ reports' = reports \cup {<<a, 100>>}
  /\ UNCHANGED <<task, posts, agentRsp, deletes, handler>>

AgentFails(a) ==
  /\ Alive /\ "bad" \in Faults /\ agent[a] = "started"
  /\ reports' = reports \cup {<<a, -1>>}
  /\ UNCHANGED <<task, posts, agentRsp, deletes, agent, handler>>

\* a report that is not delivered, or finds no task, is not sent again: an
\* agent that finished, and whose report of it is lost, is unheard
ReportLost(r) ==
  /\ Alive /\ r \in reports
  /\ "report" \in Faults \/ cache = "gone"
  /\ reports' = reports \ {r}
  /\ agent' = [agent EXCEPT ![r[1]] = IF @ = "finished" /\ r[2] = 100 THEN "unheard" ELSE @]
  /\ UNCHANGED <<task, posts, agentRsp, deletes, handler>>

-----------------------------------------------------------------------------
Answers(h) == Stop(h) \/ Query(h) \/ Compare(h)

Goroutine ==
  \/ MetaFails \/ CreateTask \/ WaitTimeout \/ Quit
  \/ \E r \in agentRsp : Response(r)
  \/ \E h \in Handlers : Answers(h)
  \/ \E r \in reports : Report(r)

Environment ==
  \/ Expire
  \/ \E h \in Handlers : Call(h)
  \/ \E p \in posts : Post(p)
  \/ \E r \in reports : ReportLost(r)
  \/ \E a \in Agents : Delete(a) \/ AgentFinishes(a) \/ AgentFails(a)

Next == Goroutine \/ Environment

Spec == Init /\ [][Next]_vars

\* The goroutine runs, and its select takes every case that stays ready;
\* HTTP requests end, and a started agent finishes its download.
Fairness ==
  /\ WF_vars(CreateTask) /\ WF_vars(\E r \in agentRsp : Response(r)) /\ WF_vars(WaitTimeout)
  /\ \A h \in Handlers : SF_vars(Answers(h))
  /\ \A r \in Agents \X {100, -1} : SF_vars(Report(r))
  /\ WF_vars(\E p \in posts : Post(p))
  /\ \A a \in Agents : WF_vars(AgentFinishes(a))

FairSpec == Spec /\ Fairness

-----------------------------------------------------------------------------
(* Properties.                                                             *)

\* A task in progress waits for somebody, and each agent it waits for was
\* started and has still to report, or its report is under way: failed
\* requests and stale reports never make it wait for an agent that has no
\* start, or whose report it has dealt with.  Two things do leave it waiting
\* for an agent that will not report, and are named: a report lost on the way
\* and a session that the DELETE of an earlier attempt stopped.
Awaited(a) ==
  \/ agent[a] = "started" \/ (agent[a] = "finished" /\ <<a, 100>> \in reports)
  \/ agent[a] \in {"unheard", "stopped"}
StillAwaited ==
  Selecting /\ status = "INPROGESS" =>
    /\ \E a \in Agents : dispatch[a] = "INPROGESS"
    /\ \A a \in Agents : dispatch[a] = "INPROGESS" => Awaited(a)

\* No agent is started while another's creation is still under way: the
\* chain has to name every agent that will serve.
CreatesFirst ==
  (\E p \in posts : p[2] = "start" /\ p[3] = round) => \A p \in posts : p[2] # "create"

\* All answers are in when the goroutine is back in its select, so the next
\* round never counts an answer of this one.
RoundsSeparate == at \in {"create", "select"} => posts = {} /\ agentRsp = {}

\* The entry of a task that is over is on its way out of the cache, however
\* its end, its restarts and its eviction come together.
EndedExpires == Selecting /\ status # "INPROGESS" => cache # "kept"

\* Every REST call that found the task gets its answer
HandlersServed == \A h \in Handlers : handler[h] = "waiting" ~> handler[h] # "waiting"

\* A task in progress ends, if its agents' reports arrive
TaskEnds == status = "INPROGESS" ~> status # "INPROGESS"
===============================================================================
