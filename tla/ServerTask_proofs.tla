-------------------------- MODULE ServerTask_proofs --------------------------
(* Proofs about ServerTask: when no HTTP request outlasts the waits of     *)
(* createTask and startTask, its counts are those of the running round.    *)
EXTENDS ServerTask, FiniteSetTheorems, TLAPS

Waiting == at \in {"creating", "starting"}
Phase == IF at = "creating" THEN "create" ELSE "start"

\* the agents whose answer is still to come or to be received
Pending == {p[1] : p \in posts} \cup {r[1][1] : r \in agentRsp}

\* While the goroutine waits, what is under way is of this round and phase,
\* one thing for an agent, and each counts once; otherwise nothing is.
PendingInv ==
  /\ \A p \in posts : p = <<p[1], Phase, round>>
  /\ \A r \in agentRsp : r[1] = <<r[1][1], Phase, round>>
  /\ \A p \in posts, r \in agentRsp : p[1] # r[1][1]
  /\ \A r, q \in agentRsp : r[1][1] = q[1][1] => r = q
RoundInv ==
  /\ Waiting => PendingInv /\ succCount + failCount + Cardinality(Pending) = allCount
  /\ ~Waiting => posts = {} /\ agentRsp = {}
  /\ succCount + failCount <= allCount

\* The successes counted are of agents known to be in progress; an agent of
\* which nothing is known yet has still to answer its creation.
SomeAwaited ==
  Selecting /\ status = "INPROGESS" => \E a \in Agents : dispatch[a] = "INPROGESS"
AnswerInv ==
  /\ Waiting => status = "INPROGESS"
  /\ Waiting /\ succCount > 0 =>
       \E a \in Agents : a \notin Pending /\ dispatch[a] = "INPROGESS"
  /\ status = "INPROGESS" =>
       \A a \in Agents : dispatch[a] = "INIT" => at = "creating" /\ a \in Pending
  /\ at = "create" => status # "INPROGESS"
  /\ SomeAwaited

\* An agent whose success is counted, or to be counted, has its session
\* created, and in the second phase started; a DELETE may have stopped it.
Created(a) == agent[a] \in {"created", "stopped"}
Good(a) == IF at = "creating" THEN Created(a) ELSE Awaited(a)
AgentInv ==
  /\ Waiting \/ (Selecting /\ status = "INPROGESS") =>
       \A a \in Agents : dispatch[a] = "INPROGESS" /\ a \notin Pending => Good(a)
  /\ Waiting => \A r \in agentRsp : r[2] => Good(r[1][1])
  /\ at = "starting" => \A p \in posts : Created(p[1])

IInv == TypeOK /\ ("late" \notin Faults => RoundInv /\ AnswerInv /\ AgentInv)

-----------------------------------------------------------------------------
(* Cardinalities.                                                          *)

\* there are finitely many agents
LEMMA AgentsFinite ==
  /\ IsFiniteSet(Agents) /\ Len(DestIPs) \in Nat /\ Cardinality(Agents) = Len(DestIPs)
  /\ \A S \in SUBSET Agents : IsFiniteSet(S) /\ Cardinality(S) \in 0 .. Len(DestIPs)
<1>1. IsFiniteSet(Agents) /\ Len(DestIPs) \in Nat /\ Cardinality(Agents) = Len(DestIPs)
  BY DestAssumption, FS_CardinalityType
<1>2. ASSUME NEW S \in SUBSET Agents
      PROVE  IsFiniteSet(S) /\ Cardinality(S) \in 0 .. Len(DestIPs)
  <2>1. IsFiniteSet(S) /\ Cardinality(S) <= Cardinality(Agents)
    BY <1>1, FS_Subset
  <2>2. Cardinality(S) \in Nat
    BY <2>1, FS_CardinalityType
  <2> QED
    BY <1>1, <2>1, <2>2
<1> QED
  BY <1>1, <1>2

To(S, kind, n) == {<<a, kind, n>> : a \in S}

\* one post for each agent of a set
LEMMA PostsOf ==
  ASSUME NEW S, NEW kind, NEW n,
         posts' = To(S, kind, n), agentRsp' = {}
  PROVE  Pending' = S
<1>1. ASSUME NEW a \in S PROVE a \in Pending'
  <2>1. <<a, kind, n>> \in posts' /\ <<a, kind, n>>[1] = a
    BY DEF To
  <2> QED
    BY <2>1 DEF Pending
<1>2. ASSUME NEW a \in Pending' PROVE a \in S
  <2>1. PICK p \in posts' : p[1] = a
    BY DEF Pending
  <2>2. PICK x \in S : p = <<x, kind, n>>
    BY DEF To
  <2> QED
    BY <2>1, <2>2
<1> QED
  BY <1>1, <1>2

\* those that are still to answer are agents
LEMMA PendingFinite ==
  ASSUME TypeOK
  PROVE  Pending \subseteq Agents /\ IsFiniteSet(Pending) /\ Cardinality(Pending) \in Nat
<1>1. Pending \subseteq Agents
  BY DEF Pending, TypeOK, Posts
<1> QED
  BY <1>1, AgentsFinite

\* receiving an answer takes its agent off those still to answer
LEMMA Received1 ==
  ASSUME TypeOK, PendingInv, NEW r \in agentRsp, posts' = posts, agentRsp' = agentRsp \ {r}
  PROVE  /\ r[1][1] \in Agents /\ r[1][1] \in Pending
         /\ Pending' = Pending \ {r[1][1]}
         /\ Cardinality(Pending') = Cardinality(Pending) - 1
         /\ Cardinality(Pending') \in Nat
         /\ Cardinality(Pending') = 0 => posts = {} /\ agentRsp' = {}
<1>1. r[1][1] \in Agents /\ r[1][1] \in Pending
  BY DEF Pending, TypeOK, Posts
<1>2. Pending' = Pending \ {r[1][1]}
  BY DEF Pending, PendingInv
<1>3. IsFiniteSet(Pending) /\ Cardinality(Pending) \in Nat
  BY PendingFinite
<1>4. IsFiniteSet(Pending') /\ Cardinality(Pending') = Cardinality(Pending) - 1
  BY <1>1, <1>2, <1>3, FS_RemoveElement
<1>5. Cardinality(Pending') \in Nat
  BY <1>4, FS_CardinalityType
<1>6. Cardinality(Pending') = 0 => Pending' = {}
  BY <1>4, FS_EmptySet
<1>7. Pending' = {} => posts = {} /\ agentRsp' = {}
  BY DEF Pending
<1> QED
  BY <1>1, <1>2, <1>4, <1>5, <1>6, <1>7

\* when one is pending, an answer received is of that one, and the last
LEMMA LastPending ==
  ASSUME TypeOK, PendingInv, NEW r \in agentRsp, Cardinality(Pending) = 1
  PROVE  Pending = {r[1][1]} /\ posts = {} /\ agentRsp \ {r} = {}
<1>1. Pending = {r[1][1]}
  <2>1. r[1][1] \in Pending /\ IsFiniteSet(Pending)
    BY PendingFinite DEF Pending
  <2> QED
    BY <2>1, FS_Singleton
<1>2. ASSUME NEW q \in agentRsp \ {r} PROVE q[1][1] \in Pending /\ q[1][1] # r[1][1]
  BY DEF Pending, PendingInv
<1>3. ASSUME NEW p \in posts PROVE p[1] \in Pending /\ p[1] # r[1][1]
  BY DEF Pending, PendingInv
<1> QED
  BY <1>1, <1>2, <1>3

\* the answer of a post is pending as the post was
LEMMA PostPending ==
  ASSUME NEW p \in posts, Post(p)
  PROVE  Pending' = Pending
<1>1. PICK b \in BOOLEAN : agentRsp' = agentRsp \cup {<<p, b>>}
  BY DEF Post
<1>2. posts' = posts \ {p} /\ <<p, b>>[1] = p
  BY DEF Post
<1>3. ASSUME NEW a PROVE a \in Pending' <=> a \in Pending
  <2>1. a \in Pending' <=> \/ \E q \in posts' : a = q[1]
                           \/ \E r \in agentRsp' : a = r[1][1]
    BY DEF Pending
  <2>2. a \in Pending <=> \/ \E q \in posts : a = q[1]
                          \/ \E r \in agentRsp : a = r[1][1]
    BY DEF Pending
  <2> QED
    BY <1>1, <1>2, <2>1, <2>2
<1> QED
  BY <1>3

\* everybody's creation is pending at first
LEMMA CreatePending ==
  ASSUME RoundInv, CreateTask
  PROVE  posts = {} /\ agentRsp = {} /\ Pending' = Agents
<1>1. posts = {} /\ agentRsp = {}
  BY DEF CreateTask, RoundInv, Waiting
<1>2. posts' = To(Agents, "create", round') /\ agentRsp' = {}
  BY <1>1 DEF CreateTask, To
<1> QED
  BY <1>1, <1>2, PostsOf

-----------------------------------------------------------------------------
(* Types.                                                                  *)

Sum == "late" \notin Faults => succCount + failCount <= allCount

\* the initial state is well-typed
LEMMA InitTyped == Init => TypeOK
BY AgentsFinite DEF Init, TypeOK, Statuses, Final

\* a step keeps the types, the sum of the counts aside
LEMMA TypeStep ==
  ASSUME TypeOK, Next, Sum'
  PROVE  TypeOK'
<1> USE DEF TypeOK, Sum, task, counts, network, Statuses, Final
<1>0. ASSUME NEW ts \in {"FILE_NOT_EXISTED", "FAILED", "COMPLETED"}, EndTask(ts)
      PROVE  /\ at' = "select" /\ status' \in Statuses \cup {"FILE_NOT_EXISTED"}
             /\ session' = "stop" /\ cache' \in {"kept", "expiring", "gone"}
  BY <1>0 DEF EndTask
<1>1. ASSUME MetaFails PROVE TypeOK'
  BY <1>1, <1>0 DEF MetaFails
<1>2. ASSUME CreateTask PROVE TypeOK'
  <2>1. posts' \subseteq Posts /\ round' \in Nat
    BY <1>2 DEF CreateTask, Posts
  <2>2. Len(DestIPs) \in 0 .. Len(DestIPs)
    BY AgentsFinite
  <2> QED
    BY <1>2, <2>1, <2>2 DEF CreateTask
<1>3. ASSUME WaitTimeout PROVE TypeOK'
  BY <1>3, <1>0 DEF WaitTimeout
<1>4. ASSUME Quit PROVE TypeOK'
  BY <1>4 DEF Quit
<1>5. ASSUME Expire PROVE TypeOK'
  BY <1>5 DEF Expire
<1>6. ASSUME NEW r \in agentRsp, Response(r) PROVE TypeOK'
  <2>1. dispatch' \in [Agents -> Statuses]
    BY <1>6 DEF Response, Answered
  <2>2. agentRsp' \subseteq Posts \X BOOLEAN
    BY <1>6 DEF Response
  <2>3. CASE EndTask("FAILED") /\ failCount' = failCount + (IF r[2] THEN 0 ELSE 1)
               /\ UNCHANGED <<succCount, allCount, posts>>
    BY <1>6, <1>0, <2>1, <2>2, <2>3 DEF Response
  <2>4. CASE StartTask(dispatch') /\ UNCHANGED <<status, cache>>
    <3>1. Chain(dispatch') \subseteq Agents
      BY DEF Chain
    <3>2. Cardinality(Chain(dispatch')) \in 0 .. Len(DestIPs)
      BY <3>1, AgentsFinite
    <3>3. posts' \subseteq Posts
      BY <2>4, <3>1 DEF StartTask, Posts
    <3> QED
      BY <1>6, <2>1, <2>2, <2>4, <3>2, <3>3 DEF Response, StartTask
  <2>5. CASE /\ at' \in {at, "select"}
             /\ succCount' = succCount + (IF r[2] THEN 1 ELSE 0)
             /\ failCount' = failCount + (IF r[2] THEN 0 ELSE 1)
             /\ UNCHANGED <<allCount, status, session, cache, posts>>
    BY <1>6, <2>1, <2>2, <2>5 DEF Response
  <2> QED
    BY <1>6, <2>3, <2>4, <2>5 DEF Response
<1>7. ASSUME NEW h \in Cancels, Stop(h) PROVE TypeOK'
  BY <1>7, <1>0 DEF Stop, StopAll, Handlers
<1>8. ASSUME NEW h \in Queries, Query(h) PROVE TypeOK'
  BY <1>8 DEF Query, Handlers
<1>9. ASSUME NEW h \in Resubmits, Compare(h) PROVE TypeOK'
  BY <1>9 DEF Compare, Handlers
<1>10. ASSUME NEW r \in reports, Report(r) PROVE TypeOK'
  <2>1. dispatch' \in [Agents -> Statuses]
    BY <1>10 DEF Report, Reported
  <2> QED
    BY <1>10, <1>0, <2>1 DEF Report, StopAll
<1>11. ASSUME NEW h \in Handlers, Call(h) PROVE TypeOK'
  BY <1>11 DEF Call
<1>12. ASSUME NEW p \in posts, Post(p) PROVE TypeOK'
  <2>1. agent' \in [Agents -> {"none", "created", "started", "finished", "unheard", "stopped"}]
    BY <1>12 DEF Post, Received, Posts
  <2>2. <<p, TRUE>> \in Posts \X BOOLEAN /\ <<p, FALSE>> \in Posts \X BOOLEAN
    OBVIOUS
  <2>3. agentRsp' \subseteq Posts \X BOOLEAN
    BY <1>12, <2>2 DEF Post
  <2> QED
    BY <1>12, <2>1, <2>3 DEF Post
<1>13. ASSUME NEW r \in reports, ReportLost(r) PROVE TypeOK'
  BY <1>13 DEF ReportLost
<1>14. ASSUME NEW a \in Agents, Delete(a) PROVE TypeOK'
  BY <1>14 DEF Delete
<1>15. ASSUME NEW a \in Agents, AgentFinishes(a) PROVE TypeOK'
  BY <1>15 DEF AgentFinishes
<1>16. ASSUME NEW a \in Agents, AgentFails(a) PROVE TypeOK'
  BY <1>16 DEF AgentFails
<1> QED
  BY <1>1, <1>2, <1>3, <1>4, <1>5, <1>6, <1>7, <1>8, <1>9, <1>10, <1>11, <1>12, <1>13, <1>14, <1>15, <1>16 DEF Next, Goroutine, Environment, Answers, Stop, Query, Compare

-----------------------------------------------------------------------------
(* Rounds.                                                                 *)

\* nothing is under way at the start
LEMMA InitRound == Init => RoundInv
BY DEF Init, RoundInv, Waiting

\* what leaves the requests, the counts and the wait alone keeps the round
LEMMA RoundFrame ==
  ASSUME RoundInv, UNCHANGED <<at, round, counts, posts, agentRsp>>
  PROVE  RoundInv' /\ Pending' = Pending
BY DEF RoundInv, PendingInv, Pending, Waiting, Phase, counts

\* A step keeps the round: an answer moves its agent from those pending to
\* those counted, and a wait ends when there is none pending.
LEMMA RoundStep ==
  ASSUME TypeOK, RoundInv, "late" \notin Faults, Next
  PROVE  RoundInv'
<1> USE DEF task, counts, network
<1>1. ASSUME MetaFails PROVE RoundInv'
  BY <1>1 DEF MetaFails, EndTask, RoundInv, Waiting
<1>2. ASSUME CreateTask PROVE RoundInv'
  <2>1. posts = {} /\ agentRsp = {} /\ Pending' = Agents
    BY <1>2, CreatePending
  <2>2. agentRsp' = {} /\ at' = "creating"
    BY <1>2, <2>1 DEF CreateTask
  <2>3. PendingInv'
    BY <1>2, <2>1, <2>2 DEF CreateTask, PendingInv, Phase
  <2> QED
    BY <1>2, <2>1, <2>2, <2>3, AgentsFinite DEF CreateTask, RoundInv, Waiting
<1>3. ASSUME WaitTimeout PROVE RoundInv'
  BY <1>3 DEF WaitTimeout, EndTask, RoundInv, Waiting
<1>4. ASSUME Quit PROVE RoundInv'
  BY <1>4 DEF Quit, Selecting, RoundInv, Waiting
<1>5. ASSUME Expire PROVE RoundInv'
  BY <1>5, RoundFrame DEF Expire
<1>6. ASSUME NEW r \in agentRsp, Response(r) PROVE RoundInv'
  <2> DEFINE fail == failCount + (IF r[2] THEN 0 ELSE 1)
             succ == succCount + (IF r[2] THEN 1 ELSE 0)
  <2>0. /\ Waiting /\ agentRsp' = agentRsp \ {r} /\ PendingInv
        /\ succCount + failCount + Cardinality(Pending) = allCount
        /\ succ \in Nat /\ fail \in Nat /\ allCount \in Nat
        /\ succCount \in Nat /\ failCount \in Nat /\ Cardinality(Pending) \in Nat
        /\ succ + fail = succCount + failCount + 1 /\ succCount <= succ
    BY <1>6, PendingFinite DEF Response, RoundInv, Waiting, TypeOK
  <2>1. CASE AllFailed(fail) /\ EndTask("FAILED")
             /\ failCount' = fail /\ UNCHANGED <<succCount, allCount, posts>>
    <3>1. Cardinality(Pending') = 0 /\ succCount = 0
      BY <2>0, <2>1, Received1 DEF AllFailed
    <3>2. posts' = {} /\ agentRsp' = {}
      BY <2>0, <2>1, <3>1, Received1
    <3> QED
      BY <2>0, <2>1, <3>1, <3>2 DEF RoundInv, Waiting, EndTask, AllFailed
  <2>2. CASE AllAnswered(succ, fail) /\ at = "creating" /\ StartTask(dispatch')
    <3>1. posts = {} /\ agentRsp' = {}
      BY <2>0, <2>2, LastPending DEF AllAnswered
    <3>2. Pending' = Chain(dispatch')
      <4>1. posts' = To(Chain(dispatch'), "start", round)
        BY <2>2, <3>1 DEF StartTask, To
      <4> QED
        BY <3>1, <4>1, PostsOf
    <3>3. Chain(dispatch') \subseteq Agents
      BY DEF Chain
    <3>4. Cardinality(Chain(dispatch')) \in Nat
      BY <3>3, AgentsFinite
    <3>5. round' = round
      BY <1>6 DEF Response
    <3>6. PendingInv'
      BY <2>2, <3>1, <3>5 DEF PendingInv, StartTask, Phase
    <3> QED
      BY <2>2, <3>2, <3>4, <3>6 DEF RoundInv, Waiting, StartTask
  <2>3. CASE AllAnswered(succ, fail) /\ at' = "select" /\ succCount' = succ
             /\ failCount' = fail /\ UNCHANGED <<allCount, posts>>
    <3>1. Cardinality(Pending') = 0
      BY <2>0, <2>3, Received1 DEF AllAnswered
    <3>2. posts' = {} /\ agentRsp' = {}
      BY <2>0, <2>3, <3>1, Received1
    <3> QED
      BY <2>0, <2>3, <3>2 DEF RoundInv, Waiting, AllAnswered
  <2>4. CASE succCount' = succ /\ failCount' = fail /\ UNCHANGED <<at, allCount, posts>>
    <3>1. Cardinality(Pending') = Cardinality(Pending) - 1 /\ Cardinality(Pending') \in Nat
      BY <2>0, <2>4, Received1
    <3>2. PendingInv'
      BY <1>6, <2>0, <2>4 DEF Response, PendingInv, Phase
    <3> QED
      BY <2>0, <2>4, <3>1, <3>2 DEF RoundInv, Waiting
  <2> QED
    BY <1>6, <2>1, <2>2, <2>3, <2>4 DEF Response
<1>7. ASSUME NEW h \in Cancels, Stop(h) PROVE RoundInv'
  BY <1>7 DEF Stop, StopAll, EndTask, Selecting, RoundInv, Waiting
<1>8. ASSUME NEW h \in Queries, Query(h) PROVE RoundInv'
  BY <1>8, RoundFrame DEF Query
<1>9. ASSUME NEW h \in Resubmits, Compare(h) PROVE RoundInv'
  BY <1>9 DEF Compare, Selecting, RoundInv, Waiting
<1>10. ASSUME NEW r \in reports, Report(r) PROVE RoundInv'
  BY <1>10 DEF Report, StopAll, EndTask, Selecting, RoundInv, Waiting
<1>11. ASSUME NEW h \in Handlers, Call(h) PROVE RoundInv'
  BY <1>11, RoundFrame DEF Call
<1>12. ASSUME NEW p \in posts, Post(p) PROVE RoundInv'
  <2>1. PICK b \in BOOLEAN : agentRsp' = agentRsp \cup {<<p, b>>}
    BY <1>12 DEF Post
  <2>2. Waiting /\ PendingInv
    BY <1>12 DEF Post, RoundInv
  <2>3. Pending' = Pending
    BY <1>12, PostPending
  <2>4. PendingInv'
    BY <1>12, <2>1, <2>2 DEF Post, PendingInv, Phase
  <2> QED
    BY <1>12, <2>2, <2>3, <2>4 DEF Post, RoundInv, Waiting
<1>13. ASSUME NEW r \in reports, ReportLost(r) PROVE RoundInv'
  BY <1>13, RoundFrame DEF ReportLost
<1>14. ASSUME NEW a \in Agents, Delete(a) PROVE RoundInv'
  BY <1>14, RoundFrame DEF Delete
<1>15. ASSUME NEW a \in Agents, AgentFinishes(a) PROVE RoundInv'
  BY <1>15, RoundFrame DEF AgentFinishes
<1>16. ASSUME NEW a \in Agents, AgentFails(a) PROVE RoundInv'
  BY <1>16, RoundFrame DEF AgentFails
<1> QED
  BY <1>1, <1>2, <1>3, <1>4, <1>5, <1>6, <1>7, <1>8, <1>9, <1>10, <1>11, <1>12, <1>13, <1>14, <1>15, <1>16 DEF Next, Goroutine, Environment, Answers, Stop, Query, Compare

-----------------------------------------------------------------------------
(* Answers.                                                                *)

\* no answer is in at the start
LEMMA InitAnswer == Init => AnswerInv
BY DEF Init, AnswerInv, Waiting, SomeAwaited, Selecting

\* what leaves the task, its requests and its counts alone keeps the answers
LEMMA AnswerFrame ==
  ASSUME AnswerInv, Pending' = Pending, UNCHANGED <<at, status, dispatch, succCount>>
  PROVE  AnswerInv'
BY DEF AnswerInv, Waiting, SomeAwaited, Selecting

\* a task that is over, and does not wait, waits for nobody
LEMMA AnswerOver ==
  ASSUME at' \notin {"creating", "starting"}, status' # "INPROGESS"
  PROVE  AnswerInv'
BY DEF AnswerInv, Waiting, SomeAwaited, Selecting

\* A step keeps the answers: a success counted makes its agent one in
\* progress, and only a report changes that.
LEMMA AnswerStep ==
  ASSUME TypeOK, RoundInv, AnswerInv, "late" \notin Faults, Next
  PROVE  AnswerInv'
<1> USE DEF task, counts, network
<1>1. ASSUME MetaFails PROVE AnswerInv'
  BY <1>1, AnswerOver DEF MetaFails, EndTask
<1>2. ASSUME CreateTask PROVE AnswerInv'
  <2>1. Pending' = Agents
    BY <1>2, CreatePending
  <2> QED
    BY <1>2, <2>1 DEF CreateTask, AnswerInv, Waiting, SomeAwaited, Selecting
<1>3. ASSUME WaitTimeout PROVE AnswerInv'
  BY <1>3, AnswerOver DEF WaitTimeout, EndTask
<1>4. ASSUME Quit PROVE AnswerInv'
  BY <1>4, RoundFrame DEF Quit, AnswerInv, Waiting, SomeAwaited, Selecting
<1>5. ASSUME Expire PROVE AnswerInv'
  BY <1>5, RoundFrame, AnswerFrame DEF Expire
<1>6. ASSUME NEW r \in agentRsp, Response(r) PROVE AnswerInv'
  <2> DEFINE fail == failCount + (IF r[2] THEN 0 ELSE 1)
             succ == succCount + (IF r[2] THEN 1 ELSE 0)
             x == r[1][1]
  <2>0. /\ Waiting /\ agentRsp' = agentRsp \ {r} /\ PendingInv
        /\ succCount + failCount + Cardinality(Pending) = allCount
        /\ succCount \in Nat /\ failCount \in Nat /\ Cardinality(Pending) \in Nat
        /\ succ + fail = succCount + failCount + 1 /\ r[2] \in BOOLEAN
        /\ status = "INPROGESS"
    BY <1>6, PendingFinite DEF Response, RoundInv, AnswerInv, Waiting, TypeOK
  <2>1. x \in Agents /\ x \in Pending
    BY DEF TypeOK, Posts, Pending
  <2>2. /\ \A a \in Agents : a # x => dispatch'[a] = dispatch[a]
        /\ dispatch'[x] = IF r[2] THEN "INPROGESS" ELSE "FAILED"
    BY <1>6, <2>1 DEF Response, Answered, TypeOK
  <2>3. succ > 0 => \E a \in Agents : (a \notin Pending \/ a = x) /\ dispatch'[a] = "INPROGESS"
    <3>1. CASE r[2]
      BY <2>1, <2>2, <3>1
    <3>2. CASE ~r[2]
      BY <2>0, <2>1, <2>2, <3>2 DEF AnswerInv
    <3> QED
      BY <2>0, <3>1, <3>2
  <2>4. \A a \in Agents : dispatch'[a] = "INIT" => a # x /\ a \in Pending /\ at = "creating"
    BY <2>0, <2>2 DEF AnswerInv
  <2>5. CASE EndTask("FAILED")
    BY <2>5, AnswerOver DEF EndTask
  <2>6. CASE AllAnswered(succ, fail) /\ StartTask(dispatch') /\ UNCHANGED status
    <3>1. Pending = {x}
      BY <2>0, <2>6, LastPending DEF AllAnswered
    <3>2. \A a \in Agents : dispatch'[a] # "INIT"
      BY <2>4, <3>1
    <3> QED
      BY <2>0, <2>6, <3>2 DEF StartTask, AnswerInv, Waiting, SomeAwaited, Selecting
  <2>7. CASE /\ ~AllFailed(fail) /\ AllAnswered(succ, fail)
             /\ at' = "select" /\ succCount' = succ /\ UNCHANGED status
    <3>1. Pending = {x}
      BY <2>0, <2>7, LastPending DEF AllAnswered
    <3>2. \A a \in Agents : dispatch'[a] # "INIT"
      BY <2>4, <3>1
    <3>3. succ > 0
      BY <2>0, <2>7 DEF AllAnswered, AllFailed
    <3> QED
      BY <2>0, <2>3, <2>7, <3>2, <3>3 DEF AnswerInv, Waiting, SomeAwaited, Selecting
  <2>8. CASE succCount' = succ /\ UNCHANGED <<at, allCount, status, posts>>
    <3>1. Pending' = Pending \ {x}
      BY <2>0, <2>8, Received1
    <3> QED
      BY <2>0, <2>3, <2>4, <2>8, <3>1 DEF AnswerInv, Waiting, SomeAwaited, Selecting
  <2> QED
    BY <1>6, <2>5, <2>6, <2>7, <2>8 DEF Response
<1>7. ASSUME NEW h \in Cancels, Stop(h) PROVE AnswerInv'
  BY <1>7, AnswerOver DEF Stop, StopAll, EndTask
<1>8. ASSUME NEW h \in Queries, Query(h) PROVE AnswerInv'
  BY <1>8, RoundFrame, AnswerFrame DEF Query
<1>9. ASSUME NEW h \in Resubmits, Compare(h) PROVE AnswerInv'
  BY <1>9, RoundFrame DEF Compare, AnswerInv, Waiting, SomeAwaited, Selecting
<1>10. ASSUME NEW r \in reports, Report(r) PROVE AnswerInv'
  <2>1. CASE StopAll("COMPLETED")
    BY <2>1, AnswerOver DEF StopAll, EndTask
  <2>2. CASE ~Finished(dispatch') /\ UNCHANGED <<at, status>>
    <3>1. at = "select" /\ r \in Agents \X {100, -1} /\ dispatch' \in [Agents -> Statuses]
      BY <1>10 DEF Report, Reported, Selecting, TypeOK, Statuses, Final
    <3>2. dispatch' = [dispatch EXCEPT ![r[1]] = IF r[2] = 100 THEN "COMPLETED" ELSE "FAILED"]
      BY <1>10 DEF Report, Reported
    <3>3. \A a \in Agents : dispatch'[a] = "INIT" => dispatch[a] = "INIT"
      BY <3>1, <3>2 DEF TypeOK
    <3>4. status = "INPROGESS" => \A a \in Agents : dispatch'[a] # "INIT"
      BY <3>1, <3>3 DEF AnswerInv
    <3>5. PICK a \in Agents : dispatch'[a] \notin Final
      BY <2>2 DEF Finished
    <3>6. status = "INPROGESS" => dispatch'[a] = "INPROGESS"
      BY <3>1, <3>4, <3>5 DEF Statuses, Final
    <3> QED
      BY <2>2, <3>1, <3>4, <3>6 DEF AnswerInv, Waiting, SomeAwaited, Selecting
  <2> QED
    BY <1>10, <2>1, <2>2 DEF Report
<1>11. ASSUME NEW h \in Handlers, Call(h) PROVE AnswerInv'
  BY <1>11, RoundFrame, AnswerFrame DEF Call
<1>12. ASSUME NEW p \in posts, Post(p) PROVE AnswerInv'
  BY <1>12, PostPending, AnswerFrame DEF Post
<1>13. ASSUME NEW r \in reports, ReportLost(r) PROVE AnswerInv'
  BY <1>13, RoundFrame, AnswerFrame DEF ReportLost
<1>14. ASSUME NEW a \in Agents, Delete(a) PROVE AnswerInv'
  BY <1>14, RoundFrame, AnswerFrame DEF Delete
<1>15. ASSUME NEW a \in Agents, AgentFinishes(a) PROVE AnswerInv'
  BY <1>15, RoundFrame, AnswerFrame DEF AgentFinishes
<1>16. ASSUME NEW a \in Agents, AgentFails(a) PROVE AnswerInv'
  BY <1>16, RoundFrame, AnswerFrame DEF AgentFails
<1> QED
  BY <1>1, <1>2, <1>3, <1>4, <1>5, <1>6, <1>7, <1>8, <1>9, <1>10, <1>11, <1>12, <1>13, <1>14, <1>15, <1>16 DEF Next, Goroutine, Environment, Answers, Stop, Query, Compare

-----------------------------------------------------------------------------
(* Agents.                                                                 *)

\* the clauses of the invariant that an agent's session can disturb
LEMMA AgentFrame ==
  ASSUME AgentInv, UNCHANGED <<at, status, dispatch, posts, agentRsp>>,
         Pending' = Pending,
         \A a \in Agents : (Created(a) => Created(a)') /\ (Awaited(a) => Awaited(a)'),
         TypeOK
  PROVE  AgentInv'
<1>1. \A a \in Agents : Good(a) => Good(a)'
  BY DEF Good
<1>2. \A r \in agentRsp : r[1][1] \in Agents
  BY DEF TypeOK, Posts
<1>3. \A p \in posts : p[1] \in Agents
  BY DEF TypeOK, Posts
<1> QED
  BY <1>1, <1>2, <1>3 DEF AgentInv, Waiting, Selecting

\* a task that is over, or about to be created, waits for no agent
LEMMA AgentOver ==
  ASSUME at' \notin {"creating", "starting"}, status' # "INPROGESS" \/ at' # "select"
  PROVE  AgentInv'
BY DEF AgentInv, Waiting, Selecting

\* A step keeps the agents: a creation that succeeds makes one created, a
\* start that succeeds one that runs or was stopped, and it leaves that state
\* by its own report only.
LEMMA AgentStep ==
  ASSUME TypeOK, RoundInv, AgentInv, "late" \notin Faults, Next
  PROVE  AgentInv'
<1> USE DEF task, counts, network
<1>1. ASSUME MetaFails PROVE AgentInv'
  BY <1>1, AgentOver DEF MetaFails, EndTask
<1>2. ASSUME CreateTask PROVE AgentInv'
  <2>1. posts = {} /\ agentRsp = {} /\ Pending' = Agents
    BY <1>2, CreatePending
  <2>2. agentRsp' = {} /\ at' = "creating"
    BY <1>2, <2>1 DEF CreateTask
  <2> QED
    BY <2>1, <2>2 DEF AgentInv, Waiting, Selecting
<1>3. ASSUME WaitTimeout PROVE AgentInv'
  BY <1>3, AgentOver DEF WaitTimeout, EndTask
<1>4. ASSUME Quit PROVE AgentInv'
  BY <1>4, AgentOver DEF Quit
<1>5. ASSUME Expire PROVE AgentInv'
  BY <1>5, RoundFrame, AgentFrame DEF Expire, Created, Awaited
<1>6. ASSUME NEW r \in agentRsp, Response(r) PROVE AgentInv'
  <2> DEFINE x == r[1][1]
             fail == failCount + (IF r[2] THEN 0 ELSE 1)
             succ == succCount + (IF r[2] THEN 1 ELSE 0)
  <2>0. /\ Waiting /\ agentRsp' = agentRsp \ {r} /\ PendingInv
        /\ succCount + failCount + Cardinality(Pending) = allCount
        /\ succCount \in Nat /\ failCount \in Nat /\ Cardinality(Pending) \in Nat
        /\ succ + fail = succCount + failCount + 1 /\ r[2] \in BOOLEAN
        /\ UNCHANGED <<agent, reports>>
    BY <1>6, PendingFinite DEF Response, RoundInv, Waiting, TypeOK
  <2>1. x \in Agents
    BY DEF TypeOK, Posts
  <2>2. /\ \A a \in Agents : a # x => dispatch'[a] = dispatch[a]
        /\ dispatch'[x] = IF r[2] THEN "INPROGESS" ELSE "FAILED"
    BY <1>6, <2>1 DEF Response, Answered, TypeOK
  <2>3. \A a \in Agents : dispatch'[a] = "INPROGESS" /\ (a \notin Pending \/ a = x) => Good(a)
    BY <2>0, <2>2 DEF AgentInv
  <2>4. \A a \in Agents : (Created(a) <=> Created(a)') /\ (Awaited(a) <=> Awaited(a)')
    BY <2>0 DEF Created, Awaited
  <2>5. CASE EndTask("FAILED")
    BY <2>5, AgentOver DEF EndTask
  <2>6. CASE AllAnswered(succ, fail) /\ at = "creating" /\ StartTask(dispatch')
    <3>1. Pending = {x} /\ posts = {} /\ agentRsp' = {}
      BY <2>0, <2>6, LastPending DEF AllAnswered
    <3>2. posts' = To(Chain(dispatch'), "start", round)
      BY <2>6, <3>1 DEF StartTask, To
    <3>3. Pending' = Chain(dispatch')
      BY <3>1, <3>2, PostsOf
    <3>4. \A p \in posts' : p[1] \in Chain(dispatch')
      BY <3>2 DEF To
    <3>5. \A a \in Chain(dispatch') : Created(a)'
      BY <2>3, <2>4, <2>6, <3>1 DEF Chain, Good
    <3>6. \A a \in Agents : dispatch'[a] = "INPROGESS" => a \in Pending'
      BY <3>3 DEF Chain
    <3> QED
      BY <2>6, <3>1, <3>4, <3>5, <3>6 DEF StartTask, AgentInv, Waiting, Selecting
  <2>7. CASE at = "starting" /\ AllAnswered(succ, fail) /\ at' = "select" /\ UNCHANGED status
    <3>1. Pending = {x}
      BY <2>0, <2>7, LastPending DEF AllAnswered
    <3>2. \A a \in Agents : dispatch'[a] = "INPROGESS" => Awaited(a)'
      BY <2>3, <2>4, <2>7, <3>1 DEF Good
    <3> QED
      BY <2>7, <3>2 DEF AgentInv, Waiting, Selecting, Good
  <2>8. CASE UNCHANGED <<at, posts>>
    <3>1. Pending' = Pending \ {x}
      BY <2>0, <2>8, Received1
    <3>2. \A a \in Agents : Good(a) => Good(a)'
      BY <2>4, <2>8 DEF Good
    <3>3. \A q \in agentRsp : q[1][1] \in Agents
      BY DEF TypeOK, Posts
    <3>4. \A p \in posts : p[1] \in Agents
      BY DEF TypeOK, Posts
    <3> QED
      BY <2>0, <2>3, <2>4, <2>8, <3>1, <3>2, <3>3, <3>4 DEF AgentInv, Waiting, Selecting
  <2> QED
    BY <1>6, <2>5, <2>6, <2>7, <2>8 DEF Response
<1>7. ASSUME NEW h \in Cancels, Stop(h) PROVE AgentInv'
  BY <1>7, AgentOver DEF Stop, StopAll, EndTask
<1>8. ASSUME NEW h \in Queries, Query(h) PROVE AgentInv'
  BY <1>8, RoundFrame, AgentFrame DEF Query, Created, Awaited
<1>9. ASSUME NEW h \in Resubmits, Compare(h) PROVE AgentInv'
  <2>1. CASE at' # "select"
    BY <1>9, <2>1, AgentOver DEF Compare, Selecting
  <2>2. CASE at' = "select"
    <3>1. UNCHANGED <<at, status, dispatch, round, counts, posts, agentRsp, agent, reports>>
      BY <1>9, <2>2 DEF Compare, Selecting
    <3> QED
      BY <3>1, RoundFrame, AgentFrame DEF Created, Awaited
  <2> QED
    BY <2>1, <2>2
<1>10. ASSUME NEW r \in reports, Report(r) PROVE AgentInv'
  <2>1. CASE StopAll("COMPLETED")
    BY <2>1, AgentOver DEF StopAll, EndTask
  <2>2. CASE UNCHANGED <<at, status>>
    <3>1. at = "select" /\ r \in Agents \X {100, -1}
      BY <1>10 DEF Report, Selecting, TypeOK
    <3>2. dispatch' = [dispatch EXCEPT ![r[1]] = IF r[2] = 100 THEN "COMPLETED" ELSE "FAILED"]
      BY <1>10 DEF Report, Reported
    <3>3. reports' = reports \ {r} /\ UNCHANGED <<posts, agentRsp, agent>>
      BY <1>10 DEF Report
    <3>4. Pending' = Pending
      BY <3>3 DEF Pending
    <3>5. \A a \in Agents : dispatch'[a] = "INPROGESS" =>
              a # r[1] /\ dispatch[a] = "INPROGESS"
      BY <3>1, <3>2 DEF TypeOK
    <3>6. \A a \in Agents : a # r[1] /\ Awaited(a) => Awaited(a)'
      BY <3>3 DEF Awaited
    <3> QED
      BY <2>2, <3>1, <3>4, <3>5, <3>6 DEF AgentInv, Waiting, Selecting, Good
  <2> QED
    BY <1>10, <2>1, <2>2 DEF Report
<1>11. ASSUME NEW h \in Handlers, Call(h) PROVE AgentInv'
  BY <1>11, RoundFrame, AgentFrame DEF Call, Created, Awaited
<1>12. ASSUME NEW p \in posts, Post(p) PROVE AgentInv'
  <2>0. /\ Waiting /\ PendingInv /\ Pending' = Pending /\ posts' = posts \ {p}
        /\ UNCHANGED <<at, status, dispatch, reports>>
        /\ p[1] \in Agents /\ p[1] \in Pending /\ p = <<p[1], Phase, round>>
    BY <1>12, PostPending DEF Post, RoundInv, PendingInv, Pending, TypeOK, Posts
  <2>1. PICK b \in BOOLEAN : agentRsp' = agentRsp \cup {<<p, b>>} /\ (b => Received(p))
    BY <1>12 DEF Post
  <2>2. Received(p) \/ UNCHANGED agent
    BY <1>12 DEF Post
  <2>3. \A a \in Agents : a # p[1] => agent'[a] = agent[a]
    BY <2>2 DEF Received, TypeOK
  <2>4. \A a \in Agents : a # p[1] =>
            (Good(a) => Good(a)') /\ (Created(a) => Created(a)')
    BY <2>0, <2>3 DEF Good, Created, Awaited
  <2>5. \A q \in posts' : q[1] \in Agents /\ q[1] # p[1] /\ q \in posts
    <3> SUFFICES ASSUME NEW q \in posts' PROVE q[1] \in Agents /\ q[1] # p[1] /\ q \in posts
      OBVIOUS
    <3>1. q \in posts /\ q # p /\ q = <<q[1], Phase, round>> /\ q[1] \in Agents
      BY <2>0 DEF PendingInv, TypeOK, Posts
    <3> QED
      BY <2>0, <3>1
  <2>6. \A r \in agentRsp : r[1][1] \in Agents /\ r[1][1] # p[1]
    BY <2>0 DEF PendingInv, TypeOK, Posts
  <2>7. b => Good(p[1])'
    <3> SUFFICES ASSUME b PROVE Good(p[1])'
      OBVIOUS
    <3>1. agent'[p[1]] = IF p[2] = "create" THEN "created"
                         ELSE IF agent[p[1]] = "created" THEN "started" ELSE agent[p[1]]
      BY <2>0, <2>1 DEF Received, TypeOK
    <3>2. CASE at = "creating"
      BY <2>0, <3>1, <3>2 DEF Good, Created, Phase
    <3>3. CASE at = "starting"
      <4>1. Created(p[1]) /\ p[2] # "create"
        BY <2>0, <3>3 DEF AgentInv, Phase
      <4> QED
        BY <2>0, <3>1, <3>3, <4>1 DEF Good, Created, Awaited
    <3> QED
      BY <2>0, <3>2, <3>3 DEF Waiting
  <2>8. \A r \in agentRsp' : r[2] => Good(r[1][1])'
    <3> SUFFICES ASSUME NEW r \in agentRsp', r[2] PROVE Good(r[1][1])'
      OBVIOUS
    <3>1. CASE r \in agentRsp
      BY <2>0, <2>4, <2>6, <3>1 DEF AgentInv
    <3>2. CASE r = <<p, b>>
      BY <2>7, <3>2
    <3> QED
      BY <2>1, <3>1, <3>2
  <2>9. at = "starting" => \A q \in posts' : Created(q[1])'
    BY <2>4, <2>5 DEF AgentInv
  <2> QED
    BY <2>0, <2>4, <2>8, <2>9 DEF AgentInv, Waiting, Selecting
<1>13. ASSUME NEW r \in reports, ReportLost(r) PROVE AgentInv'
  <2>1. r \in Agents \X {100, -1}
    BY DEF TypeOK
  <2>2. ASSUME NEW a \in Agents
        PROVE  (Created(a) => Created(a)') /\ (Awaited(a) => Awaited(a)')
    <3>1. agent'[a] = IF a = r[1] /\ agent[a] = "finished" /\ r[2] = 100
                      THEN "unheard" ELSE agent[a]
      BY <1>13, <2>1 DEF ReportLost, TypeOK
    <3>2. <<a, 100>> \in reports /\ <<a, 100>> \notin reports' => a = r[1] /\ r[2] = 100
      BY <1>13, <2>1 DEF ReportLost
    <3> QED
      BY <3>1, <3>2 DEF Created, Awaited
  <2> QED
    BY <1>13, <2>2, RoundFrame, AgentFrame DEF ReportLost
<1>14. ASSUME NEW x \in Agents, Delete(x) PROVE AgentInv'
  <2>1. ASSUME NEW a \in Agents
        PROVE  (Created(a) => Created(a)') /\ (Awaited(a) => Awaited(a)')
    BY <1>14 DEF Delete, TypeOK, Created, Awaited
  <2> QED
    BY <1>14, <2>1, RoundFrame, AgentFrame DEF Delete
<1>15. ASSUME NEW x \in Agents, AgentFinishes(x) PROVE AgentInv'
  <2>1. ASSUME NEW a \in Agents
        PROVE  (Created(a) => Created(a)') /\ (Awaited(a) => Awaited(a)')
    BY <1>15 DEF AgentFinishes, TypeOK, Created, Awaited
  <2> QED
    BY <1>15, <2>1, RoundFrame, AgentFrame DEF AgentFinishes
<1>16. ASSUME NEW x \in Agents, AgentFails(x) PROVE AgentInv'
  BY <1>16, RoundFrame, AgentFrame DEF AgentFails, Created, Awaited
<1> QED
  BY <1>1, <1>2, <1>3, <1>4, <1>5, <1>6, <1>7, <1>8, <1>9, <1>10, <1>11, <1>12, <1>13, <1>14, <1>15, <1>16 DEF Next, Goroutine, Environment, Answers, Stop, Query, Compare

-----------------------------------------------------------------------------
(* The theorems.                                                           *)

\* initially, and after every step
LEMMA InitInv == Init => IInv
<1>1. Init => AgentInv
  BY DEF Init, AgentInv, Waiting, Selecting
<1> QED
  BY <1>1, InitTyped, InitRound, InitAnswer DEF IInv

LEMMA Unmoved == UNCHANGED vars => \A a : (Created(a) => Created(a)') /\ (Awaited(a) => Awaited(a)')
BY DEF vars, network, Created, Awaited

LEMMA StepInv == IInv /\ [Next]_vars => IInv'
<1> SUFFICES ASSUME IInv, [Next]_vars PROVE IInv'
  OBVIOUS
<1>1. CASE Next
  <2>1. "late" \notin Faults => RoundInv' /\ AnswerInv' /\ AgentInv'
    BY <1>1, RoundStep, AnswerStep, AgentStep DEF IInv
  <2>2. Sum'
    BY <2>1 DEF Sum, RoundInv
  <2> QED
    BY <1>1, <2>1, <2>2, TypeStep DEF IInv
<1>2. CASE UNCHANGED vars
  <2>1. TypeOK'
    BY <1>2 DEF IInv, TypeOK, vars, task, counts, network
  <2>2. "late" \notin Faults => RoundInv' /\ AnswerInv' /\ AgentInv'
    BY <1>2, RoundFrame, AnswerFrame, AgentFrame, Unmoved DEF IInv, vars, task, counts, network
  <2> QED
    BY <2>1, <2>2 DEF IInv
<1> QED
  BY <1>1, <1>2

\* so always
LEMMA InvAlways == Spec => []IInv
BY InitInv, StepInv, PTL DEF Spec

\* TaskInfo, its counts and the channels keep their types, and no more
\* answers are counted in a round than it has agents.
THEOREM Typing == Spec => []TypeOK
<1>1. IInv => TypeOK
  BY DEF IInv
<1> QED
  BY <1>1, InvAlways, PTL

\* Rounds are separate when every HTTP request ends before the wait for it:
\* createTask and startTask leave no answer behind.
THEOREM RoundsSeparateAlways == "late" \notin Faults => (Spec => []RoundsSeparate)
<1> SUFFICES ASSUME "late" \notin Faults PROVE Spec => []RoundsSeparate
  OBVIOUS
<1>1. IInv => RoundsSeparate
  BY DEF IInv, RoundInv, Waiting, RoundsSeparate
<1> QED
  BY <1>1, InvAlways, PTL

\* Then, too, nobody is started before everybody's creation is answered,
THEOREM CreatesFirstAlways == "late" \notin Faults => (Spec => []CreatesFirst)
<1> SUFFICES ASSUME "late" \notin Faults PROVE Spec => []CreatesFirst
  OBVIOUS
<1>1. IInv => CreatesFirst
  <2> SUFFICES ASSUME RoundInv, NEW p \in posts, NEW q \in posts PROVE p[2] = q[2]
    BY DEF IInv, CreatesFirst
  <2>1. p = <<p[1], Phase, round>> /\ q = <<q[1], Phase, round>>
    BY DEF RoundInv, PendingInv
  <2> QED
    BY <2>1
<1> QED
  BY <1>1, InvAlways, PTL

\* and the agents that a task in progress waits for were started and have
\* still to report, but for a report lost and a session stopped too late.
THEOREM StillAwaitedAlways == "late" \notin Faults => (Spec => []StillAwaited)
<1> SUFFICES ASSUME "late" \notin Faults PROVE Spec => []StillAwaited
  OBVIOUS
<1>1. IInv => StillAwaited
  <2> SUFFICES ASSUME RoundInv, AnswerInv, AgentInv, Selecting, status = "INPROGESS",
                      NEW a \in Agents, dispatch[a] = "INPROGESS"
               PROVE  Awaited(a)
    BY DEF IInv, AnswerInv, SomeAwaited, StillAwaited
  <2>1. Pending = {}
    BY DEF RoundInv, Waiting, Selecting, Pending
  <2> QED
    BY <2>1 DEF AgentInv, Good, Selecting
<1> QED
  BY <1>1, InvAlways, PTL

-----------------------------------------------------------------------------
(* What is over expires, also when requests outlast the waits for them.      *)

\* an end that is reached by a wait sets the status and the lifetime together
EndInv == (Waiting => status = "INPROGESS") /\ EndedExpires

LEMMA EndStep == EndInv /\ [Next]_vars => EndInv'
<1> SUFFICES ASSUME EndInv, [Next]_vars PROVE EndInv'
  OBVIOUS
<1> USE DEF EndInv, EndedExpires, Waiting, Selecting, task, counts, network
<1>0. ASSUME NEW ts, EndTask(ts) PROVE EndInv'
  BY <1>0 DEF EndTask
<1>1. CASE MetaFails
  BY <1>0, <1>1 DEF MetaFails
<1>2. CASE CreateTask
  BY <1>2 DEF CreateTask
<1>3. CASE WaitTimeout
  BY <1>0, <1>3 DEF WaitTimeout
<1>4. CASE Quit
  BY <1>4 DEF Quit
<1>5. ASSUME NEW r \in agentRsp, Response(r) PROVE EndInv'
  <2>1. status = "INPROGESS"
    BY <1>5 DEF Response
  <2>2. EndTask("FAILED") \/ UNCHANGED status
    BY <1>5 DEF Response
  <2> QED
    BY <1>0, <2>1, <2>2
<1>6. ASSUME NEW h \in Handlers, Stop(h) PROVE EndInv'
  BY <1>0, <1>6 DEF Stop, StopAll
<1>7. ASSUME NEW h \in Handlers, Query(h) PROVE EndInv'
  BY <1>7 DEF Query
<1>8. ASSUME NEW h \in Handlers, Compare(h) PROVE EndInv'
  BY <1>8 DEF Compare
<1>9. ASSUME NEW r \in reports, Report(r) PROVE EndInv'
  BY <1>0, <1>9 DEF Report, StopAll
<1>10. CASE Expire
  BY <1>10 DEF Expire
<1>11. CASE Environment /\ ~Expire
  BY <1>11 DEF Environment, Call, Post, ReportLost, Delete, AgentFinishes, AgentFails
<1>12. CASE UNCHANGED vars
  BY <1>12 DEF vars
<1> QED
  BY <1>1, <1>2, <1>3, <1>4, <1>5, <1>6, <1>7, <1>8, <1>9, <1>10, <1>11, <1>12
  DEF Next, Goroutine, Environment, Answers

\* Whatever ends a task, its entry is on its way out of the cache, under every
\* fault of the model.
THEOREM EndedExpiresAlways == Spec => []EndedExpires
<1>1. Init => EndInv
  BY DEF Init, EndInv, EndedExpires, Waiting, Selecting
<1>2. EndInv => EndedExpires
  BY DEF EndInv
<1> QED
  BY <1>1, <1>2, EndStep, PTL DEF Spec
==============================================================================
