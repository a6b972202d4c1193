------------------------------- MODULE Reporter -------------------------------
(***************************************************************************)
(* What an agent's session does about its progress: goroutines that report *)
(* it and have the files deployed, the two channels they send on, the two  *)
(* goroutines that serve these (src/p2p/report.go, deploy.go), and         *)
(* shutdown, which closes the channels.  A send on a closed channel        *)
(* panics, and the agent's process with all its sessions is gone.          *)
(*                                                                         *)
(* The archive that is deployed was packed from items that may have        *)
(* changed meanwhile (Archive); its transfer is Transfer's.                *)
(***************************************************************************)
EXTENDS Archive, FiniteSets

CONSTANTS
  Total,           \* pieces of the task
  Step,            \* reportStep grows by this (10)
  ChanCap,         \* room in reportChan (20)
  Names,           \* files and directories
  Packings,        \* sequences of items
  Leftovers,       \* what may lie where an archive is unpacked
  MaxBad, MaxStarts, \* bounds: bad pieces, sessions of the task
  Faults, None

FaultKinds == {"lost", "misnamed", "kill"}

ASSUME CountsAssumption == Total \in Nat \ {0} /\ Step \in Nat \ {0}
ASSUME RoomAssumption == ChanCap \in Nat /\ 99 + 2 * Step < ChanCap * Step
ASSUME NoneAssumption == None \notin Nat \X (-1 .. 100)
ASSUME FaultsAssumption == Faults \subseteq FaultKinds
\* a walk through a directory comes to each name once
ASSUME PackingsAssumption ==
  \A p \in Packings :
    /\ p \in Seq(Entries(Names))
    /\ \A i, j \in DOMAIN p : p[i].name = p[j].name => i = j

VARIABLES
  phase,           \* the session: "new", "running", "ended"; "dead" with its process
  good,            \* goodPieces
  reportStep,
  bad, starts,     \* bad pieces, sessions so far
  begun,           \* reports begun; they are numbered
  going,           \* goroutines still to send: <<number, percent>>
  reportChan,
  reporter,        \* "running", "ended"
  posting,         \* the report it is posting, or None
  status, lost,    \* this agent at the server; whether a report was lost
  items,           \* what the packer found; <<>> for a file type that is not unpacked
  deploy,          \* "none", "going", "queued", "unpacking", "done", "broken"
  deployer,        \* "running", "ended"
  closed,          \* the channels that are closed
  todo, tree       \* entries still to unpack; the directory they go to

session == <<phase, good, reportStep, bad, starts>>
reports == <<begun, going, reportChan, reporter, posting, status, lost>>
deployment == <<items, deploy, deployer, todo, tree>>
vars == <<session, reports, deployment, closed>>

Reports == Nat \X (-1 .. 100)

TypeOK ==
  /\ phase \in {"new", "running", "ended", "dead"}
  /\ good \in 0 .. Total /\ bad \in Nat /\ starts \in Nat /\ begun \in Nat
  /\ reportStep \in 0 .. 99 + Step
  /\ going \subseteq Reports /\ reportChan \in Seq(Reports)
  /\ Len(reportChan) <= ChanCap
  /\ reporter \in {"running", "ended"} /\ posting \in Reports \cup {None}
  /\ status \in {"INPROGRESS", "COMPLETED", "FAILED"} /\ lost \in BOOLEAN
  /\ deploy \in {"none", "going", "queued", "unpacking", "done", "broken"}
  /\ deployer \in {"running", "ended"}
  /\ closed \subseteq {"reports", "deploys"}

Init ==
  /\ phase = "new" /\ good = 0 /\ reportStep = 0 /\ bad = 0 /\ starts = 1
  /\ begun = 0 /\ going = {} /\ reportChan = <<>>
  /\ reporter = "running" /\ posting = None
  /\ status = "INPROGRESS" /\ lost = FALSE
  /\ items \in Packings
  /\ deploy = "none" /\ deployer = "running" /\ todo = <<>>
  /\ tree \in {[n \in Names |-> data] : data \in Leftovers}
  /\ closed = {}

-----------------------------------------------------------------------------
(* The session.                                                              *)

\* go s.reportStatus
Report(percent) ==
  /\ begun' = begun + 1
  /\ going' = going \cup {<<begun', percent>>}

\* startImp: a task that is complete is reported, and not deployed
Start ==
  /\ phase = "new" /\ phase' = "running"
  /\ IF good = Total THEN Report(100) ELSE UNCHANGED <<begun, going>>
  /\ UNCHANGED <<good, reportStep, bad, starts, reportChan, reporter, posting, status, lost,
                 deployment, closed>>

\* mutant: one piece too many counted
PercentAhead(g) == ((g + 1) * 100) \div Total

\* int(percentComplete)
Percent(g) == (g * 100) \div Total

\* mutants: a report for every piece; the last piece is a piece like others
TellEach(g) ==
  Report(Percent(g)) /\ deploy' = (IF g = Total THEN "going" ELSE deploy) /\ UNCHANGED reportStep
TellSteps(g) ==
  /\ deploy' = IF g = Total THEN "going" ELSE deploy
  /\ IF Percent(g) > reportStep
     THEN Report(Percent(g)) /\ reportStep' = reportStep + Step
     ELSE UNCHANGED <<begun, going, reportStep>>

\* recordBlock: the last piece is reported and has the files deployed; before
\* it only steps of the percentage are reported
Tell(g) ==
  \/ /\ g = Total
     /\ Report(Percent(g)) /\ deploy' = "going"
     /\ UNCHANGED reportStep
  \/ /\ g # Total /\ Percent(g) > reportStep
     /\ Report(Percent(g)) /\ reportStep' = reportStep + Step
     /\ UNCHANGED deploy
  \/ /\ g # Total /\ Percent(g) <= reportStep
     /\ UNCHANGED <<begun, going, reportStep, deploy>>

PieceGood ==
  /\ phase = "running" /\ good < Total
  /\ good' = good + 1
  /\ Tell(good')
  /\ UNCHANGED <<phase, bad, starts, reportChan, reporter, posting, status, lost, items,
                 deployer, todo, tree, closed>>

PieceBad ==
  /\ phase = "running" /\ good < Total /\ bad < MaxBad
  /\ bad' = bad + 1
  /\ Report(-1)
  /\ UNCHANGED <<phase, good, reportStep, starts, reportChan, reporter, posting, status, lost,
                 deployment, closed>>

\* mutant: the deployer is forgotten
ShutdownHalf == closed' = {"reports"}

\* shutdown closes both
Shutdown == closed' = {"reports", "deploys"}

Quit ==
  /\ phase \in {"new", "running"} /\ phase' = "ended"
  /\ Shutdown
  /\ UNCHANGED <<good, reportStep, bad, starts, reports, deployment>>

\* NewTaskSession makes the channels and the goroutines; what was in those of
\* the session before is gone
Afresh ==
  /\ reportStep' = 0 /\ begun' = 0 /\ going' = {} /\ reportChan' = <<>>
  /\ reporter' = "running" /\ posting' = None
  /\ deploy' = "none" /\ deployer' = "running" /\ todo' = <<>> /\ closed' = {}

\* the process with all of them
Dies ==
  /\ phase' = "dead"
  /\ Afresh
  /\ UNCHANGED <<good, bad, starts, status, lost, items, tree>>

Kill == "kill" \in Faults /\ phase # "dead" /\ Dies

\* Another session of the task, in this process when nothing of the last one
\* runs any more, or in a new one; it finds the pieces that were good
\* (Transfer).
Restart ==
  /\ phase \in {"ended", "dead"} /\ starts < MaxStarts
  /\ phase = "ended" =>
       going = {} /\ deploy # "going" /\ reporter = "ended" /\ deployer = "ended"
  /\ starts' = starts + 1 /\ phase' = "new"
  /\ Afresh /\ status' = "INPROGRESS" /\ lost' = FALSE
  /\ UNCHANGED <<good, bad, items, tree>>

-----------------------------------------------------------------------------
(* The reports.                                                              *)

\* DoReport
Send(r) ==
  /\ phase # "dead" /\ r \in going /\ "reports" \notin closed
  /\ Len(reportChan) < ChanCap
  /\ going' = going \ {r} /\ reportChan' = Append(reportChan, r)
  /\ UNCHANGED <<session, begun, reporter, posting, status, lost, deployment, closed>>

\* ... or DoDeploy, on a closed channel
SendClosed ==
  /\ phase # "dead"
  /\ \/ going # {} /\ "reports" \in closed
     \/ deploy = "going" /\ "deploys" \in closed
  /\ Dies

\* reporter.run
Take ==
  /\ phase # "dead" /\ posting = None /\ reportChan # <<>>
  /\ posting' = Head(reportChan) /\ reportChan' = Tail(reportChan)
  /\ UNCHANGED <<session, begun, going, reporter, status, lost, deployment, closed>>

\* reportStatus of the server
Told(percent) == CASE percent = 100 -> "COMPLETED"
                   [] percent = -1  -> "FAILED"
                   [] OTHER         -> status

\* reportImp: a report that fails is logged
Post ==
  /\ phase # "dead" /\ posting # None
  /\ \/ status' = Told(posting[2]) /\ UNCHANGED lost
     \/ "lost" \in Faults /\ lost' = TRUE /\ UNCHANGED status
  /\ posting' = None
  /\ UNCHANGED <<session, begun, going, reportChan, reporter, deployment, closed>>

ReporterEnds ==
  /\ phase # "dead" /\ reporter = "running"
  /\ posting = None /\ reportChan = <<>> /\ "reports" \in closed
  /\ reporter' = "ended"
  /\ UNCHANGED <<session, begun, going, reportChan, posting, status, lost, deployment, closed>>

-----------------------------------------------------------------------------
(* The deployment.                                                           *)

\* DoDeploy
SendDeploy ==
  /\ phase # "dead" /\ deploy = "going" /\ "deploys" \notin closed
  /\ deploy' = "queued"
  /\ UNCHANGED <<session, reports, items, deployer, todo, tree, closed>>

\* mutant: what is queued when the channel is closed is left
TakeOpen ==
  /\ phase # "dead" /\ deploy = "queued" /\ closed = {}
  /\ deploy' = "unpacking"
  /\ todo' = Pack(items)
  /\ UNCHANGED <<session, reports, items, deployer, tree, closed>>

\* deployer.run and deployImp
TakeDeploy ==
  /\ phase # "dead" /\ deploy = "queued"
  /\ deploy' = "unpacking"
  /\ todo' = Pack(items)
  /\ UNCHANGED <<session, reports, items, deployer, tree, closed>>

\* The file is not named <gid>_<version>.tar.gz: what gzip.NewReader returns
\* with its error is nil, and is read from.
Misnamed ==
  /\ "misnamed" \in Faults /\ phase # "dead" /\ deploy = "queued" /\ items # <<>>
  /\ Dies

\* UnTarGz, one entry
Unpack ==
  /\ phase # "dead" /\ deploy = "unpacking" /\ todo # <<>>
  /\ tree' = Unpacked(tree, Head(todo))
  /\ IF Whole(Head(todo)) THEN todo' = Tail(todo) /\ UNCHANGED deploy
                          ELSE todo' = <<>> /\ deploy' = "broken"
  /\ UNCHANGED <<session, reports, items, deployer, closed>>

Deployed ==
  /\ phase # "dead" /\ deploy = "unpacking" /\ todo = <<>>
  /\ deploy' = "done"
  /\ UNCHANGED <<session, reports, items, deployer, todo, tree, closed>>

DeployerEnds ==
  /\ phase # "dead" /\ deployer = "running" /\ deploy \notin {"queued", "unpacking"}
  /\ "deploys" \in closed
  /\ deployer' = "ended"
  /\ UNCHANGED <<session, reports, items, deploy, todo, tree, closed>>

Goroutines ==
  \/ \E r \in going : Send(r)
  \/ SendClosed \/ SendDeploy

Next ==
  \/ Start \/ PieceGood \/ PieceBad \/ Quit \/ Kill \/ Restart
  \/ Goroutines \/ Take \/ Post \/ ReporterEnds
  \/ TakeDeploy \/ Misnamed \/ Unpack \/ Deployed \/ DeployerEnds

Spec == Init /\ [][Next]_vars

\* the goroutines run on; no piece has to come and nobody has to quit
FairSpec ==
  /\ Spec
  /\ WF_vars(Goroutines)
  /\ WF_vars(Take \/ Post \/ ReporterEnds)
  /\ WF_vars(TakeDeploy \/ Unpack \/ Deployed \/ DeployerEnds)

-----------------------------------------------------------------------------
\* The server takes an agent for completed only if it has every piece,
\* whatever overtakes what on the way from recordBlock to reportStatus.
CompletedWhole == status = "COMPLETED" => good = Total

\* session.go:522: reports are few enough that no goroutine of a session
\* without bad pieces ever waits for room in the channel.
RoomForAll == bad = 0 => Cardinality(going) + Len(reportChan) < ChanCap

\* Once nothing is under way and nothing was lost, the server knows that the
\* agent is complete; a report of a bad piece may have come behind it.
WordArrived ==
  /\ phase = "running" /\ good = Total /\ ~lost /\ bad = 0
  /\ going = {} /\ reportChan = <<>> /\ posting = None
  => status = "COMPLETED"

\* deploy.go:55: what is deployed is what was packed, at least up to the first
\* item that came short; what lay in its place before is gone.
DeployedRight ==
  deploy = "done" =>
    \A i \in Sound(items) : tree[items[i].name] = Cut(items[i].data, items[i].size)

\* A deployment that was begun is carried out, even when the session quits
\* behind it, unless the process dies.
Deploys == deploy = "going" ~> deploy \in {"done", "broken"} \/ phase = "dead"

\* Both goroutines of a session that has quit end, with nothing left undone.
BothEnd ==
  phase = "ended" ~> \/ phase = "dead"
                     \/ reporter = "ended" /\ deployer = "ended" /\ reportChan = <<>>
==============================================================================
