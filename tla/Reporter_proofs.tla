--------------------------- MODULE Reporter_proofs ---------------------------
(***************************************************************************)
(* The reports of a session, for any number of pieces, any step of the     *)
(* percentage and any room in the channel that is enough for the steps;    *)
(* and what is deployed, for any files and whatever they do meanwhile.     *)
(***************************************************************************)
EXTENDS Reporter, FiniteSetTheorems, SequenceTheorems, WellFoundedInduction, TLAPS

\* reports on their way from recordBlock to the server
Pending == going \cup {reportChan[i] : i \in 1 .. Len(reportChan)} \cup ({posting} \ {None})

\* a report of 100 % is sent by a session that has every piece
TrueReports == \A r \in Pending : r[2] = 100 => good = Total

\* each report of progress has raised reportStep, and there is one of the end
CountedReports ==
  /\ bad = 0 => begun * Step <= reportStep + (IF good = Total THEN Step ELSE 0)
  /\ phase = "new" => begun = 0 /\ reportStep = 0
  /\ IsFiniteSet(going) /\ Cardinality(going) + Len(reportChan) <= begun

Inv == TypeOK /\ CompletedWhole /\ TrueReports /\ CountedReports

\* A percentage is 100 for all pieces only.
LEMMA PercentOf ==
  ASSUME NEW g \in 0 .. Total
  PROVE  /\ Percent(g) \in 0 .. 100
         /\ g # Total => Percent(g) <= 99
  <1> DEFINE q == (g * 100) \div Total
  <1>1. q \in Int /\ Total * q <= g * 100 /\ g * 100 < Total * (q + 1)
    BY CountsAssumption
  <1>2. q >= 0
    BY <1>1, CountsAssumption
  <1>3. q <= 100
    BY <1>1, CountsAssumption
  <1>4. ASSUME g # Total PROVE q <= 99
    BY <1>1, <1>4, CountsAssumption
  <1>. QED BY <1>1, <1>2, <1>3, <1>4 DEF Percent

\* what is told of a report that is on its way
LEMMA ToldOf ==
  ASSUME NEW p, status \in {"INPROGRESS", "COMPLETED", "FAILED"}
  PROVE  /\ Told(p) \in {"INPROGRESS", "COMPLETED", "FAILED"}
         /\ Told(p) = "COMPLETED" => p = 100 \/ status = "COMPLETED"
BY DEF Told

LEMMA Begins == Init => Inv
<1> SUFFICES ASSUME Init PROVE Inv
  OBVIOUS
<1>1. IsFiniteSet({}) /\ Cardinality({}) = 0
  BY FS_EmptySet
<1>2. 0 * Step = 0
  BY CountsAssumption
<1>3. <<>> \in Seq(Reports) /\ Len(<<>>) = 0 /\ 0 <= ChanCap
  BY RoomAssumption
<1>4. TypeOK
  <2>1. lost \in BOOLEAN
    BY Zenon DEF Init
  <2> QED
    BY <2>1, <1>3, CountsAssumption DEF Init, TypeOK
<1>5. Pending = {}
  BY <1>3 DEF Init, Pending
<1> QED
  BY <1>1, <1>2, <1>3, <1>4, <1>5, CountsAssumption
  DEF Init, Inv, CompletedWhole, TrueReports, CountedReports

\* a session made afresh has nothing under way
LEMMA AfreshKeeps ==
  ASSUME Inv, Afresh, good' = good, bad' = bad
  PROVE  /\ TrueReports' /\ CountedReports'
         /\ reportStep' = 0 /\ begun' = 0 /\ going' = {} /\ reportChan' = <<>>
<1>1. IsFiniteSet({}) /\ Cardinality({}) = 0
  BY FS_EmptySet
<1>2. 0 * Step = 0
  BY CountsAssumption
<1>3. Pending' = {}
  BY DEF Afresh, Pending
<1> QED
  BY <1>1, <1>2, <1>3, CountsAssumption
  DEF Inv, TypeOK, Afresh, TrueReports, CountedReports

LEMMA DiesKeeps == ASSUME Inv, Dies PROVE Inv'
<1>1. TrueReports' /\ CountedReports'
  BY AfreshKeeps DEF Dies
<1>2. TypeOK'
  <2>1. <<>> \in Seq(Reports) /\ Len(<<>>) = 0 /\ 0 <= ChanCap
    BY RoomAssumption
  <2> QED
    BY <2>1, CountsAssumption DEF Inv, TypeOK, Dies, Afresh
<1>3. CompletedWhole'
  BY DEF Inv, CompletedWhole, Dies
<1> QED
  BY <1>1, <1>2, <1>3 DEF Inv

\* one more goroutine of a report
LEMMA ReportKeeps ==
  ASSUME Inv, NEW p \in -1 .. 100, Report(p), UNCHANGED <<reportChan, posting>>,
         good' \in Nat, good = Total => good' = Total, p = 100 => good' = Total
  PROVE  /\ TrueReports'
         /\ going' \subseteq Reports /\ begun' = begun + 1 /\ begun' \in Nat
         /\ IsFiniteSet(going') /\ Cardinality(going') + Len(reportChan') <= begun'
<1>1. begun \in Nat /\ going \subseteq Reports /\ reportChan \in Seq(Reports)
  BY DEF Inv, TypeOK
<1>2. /\ begun' = begun + 1 /\ begun' \in Nat
      /\ going' = going \cup {<<begun + 1, p>>}
      /\ <<begun + 1, p>> \in Reports
  <2>1. begun + 1 \in Nat
    BY <1>1
  <2> QED
    BY <2>1 DEF Report, Reports
<1>3. /\ IsFiniteSet(going') /\ Cardinality(going') <= Cardinality(going) + 1
      /\ Cardinality(going) \in Nat /\ Cardinality(going') \in Nat
  <2> DEFINE x == <<begun + 1, p>>
  <2>1. IsFiniteSet(going)
    BY DEF Inv, CountedReports
  <2>2. /\ IsFiniteSet(going \cup {x})
        /\ Cardinality(going \cup {x}) =
             IF x \in going THEN Cardinality(going) ELSE Cardinality(going) + 1
    BY <2>1, FS_AddElement
  <2>3. Cardinality(going) \in Nat
    BY <2>1, FS_CardinalityType
  <2> QED
    BY <1>2, <2>2, <2>3
<1>4. Pending' \subseteq Pending \cup {<<begun + 1, p>>}
  BY <1>2 DEF Pending
<1>5. TrueReports'
  BY <1>4 DEF TrueReports, Inv
<1> QED
  BY <1>1, <1>2, <1>3, <1>5 DEF Inv, CountedReports

LEMMA StartKeeps == ASSUME Inv, Start PROVE Inv'
<1>1. CASE good = Total
  <2>1. /\ TrueReports' /\ going' \subseteq Reports /\ begun' = begun + 1 /\ begun' \in Nat
        /\ IsFiniteSet(going') /\ Cardinality(going') + Len(reportChan') <= begun'
    BY <1>1, ReportKeeps DEF Start, Inv, TypeOK
  <2>2. 1 * Step = Step /\ begun = 0 /\ reportStep = 0
    BY CountsAssumption DEF Start, Inv, CountedReports
  <2>3. CountedReports'
    BY <1>1, <2>1, <2>2, CountsAssumption DEF Start, CountedReports
  <2> QED
    BY <2>1, <2>3 DEF Start, Inv, TypeOK, CompletedWhole, deployment
<1>2. CASE good # Total
  BY <1>2 DEF Start, Inv, TypeOK, CompletedWhole, TrueReports, Pending, CountedReports, deployment
<1> QED
  BY <1>1, <1>2

\* recordBlock: the arithmetic of the steps
LEMMA PieceGoodKeeps == ASSUME Inv, PieceGood PROVE Inv'
<1> DEFINE g == good + 1
<1>0. /\ good \in 0 .. Total /\ g \in 0 .. Total /\ good' = g /\ good # Total /\ begun \in Nat
      /\ bad \in Nat /\ reportStep \in 0 .. 99 + Step /\ Step \in Nat /\ Total \in Nat
  BY CountsAssumption DEF Inv, TypeOK, PieceGood
<1>1. Percent(g) \in 0 .. 100 /\ (g # Total => Percent(g) <= 99)
  BY <1>0, PercentOf
<1>2. (begun + 1) * Step = begun * Step + Step /\ begun * Step \in Nat
  BY <1>0
<1>3. CASE g = Total /\ Report(Percent(g)) /\ deploy' = "going" /\ UNCHANGED reportStep
  <2>1. /\ TrueReports' /\ going' \subseteq Reports /\ begun' = begun + 1 /\ begun' \in Nat
        /\ IsFiniteSet(going') /\ Cardinality(going') + Len(reportChan') <= begun'
    <3>1. Percent(g) \in -1 .. 100 /\ UNCHANGED <<reportChan, posting>> /\ good' \in Nat
      BY <1>0, <1>1 DEF PieceGood
    <3> QED
      BY <1>0, <1>3, <3>1, ReportKeeps
  <2>2. CountedReports'
    BY <1>0, <1>2, <1>3, <2>1 DEF PieceGood, CountedReports, Inv
  <2> QED
    BY <1>0, <1>3, <2>1, <2>2 DEF PieceGood, Inv, TypeOK, CompletedWhole
<1>4. CASE /\ g # Total /\ Percent(g) > reportStep
           /\ Report(Percent(g)) /\ reportStep' = reportStep + Step /\ UNCHANGED deploy
  <2>1. /\ TrueReports' /\ going' \subseteq Reports /\ begun' = begun + 1 /\ begun' \in Nat
        /\ IsFiniteSet(going') /\ Cardinality(going') + Len(reportChan') <= begun'
    <3>1. /\ Percent(g) \in -1 .. 100 /\ Percent(g) # 100
          /\ UNCHANGED <<reportChan, posting>> /\ good' \in Nat
      BY <1>0, <1>1, <1>4 DEF PieceGood
    <3> QED
      BY <1>0, <1>4, <3>1, ReportKeeps
  <2>2. CountedReports'
    BY <1>0, <1>2, <1>4, <2>1 DEF PieceGood, CountedReports, Inv
  <2>3. reportStep' \in 0 .. 99 + Step
    BY <1>0, <1>1, <1>4
  <2> QED
    BY <1>0, <1>4, <2>1, <2>2, <2>3 DEF PieceGood, Inv, TypeOK, CompletedWhole
<1>5. CASE g # Total /\ Percent(g) <= reportStep /\ UNCHANGED <<begun, going, reportStep, deploy>>
  BY <1>0, <1>5 DEF PieceGood, Inv, TypeOK, CompletedWhole, TrueReports, Pending, CountedReports
<1> QED
  BY <1>3, <1>4, <1>5 DEF PieceGood, Tell

LEMMA PieceBadKeeps == ASSUME Inv, PieceBad PROVE Inv'
<1>1. /\ TrueReports' /\ going' \subseteq Reports /\ begun' = begun + 1 /\ begun' \in Nat
      /\ IsFiniteSet(going') /\ Cardinality(going') + Len(reportChan') <= begun'
  BY ReportKeeps DEF PieceBad, Inv, TypeOK
<1>2. bad' \in Nat /\ bad' # 0
  BY DEF PieceBad, Inv, TypeOK
<1> QED
  BY <1>1, <1>2 DEF PieceBad, Inv, TypeOK, CompletedWhole, CountedReports, deployment

LEMMA SendKeeps == ASSUME Inv, NEW r \in going, Send(r) PROVE Inv'
<1>1. going \subseteq Reports /\ reportChan \in Seq(Reports) /\ r \in Reports
  BY DEF Inv, TypeOK
<1>2. /\ reportChan' \in Seq(Reports) /\ Len(reportChan') = Len(reportChan) + 1
      /\ \A i \in 1 .. Len(reportChan') : reportChan'[i] = r \/ (i \in 1 .. Len(reportChan) /\ reportChan'[i] = reportChan[i])
  BY <1>1 DEF Send
<1>3. /\ IsFiniteSet(going') /\ Cardinality(going') = Cardinality(going) - 1
      /\ Cardinality(going) \in Nat
  BY FS_RemoveElement, FS_CardinalityType DEF Send, Inv, CountedReports
<1>4. Pending' \subseteq Pending
  BY <1>2 DEF Pending, Send
<1>5. TypeOK'
  <2>1. Len(reportChan') <= ChanCap
    BY <1>1, <1>2, RoomAssumption DEF Send
  <2>2. going' \subseteq Reports
    BY <1>1 DEF Send
  <2> QED
    BY <1>2, <2>1, <2>2 DEF Send, Inv, TypeOK, session, deployment
<1>6. TrueReports'
  BY <1>4 DEF TrueReports, Inv, Send, session
<1>7. CountedReports'
  BY <1>1, <1>2, <1>3 DEF CountedReports, Inv, Send, session
<1> QED
  BY <1>5, <1>6, <1>7 DEF Inv, CompletedWhole, Send, session

LEMMA TakeKeeps == ASSUME Inv, Take PROVE Inv'
<1>1. reportChan \in Seq(Reports) /\ reportChan # <<>>
  BY DEF Inv, TypeOK, Take
<1>2. /\ Head(reportChan) = reportChan[1] /\ 1 \in 1 .. Len(reportChan) /\ reportChan[1] \in Reports
      /\ reportChan' \in Seq(Reports) /\ Len(reportChan') = Len(reportChan) - 1
      /\ \A i \in 1 .. Len(reportChan') : i + 1 \in 1 .. Len(reportChan) /\ reportChan'[i] = reportChan[i + 1]
  BY <1>1 DEF Take
<1>3. Pending' \subseteq Pending
  BY <1>2 DEF Pending, Take
<1>4. TypeOK'
  <2>1. Len(reportChan') <= ChanCap
    BY <1>1, <1>2, RoomAssumption DEF Inv, TypeOK
  <2>2. posting' \in Reports
    BY <1>2 DEF Take
  <2> QED
    BY <1>2, <2>1, <2>2 DEF Take, Inv, TypeOK, session, deployment
<1>5. TrueReports'
  BY <1>3 DEF TrueReports, Inv, Take, session
<1>6. CountedReports'
  BY <1>1, <1>2, FS_CardinalityType DEF CountedReports, Inv, TypeOK, Take, session
<1> QED
  BY <1>4, <1>5, <1>6 DEF Inv, CompletedWhole, Take, session

LEMMA PostKeeps == ASSUME Inv, Post PROVE Inv'
<1>1. posting \in Pending /\ posting \in Reports
  BY DEF Post, Pending, Inv, TypeOK
<1>2. Pending' \subseteq Pending
  BY DEF Post, Pending
<1>3. status' \in {"INPROGRESS", "COMPLETED", "FAILED"} /\ CompletedWhole'
  BY <1>1, ToldOf DEF Post, Inv, TypeOK, CompletedWhole, TrueReports, session
<1>4. TypeOK'
  BY <1>3 DEF Post, Inv, TypeOK, session, deployment
<1> QED
  BY <1>2, <1>3, <1>4 DEF Inv, TrueReports, CountedReports, Post, session

\* what concerns the deployer, or ends
LEMMA OthersKeep ==
  ASSUME Inv, Quit \/ ReporterEnds \/ SendDeploy \/ TakeDeploy \/ Unpack \/ Deployed \/ DeployerEnds
  PROVE  Inv'
<1>1. UNCHANGED <<good, reportStep, bad, begun, going, reportChan, posting, status, lost>>
  BY DEF Quit, ReporterEnds, SendDeploy, TakeDeploy, Unpack, Deployed, DeployerEnds, session, reports
<1>2. phase' = phase \/ phase' = "ended"
  BY DEF Quit, ReporterEnds, SendDeploy, TakeDeploy, Unpack, Deployed, DeployerEnds, session
<1>3. TypeOK'
  <2> USE <1>1, <1>2 DEF Inv, TypeOK
  <2>1. CASE Quit
    BY <2>1 DEF Quit, Shutdown, reports, deployment
  <2>2. CASE ReporterEnds
    BY <2>2 DEF ReporterEnds, session, deployment
  <2>3. CASE SendDeploy
    BY <2>3 DEF SendDeploy, session, reports
  <2>4. CASE TakeDeploy
    BY <2>4 DEF TakeDeploy, session, reports
  <2>5. CASE Unpack
    BY <2>5 DEF Unpack, session, reports
  <2>6. CASE Deployed
    BY <2>6 DEF Deployed, session, reports
  <2>7. CASE DeployerEnds
    BY <2>7 DEF DeployerEnds, session, reports
  <2> QED
    BY <2>1, <2>2, <2>3, <2>4, <2>5, <2>6, <2>7
<1> QED
  BY <1>1, <1>2, <1>3 DEF Inv, CompletedWhole, TrueReports, Pending, CountedReports

LEMMA RestartKeeps == ASSUME Inv, Restart PROVE Inv'
<1>1. TrueReports' /\ CountedReports'
  BY AfreshKeeps DEF Restart
<1>2. TypeOK'
  <2>1. <<>> \in Seq(Reports) /\ Len(<<>>) = 0 /\ 0 <= ChanCap
    BY RoomAssumption
  <2>2. lost' \in BOOLEAN
    BY Zenon DEF Restart
  <2> QED
    BY <2>1, <2>2, CountsAssumption DEF Inv, TypeOK, Restart, Afresh
<1> QED
  BY <1>1, <1>2 DEF Inv, CompletedWhole, Restart

LEMMA NextKeeps == Inv /\ [Next]_vars => Inv'
<1> SUFFICES ASSUME Inv, [Next]_vars PROVE Inv'
  OBVIOUS
<1>1. CASE Start
  BY <1>1, StartKeeps
<1>2. CASE PieceGood
  BY <1>2, PieceGoodKeeps
<1>3. CASE PieceBad
  BY <1>3, PieceBadKeeps
<1>4. CASE Kill \/ SendClosed \/ Misnamed
  BY <1>4, DiesKeeps DEF Kill, SendClosed, Misnamed
<1>5. CASE Restart
  BY <1>5, RestartKeeps
<1>6. CASE \E r \in going : Send(r)
  BY <1>6, SendKeeps
<1>7. CASE Take
  BY <1>7, TakeKeeps
<1>8. CASE Post
  BY <1>8, PostKeeps
<1>9. CASE Quit \/ ReporterEnds \/ SendDeploy \/ TakeDeploy \/ Unpack \/ Deployed \/ DeployerEnds
  BY <1>9, OthersKeep
<1>10. CASE UNCHANGED vars
  BY <1>10 DEF vars, session, reports, deployment, Inv, TypeOK, CompletedWhole, TrueReports,
               Pending, CountedReports
<1> QED
  BY <1>1, <1>2, <1>3, <1>4, <1>5, <1>6, <1>7, <1>8, <1>9, <1>10 DEF Next, Goroutines

LEMMA Invariance == Spec => []Inv
BY Begins, NextKeeps, PTL DEF Spec

\* The reports and channels keep their types; a percentage is 100 at most.
THEOREM Typing == Spec => []TypeOK
BY Invariance, PTL DEF Inv

\* report.go: the server is told of completion by an agent that has every
\* piece, for any number of pieces and whatever overtakes what.
THEOREM CompletedWholeAlways == Spec => []CompletedWhole
BY Invariance, PTL DEF Inv

\* session.go:522: with the steps of the percentage no report waits for room
\* in the channel.  With a step of 10 there are 11 reports at most for its 20.
THEOREM RoomForAllAlways == Spec => []RoomForAll
<1>1. Inv => RoomForAll
  <2> SUFFICES ASSUME Inv, bad = 0 PROVE Cardinality(going) + Len(reportChan) < ChanCap
    BY DEF RoomForAll
  <2>1. begun * Step <= 99 + 2 * Step /\ begun \in Nat /\ Step \in Nat \ {0}
    BY CountsAssumption DEF Inv, TypeOK, CountedReports
  <2>2. ASSUME begun >= ChanCap PROVE FALSE
    <3>1. begun * Step >= ChanCap * Step
      BY <2>1, <2>2, RoomAssumption
    <3> QED
      BY <2>1, <3>1, RoomAssumption
  <2> QED
    BY <2>1, <2>2, RoomAssumption, FS_CardinalityType DEF Inv, TypeOK, CountedReports
<1> QED
  BY Invariance, <1>1, PTL

-----------------------------------------------------------------------------
(* The last word.                                                            *)

\* reports of bad pieces are of bad pieces,
TrueFailures == bad = 0 => \A r \in Pending : r[2] # -1

\* and a session that is complete has told the server, or is about to.
WordKept ==
  phase = "running" /\ good = Total /\ ~lost /\ bad = 0 =>
    status = "COMPLETED" \/ \E r \in Pending : r[2] = 100

Word == Inv /\ TrueFailures /\ WordKept

LEMMA WordBegins == Init => Word
<1> SUFFICES ASSUME Init PROVE Word
  OBVIOUS
<1>1. Len(<<>>) = 0
  OBVIOUS
<1>2. Pending = {}
  BY <1>1 DEF Init, Pending
<1> QED
  BY <1>2, Begins DEF Init, Word, TrueFailures, WordKept

\* one more report
LEMMA ReportPending ==
  ASSUME NEW p \in -1 .. 100, Report(p), UNCHANGED <<reportChan, posting>>
  PROVE  /\ Pending' = Pending \cup {<<begun + 1, p>>}
         /\ \A r \in Pending' : r \in Pending \/ r[2] = p
         /\ \E r \in Pending' : r[2] = p
<1>1. Pending' = Pending \cup {<<begun + 1, p>>}
  BY DEF Report, Pending
<1>2. <<begun + 1, p>>[2] = p
  OBVIOUS
<1> QED
  BY <1>1, <1>2

LEMMA WordReported ==
  ASSUME Word, NEW p \in -1 .. 100, Report(p), UNCHANGED <<reportChan, posting, bad>>,
         p # -1, good' = Total => p = 100
  PROVE  TrueFailures' /\ WordKept'
BY ReportPending DEF Word, TrueFailures, WordKept

LEMMA WordStep == Word /\ [Next]_vars => Word'
<1> SUFFICES ASSUME Word, [Next]_vars PROVE TrueFailures' /\ WordKept'
  BY NextKeeps DEF Word
<1>0. Inv
  BY DEF Word
<1>1. CASE Start
  <2>1. CASE good = Total
    BY <1>1, <2>1, WordReported DEF Start
  <2>2. CASE good # Total
    BY <1>1, <2>2 DEF Start, Word, TrueFailures, WordKept, Pending
  <2> QED
    BY <2>1, <2>2
<1>2. CASE PieceGood
  <2> DEFINE g == good + 1
  <2>1. g \in 0 .. Total /\ good' = g /\ Total \in Nat \ {0}
    BY <1>0, <1>2, CountsAssumption DEF PieceGood, Inv, TypeOK
  <2>2. Percent(g) \in 0 .. 100
    BY <2>1, PercentOf
  <2>3. g = Total => Percent(g) = 100
    BY <2>1, CountsAssumption DEF Percent
  <2>4. Percent(g) \in -1 .. 100 /\ Percent(g) # -1
    BY <2>2
  <2>5. CASE Report(Percent(g))
    BY <1>2, <2>1, <2>3, <2>4, <2>5, WordReported DEF PieceGood
  <2>6. CASE g # Total /\ UNCHANGED <<begun, going, reportStep, deploy>>
    BY <1>2, <2>1, <2>6 DEF PieceGood, Word, TrueFailures, WordKept, Pending
  <2> QED
    BY <1>2, <2>5, <2>6 DEF PieceGood, Tell
<1>3. CASE PieceBad
  <2>1. bad' # 0
    BY <1>0, <1>3 DEF PieceBad, Inv, TypeOK
  <2> QED
    BY <2>1 DEF TrueFailures, WordKept
<1>4. CASE Kill \/ SendClosed \/ Misnamed \/ Restart
  <2>1. Afresh /\ phase' \in {"dead", "new"}
    BY <1>4 DEF Kill, SendClosed, Misnamed, Restart, Dies
  <2>2. Pending' = {}
    BY <2>1 DEF Afresh, Pending
  <2> QED
    BY <2>1, <2>2 DEF TrueFailures, WordKept
<1>5. CASE \E r \in going : Send(r)
  <2> PICK r \in going : Send(r)
    BY <1>5
  <2>1. reportChan \in Seq(Reports) /\ r \in Reports
    BY <1>0 DEF Inv, TypeOK
  <2>2. /\ Len(reportChan') = Len(reportChan) + 1 /\ Len(reportChan) \in Nat
        /\ reportChan'[Len(reportChan')] = r
        /\ \A i \in 1 .. Len(reportChan) : i \in 1 .. Len(reportChan') /\ reportChan'[i] = reportChan[i]
        /\ \A i \in 1 .. Len(reportChan') : reportChan'[i] = r \/ (i \in 1 .. Len(reportChan) /\ reportChan'[i] = reportChan[i])
    BY <2>1 DEF Send
  <2>3. Pending' \subseteq Pending
    BY <2>2 DEF Pending, Send
  <2>4. r \in Pending'
    BY <2>2 DEF Pending
  <2>5. Pending \subseteq Pending'
    BY <2>2, <2>4 DEF Pending, Send
  <2> QED
    BY <2>3, <2>5 DEF Send, session, Word, TrueFailures, WordKept
<1>6. CASE Take
  <2>1. reportChan \in Seq(Reports) /\ reportChan # <<>>
    BY <1>0, <1>6 DEF Take, Inv, TypeOK
  <2>2. /\ Head(reportChan) = reportChan[1] /\ reportChan[1] \in Reports /\ 1 \in 1 .. Len(reportChan)
        /\ Len(reportChan') = Len(reportChan) - 1 /\ Len(reportChan) \in Nat
        /\ \A i \in 1 .. Len(reportChan') : i + 1 \in 1 .. Len(reportChan) /\ reportChan'[i] = reportChan[i + 1]
    BY <1>6, <2>1 DEF Take
  <2>3. Pending' \subseteq Pending
    BY <1>6, <2>2 DEF Pending, Take
  <2>4. posting' \in Pending' /\ posting' = reportChan[1]
    BY <1>6, <2>2, NoneAssumption DEF Pending, Take, Reports
  <2>5. ASSUME NEW i \in 1 .. Len(reportChan) PROVE reportChan[i] \in Pending'
    <3>1. CASE i = 1
      BY <2>4, <3>1
    <3>2. CASE i # 1
      <4>1. i - 1 \in 1 .. Len(reportChan') /\ reportChan'[i - 1] = reportChan[i]
        BY <2>2, <3>2
      <4> QED
        BY <4>1 DEF Pending
    <3> QED
      BY <3>1, <3>2
  <2>6. Pending \subseteq Pending'
    BY <1>6, <2>5 DEF Pending, Take
  <2> QED
    BY <1>6, <2>3, <2>6 DEF Take, session, Word, TrueFailures, WordKept
<1>7. CASE Post
  <2>1. posting \in Pending /\ Pending' \subseteq Pending /\ Pending \subseteq Pending' \cup {posting}
    BY <1>7 DEF Post, Pending
  <2>2. TrueFailures'
    BY <1>7, <2>1 DEF Post, session, Word, TrueFailures
  <2>3. CASE lost' = TRUE
    BY <2>2, <2>3 DEF WordKept
  <2>4. CASE status' = Told(posting[2]) /\ UNCHANGED lost
    <3> SUFFICES ASSUME (phase = "running" /\ good = Total /\ ~lost /\ bad = 0)'
                 PROVE  status' = "COMPLETED" \/ \E r \in Pending' : r[2] = 100
      BY <2>2 DEF WordKept
    <3>1. phase = "running" /\ good = Total /\ ~lost /\ bad = 0 /\ posting[2] # -1
      BY <1>7, <2>1, <2>4 DEF Post, session, Word, TrueFailures
    <3>2. CASE posting[2] = 100
      BY <2>4, <3>2 DEF Told
    <3>3. CASE posting[2] # 100
      <4>1. status' = status
        BY <2>4, <3>1, <3>3 DEF Told
      <4> QED
        BY <2>1, <3>1, <3>3, <4>1 DEF Word, WordKept
    <3> QED
      BY <3>2, <3>3
  <2> QED
    BY <1>7, <2>2, <2>3, <2>4 DEF Post
<1>8. CASE Quit \/ ReporterEnds \/ SendDeploy \/ TakeDeploy \/ Unpack \/ Deployed \/ DeployerEnds
  <2>1. UNCHANGED <<good, bad, going, reportChan, posting, status, lost>>
    BY <1>8 DEF Quit, ReporterEnds, SendDeploy, TakeDeploy, Unpack, Deployed, DeployerEnds,
                session, reports
  <2>2. phase' = phase \/ phase' = "ended"
    BY <1>8 DEF Quit, ReporterEnds, SendDeploy, TakeDeploy, Unpack, Deployed, DeployerEnds, session
  <2> QED
    BY <2>1, <2>2 DEF Word, TrueFailures, WordKept, Pending
<1>9. CASE UNCHANGED vars
  BY <1>9 DEF vars, session, reports, Word, TrueFailures, WordKept, Pending
<1> QED
  BY <1>1, <1>2, <1>3, <1>4, <1>5, <1>6, <1>7, <1>8, <1>9 DEF Next, Goroutines

\* report.go: without bad pieces and lost reports the server knows in the end
\* that a complete agent is complete.
THEOREM WordArrivedAlways == Spec => []WordArrived
<1>1. Word => WordArrived
  <2> SUFFICES ASSUME Word, going = {}, reportChan = <<>>, posting = None,
                      phase = "running", good = Total, ~lost, bad = 0
               PROVE  status = "COMPLETED"
    BY DEF WordArrived
  <2>1. Pending = {}
    <3>1. Len(<<>>) = 0
      OBVIOUS
    <3> QED
      BY <3>1 DEF Pending
  <2> QED
    BY <2>1 DEF Word, WordKept
<1> QED
  BY <1>1, WordBegins, WordStep, PTL DEF Spec

-----------------------------------------------------------------------------
(* What a packing comes to.  Pack is a fold, a recursive function over sets  *)
(* of positions: that it exists, and what it returns, is proved by induction *)
(* over a set of numbers.                                                    *)

LEMMA InductionBySet ==
  ASSUME NEW S \in SUBSET Nat, 0 \in S, \A n \in S : n + 1 \in S
  PROVE  S = Nat
<1> DEFINE T == Nat \ S
<1>1. SUFFICES ASSUME T # {} PROVE FALSE
  OBVIOUS
<1>2. \E x \in T : \A y \in T : ~(<<y, x>> \in OpToRel(<, Nat))
  <2>1. IsWellFoundedOn(OpToRel(<, Nat), Nat)
    BY NatLessThanWellFounded
  <2>2. T \subseteq Nat
    OBVIOUS
  <2> HIDE DEF T
  <2> QED BY <2>1, <2>2, <1>1, WFMin
<1>3. PICK x \in T : \A y \in T : ~(<<y, x>> \in OpToRel(<, Nat))
  BY <1>2
<1>4. \A y \in T : ~(y < x)
  BY <1>3 DEF OpToRel
<1>5. x \in Nat /\ x # 0 /\ x - 1 \in Nat
  OBVIOUS
<1>6. x - 1 \in S
  BY <1>4, <1>5
<1> QED BY <1>5, <1>6

\* The last of the first m positions
LEMMA MaxIs ==
  ASSUME NEW m \in Nat, NEW s \in SUBSET (1 .. m), m \in s
  PROVE  Max(s) = m
<1>1. \A x \in s : m >= x
  OBVIOUS
<1>2. \A y \in s : (\A x \in s : y >= x) => y = m
  OBVIOUS
<1> QED BY <1>1, <1>2 DEF Max

\* one step of the fold g, s the positions that are done
Added(g, s, its) == IF s = {} THEN <<>> ELSE Add(g[s \ {Max(s)}], its[Max(s)])

\* g is that fold over subsets of D
Adds(g, D, its) == g = [s \in SUBSET D |-> Added(g, s, its)]

LEMMA AddedExists ==
  ASSUME NEW its, NEW n \in Nat
  PROVE  \E g : Adds(g, 1 .. n, its)
<1> DEFINE S == {m \in Nat : \E g : Adds(g, 1 .. m, its)}
<1>1. 0 \in S
  <2> DEFINE g == [s \in SUBSET (1 .. 0) |-> <<>>]
  <2>1. \A s \in SUBSET (1 .. 0) : s = {}
    OBVIOUS
  <2>2. g = [s \in SUBSET (1 .. 0) |-> Added(g, s, its)]
    BY <2>1 DEF Added
  <2> HIDE DEF g
  <2> QED BY <2>2 DEF Adds
<1>2. ASSUME NEW m \in S PROVE m + 1 \in S
  <2>0. m \in Nat
    OBVIOUS
  <2>1. PICK g : Adds(g, 1 .. m, its)
    OBVIOUS
  <2> DEFINE h == [s \in SUBSET (1 .. m + 1) |->
                     IF m + 1 \in s THEN Add(g[s \ {m + 1}], its[m + 1]) ELSE g[s]]
  <2>2. ASSUME NEW s \in SUBSET (1 .. m + 1) PROVE h[s] = Added(h, s, its)
    <3>1. CASE m + 1 \in s
      <4>1. Max(s) = m + 1
        BY <3>1, MaxIs, m + 1 \in Nat
      <4>2. /\ s \ {m + 1} \in SUBSET (1 .. m) /\ s \ {m + 1} \in SUBSET (1 .. m + 1)
            /\ m + 1 \notin s \ {m + 1}
        OBVIOUS
      <4>3. h[s \ {m + 1}] = g[s \ {m + 1}]
        BY <4>2
      <4>4. h[s] = Add(g[s \ {m + 1}], its[m + 1])
        BY <3>1
      <4>5. s # {}
        BY <3>1
      <4> HIDE DEF h
      <4> QED BY <4>1, <4>3, <4>4, <4>5 DEF Added
    <3>2. CASE m + 1 \notin s
      <4>1. s \in SUBSET (1 .. m)
        BY <3>2
      <4>2. h[s] = g[s] /\ g[s] = Added(g, s, its)
        BY <2>1, <3>2, <4>1 DEF Adds
      <4>3. /\ s \ {Max(s)} \in SUBSET (1 .. m) /\ s \ {Max(s)} \in SUBSET (1 .. m + 1)
            /\ m + 1 \notin s \ {Max(s)}
        BY <3>2, <4>1
      <4>4. h[s \ {Max(s)}] = g[s \ {Max(s)}]
        BY <4>3
      <4> HIDE DEF h
      <4> QED BY <4>2, <4>4 DEF Added
    <3> QED BY <3>1, <3>2
  <2>3. h = [s \in SUBSET (1 .. m + 1) |-> h[s]]
    OBVIOUS
  <2>4. m + 1 \in Nat
    OBVIOUS
  <2> HIDE DEF h
  <2>5. h = [s \in SUBSET (1 .. m + 1) |-> Added(h, s, its)]
    BY <2>2, <2>3
  <2> QED BY <2>4, <2>5 DEF Adds
<1>3. S = Nat
  <2> S \in SUBSET Nat
    OBVIOUS
  <2> HIDE DEF S
  <2> QED BY <1>1, <1>2, InductionBySet
<1>4. n \in S
  <2> HIDE DEF S
  <2> QED BY <1>3
<1> QED BY <1>4

\* d are the archives as item after item is added, packed the last of them
PacksItems(d, its, packed) ==
  /\ d[0] = <<>>
  /\ \A k \in 1 .. Len(its) : d[k] = Add(d[k - 1], its[k])
  /\ packed = d[Len(its)]

\* Pack, item after item
LEMMA PackSteps ==
  ASSUME NEW T, NEW its \in Seq(T)
  PROVE  \E d : PacksItems(d, its, Pack(its))
<1>1. DOMAIN its = 1 .. Len(its) /\ Len(its) \in Nat
  OBVIOUS
<1> DEFINE it == CHOOSE g : g = [s \in SUBSET DOMAIN its |->
                    IF s = {} THEN <<>> ELSE Add(g[s \ {Max(s)}], its[Max(s)])]
<1>2. it = [s \in SUBSET DOMAIN its |-> Added(it, s, its)]
  <2>1. \E g : g = [s \in SUBSET DOMAIN its |->
                    IF s = {} THEN <<>> ELSE Add(g[s \ {Max(s)}], its[Max(s)])]
    <3>1. PICK g : Adds(g, DOMAIN its, its)
      BY <1>1, AddedExists
    <3> QED BY <3>1 DEF Adds, Added
  <2> QED BY <2>1 DEF Added
<1>3. Pack(its) = it[DOMAIN its]
  BY DEF Pack, FoldLeft, MapThenFoldSet
<1> HIDE DEF it
<1> DEFINE d == [k \in 0 .. Len(its) |-> it[1 .. k]]
<1>4. d[0] = <<>>
  <2>1. 1 .. 0 = {} /\ {} \in SUBSET DOMAIN its
    OBVIOUS
  <2> QED BY <1>1, <1>2, <2>1 DEF Added
<1>5. ASSUME NEW k \in 1 .. Len(its) PROVE d[k] = Add(d[k - 1], its[k])
  <2>1. /\ 1 .. k \in SUBSET DOMAIN its /\ 1 .. k # {} /\ k \in 1 .. k /\ k \in Nat
        /\ (1 .. k) \ {k} = 1 .. k - 1 /\ k - 1 \in 0 .. Len(its)
    <3>1. k \in Nat /\ k \in 1 .. k /\ k - 1 \in 0 .. Len(its) /\ 1 .. k \subseteq 1 .. Len(its)
      BY <1>1
    <3>2. (1 .. k) \ {k} = 1 .. k - 1
      OBVIOUS
    <3> QED BY <1>1, <3>1, <3>2
  <2>2. Max(1 .. k) = k
    BY <2>1, MaxIs
  <2>3. it[1 .. k] = Add(it[1 .. k - 1], its[k])
    BY <1>2, <2>1, <2>2 DEF Added
  <2> QED BY <2>1, <2>3, <1>1
<1>6. d[Len(its)] = it[DOMAIN its]
  BY <1>1
<1> HIDE DEF d
<1> QED BY <1>3, <1>4, <1>5, <1>6 DEF PacksItems

\* What a header with room for n bytes takes of them
LEMMA CutBytes ==
  ASSUME NEW data \in Seq(Int), NEW n \in Nat
  PROVE  /\ Cut(data, n) \in Seq(Int)
         /\ Len(data) >= n => Len(Cut(data, n)) = n
<1>1. Len(data) \in Nat
  OBVIOUS
<1>2. CASE Len(data) > n
  <2>1. SubSeq(data, 1, n) \in Seq(Int) /\ Len(SubSeq(data, 1, n)) = n
    BY <1>1, <1>2, SubSeqProperties
  <2> QED BY <1>1, <1>2, <2>1 DEF Cut
<1>3. CASE ~(Len(data) > n)
  BY <1>1, <1>3 DEF Cut
<1> QED BY <1>2, <1>3

LEMMA FilledEntry ==
  ASSUME NEW e \in Entries(Names), NEW data \in Seq(Int)
  PROVE  Filled(e, data) \in Entries(Names) /\ Filled(e, data).name = e.name
<1>1. e.data \o data \in Seq(Int) /\ e.size \in Nat
  BY DEF Entries
<1>2. Cut(e.data \o data, e.size) \in Seq(Int)
  BY <1>1, CutBytes
<1> QED BY <1>2 DEF Filled, Entries

\* e is what the first k items come to: what is in it has the name of an item
\* at its place or behind, and the sound items are in it, at their places
PackedRight(its, e, k) ==
  /\ e \in Seq(Entries(Names)) /\ Len(e) <= k
  /\ \A j \in 1 .. Len(e) : \E i \in j .. k : e[j].name = its[i].name
  /\ \A i \in Sound(its) : i <= k =>
       i <= Len(e) /\ e[i] = Item(its[i].name, its[i].size, Cut(its[i].data, its[i].size))

\* so one that came short is not the last of them when the next is sound
LEMMA AddRight ==
  ASSUME NEW its \in Seq(Entries(Names)), NEW k \in 1 .. Len(its),
         NEW e, PackedRight(its, e, k - 1)
  PROVE  PackedRight(its, Add(e, its[k]), k)
<1> DEFINE it == its[k]
           new == Filled(Item(it.name, it.size, <<>>), it.data)
<1>0. /\ it \in Entries(Names)
      /\ k \in Nat /\ k - 1 \in Nat /\ Len(its) \in Nat /\ DOMAIN its = 1 .. Len(its)
  OBVIOUS
<1>1. /\ it \in Entries(Names) /\ it.name \in Names /\ it.size \in Nat /\ it.data \in Seq(Int)
      /\ k \in Nat /\ k - 1 \in Nat /\ Len(its) \in Nat /\ DOMAIN its = 1 .. Len(its)
  <2> HIDE DEF it
  <2> QED BY <1>0 DEF Entries
<1>2. e \in Seq(Entries(Names)) /\ Len(e) \in Nat /\ Len(e) <= k - 1
  BY DEF PackedRight
<1>3. \A i \in Sound(its) : i \in 1 .. Len(its) /\ Len(its[i].data) >= its[i].size
  BY <1>1 DEF Sound
<1>4. k \in Sound(its) => \A i \in 1 .. k : i \in Sound(its)
  BY <1>1 DEF Sound
<1>5. ASSUME NEW i \in Sound(its), i <= k - 1
      PROVE  i \in 1 .. Len(e) /\ Whole(e[i])
  <2>1. its[i] \in Entries(Names) /\ i \in Nat /\ i >= 1
    BY <1>3
  <2>2. i <= Len(e) /\ e[i] = Item(its[i].name, its[i].size, Cut(its[i].data, its[i].size))
    BY <1>5 DEF PackedRight
  <2>3. Len(Cut(its[i].data, its[i].size)) = its[i].size
    BY <2>1, <1>3, CutBytes DEF Entries
  <2> QED BY <1>2, <2>1, <2>2, <2>3 DEF Whole, Item
<1>6. CASE e = <<>> \/ Whole(Last(e))
  <2>1. /\ Item(it.name, it.size, <<>>) \in Entries(Names)
        /\ Item(it.name, it.size, <<>>).data = <<>>
        /\ Item(it.name, it.size, <<>>).name = it.name
    BY <1>1 DEF Entries, Item
  <2>2. new \in Entries(Names) /\ new.name = it.name
    BY <1>1, <2>1, FilledEntry
  <2>3. new = Item(it.name, it.size, Cut(it.data, it.size))
    <3>1. <<>> \o it.data = it.data
      BY <1>1
    <3> QED BY <3>1 DEF Filled, Item
  <2>4. Add(e, it) = Append(e, new)
    BY <1>6 DEF Add
  <2>f. PICK f : f = Append(e, new)
    OBVIOUS
  <2> HIDE DEF new, it
  <2>5. /\ f \in Seq(Entries(Names)) /\ Len(f) = Len(e) + 1
        /\ \A j \in 1 .. Len(e) : f[j] = e[j]
        /\ f[Len(e) + 1] = new
    BY <1>2, <2>2, <2>f
  <2>6. ASSUME NEW j \in 1 .. Len(e) + 1
        PROVE  \E i \in j .. k : f[j].name = its[i].name
    <3>1. CASE j \in 1 .. Len(e)
      <4>1. PICK i \in j .. k - 1 : e[j].name = its[i].name
        BY <3>1 DEF PackedRight
      <4> QED BY <1>1, <2>5, <3>1, <4>1
    <3>2. CASE j = Len(e) + 1
      BY <1>1, <1>2, <2>2, <2>5, <3>2 DEF it
    <3> QED BY <1>2, <3>1, <3>2
  <2>7. ASSUME NEW i \in Sound(its), i <= k
        PROVE  /\ i <= Len(e) + 1
               /\ f[i] = Item(its[i].name, its[i].size, Cut(its[i].data, its[i].size))
    <3>1. CASE i <= k - 1
      <4>1. e[i] = Item(its[i].name, its[i].size, Cut(its[i].data, its[i].size))
        BY <3>1 DEF PackedRight
      <4> QED BY <1>2, <1>5, <2>5, <3>1, <4>1
    <3>2. CASE i = k
      <4>1. CASE k = 1
        BY <1>2, <2>3, <2>5, <3>2, <4>1 DEF it
      <4>2. CASE k # 1
        <5>1. k - 1 \in Sound(its)
          BY <1>1, <1>4, <3>2, <4>2
        <5>2. Len(e) = k - 1
          BY <1>1, <1>2, <1>5, <5>1
        <5> QED BY <1>1, <2>3, <2>5, <3>2, <5>2 DEF it
      <4> QED BY <4>1, <4>2
    <3> QED BY <1>1, <1>3, <2>7, <3>1, <3>2
  <2>8. PackedRight(its, f, k)
    BY <1>1, <1>2, <2>5, <2>6, <2>7 DEF PackedRight
  <2> QED BY <2>4, <2>f, <2>8 DEF it
<1>7. CASE e # <<>> /\ ~Whole(Last(e))
  <2> DEFINE l == Filled(Last(e), it.data)
  <2>1. Len(e) >= 1 /\ Last(e) = e[Len(e)] /\ e[Len(e)] \in Entries(Names)
    BY <1>2, <1>7 DEF Last
  <2>2. l \in Entries(Names) /\ l.name = e[Len(e)].name
    BY <1>1, <2>1, FilledEntry
  <2>3. Add(e, it) = Front(e) \o <<l>>
    BY <1>7 DEF Add
  <2>f. PICK f : f = Front(e) \o <<l>>
    OBVIOUS
  <2> HIDE DEF l, it
  <2>4. /\ f \in Seq(Entries(Names)) /\ Len(f) = Len(e)
        /\ \A j \in 1 .. Len(e) - 1 : f[j] = e[j]
        /\ f[Len(e)] = l
    <3>1. /\ Front(e) \in Seq(Entries(Names)) /\ Len(Front(e)) = Len(e) - 1
          /\ \A j \in 1 .. Len(e) - 1 : Front(e)[j] = e[j]
      <4>1. PICK n \in Nat : n = Len(e) - 1
        BY <1>2, <2>1
      <4>2. Front(e) = SubSeq(e, 1, n)
        BY <4>1 DEF Front
      <4>3. n \in Int /\ 1 \in Int /\ \A j \in 1 .. n : e[j] \in Entries(Names)
        BY <1>2, <4>1
      <4>4. /\ SubSeq(e, 1, n) \in Seq(Entries(Names))
            /\ Len(SubSeq(e, 1, n)) = IF 1 <= n THEN n - 1 + 1 ELSE 0
            /\ \A j \in 1 .. n - 1 + 1 : SubSeq(e, 1, n)[j] = e[1 + j - 1]
        BY <4>3, SubSeqProperties
      <4>5. Len(SubSeq(e, 1, n)) = n /\ \A j \in 1 .. n : SubSeq(e, 1, n)[j] = e[j]
        BY <4>4
      <4> QED BY <4>1, <4>2, <4>4, <4>5
    <3>2. <<l>> \in Seq(Entries(Names)) /\ Len(<<l>>) = 1 /\ <<l>>[1] = l
      BY <2>2
    <3> QED BY <1>2, <2>1, <2>f, <3>1, <3>2, ConcatProperties
  <2>5. ASSUME NEW j \in 1 .. Len(e)
        PROVE  \E i \in j .. k : f[j].name = its[i].name
    <3>1. PICK i \in j .. k - 1 : e[j].name = its[i].name
      BY DEF PackedRight
    <3>2. f[j].name = e[j].name
      <4>1. j = Len(e) \/ j \in 1 .. Len(e) - 1
        BY <1>2
      <4> QED BY <2>2, <2>4, <4>1
    <3>3. i \in j .. k
      BY <1>1, <3>1
    <3> QED BY <3>1, <3>2, <3>3
  <2>6. ASSUME NEW i \in Sound(its), i <= k PROVE i <= k - 1
    <3>1. CASE i = k
      <4>1. k # 1
        BY <1>2, <2>1
      <4>2. k - 1 \in Sound(its)
        BY <1>1, <1>4, <3>1, <4>1
      <4>3. Len(e) = k - 1 /\ Whole(e[Len(e)])
        BY <1>1, <1>2, <1>5, <4>2
      <4> QED BY <1>7, <2>1, <4>3
    <3> QED BY <1>1, <1>3, <2>6, <3>1
  <2>7. ASSUME NEW i \in Sound(its), i <= k
        PROVE  /\ i <= Len(e)
               /\ f[i] = Item(its[i].name, its[i].size, Cut(its[i].data, its[i].size))
    <3>1. i \in 1 .. Len(e) /\ Whole(e[i])
      BY <1>5, <2>6, <2>7
    <3>2. i # Len(e)
      BY <1>7, <2>1, <3>1
    <3>3. e[i] = Item(its[i].name, its[i].size, Cut(its[i].data, its[i].size))
      BY <2>6, <2>7 DEF PackedRight
    <3> QED BY <1>2, <2>4, <3>1, <3>2, <3>3
  <2>8. PackedRight(its, f, k)
    BY <1>1, <1>2, <2>4, <2>5, <2>7 DEF PackedRight
  <2> QED BY <2>3, <2>f, <2>8 DEF it
<1> QED BY <1>6, <1>7

\* What an archive is: every item up to the first that came short, at its
\* place, and behind them nothing of the same names
THEOREM PackRight ==
  ASSUME NEW its \in Seq(Entries(Names))
  PROVE  PackedRight(its, Pack(its), Len(its))
<1>1. PICK d : PacksItems(d, its, Pack(its))
  BY PackSteps
<1> DEFINE S == {k \in Nat : k <= Len(its) => PackedRight(its, d[k], k)}
<1>2. 0 \in S
  <2>1. <<>> \in Seq(Entries(Names)) /\ Len(<<>>) = 0
    OBVIOUS
  <2>2. \A i \in Sound(its) : ~(i <= 0)
    BY DEF Sound
  <2>3. PackedRight(its, <<>>, 0)
    BY <2>1, <2>2 DEF PackedRight
  <2> QED BY <1>1, <2>3 DEF PacksItems
<1>3. ASSUME NEW k \in S PROVE k + 1 \in S
  <2>1. k \in Nat /\ k + 1 \in Nat /\ Len(its) \in Nat
    OBVIOUS
  <2>2. CASE k + 1 <= Len(its)
    <3>1. k + 1 \in 1 .. Len(its) /\ (k + 1) - 1 = k /\ PackedRight(its, d[k], k)
      BY <2>1, <2>2
    <3>2. d[k + 1] = Add(d[k], its[k + 1])
      BY <1>1, <3>1 DEF PacksItems
    <3>3. PackedRight(its, Add(d[k], its[k + 1]), k + 1)
      BY <3>1, AddRight
    <3> QED BY <2>1, <3>2, <3>3
  <2> QED BY <2>1, <2>2
<1>4. S = Nat
  <2> S \in SUBSET Nat
    OBVIOUS
  <2> HIDE DEF S
  <2> QED BY <1>2, <1>3, InductionBySet
<1>5. Len(its) \in S
  <2>1. Len(its) \in Nat
    OBVIOUS
  <2> HIDE DEF S
  <2> QED BY <1>4, <2>1
<1> QED BY <1>1, <1>5 DEF PacksItems

-----------------------------------------------------------------------------
(* What is unpacked.                                                         *)

Right(i) == tree[items[i].name] = Cut(items[i].data, items[i].size)

\* the first n entries are out, and the sound items among them as they were
UnpackedTo(n) ==
  /\ todo = SubSeq(Pack(items), n + 1, Len(Pack(items)))
  /\ \A i \in Sound(items) : i <= n => Right(i)

DeployInv ==
  /\ items \in Packings /\ tree = [n \in Names |-> tree[n]]
  /\ deploy = "unpacking" => \E n \in 0 .. Len(Pack(items)) : UnpackedTo(n)
  /\ DeployedRight

\* what is packed, and is unpacked
LEMMA Packed ==
  ASSUME DeployInv
  PROVE  /\ items \in Seq(Entries(Names)) /\ Pack(items) \in Seq(Entries(Names))
         /\ PackedRight(items, Pack(items), Len(items))
         /\ \A i, j \in 1 .. Len(items) : items[i].name = items[j].name => i = j
         /\ \A i \in Sound(items) : i \in 1 .. Len(items)
<1>1. items \in Packings
  BY DEF DeployInv
<1>2. items \in Seq(Entries(Names)) /\ \A i, j \in DOMAIN items : items[i].name = items[j].name => i = j
  BY <1>1, PackingsAssumption
<1>3. DOMAIN items = 1 .. Len(items)
  BY <1>2
<1>4. PackedRight(items, Pack(items), Len(items))
  BY <1>2, PackRight
<1> QED BY <1>2, <1>3, <1>4 DEF PackedRight, Sound

\* what does not unpack
Aside ==
  /\ UNCHANGED <<items, tree>>
  /\ deploy' \in {"unpacking", "done"} => deploy' = deploy /\ todo' = todo

LEMMA AsideKeeps == DeployInv /\ Aside => DeployInv'
<1> SUFFICES ASSUME DeployInv, Aside PROVE DeployInv'
  OBVIOUS
<1>1. CASE deploy' = "unpacking"
  BY <1>1 DEF DeployInv, Aside, UnpackedTo, Right, DeployedRight
<1>2. CASE deploy' # "unpacking"
  BY <1>2 DEF DeployInv, Aside, DeployedRight
<1> QED BY <1>1, <1>2

LEMMA UnpackKeeps == DeployInv /\ Unpack => DeployInv'
<1> SUFFICES ASSUME DeployInv, Unpack PROVE DeployInv'
  OBVIOUS
<1> DEFINE p == Pack(items)
<1>0. /\ items' = items /\ deploy = "unpacking" /\ todo # <<>> /\ deploy' \in {"unpacking", "broken"}
      /\ deploy' = "unpacking" => todo' = Tail(todo)
      /\ tree' = [tree EXCEPT ![Head(todo).name] = Head(todo).data]
  BY DEF Unpack, Unpacked
<1>1. /\ items \in Seq(Entries(Names)) /\ p \in Seq(Entries(Names))
      /\ PackedRight(items, p, Len(items))
      /\ \A i, j \in 1 .. Len(items) : items[i].name = items[j].name => i = j
      /\ \A i \in Sound(items) : i \in 1 .. Len(items)
  BY Packed
<1>2. PICK n \in 0 .. Len(p) : UnpackedTo(n)
  BY <1>0 DEF DeployInv
<1> HIDE DEF p
<1>3. n < Len(p) /\ n + 1 \in 1 .. Len(p) /\ n \in Nat /\ Len(p) \in Nat
  <2>1. n \in Nat /\ Len(p) \in Nat
    BY <1>1
  <2>2. CASE n = Len(p)
    <3>1. SubSeq(p, n + 1, Len(p)) = <<>>
      BY <2>1, <2>2, SubSeqEmpty
    <3> QED BY <1>0, <1>2, <3>1 DEF UnpackedTo, p
  <2> QED BY <2>1, <2>2
<1>4. Head(todo) = p[n + 1] /\ Tail(todo) = SubSeq(p, (n + 1) + 1, Len(p))
  <2>1. todo = SubSeq(p, n + 1, Len(p))
    BY <1>2 DEF UnpackedTo, p
  <2>2. n + 1 \in 1 .. Len(p) /\ Len(p) \in n + 1 .. Len(p)
    BY <1>3
  <2> QED BY <1>1, <2>1, <2>2, HeadTailOfSubSeq
<1>5. p[n + 1] \in Entries(Names) /\ p[n + 1].name \in Names
  <2>1. p[n + 1] \in Entries(Names)
    BY <1>1, <1>3
  <2> QED BY <2>1 DEF Entries
<1>6. tree' = [m \in Names |-> tree'[m]] /\ tree'[p[n + 1].name] = p[n + 1].data
      /\ \A m \in Names : m # p[n + 1].name => tree'[m] = tree[m]
  BY <1>0, <1>4, <1>5 DEF DeployInv
<1>7. ASSUME NEW i \in Sound(items), i <= n + 1
      PROVE  tree'[items[i].name] = Cut(items[i].data, items[i].size)
  <2>1. i \in 1 .. Len(items) /\ items[i].name \in Names
    <3>1. i \in 1 .. Len(items) /\ items[i] \in Entries(Names)
      BY <1>1
    <3> QED BY <3>1 DEF Entries
  <2>2. i <= Len(items) => p[i] = Item(items[i].name, items[i].size, Cut(items[i].data, items[i].size))
    BY <1>1 DEF PackedRight
  <2>3. CASE i = n + 1
    <3>1. p[n + 1].name = items[i].name /\ p[n + 1].data = Cut(items[i].data, items[i].size)
      BY <2>1, <2>2, <2>3 DEF Item
    <3> QED BY <1>6, <3>1
  <2>4. CASE i <= n
    <3>1. PICK j \in n + 1 .. Len(items) : p[n + 1].name = items[j].name
      BY <1>1, <1>3 DEF PackedRight
    <3>2. j \in 1 .. Len(items) /\ j # i
      BY <1>3, <2>1, <2>4, <3>1
    <3>3. items[i].name # p[n + 1].name
      BY <1>1, <2>1, <3>1, <3>2
    <3>4. Right(i)
      BY <1>2, <2>4 DEF UnpackedTo
    <3> QED BY <1>6, <2>1, <3>3, <3>4 DEF Right
  <2> QED BY <1>3, <1>7, <2>1, <2>3, <2>4
<1>8. deploy' = "unpacking" => \E m \in 0 .. Len(Pack(items')) : UnpackedTo(m)'
  <2> SUFFICES ASSUME deploy' = "unpacking" PROVE \E m \in 0 .. Len(Pack(items')) : UnpackedTo(m)'
    OBVIOUS
  <2>1. todo' = SubSeq(p, (n + 1) + 1, Len(p))
    BY <1>0, <1>4
  <2>2. UnpackedTo(n + 1)'
    BY <1>0, <1>7, <2>1 DEF UnpackedTo, Right, p
  <2>3. n + 1 \in 0 .. Len(Pack(items'))
    BY <1>0, <1>3 DEF p
  <2> QED BY <2>2, <2>3
<1> QED BY <1>0, <1>6, <1>8 DEF DeployInv, DeployedRight

LEMMA DeployedKeeps == DeployInv /\ Deployed => DeployInv'
<1> SUFFICES ASSUME DeployInv, Deployed PROVE DeployInv'
  OBVIOUS
<1> DEFINE p == Pack(items)
<1>1. /\ UNCHANGED <<items, tree, todo>> /\ deploy = "unpacking" /\ deploy' = "done" /\ todo = <<>>
  BY DEF Deployed
<1>2. /\ p \in Seq(Entries(Names)) /\ PackedRight(items, p, Len(items))
      /\ \A i \in Sound(items) : i \in 1 .. Len(items)
  BY Packed
<1>3. PICK n \in 0 .. Len(p) : UnpackedTo(n)
  BY <1>1 DEF DeployInv
<1> HIDE DEF p
<1>4. n = Len(p)
  <2>1. n \in Nat /\ Len(p) \in Nat
    BY <1>2
  <2>2. CASE n < Len(p)
    <3>1. n + 1 \in Int /\ Len(p) \in Int /\ \A i \in n + 1 .. Len(p) : p[i] \in Entries(Names)
      BY <1>2, <2>1
    <3>2. Len(SubSeq(p, n + 1, Len(p))) = Len(p) - (n + 1) + 1
      BY <2>1, <2>2, <3>1, SubSeqProperties
    <3>3. todo = SubSeq(p, n + 1, Len(p)) /\ Len(<<>>) = 0
      BY <1>3 DEF UnpackedTo, p
    <3>4. Len(SubSeq(p, n + 1, Len(p))) = 0
      BY <1>1, <3>3
    <3> QED BY <2>1, <2>2, <3>2, <3>4
  <2> QED BY <2>1, <2>2
<1>5. ASSUME NEW i \in Sound(items) PROVE Right(i)
  <2>1. i <= n
    BY <1>2, <1>4 DEF PackedRight
  <2> QED BY <1>3, <2>1 DEF UnpackedTo
<1> QED BY <1>1, <1>5 DEF DeployInv, DeployedRight, Right

LEMMA TakeDeployKeeps == DeployInv /\ TakeDeploy => DeployInv'
<1> SUFFICES ASSUME DeployInv, TakeDeploy PROVE DeployInv'
  OBVIOUS
<1>1. UNCHANGED <<items, tree>> /\ deploy' = "unpacking" /\ todo' = Pack(items)
  BY DEF TakeDeploy
<1>2. Pack(items) \in Seq(Entries(Names)) /\ \A i \in Sound(items) : ~(i <= 0)
  BY Packed
<1>3. SubSeq(Pack(items), 1, Len(Pack(items))) = Pack(items)
  <2>1. PICK p \in Seq(Entries(Names)) : p = Pack(items)
    BY <1>2
  <2> QED BY <2>1, SubSeqFull
<1>4. UnpackedTo(0)' /\ 0 \in 0 .. Len(Pack(items'))
  BY <1>1, <1>2, <1>3 DEF UnpackedTo
<1> QED BY <1>1, <1>4 DEF DeployInv, DeployedRight

LEMMA DeployInit == Init => DeployInv
BY DEF Init, DeployInv, DeployedRight

LEMMA DeployStep == DeployInv /\ [Next]_vars => DeployInv'
<1> SUFFICES ASSUME DeployInv, [Next]_vars PROVE DeployInv'
  OBVIOUS
<1>1. CASE Start \/ PieceBad \/ Quit
  BY <1>1, AsideKeeps DEF Start, PieceBad, Quit, deployment, Aside
<1>2. CASE PieceGood
  BY <1>2, AsideKeeps DEF PieceGood, Tell, Aside
<1>3. CASE Kill \/ SendClosed \/ Misnamed
  BY <1>3, AsideKeeps DEF Kill, SendClosed, Misnamed, Dies, Afresh, Aside
<1>4. CASE Restart
  BY <1>4, AsideKeeps DEF Restart, Afresh, Aside
<1>5. CASE Take \/ Post \/ ReporterEnds \/ (\E r \in going : Send(r))
  BY <1>5, AsideKeeps DEF Take, Post, ReporterEnds, Send, deployment, Aside
<1>6. CASE SendDeploy \/ DeployerEnds
  BY <1>6, AsideKeeps DEF SendDeploy, DeployerEnds, Aside
<1>7. CASE UNCHANGED vars
  BY <1>7, AsideKeeps DEF vars, deployment, Aside
<1> QED
  BY <1>1, <1>2, <1>3, <1>4, <1>5, <1>6, <1>7, TakeDeployKeeps, UnpackKeeps, DeployedKeeps
  DEF Next, Goroutines

\* deploy.go:55: of any files, whatever they did while they were packed, what
\* is deployed is what was packed, up to the first that came short.
THEOREM DeployedRightAlways == Spec => []DeployedRight
<1>1. DeployInv => DeployedRight
  BY DEF DeployInv
<1> QED BY <1>1, DeployInit, DeployStep, PTL DEF Spec
==============================================================================
