-------------------------- MODULE TaskSession_proofs --------------------------
(* Theorems about TaskSession, for any pieces, connections and faults.       *)
EXTENDS TaskSession, TLAPS, FiniteSetTheorems, SequenceTheorems

(***************************************************************************)
(* Type correctness.                                                       *)
(***************************************************************************)

\* a handler that still has requests to send knows whom to send them to
ControlOK ==
  loop \in {"request", "announce"} => serving \in UpConns /\ left \in Nat \ {0}

TypeInv == TypeOK /\ ControlOK

\* The shape of a block, and that of the messages
LEMMA BlockShape ==
  /\ \A k \in Blocks : /\ k = <<k[1], k[2]>>
                       /\ k[1] \in Pieces /\ k[2] \in BlocksOf[k[1]]
  /\ \A i \in Pieces : \A b \in BlocksOf[i] : <<i, b>> \in Blocks
  /\ \A i \in Pieces : BlocksOf[i] \subseteq Nat /\ 0 \in BlocksOf[i]
BY BlocksAssumption DEF Blocks

LEMMA MessageShape ==
  /\ \A S \in SUBSET Pieces : Bitfield(S) \in UpMessages
  /\ \A i \in Pieces : Have(i) \in UpMessages /\ Request(i) \in Messages
  /\ \A k \in Blocks : \A good \in BOOLEAN : Piece(k, good) \in UpMessages
  /\ EOF \in UpMessages /\ ("idle" \in Faults => Misread \in UpMessages)
  /\ UpMessages \subseteq Messages
  /\ \A m \in Messages :
       /\ m.type = "BITFIELD" => m.pieces \in SUBSET Pieces
       /\ m.type \in {"HAVE", "REQUEST"} => m.piece \in Pieces
       /\ m.type = "PIECE" => m.block \in Blocks /\ m.good \in BOOLEAN
  /\ \A m \in UpMessages : m.type # "REQUEST"
<1>1. /\ \A S \in SUBSET Pieces : Bitfield(S) \in UpMessages
      /\ \A i \in Pieces : Have(i) \in UpMessages /\ Request(i) \in Messages
      /\ \A k \in Blocks : \A good \in BOOLEAN : Piece(k, good) \in UpMessages
      /\ EOF \in UpMessages /\ ("idle" \in Faults => Misread \in UpMessages)
      /\ UpMessages \subseteq Messages
  BY DEF UpMessages, Messages
<1>2. ASSUME NEW m \in Messages
      PROVE  /\ m.type = "BITFIELD" => m.pieces \in SUBSET Pieces
             /\ m.type \in {"HAVE", "REQUEST"} => m.piece \in Pieces
             /\ m.type = "PIECE" => m.block \in Blocks /\ m.good \in BOOLEAN
             /\ m \in UpMessages => m.type # "REQUEST"
  <2>1. CASE \E S \in SUBSET Pieces : m = Bitfield(S)
    BY <2>1 DEF Bitfield
  <2>2. CASE \E i \in Pieces : m = Have(i)
    BY <2>2 DEF Have
  <2>3. CASE \E k \in Blocks, good \in BOOLEAN : m = Piece(k, good)
    BY <2>3 DEF Piece
  <2>4. CASE m \in {EOF, Misread}
    BY <2>4 DEF EOF, Misread
  <2>5. CASE m \notin UpMessages /\ \E i \in Pieces : m = Request(i)
    BY <2>5 DEF Request
  <2> QED
    BY <2>1, <2>2, <2>3, <2>4, <2>5 DEF Messages, UpMessages
<1> QED
  BY <1>1, <1>2

\* what is added to a queue, of an upstream too
LEMMA HeardTyped ==
  ASSUME NEW S, NEW q \in Seq(S), NEW m \in S
  PROVE  Heard(q, m) \in Seq(S) /\ Heard(q, m) # <<>> /\ Heard(q, m) \in {q, Append(q, m)}
<1>1. CASE InStep(q)
  <2>1. Heard(q, m) = Append(q, m)
    BY <1>1 DEF Heard
  <2>2. Append(q, m) \in Seq(S) /\ Len(Append(q, m)) = Len(q) + 1 /\ Len(q) \in Nat
    OBVIOUS
  <2>3. Len(<<>>) = 0
    OBVIOUS
  <2> QED BY <2>1, <2>2, <2>3
<1>2. CASE ~InStep(q)
  <2>1. Heard(q, m) = q
    BY <1>2 DEF Heard
  <2>2. q # <<>>
    BY <1>2 DEF InStep
  <2> QED BY <2>1, <2>2
<1> QED BY <1>1, <1>2

LEMMA InitTyped == Init => TypeInv
<1> SUFFICES ASSUME Init PROVE TypeInv
  OBVIOUS
<1>1. ControlOK
  BY DEF Init, ControlOK
<1>2. -1 .. SelfPos - 1 # {} /\ 0 \in -1 .. SelfPos - 1 /\ 0 \in Chain
  BY NumbersAssumption DEF Chain
<1>3. disk \subseteq Blocks
  BY DEF Init
<1> QED
  BY <1>1, <1>2, <1>3 DEF Init, TypeInv, TypeOK, Conns

LEMMA CardinalityTyped ==
  \A S \in SUBSET Pieces : IsFiniteSet(S) /\ Cardinality(S) \in Nat
BY PiecesFinite, FS_Subset, FS_CardinalityType

\* what a send does to the control state and to the writer
LEMMA SendTyped ==
  ASSUME TypeInv, NEW c \in Conns, NEW next, Send(c, next)
  PROVE  /\ writer' \in [Conns -> {"up", "failed", "gone"}]
         /\ loop' \in {next, "blocked"}
BY DEF TypeInv, TypeOK, Send, WriteResults

LEMMA SendRequestTyped ==
  ASSUME TypeInv, NEW c \in UpConns, NEW k \in Blocks,
         Requesting(c), SendRequest(c, k), activePieces' \subseteq Pieces
  PROVE  TypeInv'
<1> USE DEF TypeInv, TypeOK, ControlOK
<1>1. c \in Conns /\ left \in Nat \ {0} /\ c # NoConn
  BY ConnsAssumption DEF Requesting, Conns
<1>2. /\ downloaderCount' \in [Blocks -> Nat \cup {-1}]
      /\ ourRequests' \in [Conns -> SUBSET Blocks]
      /\ asked' \in [Conns -> Seq(Blocks)]
  <2>1. /\ ourRequests' = [ourRequests EXCEPT ![c] = @ \cup {k}]
        /\ asked' \in {asked, [asked EXCEPT ![c] = Append(@, k)]}
        /\ downloaderCount' = [downloaderCount EXCEPT ![k] = @ + 1]
    BY DEF SendRequest, CountedRequest
  <2>2. asked[c] \in Seq(Blocks) /\ downloaderCount[k] \in Nat \cup {-1}
    BY <1>1
  <2>3. Append(asked[c], k) \in Seq(Blocks) /\ downloaderCount[k] + 1 \in Nat
    BY <2>2
  <2>4. asked' \in [Conns -> Seq(Blocks)]
    BY <2>1, <2>3
  <2>5. downloaderCount' \in [Blocks -> Nat \cup {-1}]
    BY <2>1, <2>3
  <2>6. ourRequests' \in [Conns -> SUBSET Blocks]
    BY <2>1
  <2> QED
    BY <2>4, <2>5, <2>6
<1>3. /\ left' \in Nat /\ serving' \in Conns \cup {NoConn}
      /\ Returned = "request" => left' # 0 /\ serving' = c
      /\ Returned \in {"select", "request"}
  BY <1>1 DEF SendRequest, Called, Returned
<1>4. writer' \in [Conns -> {"up", "failed", "gone"}] /\ loop' \in {Returned, "blocked"}
  BY <1>1, SendTyped DEF SendRequest
<1> QED
  BY <1>1, <1>2, <1>3, <1>4 DEF SendRequest, dialling, store

\* every step of the session and of its environment keeps the types
LEMMA TypeStep == TypeInv /\ [Next]_vars => TypeInv'
<1> SUFFICES ASSUME TypeInv, [Next]_vars PROVE TypeInv'
  OBVIOUS
<1> USE DEF TypeInv, TypeOK, ControlOK
<1>1. CASE InitInServer
  BY <1>1, CardinalityTyped DEF InitInServer, control, dialling, store,
       blocks, conns, vars
<1>2. CASE InitInClient
  BY <1>2, CardinalityTyped DEF InitInClient, control, dialling, store,
       blocks, conns, vars, GoodPieces
<1>3. CASE InitFails
  BY <1>3 DEF InitFails, control, dialling, store, blocks, conns, vars
<1>4. CASE Start
  <2>1. loop' \in {loop, "dial"} /\ indexInChain' \in -1 .. SelfPos - 1
    BY <1>4, NumbersAssumption DEF Start
  <2>2. reported' \subseteq {100, -1} /\ started' \in BOOLEAN
    BY <1>4 DEF Start
  <2> QED
    BY <1>4, <2>1, <2>2 DEF Start, Idle, control, dialling, store, blocks, conns, vars
<1>5. CASE DialFails
  BY <1>5 DEF DialFails, control, dialling, store, blocks, conns, vars
<1>6. CASE HeaderFails
  BY <1>6, NumbersAssumption DEF HeaderFails, control, dialling, store,
       blocks, conns, vars, Target
<1>7. CASE NoSession
  BY <1>7, NumbersAssumption DEF NoSession, control, dialling, store,
       blocks, conns, vars, Target
<1>8. CASE RetryTimer
  BY <1>8 DEF RetryTimer, control, dialling, store, blocks, conns, vars,
       Idle
<1>9. ASSUME NEW c \in UpConns, Connected(c) PROVE TypeInv'
  BY <1>9, NumbersAssumption, MessageShape DEF Connected, control, dialling,
       store, blocks, conns, vars, Target, Chain, Conns, OurBitfield
<1>10. ASSUME NEW c \in DownConns, AcceptPeer(c) PROVE TypeInv'
  BY <1>10, ConnsAssumption, MessageShape DEF AcceptPeer, control, dialling,
       store, blocks, conns, vars, Idle, Conns, OurBitfield
<1>11. ASSUME NEW c \in UpConns, RequestActive(c) PROVE TypeInv'
  BY <1>11, SendRequestTyped, BlockShape DEF RequestActive, Active
<1>12. ASSUME NEW c \in UpConns, RequestNew(c) PROVE TypeInv'
  <2>1. PICK i \in Missing(c) : SendRequest(c, <<i, 0>>) /\ activePieces' = activePieces \cup {i}
    BY <1>12 DEF RequestNew
  <2>2. i \in Pieces
    BY DEF Missing, Conns
  <2> QED
    BY <1>12, <2>1, <2>2, SendRequestTyped, BlockShape DEF RequestNew
<1>13. ASSUME NEW c \in UpConns, RequestEndgame(c) PROVE TypeInv'
  BY <1>13, SendRequestTyped, BlockShape DEF RequestEndgame, Active
<1>14. ASSUME NEW c \in UpConns, RequestNone(c) PROVE TypeInv'
  BY <1>14 DEF RequestNone, control, dialling, store, blocks, conns, vars,
       Requesting, Called, Returned, Conns
<1>15. ASSUME NEW c \in Conns, HandleBitfield(c) PROVE TypeInv'
  BY <1>15, MessageShape DEF HandleBitfield, control, dialling, store,
       blocks, conns, vars, Accepted, Received, Idle, Consume, ThenRequest, Conns
<1>16. ASSUME NEW c \in Conns, HandleHave(c) PROVE TypeInv'
  BY <1>16, MessageShape, NumbersAssumption DEF HandleHave, control,
       dialling, store, blocks, conns, vars, Accepted, Received, Idle, Consume,
       ThenRequest, Conns
<1>17. ASSUME NEW c \in Conns, HandleRequest(c) PROVE TypeInv'
  <2>1. Idle /\ wire[c] # <<>> /\ wire' = [wire EXCEPT ![c] = Tail(@)]
    BY <1>17 DEF HandleRequest, Accepted, Received, Consume
  <2>2. writer' \in [Conns -> {"up", "failed", "gone"}] /\ loop' \in {"select", "blocked"}
    BY <1>17, SendTyped DEF HandleRequest
  <2>3. UNCHANGED <<serving, left, pending, fresh, started, quitAsked, dialling,
                    store, blocks, peers, link, addr, have, announced,
                    ourRequests, asked, source, server>>
    BY <1>17 DEF HandleRequest
  <2> QED
    BY <2>1, <2>2, <2>3 DEF Idle, Conns, dialling, store, blocks
<1>18. ASSUME NEW c \in Conns, Refuse(c) PROVE TypeInv'
  BY <1>18, MessageShape DEF Refuse, TryReconn, control, dialling, store, blocks,
       conns, vars, Accepted, Received, Idle, ClosePeer, Closing, Released,
       Entry, Conns
<1>19. ASSUME NEW c \in Conns, HandleEOF(c) PROVE TypeInv'
  BY <1>19, MessageShape DEF HandleEOF, control, dialling, store, blocks,
       conns, vars, Received, Idle, ClosePeer, Closing, Released, Entry, Conns
<1>20. ASSUME NEW c \in Conns, HandleWriterExit(c) PROVE TypeInv'
  BY <1>20, MessageShape DEF HandleWriterExit, control, dialling, store,
       blocks, conns, vars, Idle, ClosePeer, Closing, Released, Entry, Conns
<1>21. ASSUME NEW c \in UpConns, DuplicatePiece(c) PROVE TypeInv'
  BY <1>21, MessageShape DEF DuplicatePiece, control, dialling, store,
       blocks, conns, vars, Accepted, Received, Idle, Consume, ThenRequest, Conns
<1>22. ASSUME NEW c \in UpConns, PieceWriteFails(c) PROVE TypeInv'
  BY <1>22, MessageShape DEF PieceWriteFails, TryReconn, control, dialling, store,
       blocks, conns, vars, Accepted, Received, Idle, ClosePeer, Closing,
       Released, Entry, Conns
<1>23. ASSUME NEW c \in UpConns, PieceStored(c) PROVE TypeInv'
  BY <1>23, MessageShape, BlockShape DEF PieceStored, control, dialling,
       store, blocks, conns, vars, Stored, Accepted, Received, Idle, Consume,
       ThenRequest, Conns
<1>24. ASSUME NEW c \in UpConns, PieceCorrupt(c) PROVE TypeInv'
  BY <1>24, MessageShape, BlockShape DEF PieceCorrupt, control, dialling,
       store, blocks, conns, vars, Stored, Finished, Closing, Accepted, Received,
       Idle, Consume, ThenRequest, Conns
<1>25. ASSUME NEW c \in UpConns, PieceVerified(c) PROVE TypeInv'
  <2> DEFINE m == Head(wire[c])
  <2>1. Received(c, "PIECE") /\ m \in Messages /\ m.block \in Blocks /\ m.block[1] \in Pieces
    BY <1>25, MessageShape, BlockShape DEF PieceVerified, Stored, Accepted, Received, Conns
  <2>2. /\ disk' \subseteq Blocks /\ ourRequests' \in [Conns -> SUBSET Blocks]
        /\ activePieces' \subseteq Pieces
        /\ downloaderCount' \in [Blocks -> Nat \cup {-1}]
    <3>1. /\ disk' = IF m.good THEN disk \cup {m.block} ELSE disk \ {m.block}
          /\ ourRequests' = [ourRequests EXCEPT ![c] = @ \ {m.block}]
          /\ Finished(m.block[1])
      BY <1>25 DEF PieceVerified, Stored
    <3>2. disk' \subseteq Blocks /\ activePieces' \subseteq Pieces
      BY <3>1, <2>1 DEF Finished
    <3>3. downloaderCount' \in [Blocks -> Nat \cup {-1}]
      BY <3>1 DEF Finished
    <3>4. ourRequests' \in [Conns -> SUBSET Blocks]
      BY <3>1
    <3> QED
      BY <3>2, <3>3, <3>4
  <2>3. /\ pieceSet' \subseteq Pieces /\ goodPieces' \in Nat /\ reported' \subseteq {100, -1}
        /\ pending' \subseteq Conns /\ fresh' \subseteq Pieces
    BY <1>25, <2>1 DEF PieceVerified, Reports, Lacking
  <2>4. wire' = [wire EXCEPT ![c] = Tail(@)] /\ wire[c] # <<>>
    BY <1>25, <2>1 DEF PieceVerified, Consume, Received
  <2>5. /\ loop' = "announce" /\ serving' = c /\ left' = 1
        /\ UNCHANGED <<started, quitAsked, dialling, totalPieces, peers, link, addr,
                       writer, have, announced, asked, source, server>>
    BY <1>25 DEF PieceVerified, Stored
  <2> QED
    BY <2>2, <2>3, <2>4, <2>5 DEF Conns, dialling
<1>26. ASSUME NEW c \in Conns, SendHave(c) PROVE TypeInv'
  BY <1>26 DEF SendHave, control, dialling, store, blocks, conns, vars,
       Send, WriteResults, Conns
<1>27. CASE AllAnnounced
  BY <1>27 DEF AllAnnounced, control, dialling, store, blocks, conns, vars
<1>28. CASE KeepAliveTick
  BY <1>28 DEF KeepAliveTick, control, dialling, store, blocks, conns, vars,
       Idle
<1>29. ASSUME NEW c \in Conns, CloseIdle(c) PROVE TypeInv'
  BY <1>29, MessageShape DEF CloseIdle, control, dialling, store, blocks,
       conns, vars, ClosePeer, Closing, Released, Entry, Conns
<1>30. ASSUME NEW c \in Conns, CheckRequests(c) PROVE TypeInv'
  <2>1. downloaderCount' \in [Blocks -> Nat \cup {-1}] /\ pending' \subseteq Conns
    BY <1>30 DEF CheckRequests, Released
  <2>2. writer' \in [Conns -> {"up", "failed", "gone"}] /\ loop' \in {"keepalive", "blocked"}
    BY <1>30, SendTyped DEF CheckRequests
  <2> QED
    BY <1>30, <2>1, <2>2 DEF CheckRequests, dialling, store
<1>31. CASE AllChecked
  BY <1>31 DEF AllChecked, control, dialling, store, blocks, conns, vars
<1>32. CASE AskQuit
  BY <1>32 DEF AskQuit, control, dialling, store, blocks, conns, vars
<1>33. CASE Quit
  BY <1>33 DEF Quit, control, dialling, store, blocks, conns, vars, Idle
<1>34. ASSUME NEW c \in Conns, ShutdownPeer(c) PROVE TypeInv'
  BY <1>34, MessageShape DEF ShutdownPeer, control, dialling, store, blocks,
       conns, vars, ClosePeer, Closing, Released, Entry, Conns
<1>35. CASE Shutdown
  BY <1>35 DEF Shutdown, control, dialling, store, blocks, conns, vars
<1>36. ASSUME NEW c \in UpConns, RemoteAnswers(c) PROVE TypeInv'
  <2>1. PICK m \in UpMessages : wire' = [wire EXCEPT ![c] = Heard(@, m)]
    <3>1. PICK good \in BOOLEAN :
            wire' = [wire EXCEPT ![c] = Heard(@, Piece(Head(asked[c]), good))]
      BY <1>36 DEF RemoteAnswers
    <3>2. Head(asked[c]) \in Blocks
      BY <1>36 DEF RemoteAnswers, Conns
    <3> QED
      BY <3>1, <3>2, MessageShape
  <2>2. m \in Messages /\ asked' \in [Conns -> Seq(Blocks)]
    BY <1>36, MessageShape DEF RemoteAnswers, Conns
  <2>3. Heard(wire[c], m) \in Seq(UpMessages) /\ Heard(wire[c], m) \in Seq(Messages)
    BY <2>2, HeardTyped DEF Conns
  <2>4. wire' \in [Conns -> Seq(Messages)] /\ \A d \in UpConns : wire'[d] \in Seq(UpMessages)
    BY <2>1, <2>3 DEF Conns
  <2> QED
    BY <1>36, <2>2, <2>4 DEF RemoteAnswers, control, dialling, store, blocks
<1>37. ASSUME NEW c \in Conns, RemoteDrops(c) PROVE TypeInv'
  BY <1>37, MessageShape DEF RemoteDrops, control, dialling, store, blocks,
       conns, vars, Alive, Conns
<1>38. ASSUME NEW c \in Conns, Discard(c) PROVE TypeInv'
  BY <1>38, MessageShape, SubSeqProperties DEF Discard, control, dialling,
       store, blocks, conns, vars, Alive, Conns
<1>39. ASSUME NEW c \in DownConns, DownstreamSends(c) PROVE TypeInv'
  <2>1. PICK m \in Messages : wire' = [wire EXCEPT ![c] = Heard(@, m)]
    <3>1. PICK m \in {Have(i) : i \in Pieces \ have[c]} \cup {Request(i) : i \in announced[c]} :
            wire' = [wire EXCEPT ![c] = Heard(@, m)]
      BY <1>39 DEF DownstreamSends
    <3>2. c \in Conns /\ announced[c] \subseteq Pieces
      BY DEF Conns
    <3>3. m \in Messages
      BY <3>1, <3>2, MessageShape
    <3> QED
      BY <3>1, <3>3
  <2>2. c \in Conns /\ c \notin UpConns /\ Heard(wire[c], m) \in Seq(Messages)
    BY HeardTyped, ConnsAssumption DEF Conns
  <2>3. wire' \in [Conns -> Seq(Messages)] /\ \A d \in UpConns : wire'[d] \in Seq(UpMessages)
    BY <2>1, <2>2 DEF Conns
  <2> QED
    BY <1>39, <2>3 DEF DownstreamSends, control, dialling, store, blocks
<1>40. ASSUME NEW a \in Chain, NEW i \in Pieces, SourceGains(a, i) PROVE TypeInv'
  <2>1. Have(i) \in UpMessages /\ Have(i) \in Messages
    BY MessageShape
  <2>2. \A d \in UpConns : Heard(wire[d], Have(i)) \in Seq(UpMessages)
    BY <2>1, HeardTyped
  <2>3. \A d \in Conns : Heard(wire[d], Have(i)) \in Seq(Messages)
    BY <2>1, HeardTyped
  <2>4. wire' \in [Conns -> Seq(Messages)] /\ \A d \in UpConns : wire'[d] \in Seq(UpMessages)
    BY <1>40, <2>2, <2>3 DEF SourceGains, Conns
  <2>5. source' \in [Chain -> SUBSET Pieces]
    BY <1>40 DEF SourceGains
  <2> QED
    BY <1>40, <2>4, <2>5 DEF SourceGains, control, dialling, store, blocks
<1>41. CASE UNCHANGED vars
  BY <1>41 DEF control, dialling, store, blocks, conns, vars
<1>42. ASSUME NEW c \in Conns, RemoteIdles(c) PROVE TypeInv'
  <2>1. Misread \in UpMessages /\ Misread \in Messages
    BY <1>42, MessageShape DEF RemoteIdles
  <2> QED
    BY <1>42, <2>1 DEF RemoteIdles, Alive, Conns, control, dialling, store, blocks
<1> QED
  BY <1>1, <1>2, <1>3, <1>4, <1>5, <1>6, <1>7, <1>8, <1>9, <1>10, <1>11,
     <1>12, <1>13, <1>14, <1>15, <1>16, <1>17, <1>18, <1>19, <1>20, <1>21,
     <1>22, <1>23, <1>24, <1>25, <1>26, <1>27, <1>28, <1>29, <1>30, <1>31,
     <1>32, <1>33, <1>34, <1>35, <1>36, <1>37, <1>38, <1>39, <1>40, <1>41,
     <1>42
     DEF Next, SessionStep, EnvironmentStep, Dialled, Requested, PieceHandled,
         MessageHandled, KeptAlive, Conns

\* The state stays well formed: in particular tryNewPeer always indexes an
\* address of the chain, a handler with requests to send has an upstream to
\* send them to, and an upstream is never treated as a client.
THEOREM Typing == Spec => []TypeOK
<1>1. TypeInv => TypeOK
  BY DEF TypeInv
<1> QED
  BY <1>1, InitTyped, TypeStep, PTL DEF Spec

(***************************************************************************)
(* What is stored, counted, reported and still being downloaded.           *)
(***************************************************************************)

\* The inductive invariant.  The counters agree with pieceSet from the start,
\* totalPieces is only 0 before (or for want of) a good initialisation, and a
\* piece leaves activePieces in the step that records its last block.
InitOK ==
  /\ loop = "init" => /\ totalPieces = 0 /\ pieceSet = {} /\ activePieces = {}
                      /\ reported = {} /\ (server => disk = Blocks)
  /\ totalPieces \in {0, Cardinality(Pieces)}
  /\ loop # "init" /\ "init" \notin Faults => totalPieces = Cardinality(Pieces)
  /\ pieceSet # {} => totalPieces = Cardinality(Pieces)
CountOK == goodPieces = Cardinality(pieceSet)
ReportOK == "init" \notin Faults => ReportedComplete

StoreInv == Verified /\ InitOK /\ CountOK /\ ReportOK /\ ActiveUnfinished

\* a step that stores, counts and reports nothing, and records no block
Quiet ==
  /\ UNCHANGED <<store, activePieces, server>>
  /\ loop' = "init" <=> loop = "init"
  /\ \A k \in Blocks : downloaderCount[k] >= 0 => downloaderCount'[k] >= 0

LEMMA StoreInit == Init => StoreInv
<1> SUFFICES ASSUME Init PROVE StoreInv
  OBVIOUS
<1>1. Cardinality({}) = 0
  BY FS_EmptySet
<1> QED
  BY <1>1 DEF Init, StoreInv, Verified, InitOK, CountOK, ReportOK, ReportedComplete,
     ActiveUnfinished

LEMMA QuietStep == TypeInv /\ StoreInv /\ Quiet => StoreInv'
<1> SUFFICES ASSUME TypeInv, StoreInv, Quiet PROVE StoreInv'
  OBVIOUS
<1>1. ActiveUnfinished'
  BY BlockShape DEF TypeInv, TypeOK, StoreInv, ActiveUnfinished, Quiet, store
<1> QED
  BY <1>1 DEF StoreInv, Verified, Good, InitOK, CountOK, ReportOK, ReportedComplete,
     Quiet, store

\* requests and forgotten requests keep a count that is not negative so
LEMMA CountsStay ==
  ASSUME TypeInv
  PROVE  /\ \A S : \A k \in Blocks :
              downloaderCount[k] >= 0 => Released(S)[k] >= 0
         /\ \A k \in Blocks : \A l \in Blocks :
              downloaderCount[l] >= 0 => CountedRequest(k)[l] >= 0
         /\ \A k \in Blocks : CountedRequest(k)[k] >= 0
<1>1. ASSUME NEW k \in Blocks PROVE downloaderCount[k] \in Nat \cup {-1}
  BY DEF TypeInv, TypeOK
<1>2. ASSUME NEW S, NEW k \in Blocks, downloaderCount[k] >= 0
      PROVE  Released(S)[k] >= 0
  BY <1>1, <1>2 DEF Released
<1>3. ASSUME NEW k \in Blocks, NEW l \in Blocks
      PROVE  /\ CountedRequest(k)[l] = IF k = l THEN downloaderCount[l] + 1
                                                ELSE downloaderCount[l]
             /\ CountedRequest(k)[k] >= 0
             /\ downloaderCount[l] >= 0 => CountedRequest(k)[l] >= 0
  <2>1. CountedRequest(k)[l] = IF k = l THEN downloaderCount[l] + 1 ELSE downloaderCount[l]
    BY DEF TypeInv, TypeOK, CountedRequest
  <2>2. CountedRequest(k)[k] = downloaderCount[k] + 1
    BY DEF TypeInv, TypeOK, CountedRequest
  <2> QED
    BY <1>1, <2>1, <2>2
<1> QED
  BY <1>2, <1>3

\* writing a block of a piece that is not verified spoils none that is
LEMMA OverwriteSafe ==
  ASSUME Verified, NEW k, k[1] \notin pieceSet,
         disk' \in {disk, disk \cup {k}, disk \ {k}}
  PROVE  \A i \in pieceSet : Good(i, disk')
<1>1. ASSUME NEW i \in pieceSet, NEW b PROVE <<i, b>> # k
  <2>1. <<i, b>>[1] = i
    OBVIOUS
  <2> QED
    BY <2>1
<1> QED
  BY <1>1 DEF Verified, Good

LEMMA PieceShape ==
  ASSUME TypeInv, NEW c \in UpConns, Received(c, "PIECE")
  PROVE  Head(wire[c]).block \in Blocks
BY MessageShape DEF TypeInv, TypeOK, Conns, Received

\* a piece taken off activePieces leaves the others unfinished, and may be
\* added to pieceSet
LEMMA FinishedUnfinished ==
  ASSUME TypeInv, ActiveUnfinished, NEW i \in Pieces, Finished(i),
         pieceSet' \in {pieceSet, pieceSet \cup {i}}
  PROVE  ActiveUnfinished'
BY BlockShape DEF TypeInv, TypeOK, ActiveUnfinished, Finished

LEMMA StoreStep == TypeInv /\ StoreInv /\ [Next]_vars => StoreInv'
<1> SUFFICES ASSUME TypeInv, StoreInv, [Next]_vars PROVE StoreInv'
  OBVIOUS
<1> USE DEF StoreInv
<1>1. ASSUME RetryTimer PROVE Quiet
  BY <1>1 DEF RetryTimer, Quiet, store, blocks, Idle
<1>2. ASSUME HeaderFails PROVE Quiet
  BY <1>2 DEF HeaderFails, Quiet, store, blocks
<1>3. ASSUME NoSession PROVE Quiet
  BY <1>3 DEF NoSession, Quiet, store, blocks
<1>4. ASSUME DialFails PROVE Quiet
  BY <1>4 DEF DialFails, Quiet, store, blocks
<1>5. ASSUME NEW c \in UpConns, Connected(c) PROVE Quiet
  BY <1>5 DEF Connected, Quiet, store, blocks
<1>6. ASSUME NEW c \in DownConns, AcceptPeer(c) PROVE Quiet
  BY <1>6 DEF AcceptPeer, Quiet, store, blocks, Idle, control
<1>7. ASSUME NEW c \in UpConns, RequestNone(c) PROVE Quiet
  BY <1>7 DEF RequestNone, Quiet, store, blocks, Requesting, Returned
<1>8. ASSUME NEW c \in Conns, HandleBitfield(c) PROVE Quiet
  BY <1>8 DEF HandleBitfield, Quiet, store, blocks, Accepted, Received,
     Idle, ThenRequest
<1>9. ASSUME NEW c \in Conns, HandleHave(c) PROVE Quiet
  BY <1>9 DEF HandleHave, Quiet, store, blocks, Accepted, Received, Idle,
     ThenRequest
<1>10. ASSUME NEW c \in Conns, HandleRequest(c) PROVE Quiet
  BY <1>10 DEF HandleRequest, Quiet, store, blocks, Accepted, Received,
     Idle, Send
<1>11. ASSUME NEW c \in Conns, Refuse(c) PROVE Quiet
  BY <1>11, CountsStay DEF Refuse, TryReconn, Quiet, store, blocks, Accepted, Received,
     Idle, ClosePeer, control
<1>12. ASSUME NEW c \in Conns, HandleEOF(c) PROVE Quiet
  BY <1>12, CountsStay DEF HandleEOF, Quiet, store, blocks, Accepted,
     Received, Idle, ClosePeer, control
<1>13. ASSUME NEW c \in Conns, HandleWriterExit(c) PROVE Quiet
  BY <1>13, CountsStay DEF HandleWriterExit, Quiet, store, blocks, Idle,
     ClosePeer, control
<1>14. ASSUME NEW c \in UpConns, DuplicatePiece(c) PROVE Quiet
  BY <1>14 DEF DuplicatePiece, Quiet, store, blocks, Accepted, Received,
     Idle, ThenRequest
<1>15. ASSUME NEW c \in Conns, SendHave(c) PROVE Quiet
  BY <1>15 DEF SendHave, Quiet, store, blocks, Send
<1>16. ASSUME AllAnnounced PROVE Quiet
  BY <1>16 DEF AllAnnounced, Quiet, store, blocks
<1>17. ASSUME KeepAliveTick PROVE Quiet
  BY <1>17 DEF KeepAliveTick, Quiet, store, blocks, Idle
<1>18. ASSUME NEW c \in Conns, CloseIdle(c) PROVE Quiet
  BY <1>18, CountsStay DEF CloseIdle, Quiet, store, blocks, ClosePeer
<1>19. ASSUME NEW c \in Conns, CheckRequests(c) PROVE Quiet
  BY <1>19, CountsStay DEF CheckRequests, Quiet, store, blocks, Send
<1>20. ASSUME AllChecked PROVE Quiet
  BY <1>20 DEF AllChecked, Quiet, store, blocks
<1>21. ASSUME AskQuit PROVE Quiet
  BY <1>21 DEF AskQuit, Quiet, store, blocks
<1>22. ASSUME Quit PROVE Quiet
  BY <1>22 DEF Quit, Quiet, store, blocks, Idle
<1>23. ASSUME NEW c \in Conns, ShutdownPeer(c) PROVE Quiet
  BY <1>23, CountsStay DEF ShutdownPeer, Quiet, store, blocks, ClosePeer
<1>24. ASSUME Shutdown PROVE Quiet
  BY <1>24 DEF Shutdown, Quiet, store, blocks
<1>25. ASSUME NEW c \in UpConns, RemoteAnswers(c) PROVE Quiet
  BY <1>25 DEF RemoteAnswers, Quiet, store, blocks, control
<1>26. ASSUME NEW c \in Conns, RemoteDrops(c) PROVE Quiet
  BY <1>26 DEF RemoteDrops, Quiet, store, blocks, control
<1>27. ASSUME NEW c \in Conns, Discard(c) PROVE Quiet
  BY <1>27 DEF Discard, Quiet, store, blocks, control
<1>28. ASSUME NEW c \in DownConns, DownstreamSends(c) PROVE Quiet
  BY <1>28 DEF DownstreamSends, Quiet, store, blocks, control
<1>29. ASSUME NEW a \in Chain, NEW i \in Pieces, SourceGains(a, i) PROVE Quiet
  BY <1>29 DEF SourceGains, Quiet, store, blocks, control
<1>42. ASSUME NEW c \in Conns, RemoteIdles(c) PROVE Quiet
  BY <1>42 DEF RemoteIdles, Quiet, store, blocks, control
<1>30. ASSUME UNCHANGED vars PROVE Quiet
  BY <1>30 DEF Quiet, vars, store, blocks, control
<1>31. ASSUME NEW c \in UpConns, RequestActive(c) PROVE StoreInv'
  <2>1. PICK i \in Active(c) : \E b \in BlocksOf[i] : SendRequest(c, <<i, b>>)
    BY <1>31 DEF RequestActive
  <2>2. PICK b \in BlocksOf[i] : SendRequest(c, <<i, b>>)
    BY <2>1
  <2>4. <<i, b>> \in Blocks
    BY <2>1, BlockShape DEF Active, TypeInv, TypeOK
  <2>3. Quiet
    BY <1>31, <2>2, <2>4, CountsStay
       DEF RequestActive, Requesting, SendRequest, Send, Returned, Quiet, store
  <2> QED
    BY <2>3, QuietStep
<1>32. ASSUME NEW c \in UpConns, RequestEndgame(c) PROVE StoreInv'
  <2>1. PICK i \in Active(c) : \E b \in BlocksOf[i] : SendRequest(c, <<i, b>>)
    BY <1>32 DEF RequestEndgame
  <2>2. PICK b \in BlocksOf[i] : SendRequest(c, <<i, b>>)
    BY <2>1
  <2>4. <<i, b>> \in Blocks
    BY <2>1, BlockShape DEF Active, TypeInv, TypeOK
  <2>3. Quiet
    BY <1>32, <2>2, <2>4, CountsStay
       DEF RequestEndgame, Requesting, SendRequest, Send, Returned, Quiet, store
  <2> QED
    BY <2>3, QuietStep
<1>33. CASE InitFails
  BY <1>33 DEF InitFails, store, blocks, Verified, Good, InitOK, CountOK, ReportOK,
     ReportedComplete, ActiveUnfinished
<1>34. CASE InitInServer
  <2>1. disk = Blocks /\ activePieces = {} /\ reported = {}
    BY <1>34 DEF InitInServer, InitOK
  <2> QED
    BY <1>34, <2>1, BlockShape DEF InitInServer, blocks, Verified, Good, InitOK, CountOK,
       ReportOK, ReportedComplete, ActiveUnfinished
<1>35. CASE InitInClient
  <2>1. pieceSet' \subseteq GoodPieces(disk) /\ goodPieces' = Cardinality(pieceSet')
    BY <1>35 DEF InitInClient
  <2>2. Verified'
    BY <1>35, <2>1 DEF InitInClient, Verified, GoodPieces, Good
  <2>3. InitOK' /\ CountOK' /\ ReportOK' /\ ActiveUnfinished'
    BY <1>35, <2>1 DEF InitInClient, InitOK, CountOK, ReportOK, ReportedComplete,
       ActiveUnfinished, blocks
  <2> QED
    BY <2>2, <2>3
<1>36. CASE Start
  <2>1. totalPieces = goodPieces /\ "init" \notin Faults => pieceSet = Pieces
    BY <1>36, FS_Subset, PiecesFinite DEF Start, Idle, InitOK, CountOK, TypeInv, TypeOK
  <2>2. ReportOK'
    BY <1>36, <2>1 DEF Start, ReportOK, ReportedComplete
  <2>3. UNCHANGED <<pieceSet, disk, totalPieces, goodPieces, blocks>>
    BY <1>36 DEF Start
  <2>4. loop # "init" /\ loop' # "init"
    BY <1>36 DEF Start, Idle
  <2> QED
    BY <2>2, <2>3, <2>4 DEF Verified, Good, InitOK, CountOK, ActiveUnfinished, blocks
<1>37. ASSUME NEW c \in UpConns, RequestNew(c) PROVE StoreInv'
  <2>1. PICK i \in Missing(c) : SendRequest(c, <<i, 0>>) /\ activePieces' = activePieces \cup {i}
    BY <1>37 DEF RequestNew
  <2>2. i \in Pieces /\ i \notin pieceSet /\ <<i, 0>> \in Blocks /\ 0 \in BlocksOf[i]
    BY BlockShape DEF Missing, Conns, TypeInv, TypeOK
  <2>3. downloaderCount' = CountedRequest(<<i, 0>>) /\ UNCHANGED store
        /\ loop # "init" /\ loop' # "init"
    BY <1>37, <2>1 DEF SendRequest, Send, Returned, RequestNew, Requesting
  <2>4. downloaderCount'[<<i, 0>>] >= 0
    BY <2>2, <2>3, CountsStay
  <2>5. \A k \in Blocks : downloaderCount[k] >= 0 => downloaderCount'[k] >= 0
    BY <2>2, <2>3, CountsStay
  <2>6. ActiveUnfinished'
    BY <2>1, <2>2, <2>3, <2>4, <2>5, BlockShape DEF ActiveUnfinished, store, TypeInv, TypeOK
  <2> QED
    BY <2>3, <2>6 DEF store, Verified, Good, InitOK, CountOK, ReportOK, ReportedComplete
<1>38. ASSUME NEW c \in UpConns, PieceWriteFails(c) PROVE StoreInv'
  <2> DEFINE k == Head(wire[c]).block
  <2>1. k \in Blocks /\ k[1] \notin pieceSet
    BY <1>38, PieceShape DEF PieceWriteFails, Accepted, Received, Known
  <2>2. disk' \in {disk, disk \ {k}} /\ UNCHANGED <<totalPieces, goodPieces, pieceSet, reported, activePieces>>
        /\ loop # "init" /\ loop' # "init"
        /\ downloaderCount' = Released(ourRequests[c])
    BY <1>38 DEF PieceWriteFails, TryReconn, Accepted, Received, Idle, ClosePeer
  <2>3. Verified'
    BY <2>1, <2>2, OverwriteSafe DEF Verified
  <2>4. ActiveUnfinished'
    BY <2>2, CountsStay, BlockShape DEF ActiveUnfinished, TypeInv, TypeOK
  <2> QED
    BY <2>2, <2>3, <2>4 DEF InitOK, CountOK, ReportOK, ReportedComplete
<1>39. ASSUME NEW c \in UpConns, PieceStored(c) PROVE StoreInv'
  <2> DEFINE k == Head(wire[c]).block
  <2>1. /\ k \in Blocks /\ k[1] \notin pieceSet /\ ~Completes(k)
        /\ disk' \in {disk \cup {k}, disk \ {k}}
        /\ UNCHANGED <<totalPieces, goodPieces, pieceSet, reported, activePieces>>
        /\ loop # "init" /\ loop' # "init"
        /\ downloaderCount' = IF k[1] \in activePieces
                              THEN [downloaderCount EXCEPT ![k] = -1] ELSE downloaderCount
    BY <1>39, PieceShape DEF PieceStored, Stored, Accepted, Received, Known, Idle, ThenRequest
  <2>2. Verified'
    BY <2>1, OverwriteSafe DEF Verified
  <2>3. ActiveUnfinished'
    <3> SUFFICES ASSUME NEW i \in activePieces
                 PROVE  i \notin pieceSet /\ \E b \in BlocksOf[i] : downloaderCount'[<<i, b>>] >= 0
      BY <2>1 DEF ActiveUnfinished
    <3>1. PICK b \in BlocksOf[i] : i \notin pieceSet /\ downloaderCount[<<i, b>>] >= 0
      BY DEF ActiveUnfinished
    <3>2. CASE k[1] # i
      BY <2>1, <3>1, <3>2, BlockShape DEF TypeInv, TypeOK
    <3>3. CASE k[1] = i
      <4>1. PICK e \in BlocksOf[i] : <<i, e>> # k /\ downloaderCount[<<i, e>>] # -1
        BY <2>1, <3>3 DEF Completes
      <4>2. <<i, e>> \in Blocks
        BY <4>1, BlockShape DEF TypeInv, TypeOK
      <4>3. downloaderCount[<<i, e>>] \in Nat \cup {-1}
        BY <4>2 DEF TypeInv, TypeOK
      <4>4. downloaderCount'[<<i, e>>] = downloaderCount[<<i, e>>]
        BY <2>1, <4>1, <4>2 DEF TypeInv, TypeOK
      <4> QED
        BY <3>1, <4>1, <4>3, <4>4
    <3> QED
      BY <3>2, <3>3
  <2> QED
    BY <2>1, <2>2, <2>3 DEF InitOK, CountOK, ReportOK, ReportedComplete
<1>40. ASSUME NEW c \in UpConns, PieceCorrupt(c) PROVE StoreInv'
  <2> DEFINE k == Head(wire[c]).block
  <2>1. /\ k \in Blocks /\ k[1] \notin pieceSet
        /\ disk' \in {disk \cup {k}, disk \ {k}}
        /\ Finished(k[1])
        /\ reported' = reported \cup {-1}
        /\ UNCHANGED <<totalPieces, goodPieces, pieceSet>>
        /\ loop # "init" /\ loop' # "init"
    BY <1>40, PieceShape DEF PieceCorrupt, Stored, Accepted, Received, Known, Idle, ThenRequest
  <2>2. Verified'
    BY <2>1, OverwriteSafe DEF Verified
  <2>3. ActiveUnfinished'
    BY <2>1, BlockShape, FinishedUnfinished
  <2> QED
    BY <2>1, <2>2, <2>3 DEF InitOK, CountOK, ReportOK, ReportedComplete
<1>41. ASSUME NEW c \in UpConns, PieceVerified(c) PROVE StoreInv'
  <2> DEFINE k == Head(wire[c]).block
             i == k[1]
  <2>1. /\ k \in Blocks /\ i \in Pieces /\ i \notin pieceSet
        /\ disk' \in {disk \cup {k}, disk \ {k}} /\ Good(i, disk')
        /\ Finished(i)
        /\ pieceSet' = pieceSet \cup {i}
        /\ goodPieces' = goodPieces + 1
        /\ reported' = reported \cup Reports(goodPieces')
        /\ totalPieces' = totalPieces /\ totalPieces > 0
        /\ loop # "init" /\ loop' # "init"
    BY <1>41, PieceShape, BlockShape
       DEF PieceVerified, Stored, Accepted, Received, Known, Idle
  <2>2. Verified'
    BY <2>1, OverwriteSafe DEF Verified
  <2> HIDE DEF k, i
  <2>3. ActiveUnfinished'
    <3>1. pieceSet' \in {pieceSet, pieceSet \cup {i}} /\ i \in Pieces /\ Finished(i)
      BY <2>1
    <3> QED
      BY <3>1, FinishedUnfinished
  <2>4. CountOK'
    BY <2>1, FS_AddElement, CardinalityTyped DEF CountOK, TypeInv, TypeOK
  <2>5. totalPieces = Cardinality(Pieces)
    BY <2>1 DEF InitOK
  <2>6. pieceSet' \subseteq Pieces
    BY <2>1 DEF TypeInv, TypeOK
  <2>7. goodPieces' = totalPieces => pieceSet' = Pieces
    BY <2>4, <2>5, <2>6, FS_Subset, PiecesFinite DEF CountOK
  <2>8. 100 \in reported => pieceSet' = Pieces \/ "init" \in Faults
    BY <2>1, <2>6 DEF ReportOK, ReportedComplete
  <2>9. ReportOK'
    BY <2>1, <2>7, <2>8 DEF ReportOK, ReportedComplete, Reports
  <2>10. InitOK'
    BY <2>1, <2>5 DEF InitOK
  <2> QED
    BY <2>2, <2>3, <2>4, <2>9, <2>10
<1> QED
  BY <1>1, <1>2, <1>3, <1>4, <1>5, <1>6, <1>7, <1>8, <1>9, <1>10, <1>11,
     <1>12, <1>13, <1>14, <1>15, <1>16, <1>17, <1>18, <1>19, <1>20, <1>21,
     <1>22, <1>23, <1>24, <1>25, <1>26, <1>27, <1>28, <1>29, <1>30, <1>31,
     <1>32, <1>33, <1>34, <1>35, <1>36, <1>37, <1>38, <1>39, <1>40, <1>41,
     <1>42, QuietStep
     DEF Next, SessionStep, EnvironmentStep, Dialled, Requested, PieceHandled,
         MessageHandled, KeptAlive, Conns

(***************************************************************************)
(* The theorems about what is stored, and what is announced and asked for. *)
(***************************************************************************)

\* Pieces the session has, announces, serves and counts are on disk with the
\* right bytes, under every fault of the model.
THEOREM VerifiedAlways == Spec => []Verified
<1>1. StoreInv => Verified
  BY DEF StoreInv
<1> QED
  BY <1>1, InitTyped, TypeStep, StoreInit, StoreStep, PTL DEF Spec

\* A piece being downloaded always has a block left to ask for.
THEOREM ActiveUnfinishedAlways == Spec => []ActiveUnfinished
<1>1. StoreInv => ActiveUnfinished
  BY DEF StoreInv
<1> QED
  BY <1>1, InitTyped, TypeStep, StoreInit, StoreStep, PTL DEF Spec

\* 100% is reported only with every piece verified, unless the session was
\* entered with a failed initialisation (the code_bug of that run).
THEOREM ReportedCompleteAlways ==
  ASSUME "init" \notin Faults PROVE Spec => []ReportedComplete
<1>1. StoreInv => ReportedComplete
  BY DEF StoreInv, ReportOK
<1> QED
  BY <1>1, InitTyped, TypeStep, StoreInit, StoreStep, PTL DEF Spec

\* The inductive invariant of NoStall: a live upstream is owed something --
\* a message to handle, an answer to wait for, a request the loop is about
\* to send -- or has no piece the session lacks.  Sending to it cannot fail.
WriterOK == \A c \in Conns : link[c] \in {"ok", "unused"} => writer[c] = "up"

Busy(c) ==
  \/ wire[c] # <<>> \/ asked[c] # <<>>
  \/ loop \in {"request", "announce"} /\ serving = c

Served ==
  \A c \in UpConns : link[c] = "ok" /\ loop # "blocked" /\ ~Busy(c)
                       => have[c] \subseteq pieceSet

AnnouncedOK == AnnouncedHeld /\ fresh \subseteq pieceSet

FlowInv == WriterOK /\ Served /\ AnnouncedOK

LEMMA FlowInit == Init => FlowInv
BY DEF Init, FlowInv, WriterOK, Served, AnnouncedOK, AnnouncedHeld, Conns

\* a send fails only on a connection that is no longer live
LEMMA SendFlow ==
  ASSUME TypeInv, WriterOK, NEW c \in Conns, NEW next, Send(c, next), link' = link
  PROVE  WriterOK'
<1>1. CASE writer[c] = "up"
  <2>1. PICK w \in WriteResults(c) : writer' = [writer EXCEPT ![c] = w]
    BY <1>1 DEF Send
  <2>2. link[c] \in {"ok", "unused"} => w = "up"
    BY DEF WriteResults
  <2> QED
    BY <2>1, <2>2 DEF TypeInv, TypeOK, WriterOK
<1>2. CASE writer[c] # "up"
  BY <1>2 DEF Send, WriterOK
<1> QED
  BY <1>1, <1>2

LEMMA ClosingFlow ==
  ASSUME TypeInv, WriterOK, NEW c \in Conns, NEW q, Closing(c, q),
         writer' \in {writer, [writer EXCEPT ![c] = "gone"]}
  PROVE  WriterOK'
BY DEF TypeInv, TypeOK, WriterOK, Closing


\* a request that is sent keeps its upstream busy
LEMMA SendRequestFlow ==
  ASSUME TypeInv, FlowInv, NEW c \in UpConns, NEW k, Requesting(c), SendRequest(c, k)
  PROVE  FlowInv'
<1> USE DEF FlowInv
<1>1. c \in Conns /\ UNCHANGED <<fresh, store, link, have, announced, wire>>
  BY DEF Conns, SendRequest
<1>2. WriterOK'
  BY <1>1, SendFlow DEF SendRequest
<1>3. AnnouncedOK'
  BY <1>1 DEF AnnouncedOK, AnnouncedHeld, store
<1>4. Served'
  <2> SUFFICES ASSUME NEW u \in UpConns, link'[u] = "ok", loop' # "blocked", ~Busy(u)'
               PROVE  have'[u] \subseteq pieceSet'
    BY DEF Served
  <2>1. CASE u = c
    <3>1. writer[c] = "up" /\ asked' = [asked EXCEPT ![c] = Append(@, k)]
      BY <2>1, <1>1 DEF WriterOK, SendRequest
    <3>2. asked[c] \in Seq(Blocks) /\ asked'[c] = Append(asked[c], k)
      BY <3>1, <1>1 DEF TypeInv, TypeOK
    <3>3. asked'[c] # <<>>
      BY <3>2
    <3> QED
      BY <2>1, <3>3 DEF Busy
  <2>2. CASE u # c
    <3>1. asked'[u] = asked[u]
      BY <2>2, <1>1 DEF SendRequest, TypeInv, TypeOK
    <3>2. loop = "request" /\ serving = c
      BY DEF Requesting
    <3> QED
      BY <2>2, <3>1, <3>2, <1>1 DEF Served, Busy, store
  <2> QED
    BY <2>1, <2>2
<1> QED
  BY <1>2, <1>3, <1>4

\* requestBlock only finds nothing to ask for when nothing is missing
LEMMA RequestNoneServed ==
  ASSUME TypeInv, StoreInv, NEW c \in UpConns, RequestNone(c)
  PROVE  have[c] \subseteq pieceSet
<1>1. ASSUME NEW i \in Active(c) PROVE FALSE
  <2>1. PICK b \in BlocksOf[i] : downloaderCount[<<i, b>>] >= 0
    BY DEF Active, StoreInv, ActiveUnfinished
  <2>2. downloaderCount[<<i, b>>] = -1
    BY DEF RequestNone
  <2> QED
    BY <2>1, <2>2
<1> QED
  BY <1>1 DEF RequestNone, Missing, Active

\* a sequence something was appended to
LEMMA AppendNonEmpty ==
  ASSUME NEW S, NEW s \in Seq(S), NEW e \in S
  PROVE  Append(s, e) # <<>>
<1>1. Len(Append(s, e)) = Len(s) + 1 /\ Len(s) \in Nat
  OBVIOUS
<1>2. Len(<<>>) = 0
  OBVIOUS
<1> QED
  BY <1>1, <1>2

\* every step keeps it
LEMMA FlowStep == TypeInv /\ StoreInv /\ FlowInv /\ [Next]_vars => FlowInv'
<1> SUFFICES ASSUME TypeInv, StoreInv, FlowInv, [Next]_vars PROVE FlowInv'
  OBVIOUS
<1> USE DEF FlowInv
<1>1. CASE InitInServer
  BY <1>1 DEF InitInServer, blocks, conns, WriterOK, Served, Busy,
     AnnouncedOK, AnnouncedHeld, TypeInv, TypeOK, StoreInv, InitOK, store
<1>2. CASE InitInClient
  BY <1>2 DEF InitInClient, blocks, conns, WriterOK, Served, Busy,
     AnnouncedOK, AnnouncedHeld, TypeInv, TypeOK, StoreInv, InitOK, store
<1>3. CASE InitFails
  BY <1>3 DEF InitFails, blocks, conns, WriterOK, Served, Busy, AnnouncedOK,
     AnnouncedHeld, TypeInv, TypeOK, StoreInv, InitOK, store
<1>4. CASE Start
  BY <1>4 DEF Start, blocks, conns, WriterOK, Served, Busy, AnnouncedOK,
     AnnouncedHeld, TypeInv, TypeOK, StoreInv, InitOK, Idle, store
<1>5. CASE DialFails
  BY <1>5 DEF DialFails, blocks, conns, WriterOK, Served, Busy, AnnouncedOK,
     AnnouncedHeld, TypeInv, TypeOK, StoreInv, InitOK, store
<1>6. CASE HeaderFails
  BY <1>6 DEF HeaderFails, blocks, conns, WriterOK, Served, Busy,
     AnnouncedOK, AnnouncedHeld, TypeInv, TypeOK, StoreInv, InitOK, store
<1>7. CASE NoSession
  BY <1>7 DEF NoSession, blocks, conns, WriterOK, Served, Busy, AnnouncedOK,
     AnnouncedHeld, TypeInv, TypeOK, StoreInv, InitOK, store
<1>8. CASE RetryTimer
  BY <1>8 DEF RetryTimer, blocks, conns, WriterOK, Served, Busy,
     AnnouncedOK, AnnouncedHeld, TypeInv, TypeOK, StoreInv, InitOK, Idle, store
<1>9. ASSUME NEW c \in UpConns, Connected(c) PROVE FlowInv'
  BY <1>9 DEF Connected, blocks, conns, WriterOK, Served, Busy, AnnouncedOK,
     AnnouncedHeld, TypeInv, TypeOK, StoreInv, InitOK, OurBitfield, store,
     Conns
<1>10. ASSUME NEW c \in DownConns, AcceptPeer(c) PROVE FlowInv'
  BY <1>10, ConnsAssumption DEF AcceptPeer, blocks, conns, WriterOK, Served,
     Busy, AnnouncedOK, AnnouncedHeld, TypeInv, TypeOK, StoreInv, InitOK,
     OurBitfield, Idle, store, control, Conns
<1>11. ASSUME NEW c \in UpConns, RequestActive(c) PROVE FlowInv'
  BY <1>11, SendRequestFlow DEF RequestActive
<1>12. ASSUME NEW c \in UpConns, RequestNew(c) PROVE FlowInv'
  BY <1>12, SendRequestFlow DEF RequestNew
<1>13. ASSUME NEW c \in UpConns, RequestEndgame(c) PROVE FlowInv'
  BY <1>13, SendRequestFlow DEF RequestEndgame
<1>14. ASSUME NEW c \in UpConns, RequestNone(c) PROVE FlowInv'
  <2>1. have[c] \subseteq pieceSet
    BY <1>14, RequestNoneServed
  <2> QED
    BY <1>14, <2>1 DEF RequestNone, Requesting, Called, Returned, store, blocks, conns,
       WriterOK, Served, Busy, AnnouncedOK, AnnouncedHeld
<1>15. ASSUME NEW c \in Conns, HandleBitfield(c) PROVE FlowInv'
  BY <1>15 DEF HandleBitfield, blocks, conns, WriterOK, Served, Busy,
     AnnouncedOK, AnnouncedHeld, TypeInv, TypeOK, StoreInv, InitOK, Accepted,
     Received, Idle, Consume, ThenRequest, Conns, store
<1>16. ASSUME NEW c \in Conns, HandleHave(c) PROVE FlowInv'
  BY <1>16, NumbersAssumption DEF HandleHave, blocks, conns, WriterOK,
     Served, Busy, AnnouncedOK, AnnouncedHeld, TypeInv, TypeOK, StoreInv,
     InitOK, Accepted, Received, Idle, Consume, ThenRequest, Conns, store
<1>17. ASSUME NEW c \in Conns, HandleRequest(c) PROVE FlowInv'
  <2>1. c \in DownConns
    BY <1>17, MessageShape
       DEF HandleRequest, Accepted, Received, Conns, TypeInv, TypeOK
  <2>2. WriterOK'
    BY <1>17, SendFlow DEF HandleRequest
  <2> QED
    BY <1>17, <2>1, <2>2, ConnsAssumption
       DEF HandleRequest, Accepted, Received, Idle, Consume, Send, store, Served, Busy,
           AnnouncedOK, AnnouncedHeld, Conns
<1>18. ASSUME NEW c \in Conns, Refuse(c) PROVE FlowInv'
  BY <1>18, ClosingFlow DEF Refuse, TryReconn, blocks, conns, WriterOK, Served, Busy,
     AnnouncedOK, AnnouncedHeld, TypeInv, TypeOK, StoreInv, InitOK, Accepted,
     Received, Idle, store, control, ClosePeer, Closing
<1>19. ASSUME NEW c \in Conns, HandleEOF(c) PROVE FlowInv'
  BY <1>19, ClosingFlow DEF HandleEOF, blocks, conns, WriterOK, Served,
     Busy, AnnouncedOK, AnnouncedHeld, TypeInv, TypeOK, StoreInv, InitOK,
     Accepted, Received, Idle, store, control, ClosePeer, Closing
<1>20. ASSUME NEW c \in Conns, HandleWriterExit(c) PROVE FlowInv'
  BY <1>20, ClosingFlow DEF HandleWriterExit, blocks, conns, WriterOK,
     Served, Busy, AnnouncedOK, AnnouncedHeld, TypeInv, TypeOK, StoreInv,
     InitOK, Accepted, Received, Idle, store, control, ClosePeer, Closing
<1>21. ASSUME NEW c \in UpConns, DuplicatePiece(c) PROVE FlowInv'
  BY <1>21 DEF DuplicatePiece, blocks, conns, WriterOK, Served, Busy,
     AnnouncedOK, AnnouncedHeld, TypeInv, TypeOK, StoreInv, InitOK, Accepted,
     Received, Idle, Consume, ThenRequest, store, Conns
<1>22. ASSUME NEW c \in UpConns, PieceWriteFails(c) PROVE FlowInv'
  BY <1>22, ClosingFlow DEF PieceWriteFails, TryReconn, blocks, conns, WriterOK,
     Served, Busy, AnnouncedOK, AnnouncedHeld, TypeInv, TypeOK, StoreInv,
     InitOK, Accepted, Received, Idle, Consume, ThenRequest, ClosePeer,
     Closing, Conns
<1>23. ASSUME NEW c \in UpConns, PieceStored(c) PROVE FlowInv'
  BY <1>23 DEF PieceStored, blocks, conns, WriterOK, Served, Busy,
     AnnouncedOK, AnnouncedHeld, TypeInv, TypeOK, StoreInv, InitOK, Accepted,
     Received, Idle, Consume, ThenRequest, Stored, Conns
<1>24. ASSUME NEW c \in UpConns, PieceCorrupt(c) PROVE FlowInv'
  BY <1>24, ClosingFlow DEF PieceCorrupt, blocks, conns, WriterOK, Served,
     Busy, AnnouncedOK, AnnouncedHeld, TypeInv, TypeOK, StoreInv, InitOK,
     Accepted, Received, Idle, Consume, ThenRequest, Stored, Closing, Conns
<1>25. ASSUME NEW c \in UpConns, PieceVerified(c) PROVE FlowInv'
  BY <1>25 DEF PieceVerified, blocks, conns, WriterOK, Served, Busy,
     AnnouncedOK, AnnouncedHeld, TypeInv, TypeOK, StoreInv, InitOK, Accepted,
     Received, Idle, Consume, ThenRequest, Stored, Conns
<1>26. ASSUME NEW c \in Conns, SendHave(c) PROVE FlowInv'
  BY <1>26, SendFlow DEF SendHave, blocks, conns, WriterOK, Served, Busy,
     AnnouncedOK, AnnouncedHeld, TypeInv, TypeOK, StoreInv, InitOK, Send, store
<1>27. CASE AllAnnounced
  BY <1>27 DEF AllAnnounced, blocks, conns, WriterOK, Served, Busy,
     AnnouncedOK, AnnouncedHeld, TypeInv, TypeOK, StoreInv, InitOK, store
<1>28. CASE KeepAliveTick
  BY <1>28 DEF KeepAliveTick, blocks, conns, WriterOK, Served, Busy,
     AnnouncedOK, AnnouncedHeld, TypeInv, TypeOK, StoreInv, InitOK, Idle, store
<1>29. ASSUME NEW c \in Conns, CloseIdle(c) PROVE FlowInv'
  BY <1>29, ClosingFlow DEF CloseIdle, blocks, conns, WriterOK, Served,
     Busy, AnnouncedOK, AnnouncedHeld, TypeInv, TypeOK, StoreInv, InitOK,
     ClosePeer, Closing, store
<1>30. ASSUME NEW c \in Conns, CheckRequests(c) PROVE FlowInv'
  BY <1>30, SendFlow DEF CheckRequests, blocks, conns, WriterOK, Served,
     Busy, AnnouncedOK, AnnouncedHeld, TypeInv, TypeOK, StoreInv, InitOK, Send,
     store
<1>31. CASE AllChecked
  BY <1>31 DEF AllChecked, blocks, conns, WriterOK, Served, Busy,
     AnnouncedOK, AnnouncedHeld, TypeInv, TypeOK, StoreInv, InitOK, store
<1>32. CASE AskQuit
  BY <1>32 DEF AskQuit, blocks, conns, WriterOK, Served, Busy, AnnouncedOK,
     AnnouncedHeld, TypeInv, TypeOK, StoreInv, InitOK, store
<1>33. CASE Quit
  BY <1>33 DEF Quit, blocks, conns, WriterOK, Served, Busy, AnnouncedOK,
     AnnouncedHeld, TypeInv, TypeOK, StoreInv, InitOK, Idle, store
<1>34. ASSUME NEW c \in Conns, ShutdownPeer(c) PROVE FlowInv'
  BY <1>34, ClosingFlow DEF ShutdownPeer, blocks, conns, WriterOK, Served,
     Busy, AnnouncedOK, AnnouncedHeld, TypeInv, TypeOK, StoreInv, InitOK,
     ClosePeer, Closing, store
<1>35. CASE Shutdown
  BY <1>35 DEF Shutdown, blocks, conns, WriterOK, Served, Busy, AnnouncedOK,
     AnnouncedHeld, TypeInv, TypeOK, StoreInv, InitOK, store
<1>36. ASSUME NEW c \in UpConns, RemoteAnswers(c) PROVE FlowInv'
  <2>1. PICK good \in BOOLEAN :
          wire' = [wire EXCEPT ![c] = Heard(@, Piece(Head(asked[c]), good))]
    BY <1>36 DEF RemoteAnswers
  <2>2. c \in Conns /\ asked[c] \in Seq(Blocks) /\ asked[c] # <<>> /\ wire[c] \in Seq(Messages)
    BY <1>36 DEF RemoteAnswers, TypeInv, TypeOK, Conns
  <2>3. Heard(wire[c], Piece(Head(asked[c]), good)) # <<>>
    <3>1. Head(asked[c]) \in Blocks
      BY <2>2
    <3>2. Piece(Head(asked[c]), good) \in Messages
      BY <3>1, MessageShape
    <3> QED
      BY <2>2, <3>2, HeardTyped
  <2>4. wire'[c] # <<>> /\ \A u \in Conns \ {c} : wire'[u] = wire[u] /\ asked'[u] = asked[u]
    BY <1>36, <2>1, <2>2, <2>3 DEF RemoteAnswers, TypeInv, TypeOK
  <2> QED
    BY <1>36, <2>2, <2>4 DEF RemoteAnswers, WriterOK, Served, Busy, AnnouncedOK, AnnouncedHeld,
       control, store, blocks, Conns
<1>37. ASSUME NEW c \in Conns, RemoteDrops(c) PROVE FlowInv'
  BY <1>37 DEF RemoteDrops, blocks, conns, WriterOK, Served, Busy,
     AnnouncedOK, AnnouncedHeld, TypeInv, TypeOK, StoreInv, InitOK, control,
     store
<1>38. ASSUME NEW c \in Conns, Discard(c) PROVE FlowInv'
  BY <1>38 DEF Discard, blocks, conns, WriterOK, Served, Busy, AnnouncedOK,
     AnnouncedHeld, TypeInv, TypeOK, StoreInv, InitOK, control, store
<1>39. ASSUME NEW c \in DownConns, DownstreamSends(c) PROVE FlowInv'
  BY <1>39, ConnsAssumption DEF DownstreamSends, blocks, conns, WriterOK,
     Served, Busy, AnnouncedOK, AnnouncedHeld, TypeInv, TypeOK, StoreInv,
     InitOK, control, store, Conns
<1>40. ASSUME NEW a \in Chain, NEW i \in Pieces, SourceGains(a, i) PROVE FlowInv'
  <2>1. /\ \A u \in UpConns : wire'[u] = wire[u] \/ wire'[u] = Append(wire[u], Have(i))
        /\ UNCHANGED <<control, store, link, writer, have, announced, asked>>
    BY <1>40 DEF SourceGains, Conns, Heard
  <2>2. ASSUME NEW u \in UpConns, wire[u] # <<>> PROVE wire'[u] # <<>>
    <3>1. wire[u] \in Seq(Messages)
      BY DEF TypeInv, TypeOK, Conns
    <3>2. Have(i) \in Messages
      BY DEF Messages, UpMessages
    <3> QED
      BY <2>1, <2>2, <3>1, <3>2, AppendNonEmpty
  <2> QED
    BY <2>1, <2>2 DEF control, store, WriterOK, Served, Busy, AnnouncedOK, AnnouncedHeld
<1>41. CASE UNCHANGED vars
  BY <1>41 DEF vars, control, store, blocks, conns, WriterOK, Served, Busy, AnnouncedOK, AnnouncedHeld
<1>42. ASSUME NEW c \in Conns, RemoteIdles(c) PROVE FlowInv'
  <2>1. /\ wire'[c] = Append(wire[c], Misread) /\ \A u \in Conns \ {c} : wire'[u] = wire[u]
        /\ UNCHANGED <<control, store, link, writer, have, announced, asked>>
    BY <1>42 DEF RemoteIdles, TypeInv, TypeOK
  <2>2. wire[c] \in Seq(Messages) /\ Misread \in Messages
    BY <1>42, MessageShape DEF RemoteIdles, TypeInv, TypeOK
  <2>3. wire'[c] # <<>>
    BY <2>1, <2>2, AppendNonEmpty
  <2> QED
    BY <2>1, <2>3 DEF control, store, WriterOK, Served, Busy, AnnouncedOK, AnnouncedHeld, Conns
<1> QED
  BY <1>1, <1>2, <1>3, <1>4, <1>5, <1>6, <1>7, <1>8, <1>9, <1>10, <1>11,
     <1>12, <1>13, <1>14, <1>15, <1>16, <1>17, <1>18, <1>19, <1>20, <1>21,
     <1>22, <1>23, <1>24, <1>25, <1>26, <1>27, <1>28, <1>29, <1>30, <1>31,
     <1>32, <1>33, <1>34, <1>35, <1>36, <1>37, <1>38, <1>39, <1>40, <1>41,
     <1>42
     DEF Next, SessionStep, EnvironmentStep, Dialled, Requested, PieceHandled,
         MessageHandled, KeptAlive, Conns

\* No lost request: when nothing is on its way on a live upstream connection
\* and the loop is idle, everything that upstream announced has been verified.
THEOREM NoStallAlways == Spec => []NoStall
<1>1. FlowInv => NoStall
  BY DEF FlowInv, NoStall, Served, Busy, Idle
<1> QED
  BY <1>1, InitTyped, TypeStep, StoreInit, StoreStep, FlowInit, FlowStep, PTL DEF Spec

\* Nothing is announced, in a bitfield or a HAVE, that could not be served.
THEOREM AnnouncedHeldAlways == Spec => []AnnouncedHeld
<1>1. FlowInv => AnnouncedHeld
  BY DEF FlowInv, AnnouncedOK
<1> QED
  BY <1>1, InitTyped, TypeStep, StoreInit, StoreStep, FlowInit, FlowStep, PTL DEF Spec

(***************************************************************************)
(* The session implements Download.                                        *)
(***************************************************************************)

\* An upstream connection is only opened by an agent's started session, so
\* no piece can come before the start.
Fetching == started /\ ~server
Used(c) ==
  \/ c \in peers \cup pending \/ link[c] # "unused"
  \/ writer[c] # "up" \/ wire[c] # <<>> \/ asked[c] # <<>>
FetchOK ==
  /\ loop = "dial" \/ retryConn => Fetching
  /\ \A c \in UpConns : Used(c) => Fetching

\* 100% is reported exactly when a started agent holds every piece
ToldOK ==
  /\ started => loop # "init"
  /\ 100 \in reported <=> Fetching /\ pieceSet = Pieces

PromiseInv == FetchOK /\ ToldOK

LEMMA PromiseInit == Init => PromiseInv /\ Promise!Init
BY DEF Init, PromiseInv, FetchOK, Used, ToldOK, Promise!Init, Phase, Conns, Fetching

Ended == {"ended", "crashed"}

\* a step that neither starts the session nor obtains a piece
Steady ==
  /\ UNCHANGED <<started, pieceSet, server>>
  /\ 100 \in reported' <=> 100 \in reported
  /\ loop' = "init" <=> loop = "init"
  /\ loop \in Ended => loop' \in Ended

LEMMA SteadyStep ==
  PromiseInv /\ Steady => ToldOK' /\ [Promise!Next]_(Promise!vars)
<1> SUFFICES ASSUME PromiseInv, Steady PROVE ToldOK' /\ [Promise!Next]_(Promise!vars)
  OBVIOUS
<1>1. ToldOK'
  BY DEF PromiseInv, ToldOK, Steady, Fetching
<1>2. CASE loop' \in Ended /\ loop \notin Ended
  <2>1. Phase # "over" /\ Phase' = "over"
    BY <1>2 DEF Phase, Ended, Steady
  <2> QED
    BY <1>1, <2>1 DEF Promise!Next, Promise!End, Steady
<1>3. CASE ~(loop' \in Ended /\ loop \notin Ended)
  <2>1. Phase' = Phase
    BY <1>3 DEF Phase, Ended, Steady
  <2> QED
    BY <1>1, <2>1 DEF Promise!vars, Steady
<1> QED
  BY <1>2, <1>3

\* what a request leaves alone
LEMMA SendRequestSteady ==
  ASSUME TypeInv, PromiseInv, NEW c \in UpConns, NEW k, Requesting(c), SendRequest(c, k)
  PROVE  Steady /\ FetchOK'
BY DEF SendRequest, Requesting, Send, WriteResults, Returned, Steady, Ended, FetchOK,
   Used, PromiseInv, Fetching, dialling, store, TypeInv, TypeOK, Conns

LEMMA PromiseStep ==
  ASSUME "init" \notin Faults
  PROVE  TypeInv /\ StoreInv /\ PromiseInv /\ [Next]_vars
           => PromiseInv' /\ [Promise!Next]_(Promise!vars)
<1> SUFFICES ASSUME TypeInv, StoreInv, PromiseInv, [Next]_vars
             PROVE  PromiseInv' /\ [Promise!Next]_(Promise!vars)
  OBVIOUS
<1> USE DEF PromiseInv
<1>1. ASSUME RetryTimer PROVE Steady /\ FetchOK'
  BY <1>1 DEF RetryTimer, Steady, Ended, FetchOK, Used, Fetching, Idle, control,
     dialling, store, blocks, conns, vars, TypeInv, TypeOK, Conns
<1>2. ASSUME HeaderFails PROVE Steady /\ FetchOK'
  BY <1>2 DEF HeaderFails, Steady, Ended, FetchOK, Used, Fetching, Idle, control,
     dialling, store, blocks, conns, vars, TypeInv, TypeOK, Conns
<1>3. ASSUME NoSession PROVE Steady /\ FetchOK'
  BY <1>3 DEF NoSession, Steady, Ended, FetchOK, Used, Fetching, Idle, control,
     dialling, store, blocks, conns, vars, TypeInv, TypeOK, Conns
<1>4. ASSUME DialFails PROVE Steady /\ FetchOK'
  BY <1>4 DEF DialFails, Steady, Ended, FetchOK, Used, Fetching, Idle, control,
     dialling, store, blocks, conns, vars, TypeInv, TypeOK, Conns
<1>5. ASSUME NEW c \in UpConns, Connected(c) PROVE Steady /\ FetchOK'
  BY <1>5 DEF Connected, Steady, Ended, FetchOK, Used, Fetching, Idle, control,
     dialling, store, blocks, conns, vars, TypeInv, TypeOK, Conns
<1>6. ASSUME NEW c \in DownConns, AcceptPeer(c) PROVE Steady /\ FetchOK'
  BY <1>6, ConnsAssumption DEF AcceptPeer, Steady, Ended, FetchOK, Used, Fetching,
     Idle, control, dialling, store, blocks, conns, vars, TypeInv, TypeOK, Conns
<1>7. ASSUME NEW c \in UpConns, RequestActive(c) PROVE Steady /\ FetchOK'
  BY <1>7, SendRequestSteady DEF RequestActive
<1>8. ASSUME NEW c \in UpConns, RequestNew(c) PROVE Steady /\ FetchOK'
  BY <1>8, SendRequestSteady DEF RequestNew
<1>9. ASSUME NEW c \in UpConns, RequestEndgame(c) PROVE Steady /\ FetchOK'
  BY <1>9, SendRequestSteady DEF RequestEndgame
<1>10. ASSUME NEW c \in UpConns, RequestNone(c) PROVE Steady /\ FetchOK'
  BY <1>10 DEF RequestNone, Called, Returned, Requesting, Steady, Ended, FetchOK,
     Used, Fetching, Idle, control, dialling, store, blocks, conns, vars, TypeInv,
     TypeOK, Conns
<1>11. ASSUME NEW c \in Conns, HandleBitfield(c) PROVE Steady /\ FetchOK'
  BY <1>11 DEF HandleBitfield, Consume, ThenRequest, Accepted, Received, Steady,
     Ended, FetchOK, Used, Fetching, Idle, control, dialling, store, blocks, conns,
     vars, TypeInv, TypeOK, Conns
<1>12. ASSUME NEW c \in Conns, HandleHave(c) PROVE Steady /\ FetchOK'
  BY <1>12 DEF HandleHave, Consume, ThenRequest, Accepted, Received, Steady, Ended,
     FetchOK, Used, Fetching, Idle, control, dialling, store, blocks, conns, vars,
     TypeInv, TypeOK, Conns
<1>13. ASSUME NEW c \in Conns, HandleRequest(c) PROVE Steady /\ FetchOK'
  BY <1>13 DEF HandleRequest, Consume, Send, WriteResults, Accepted, Received,
     Steady, Ended, FetchOK, Used, Fetching, Idle, control, dialling, store, blocks,
     conns, vars, TypeInv, TypeOK, Conns
<1>14. ASSUME NEW c \in Conns, Refuse(c) PROVE Steady /\ FetchOK'
  BY <1>14 DEF Refuse, TryReconn, ClosePeer, Closing, Received, Accepted, Steady, Ended,
     FetchOK, Used, Fetching, Idle, control, dialling, store, blocks, conns, vars,
     TypeInv, TypeOK, Conns
<1>15. ASSUME NEW c \in Conns, HandleEOF(c) PROVE Steady /\ FetchOK'
  BY <1>15 DEF HandleEOF, ClosePeer, Closing, Received, Accepted, Steady, Ended,
     FetchOK, Used, Fetching, Idle, control, dialling, store, blocks, conns, vars,
     TypeInv, TypeOK, Conns
<1>16. ASSUME NEW c \in Conns, HandleWriterExit(c) PROVE Steady /\ FetchOK'
  BY <1>16 DEF HandleWriterExit, ClosePeer, Closing, Steady, Ended, FetchOK, Used,
     Fetching, Idle, control, dialling, store, blocks, conns, vars, TypeInv, TypeOK,
     Conns
<1>17. ASSUME NEW c \in UpConns, DuplicatePiece(c) PROVE Steady /\ FetchOK'
  BY <1>17 DEF DuplicatePiece, Consume, ThenRequest, Accepted, Received, Steady,
     Ended, FetchOK, Used, Fetching, Idle, control, dialling, store, blocks, conns,
     vars, TypeInv, TypeOK, Conns
<1>18. ASSUME NEW c \in UpConns, PieceWriteFails(c) PROVE Steady /\ FetchOK'
  BY <1>18 DEF PieceWriteFails, TryReconn, ClosePeer, Closing, Accepted, Received, Steady,
     Ended, FetchOK, Used, Fetching, Idle, control, dialling, store, blocks, conns,
     vars, TypeInv, TypeOK, Conns
<1>19. ASSUME NEW c \in UpConns, PieceStored(c) PROVE Steady /\ FetchOK'
  BY <1>19 DEF PieceStored, Stored, Consume, ThenRequest, Accepted, Received,
     Steady, Ended, FetchOK, Used, Fetching, Idle, control, dialling, store, blocks,
     conns, vars, TypeInv, TypeOK, Conns
<1>20. ASSUME NEW c \in UpConns, PieceCorrupt(c) PROVE Steady /\ FetchOK'
  BY <1>20 DEF PieceCorrupt, Stored, Finished, Closing, ThenRequest, Accepted,
     Received, Steady, Ended, FetchOK, Used, Fetching, Idle, control, dialling,
     store, blocks, conns, vars, TypeInv, TypeOK, Conns
<1>21. ASSUME NEW c \in Conns, SendHave(c) PROVE Steady /\ FetchOK'
  BY <1>21 DEF SendHave, Send, WriteResults, Steady, Ended, FetchOK, Used, Fetching,
     Idle, control, dialling, store, blocks, conns, vars, TypeInv, TypeOK, Conns
<1>22. ASSUME AllAnnounced PROVE Steady /\ FetchOK'
  BY <1>22 DEF AllAnnounced, Steady, Ended, FetchOK, Used, Fetching, Idle, control,
     dialling, store, blocks, conns, vars, TypeInv, TypeOK, Conns
<1>23. ASSUME KeepAliveTick PROVE Steady /\ FetchOK'
  BY <1>23 DEF KeepAliveTick, Steady, Ended, FetchOK, Used, Fetching, Idle, control,
     dialling, store, blocks, conns, vars, TypeInv, TypeOK, Conns
<1>24. ASSUME NEW c \in Conns, CloseIdle(c) PROVE Steady /\ FetchOK'
  BY <1>24 DEF CloseIdle, ClosePeer, Closing, Steady, Ended, FetchOK, Used,
     Fetching, Idle, control, dialling, store, blocks, conns, vars, TypeInv, TypeOK,
     Conns
<1>25. ASSUME NEW c \in Conns, CheckRequests(c) PROVE Steady /\ FetchOK'
  BY <1>25 DEF CheckRequests, Send, WriteResults, Steady, Ended, FetchOK, Used,
     Fetching, Idle, control, dialling, store, blocks, conns, vars, TypeInv, TypeOK,
     Conns
<1>26. ASSUME AllChecked PROVE Steady /\ FetchOK'
  BY <1>26 DEF AllChecked, Steady, Ended, FetchOK, Used, Fetching, Idle, control,
     dialling, store, blocks, conns, vars, TypeInv, TypeOK, Conns
<1>27. ASSUME AskQuit PROVE Steady /\ FetchOK'
  BY <1>27 DEF AskQuit, Steady, Ended, FetchOK, Used, Fetching, Idle, control,
     dialling, store, blocks, conns, vars, TypeInv, TypeOK, Conns
<1>28. ASSUME Quit PROVE Steady /\ FetchOK'
  BY <1>28 DEF Quit, Steady, Ended, FetchOK, Used, Fetching, Idle, control,
     dialling, store, blocks, conns, vars, TypeInv, TypeOK, Conns
<1>29. ASSUME NEW c \in Conns, ShutdownPeer(c) PROVE Steady /\ FetchOK'
  BY <1>29 DEF ShutdownPeer, ClosePeer, Closing, Steady, Ended, FetchOK, Used,
     Fetching, Idle, control, dialling, store, blocks, conns, vars, TypeInv, TypeOK,
     Conns
<1>30. ASSUME Shutdown PROVE Steady /\ FetchOK'
  BY <1>30 DEF Shutdown, Steady, Ended, FetchOK, Used, Fetching, Idle, control,
     dialling, store, blocks, conns, vars, TypeInv, TypeOK, Conns
<1>31. ASSUME NEW c \in UpConns, RemoteAnswers(c) PROVE Steady /\ FetchOK'
  BY <1>31 DEF RemoteAnswers, Alive, Steady, Ended, FetchOK, Used, Fetching, Idle,
     control, dialling, store, blocks, conns, vars, TypeInv, TypeOK, Conns
<1>32. ASSUME NEW c \in Conns, RemoteDrops(c) PROVE Steady /\ FetchOK'
  BY <1>32 DEF RemoteDrops, Alive, Steady, Ended, FetchOK, Used, Fetching, Idle,
     control, dialling, store, blocks, conns, vars, TypeInv, TypeOK, Conns
<1>33. ASSUME NEW c \in Conns, Discard(c) PROVE Steady /\ FetchOK'
  BY <1>33 DEF Discard, Alive, Steady, Ended, FetchOK, Used, Fetching, Idle,
     control, dialling, store, blocks, conns, vars, TypeInv, TypeOK, Conns
<1>34. ASSUME NEW c \in DownConns, DownstreamSends(c) PROVE Steady /\ FetchOK'
  BY <1>34, ConnsAssumption DEF DownstreamSends, Alive, Steady, Ended, FetchOK,
     Used, Fetching, Idle, control, dialling, store, blocks, conns, vars, TypeInv,
     TypeOK, Conns
<1>35. ASSUME NEW a \in Chain, NEW i \in Pieces, SourceGains(a, i) PROVE Steady /\ FetchOK'
  <2>1. \A u \in UpConns : wire'[u] = wire[u] \/ link[u] = "ok"
    BY <1>35 DEF SourceGains, Conns
  <2> QED
    BY <1>35, <2>1 DEF SourceGains, Steady, FetchOK, Used, Fetching, Conns, control, dialling, store
<1>42. ASSUME NEW c \in Conns, RemoteIdles(c) PROVE Steady /\ FetchOK'
  BY <1>42 DEF RemoteIdles, Alive, Steady, Ended, FetchOK, Used, Fetching, Idle,
     control, dialling, store, blocks, conns, vars, TypeInv, TypeOK, Conns
<1>36. ASSUME UNCHANGED vars PROVE Steady /\ FetchOK'
  BY <1>36 DEF Steady, FetchOK, Used, Fetching, Ended, control, dialling, store, blocks, conns, vars
<1>37. CASE InitInServer \/ InitInClient \/ InitFails
  <2>1. /\ loop = "init" /\ loop' = "select" /\ pieceSet' \in SUBSET Pieces
        /\ UNCHANGED <<started, reported, retryConn, peers, pending, link, writer, wire, asked, server>>
    BY <1>37, CardinalityTyped DEF InitInServer, InitInClient, InitFails, GoodPieces,
       dialling, conns, store, TypeInv, TypeOK
  <2>2. ~started /\ 100 \notin reported
    BY <2>1 DEF ToldOK, Fetching
  <2>3. PromiseInv'
    BY <2>1, <2>2 DEF FetchOK, Used, ToldOK, Fetching
  <2>4. Phase = "starting" /\ Phase' = "waiting"
    BY <2>1, <2>2 DEF Phase
  <2> QED
    BY <2>1, <2>3, <2>4 DEF Promise!Next, Promise!Find
<1>38. CASE Start
  <2>1. /\ loop = "select" /\ ~started /\ started' = TRUE
        /\ UNCHANGED <<retryConn, pieceSet, peers, pending, link, writer, wire, asked, server>>
        /\ totalPieces = Cardinality(Pieces) /\ goodPieces = Cardinality(pieceSet)
    BY <1>38 DEF Start, Idle, conns, StoreInv, InitOK, CountOK
  <2>2. goodPieces = totalPieces <=> pieceSet = Pieces
    BY <2>1, FS_Subset, PiecesFinite DEF TypeInv, TypeOK
  <2>3. /\ loop' \in {"select", "dial"} /\ (loop' = "dial" => ~server)
        /\ 100 \in reported' <=> 100 \in reported \/ (~server /\ totalPieces = goodPieces)
    BY <1>38, <2>1 DEF Start
  <2>4. 100 \notin reported
    BY <2>1 DEF ToldOK, Fetching
  <2>5. PromiseInv'
    BY <2>1, <2>2, <2>3, <2>4 DEF FetchOK, Used, ToldOK, Fetching
  <2>6. Phase = "waiting" /\ Phase' = "running"
    BY <2>1, <2>3 DEF Phase
  <2> QED
    BY <2>1, <2>2, <2>3, <2>4, <2>5, <2>6 DEF Promise!Next, Promise!Begin
<1>39. ASSUME NEW c \in UpConns, PieceVerified(c)
      PROVE  PromiseInv' /\ [Promise!Next]_(Promise!vars)
  <2> DEFINE i == Head(wire[c]).block[1]
  <2>1. /\ i \in Pieces /\ i \notin pieceSet /\ wire[c] # <<>>
        /\ pieceSet' = pieceSet \cup {i} /\ goodPieces' = goodPieces + 1
        /\ reported' = reported \cup Reports(goodPieces')
        /\ loop = "select" /\ loop' = "announce"
        /\ UNCHANGED <<started, retryConn, totalPieces, peers, link, writer, asked, server>>
        /\ pending' \subseteq peers
        /\ wire' = [wire EXCEPT ![c] = Tail(@)]
    BY <1>39, PieceShape, BlockShape DEF PieceVerified, Stored, Accepted, Received, Known,
       Idle, Consume, Lacking, dialling
  <2>2. Fetching
    BY <2>1 DEF FetchOK, Used
  <2>3. 100 \notin reported
    BY <2>1 DEF ToldOK
  <2>4. totalPieces = Cardinality(Pieces) /\ goodPieces = Cardinality(pieceSet)
    BY <2>1 DEF StoreInv, InitOK, CountOK
  <2> HIDE DEF i
  <2>5. goodPieces' = Cardinality(pieceSet') /\ pieceSet' \subseteq Pieces
    BY <2>1, <2>4, FS_AddElement, CardinalityTyped DEF TypeInv, TypeOK
  <2>6. goodPieces' = totalPieces <=> pieceSet' = Pieces
    BY <2>4, <2>5, FS_Subset, PiecesFinite
  <2>7. 100 \in reported' <=> pieceSet' = Pieces
    BY <2>1, <2>3, <2>6 DEF Reports
  <2>8. \A u \in UpConns : wire'[u] # <<>> => wire[u] # <<>>
    BY <2>1 DEF TypeInv, TypeOK, Conns
  <2>9. PromiseInv'
    BY <2>1, <2>2, <2>7, <2>8 DEF FetchOK, Used, ToldOK, Fetching
  <2>10. Phase = "running" /\ Phase' = "running"
    BY <2>1, <2>2 DEF Phase, Fetching
  <2>11. Promise!Obtain(i)
    BY <2>1, <2>2, <2>7, <2>10 DEF Promise!Obtain, Fetching
  <2> QED
    BY <2>1, <2>9, <2>11 DEF Promise!Next
<1> QED
  BY SteadyStep, <1>1, <1>2, <1>3, <1>4, <1>5, <1>6, <1>7, <1>8, <1>9, <1>10,
     <1>11, <1>12, <1>13, <1>14, <1>15, <1>16, <1>17, <1>18, <1>19, <1>20,
     <1>21, <1>22, <1>23, <1>24, <1>25, <1>26, <1>27, <1>28, <1>29, <1>30,
     <1>31, <1>32, <1>33, <1>34, <1>35, <1>36, <1>37, <1>38, <1>39, <1>42
     DEF Next, SessionStep, EnvironmentStep, Dialled, Requested, PieceHandled,
         MessageHandled, KeptAlive, Conns

\* The session implements Download: it obtains pieces one at a time, each
\* once, and reports the completion in the step that reaches it -- for every
\* set of pieces, schedule and fault but a failed initialisation, after which
\* the code takes an empty store for a complete one.
THEOREM DownloadImplemented ==
  ASSUME "init" \notin Faults PROVE Spec => ImplementsDownload
<1>1. TypeInv /\ StoreInv /\ PromiseInv /\ [Next]_vars
        => PromiseInv' /\ [Promise!Next]_(Promise!vars)
  BY PromiseStep
<1> QED
  BY <1>1, InitTyped, TypeStep, StoreInit, StoreStep, PromiseInit, PTL
     DEF Spec, ImplementsDownload, Promise!Spec

-----------------------------------------------------------------------------
(* The session and its peers: what a request asks for, which peers are       *)
(* registered, and that each of them hears of every piece.                   *)

(***************************************************************************)
(* What is on its way on a connection.                                     *)
(***************************************************************************)

\* the pieces a message says the remote holds
Says(m) ==
  {i \in Pieces : \/ m.type = "HAVE" /\ i = m.piece
                  \/ m.type = "BITFIELD" /\ i \in m.pieces}

\* a BITFIELD comes before everything else, and says no more than is so
First(w, known) == \A n \in 1 .. Len(w) : w[n].type = "BITFIELD" => n = 1 /\ known = {}
Sound(w, S) == \A n \in 1 .. Len(w) : Says(w[n]) \subseteq S
Asks(q, S) == \A n \in 1 .. Len(q) : q[n][1] \in S

Upstream(c) == source[addr[c]]

WireOK(c) ==
  /\ link[c] = "unused" => have[c] = {} /\ wire[c] = <<>> /\ asked[c] = <<>>
  /\ First(wire[c], have[c])
  /\ c \in UpConns => /\ have[c] \subseteq Upstream(c)
                      /\ Sound(wire[c], Upstream(c)) /\ Asks(asked[c], Upstream(c))

WireInv == \A c \in Conns : WireOK(c)

LEMMA WireInit == Init => WireInv
<1> SUFFICES ASSUME Init, NEW c \in Conns PROVE WireOK(c)
  BY DEF WireInv
<1>1. wire[c] = <<>> /\ asked[c] = <<>> /\ have[c] = {}
  BY DEF Init
<1>2. Len(<<>>) = 0
  OBVIOUS
<1> QED
  BY <1>1, <1>2 DEF WireOK, First, Sound, Asks

\* what a queue says when its first message is taken,
LEMMA TailSays ==
  ASSUME NEW w \in Seq(Messages), w # <<>>, NEW S, NEW known, First(w, known), Sound(w, S)
  PROVE  /\ Tail(w) \in Seq(Messages)
         /\ \A any : First(Tail(w), any)
         /\ Sound(Tail(w), S)
         /\ Says(Head(w)) \subseteq S
         /\ Head(w) \in Messages
         /\ Head(w).type = "BITFIELD" => known = {}
<1>1. /\ Len(w) \in Nat \ {0} /\ Len(Tail(w)) = Len(w) - 1
      /\ \A n \in 1 .. Len(w) - 1 : Tail(w)[n] = w[n + 1]
      /\ Head(w) = w[1] /\ w[1] \in Messages /\ Tail(w) \in Seq(Messages)
  OBVIOUS
<1>2. \A n \in 1 .. Len(w) - 1 : n + 1 \in 1 .. Len(w) /\ n + 1 # 1
  BY <1>1
<1> QED
  BY <1>1, <1>2 DEF First, Sound

\* when another one is added,
LEMMA AppendSays ==
  ASSUME NEW w \in Seq(Messages), NEW m \in Messages, NEW S, NEW known,
         First(w, known), m.type # "BITFIELD"
  PROVE  /\ Append(w, m) \in Seq(Messages)
         /\ First(Append(w, m), known)
         /\ Sound(w, S) /\ Says(m) \subseteq S => Sound(Append(w, m), S)
<1>1. /\ Append(w, m) \in Seq(Messages)
      /\ Len(w) \in Nat /\ Len(Append(w, m)) = Len(w) + 1
      /\ \A n \in 1 .. Len(w) : Append(w, m)[n] = w[n]
      /\ Append(w, m)[Len(w) + 1] = m
  OBVIOUS
<1>2. \A n \in 1 .. Len(w) + 1 : n \in 1 .. Len(w) \/ n = Len(w) + 1
  BY <1>1
<1> QED
  BY <1>1, <1>2 DEF First, Sound

\* and when its end is lost
LEMMA FrontSays ==
  ASSUME NEW w \in Seq(Messages), Len(w) > 1, NEW S, NEW known, First(w, known)
  PROVE  LET v == SubSeq(w, 1, Len(w) - 2) IN
         v \in Seq(Messages) /\ First(v, known) /\ (Sound(w, S) => Sound(v, S))
<1> DEFINE v == SubSeq(w, 1, Len(w) - 2)
<1>1. Len(w) \in Nat /\ \A n \in 1 .. Len(w) - 2 : w[n] \in Messages
  OBVIOUS
<1>3. /\ v \in Seq(Messages) /\ Len(v) = Len(w) - 2
      /\ \A n \in 1 .. (Len(w) - 2) - 1 + 1 : v[n] = w[1 + n - 1]
  <2>1. Len(w) - 2 \in Int /\ 1 \in Int
    BY <1>1
  <2>2. /\ v \in Seq(Messages)
        /\ Len(v) = IF 1 <= Len(w) - 2 THEN (Len(w) - 2) - 1 + 1 ELSE 0
        /\ \A n \in 1 .. (Len(w) - 2) - 1 + 1 : v[n] = w[1 + n - 1]
    BY <1>1, <2>1, SubSeqProperties
  <2>3. CASE Len(w) = 2
    BY <2>2, <2>3
  <2>4. CASE Len(w) > 2
    BY <1>1, <2>2, <2>4
  <2>5. Len(w) = 2 \/ Len(w) > 2
    <3>1. \A l \in Nat : l > 1 => l = 2 \/ l > 2
      OBVIOUS
    <3> QED
      BY <1>1, <3>1
  <2> QED
    BY <2>3, <2>4, <2>5
<1>2. \A n \in 1 .. Len(w) - 2 : n \in 1 .. Len(w)
  BY <1>1
<1>4. \A n \in 1 .. Len(v) : v[n] = w[n] /\ n \in 1 .. Len(w)
  BY <1>1, <1>2, <1>3
<1> QED
  BY <1>3, <1>4 DEF First, Sound

\* EOF, PIECE and a misread say nothing
LEMMA Silent ==
  /\ Misread.type # "BITFIELD" /\ Says(Misread) = {}
  /\ EOF \in Messages /\ EOF.type # "BITFIELD" /\ Says(EOF) = {}
  /\ \A k \in Blocks, good \in BOOLEAN :
       Piece(k, good) \in Messages /\ Piece(k, good).type # "BITFIELD"
         /\ Says(Piece(k, good)) = {}
BY MessageShape DEF EOF, Misread, Piece, Says

LEMMA QueuesTyped ==
  ASSUME TypeInv, NEW c \in Conns
  PROVE  wire[c] \in Seq(Messages) /\ asked[c] \in Seq(Blocks)
BY DEF TypeInv, TypeOK

-----------------------------------------------------------------------------
(* Steps, by what they do to the connections.                              *)

Untouched == UNCHANGED <<link, addr, have, wire, asked, source>>

LEMMA UntouchedWire == WireInv /\ Untouched => WireInv'
BY DEF WireInv, WireOK, Untouched, Upstream

\* a handler that closes c, after a message or without one
LEMMA ClosingWire ==
  ASSUME TypeInv, WireInv, NEW c \in Conns, NEW q, Closing(c, q),
         q = wire[c] \/ (q = Tail(wire[c]) /\ wire[c] # <<>>),
         UNCHANGED <<addr, have, source>>
  PROVE  WireInv'
<1> SUFFICES ASSUME NEW d \in Conns PROVE WireOK(d)'
  BY DEF WireInv
<1>1. link'[c] = "closed" /\ asked'[c] = <<>> /\ wire'[c] \in {q, Append(q, EOF)}
  BY DEF Closing, TypeInv, TypeOK
<1>2. d # c => link'[d] = link[d] /\ asked'[d] = asked[d] /\ wire'[d] = wire[d]
  BY DEF Closing, TypeInv, TypeOK
<1>3. WireOK(d)
  BY DEF WireInv
<1>4. CASE d # c
  BY <1>2, <1>3, <1>4 DEF WireOK, Upstream
<1>5. CASE d = c
  <2> DEFINE S == IF c \in UpConns THEN Upstream(c) ELSE Pieces
  <2>1. Sound(wire[c], S)
    BY <1>3, <1>5 DEF WireOK, Sound, Says
  <2>2. q \in Seq(Messages) /\ First(q, have[c]) /\ Sound(q, S)
    <3>1. wire[c] \in Seq(Messages) /\ First(wire[c], have[c])
      BY <1>3, <1>5, QueuesTyped DEF WireOK
    <3>2. CASE q = wire[c]
      BY <3>1, <3>2, <2>1
    <3>3. CASE q = Tail(wire[c]) /\ wire[c] # <<>>
      BY <3>1, <3>3, <2>1, TailSays
    <3> QED
      BY <3>2, <3>3
  <2>3. First(wire'[c], have[c]) /\ Sound(wire'[c], S)
    BY <1>1, <2>2, AppendSays, Silent
  <2>4. Asks(asked'[c], S)
    <3>1. Len(<<>>) = 0
      OBVIOUS
    <3> QED
      BY <1>1, <3>1 DEF Asks
  <2> QED
    BY <1>1, <1>3, <1>5, <2>3, <2>4 DEF WireOK, Upstream
<1> QED
  BY <1>4, <1>5

\* a handler that only takes its message, and may learn from it
LEMMA TakenWire ==
  ASSUME TypeInv, WireInv, NEW c \in Conns, wire[c] # <<>>, Consume(c),
         have' = have \/ have' = [have EXCEPT ![c] = @ \cup Says(Head(wire[c]))],
         UNCHANGED <<link, addr, asked, source>>
  PROVE  WireInv'
<1> SUFFICES ASSUME NEW d \in Conns PROVE WireOK(d)'
  BY DEF WireInv
<1>1. WireOK(d)
  BY DEF WireInv
<1>2. wire'[c] = Tail(wire[c]) /\ have'[c] \in {have[c], have[c] \cup Says(Head(wire[c]))}
  BY DEF Consume, TypeInv, TypeOK
<1>3. d # c => wire'[d] = wire[d] /\ have'[d] = have[d]
  BY DEF Consume, TypeInv, TypeOK
<1>4. CASE d # c
  BY <1>1, <1>3, <1>4 DEF WireOK, Upstream
<1>5. CASE d = c
  <2> DEFINE S == IF c \in UpConns THEN Upstream(c) ELSE Pieces
  <2>1. Sound(wire[c], S) /\ First(wire[c], have[c])
    BY <1>1, <1>5 DEF WireOK, Sound, Says
  <2>2. /\ First(wire'[c], have'[c]) /\ Sound(wire'[c], S)
        /\ Says(Head(wire[c])) \subseteq S
    BY <1>2, <2>1, TailSays, QueuesTyped
  <2> QED
    BY <1>1, <1>2, <1>5, <2>2 DEF WireOK, Upstream
<1> QED
  BY <1>4, <1>5

\* a connection that is opened starts with a bitfield
LEMMA OpenedWire ==
  ASSUME TypeInv, WireInv, NEW c \in Conns, link[c] = "unused", NEW S \in SUBSET Pieces,
         link' = [link EXCEPT ![c] = "ok"],
         wire' = [wire EXCEPT ![c] = <<Bitfield(S)>>],
         \A d \in UpConns \ {c} : addr'[d] = addr[d],
         c \in UpConns => S = source[addr'[c]],
         UNCHANGED <<have, asked, source>>
  PROVE  WireInv'
<1> SUFFICES ASSUME NEW d \in Conns PROVE WireOK(d)'
  BY DEF WireInv
<1>1. WireOK(d) /\ WireOK(c)
  BY DEF WireInv
<1>2. link'[c] = "ok" /\ wire'[c] = <<Bitfield(S)>>
  BY DEF TypeInv, TypeOK
<1>3. d # c => link'[d] = link[d] /\ wire'[d] = wire[d]
  BY DEF TypeInv, TypeOK
<1>4. CASE d # c
  BY <1>1, <1>3, <1>4 DEF WireOK, Upstream
<1>5. CASE d = c
  <2>1. have[c] = {} /\ asked[c] = <<>>
    BY <1>1 DEF WireOK
  <2>2. Len(<<Bitfield(S)>>) = 1 /\ <<Bitfield(S)>>[1] = Bitfield(S) /\ Len(<<>>) = 0
    OBVIOUS
  <2>3. Says(Bitfield(S)) \subseteq S
    BY DEF Says, Bitfield
  <2>4. First(wire'[c], have[c]) /\ Sound(wire'[c], S) /\ Asks(asked[c], S)
    BY <1>2, <2>1, <2>2, <2>3 DEF First, Sound, Asks
  <2> QED
    BY <1>2, <1>5, <2>1, <2>4 DEF WireOK, Upstream
<1> QED
  BY <1>4, <1>5

\* the remote or the network adds a message, or loses the end of the queue
LEMMA SentWire ==
  ASSUME TypeInv, WireInv, NEW c \in Conns, NEW m \in Messages, m.type # "BITFIELD",
         c \in UpConns => Says(m) \subseteq Upstream(c),
         link[c] # "unused", link'[c] # "unused",
         \A d \in Conns \ {c} : link'[d] = link[d] /\ asked'[d] = asked[d],
         \/ wire' = [wire EXCEPT ![c] = Append(@, m)] \/ wire' = wire
         \/ /\ Len(wire[c]) > 1
            /\ wire' = [wire EXCEPT ![c] = Append(SubSeq(@, 1, Len(@) - 2), m)],
         \/ asked'[c] \in {asked[c], <<>>}
         \/ asked[c] # <<>> /\ asked'[c] = Tail(asked[c]),
         UNCHANGED <<addr, have, source>>
  PROVE  WireInv'
<1> SUFFICES ASSUME NEW d \in Conns PROVE WireOK(d)'
  BY DEF WireInv
<1>1. WireOK(d)
  BY DEF WireInv
<1>2. d # c => wire'[d] = wire[d]
  BY DEF TypeInv, TypeOK
<1>3. CASE d # c
  BY <1>1, <1>2, <1>3 DEF WireOK, Upstream
<1>4. CASE d = c
  <2> DEFINE S == IF c \in UpConns THEN Upstream(c) ELSE Pieces
             v == SubSeq(wire[c], 1, Len(wire[c]) - 2)
  <2>1. /\ \/ wire'[c] = Append(wire[c], m) \/ wire'[c] = wire[c]
           \/ Len(wire[c]) > 1 /\ wire'[c] = Append(v, m)
        /\ wire[c] \in Seq(Messages) /\ asked[c] \in Seq(Blocks)
    BY DEF TypeInv, TypeOK
  <2>2. Sound(wire[c], S) /\ First(wire[c], have[c]) /\ Says(m) \subseteq S
    BY <1>1, <1>4 DEF WireOK, Sound, Says
  <2>3. First(wire'[c], have[c]) /\ Sound(wire'[c], S)
    <3>1. CASE wire'[c] = Append(wire[c], m)
      BY <3>1, <2>1, <2>2, AppendSays
    <3>2. CASE Len(wire[c]) > 1 /\ wire'[c] = Append(v, m)
      <4>1. v \in Seq(Messages) /\ First(v, have[c]) /\ Sound(v, S)
        BY <3>2, <2>1, <2>2, FrontSays
      <4> QED
        BY <3>2, <4>1, <2>2, AppendSays
    <3>3. CASE wire'[c] = wire[c]
      BY <3>3, <2>2
    <3> QED
      BY <3>1, <3>2, <3>3, <2>1
  <2>4. c \in UpConns => Asks(asked'[c], Upstream(c))
    <3> SUFFICES ASSUME c \in UpConns PROVE Asks(asked'[c], Upstream(c))
      OBVIOUS
    <3>1. Asks(asked[c], Upstream(c))
      BY <1>1, <1>4 DEF WireOK
    <3>2. CASE asked'[c] = <<>>
      <4>1. Len(<<>>) = 0
        OBVIOUS
      <4> QED
        BY <3>2, <4>1 DEF Asks
    <3>3. CASE asked'[c] = Tail(asked[c]) /\ asked[c] # <<>>
      <4>1. /\ Len(asked[c]) \in Nat /\ Len(asked'[c]) = Len(asked[c]) - 1
            /\ \A n \in 1 .. Len(asked[c]) - 1 : asked'[c][n] = asked[c][n + 1]
        BY <3>3, <2>1
      <4>2. ASSUME NEW n \in 1 .. Len(asked'[c])
            PROVE  asked'[c][n][1] \in Upstream(c)
        <5>1. n + 1 \in 1 .. Len(asked[c]) /\ asked'[c][n] = asked[c][n + 1]
          BY <4>1
        <5> QED
          BY <3>1, <5>1 DEF Asks
      <4> QED
        BY <4>2 DEF Asks
    <3>4. CASE asked'[c] = asked[c]
      BY <3>1, <3>4
    <3> QED
      BY <3>2, <3>3, <3>4
  <2> QED
    BY <1>1, <1>4, <2>3, <2>4 DEF WireOK, Upstream
<1> QED
  BY <1>3, <1>4

\* a request asks for what the remote was heard to have
LEMMA RequestWire ==
  ASSUME TypeInv, WireInv, NEW c \in UpConns, NEW k \in Blocks, k[1] \in have[c],
         SendRequest(c, k)
  PROVE  WireInv'
<1> SUFFICES ASSUME NEW d \in Conns PROVE WireOK(d)'
  BY DEF WireInv
<1>1. WireOK(d) /\ c \in Conns
  BY DEF WireInv, Conns
<1>2. UNCHANGED <<link, addr, have, wire, source>>
  BY DEF SendRequest
<1>3. \/ asked'[d] = asked[d]
      \/ d = c /\ link[c] = "ok" /\ asked'[c] = Append(asked[c], k)
  BY <1>1 DEF SendRequest, TypeInv, TypeOK
<1>4. CASE asked'[d] = asked[d]
  BY <1>1, <1>2, <1>4 DEF WireOK, Upstream
<1>5. CASE d = c /\ link[c] = "ok" /\ asked'[c] = Append(asked[c], k)
  <2>1. asked[c] \in Seq(Blocks)
    BY <1>1, QueuesTyped
  <2>2. /\ Len(asked[c]) \in Nat /\ Len(asked'[c]) = Len(asked[c]) + 1
        /\ \A n \in 1 .. Len(asked[c]) : asked'[c][n] = asked[c][n]
        /\ asked'[c][Len(asked[c]) + 1] = k
    BY <1>5, <2>1
  <2>3. Asks(asked[c], Upstream(c)) /\ k[1] \in Upstream(c)
    BY <1>1, <1>5 DEF WireOK
  <2>4. \A n \in 1 .. Len(asked[c]) + 1 : n \in 1 .. Len(asked[c]) \/ n = Len(asked[c]) + 1
    BY <2>2
  <2>5. Asks(asked'[c], Upstream(c))
    BY <2>2, <2>3, <2>4 DEF Asks
  <2> QED
    BY <1>1, <1>2, <1>5, <2>5 DEF WireOK, Upstream
<1> QED
  BY <1>3, <1>4, <1>5

LEMMA TargetInChain == TypeInv => Target \in Chain
BY NumbersAssumption DEF TypeInv, TypeOK, Target, Chain

\* an upstream that gains a piece tells of it on some connections
LEMMA GainsWire ==
  ASSUME TypeInv, WireInv, NEW a \in Chain, NEW i \in Pieces, SourceGains(a, i)
  PROVE  WireInv'
<1> SUFFICES ASSUME NEW d \in Conns PROVE WireOK(d)'
  BY DEF WireInv
<1>1. WireOK(d) /\ UNCHANGED <<link, addr, have, asked>>
  BY DEF WireInv, SourceGains
<1>2. \A e \in Chain : source[e] \subseteq source'[e]
  BY DEF SourceGains, TypeInv, TypeOK
<1>3. i \in source'[a]
  BY DEF SourceGains, TypeInv, TypeOK
<1>4. \/ wire'[d] = wire[d]
      \/ d \in UpConns /\ link[d] = "ok" /\ addr[d] = a /\ wire'[d] = Append(wire[d], Have(i))
  BY DEF SourceGains, Heard
<1>5. d \in UpConns => addr[d] \in Chain
  BY DEF TypeInv, TypeOK
<1>6. d \in UpConns => /\ have[d] \subseteq Upstream(d)' /\ Sound(wire[d], Upstream(d)')
                       /\ Asks(asked[d], Upstream(d)')
  BY <1>1, <1>2, <1>5 DEF WireOK, Upstream, Sound, Asks
<1>7. CASE wire'[d] = wire[d]
  BY <1>1, <1>6, <1>7 DEF WireOK
<1>8. CASE d \in UpConns /\ link[d] = "ok" /\ addr[d] = a /\ wire'[d] = Append(wire[d], Have(i))
  <2>1. Have(i) \in Messages /\ Have(i).type # "BITFIELD" /\ Says(Have(i)) \subseteq Upstream(d)'
    BY <1>1, <1>3, <1>8, MessageShape DEF Have, Says, Upstream
  <2>2. wire[d] \in Seq(Messages) /\ First(wire[d], have[d])
    BY <1>1, QueuesTyped DEF WireOK
  <2>3. First(wire'[d], have[d]) /\ Sound(wire'[d], Upstream(d)')
    BY <1>6, <1>8, <2>1, <2>2, AppendSays
  <2> QED
    BY <1>1, <1>6, <1>8, <2>3 DEF WireOK
<1> QED
  BY <1>4, <1>7, <1>8

LEMMA WireStep == TypeInv /\ WireInv /\ [Next]_vars => WireInv'
<1> SUFFICES ASSUME TypeInv, WireInv, [Next]_vars PROVE WireInv'
  OBVIOUS
<1>1. CASE InitInServer
  BY <1>1, UntouchedWire DEF InitInServer, Untouched, conns
<1>2. CASE InitInClient
  BY <1>2, UntouchedWire DEF InitInClient, Untouched, conns
<1>3. CASE InitFails
  BY <1>3, UntouchedWire DEF InitFails, Untouched, conns
<1>4. CASE Start
  BY <1>4, UntouchedWire DEF Start, Untouched, conns
<1>5. CASE DialFails
  BY <1>5, UntouchedWire DEF DialFails, Untouched, conns
<1>6. CASE HeaderFails
  BY <1>6, UntouchedWire DEF HeaderFails, Untouched, conns
<1>7. CASE NoSession
  BY <1>7, UntouchedWire DEF NoSession, Untouched, conns
<1>8. CASE RetryTimer
  BY <1>8, UntouchedWire DEF RetryTimer, Untouched, conns
<1>9. ASSUME NEW c \in UpConns, Connected(c) PROVE WireInv'
  <2>1. c \in Conns /\ source[Target] \in SUBSET Pieces
    BY <1>9, TargetInChain DEF Conns, TypeInv, TypeOK
  <2>2. addr'[c] = Target /\ \A d \in UpConns \ {c} : addr'[d] = addr[d]
    BY <1>9 DEF Connected, TypeInv, TypeOK
  <2> QED
    BY <1>9, <2>1, <2>2, OpenedWire DEF Connected
<1>10. ASSUME NEW c \in DownConns, AcceptPeer(c) PROVE WireInv'
  <2>1. PICK S \in SUBSET Pieces : wire' = [wire EXCEPT ![c] = <<Bitfield(S)>>]
    BY <1>10 DEF AcceptPeer
  <2> QED
    BY <1>10, <2>1, OpenedWire, ConnsAssumption DEF AcceptPeer, Conns
<1>11. ASSUME NEW c \in UpConns, RequestActive(c) PROVE WireInv'
  <2>1. PICK i \in Active(c) : \E b \in BlocksOf[i] : SendRequest(c, <<i, b>>)
    BY <1>11 DEF RequestActive
  <2>2. i \in Pieces /\ i \in have[c]
    BY DEF Active, TypeInv, TypeOK
  <2> QED
    BY <2>1, <2>2, BlockShape, RequestWire
<1>12. ASSUME NEW c \in UpConns, RequestNew(c) PROVE WireInv'
  <2>1. PICK i \in Missing(c) : SendRequest(c, <<i, 0>>)
    BY <1>12 DEF RequestNew
  <2>2. i \in Pieces /\ i \in have[c]
    BY DEF Missing, TypeInv, TypeOK, Conns
  <2> QED
    BY <2>1, <2>2, BlockShape, RequestWire
<1>13. ASSUME NEW c \in UpConns, RequestEndgame(c) PROVE WireInv'
  <2>1. PICK i \in Active(c) : \E b \in BlocksOf[i] : SendRequest(c, <<i, b>>)
    BY <1>13 DEF RequestEndgame
  <2>2. i \in Pieces /\ i \in have[c]
    BY DEF Active, TypeInv, TypeOK
  <2> QED
    BY <2>1, <2>2, BlockShape, RequestWire
<1>14. ASSUME NEW c \in UpConns, RequestNone(c) PROVE WireInv'
  BY <1>14, UntouchedWire DEF RequestNone, Untouched, conns
<1>15. ASSUME NEW c \in Conns, HandleBitfield(c) PROVE WireInv'
  <2>1. /\ wire[c] # <<>> /\ Head(wire[c]).type = "BITFIELD"
        /\ Consume(c) /\ have' = [have EXCEPT ![c] = Head(wire[c]).pieces]
    BY <1>15 DEF HandleBitfield, Accepted, Received
  <2>2. Head(wire[c]) \in Messages /\ wire[c][1] = Head(wire[c]) /\ 1 \in 1 .. Len(wire[c])
    BY <2>1, QueuesTyped
  <2>3. have[c] = {}
    BY <2>1, <2>2 DEF WireInv, WireOK, First
  <2>4. Says(Head(wire[c])) = Head(wire[c]).pieces
    BY <2>1, <2>2, MessageShape DEF Says
  <2>5. have' = [have EXCEPT ![c] = @ \cup Says(Head(wire[c]))]
    BY <2>1, <2>3, <2>4 DEF TypeInv, TypeOK
  <2> QED
    BY <1>15, <2>1, <2>5, TakenWire DEF HandleBitfield
<1>16. ASSUME NEW c \in Conns, HandleHave(c) PROVE WireInv'
  <2>1. /\ wire[c] # <<>> /\ Head(wire[c]).type = "HAVE"
        /\ Consume(c) /\ have' = [have EXCEPT ![c] = @ \cup {Head(wire[c]).piece}]
    BY <1>16 DEF HandleHave, Accepted, Received
  <2>2. Head(wire[c]) \in Messages
    BY <2>1, QueuesTyped
  <2>3. Says(Head(wire[c])) = {Head(wire[c]).piece}
    BY <2>1, <2>2, MessageShape DEF Says
  <2> QED
    BY <1>16, <2>1, <2>3, TakenWire DEF HandleHave
<1>17. ASSUME NEW c \in Conns, HandleRequest(c) PROVE WireInv'
  BY <1>17, TakenWire DEF HandleRequest, Accepted, Received
<1>18. ASSUME NEW c \in Conns, Refuse(c) PROVE WireInv'
  BY <1>18, ClosingWire DEF Refuse, TryReconn, Accepted, Received, ClosePeer
<1>19. ASSUME NEW c \in Conns, HandleEOF(c) PROVE WireInv'
  BY <1>19, ClosingWire DEF HandleEOF, Received, ClosePeer
<1>20. ASSUME NEW c \in Conns, HandleWriterExit(c) PROVE WireInv'
  BY <1>20, ClosingWire DEF HandleWriterExit, ClosePeer
<1>21. ASSUME NEW c \in UpConns, DuplicatePiece(c) PROVE WireInv'
  BY <1>21, TakenWire DEF DuplicatePiece, Accepted, Received, Conns
<1>22. ASSUME NEW c \in UpConns, PieceWriteFails(c) PROVE WireInv'
  BY <1>22, ClosingWire DEF PieceWriteFails, Accepted, Received, ClosePeer, Conns
<1>23. ASSUME NEW c \in UpConns, PieceStored(c) PROVE WireInv'
  BY <1>23, TakenWire DEF PieceStored, Stored, Accepted, Received, Conns
<1>24. ASSUME NEW c \in UpConns, PieceCorrupt(c) PROVE WireInv'
  BY <1>24, ClosingWire DEF PieceCorrupt, Stored, Accepted, Received, Conns
<1>25. ASSUME NEW c \in UpConns, PieceVerified(c) PROVE WireInv'
  BY <1>25, TakenWire DEF PieceVerified, Stored, Accepted, Received, Conns
<1>26. ASSUME NEW c \in Conns, SendHave(c) PROVE WireInv'
  BY <1>26, UntouchedWire DEF SendHave, Untouched, conns
<1>27. CASE AllAnnounced
  BY <1>27, UntouchedWire DEF AllAnnounced, Untouched, conns
<1>28. CASE KeepAliveTick
  BY <1>28, UntouchedWire DEF KeepAliveTick, Untouched, conns
<1>29. ASSUME NEW c \in Conns, CloseIdle(c) PROVE WireInv'
  BY <1>29, ClosingWire DEF CloseIdle, ClosePeer
<1>30. ASSUME NEW c \in Conns, CheckRequests(c) PROVE WireInv'
  BY <1>30, UntouchedWire DEF CheckRequests, Untouched, conns
<1>31. CASE AllChecked
  BY <1>31, UntouchedWire DEF AllChecked, Untouched, conns
<1>32. CASE AskQuit
  BY <1>32, UntouchedWire DEF AskQuit, Untouched, conns
<1>33. CASE Quit
  BY <1>33, UntouchedWire DEF Quit, Untouched, conns
<1>34. ASSUME NEW c \in Conns, ShutdownPeer(c) PROVE WireInv'
  BY <1>34, ClosingWire DEF ShutdownPeer, ClosePeer
<1>35. CASE Shutdown
  BY <1>35, UntouchedWire DEF Shutdown, Untouched, conns
<1>36. ASSUME NEW c \in UpConns, RemoteAnswers(c) PROVE WireInv'
  <2>1. PICK good \in BOOLEAN :
          \/ wire' = [wire EXCEPT ![c] = Append(@, Piece(Head(asked[c]), good))]
          \/ wire' = wire
    BY <1>36 DEF RemoteAnswers, Heard, TypeInv, TypeOK
  <2>2. c \in Conns /\ asked[c] # <<>> /\ asked'[c] = Tail(asked[c])
        /\ \A d \in Conns \ {c} : asked'[d] = asked[d]
    BY <1>36 DEF RemoteAnswers, TypeInv, TypeOK, Conns
  <2>3. Head(asked[c]) \in Blocks
    BY <2>2, QueuesTyped
  <2>4. link[c] # "unused"
    BY <2>2 DEF WireInv, WireOK
  <2> QED
    BY <1>36, <2>1, <2>2, <2>3, <2>4, Silent, SentWire DEF RemoteAnswers
<1>37. ASSUME NEW c \in Conns, RemoteDrops(c) PROVE WireInv'
  <2>1. link[c] = "ok" /\ link'[c] = "dropped" /\ asked'[c] = <<>>
        /\ \A d \in Conns \ {c} : link'[d] = link[d] /\ asked'[d] = asked[d]
    BY <1>37 DEF RemoteDrops, TypeInv, TypeOK
  <2> QED
    BY <1>37, <2>1, Silent, SentWire DEF RemoteDrops
<1>38. ASSUME NEW c \in Conns, Discard(c) PROVE WireInv'
  BY <1>38, Silent, SentWire DEF Discard
<1>39. ASSUME NEW c \in DownConns, DownstreamSends(c) PROVE WireInv'
  <2>1. PICK m \in {Have(i) : i \in Pieces \ have[c]} \cup {Request(i) : i \in announced[c]} :
          wire' = [wire EXCEPT ![c] = Append(@, m)] \/ wire' = wire
    BY <1>39 DEF DownstreamSends, Heard, TypeInv, TypeOK
  <2>2. \/ \E i \in Pieces : m = Have(i)
        \/ \E i \in Pieces : m = Request(i)
    BY DEF TypeInv, TypeOK, Conns
  <2>3. m \in Messages
    BY <2>2, MessageShape
  <2>4. m.type # "BITFIELD"
    BY <2>2 DEF Have, Request
  <2> QED
    BY <1>39, <2>1, <2>3, <2>4, ConnsAssumption, SentWire DEF DownstreamSends, Conns
<1>40. ASSUME NEW a \in Chain, NEW i \in Pieces, SourceGains(a, i) PROVE WireInv'
  BY <1>40, GainsWire
<1>41. CASE UNCHANGED vars
  BY <1>41, UntouchedWire DEF vars, Untouched, conns
<1>42. ASSUME NEW c \in Conns, RemoteIdles(c) PROVE WireInv'
  <2>1. Misread \in Messages /\ link[c] # "unused" /\ UNCHANGED <<link, asked>>
    BY <1>42, MessageShape DEF RemoteIdles
  <2> QED
    BY <1>42, <2>1, Silent, SentWire DEF RemoteIdles
<1> QED
  BY <1>1, <1>2, <1>3, <1>4, <1>5, <1>6, <1>7, <1>8, <1>9, <1>10, <1>11,
     <1>12, <1>13, <1>14, <1>15, <1>16, <1>17, <1>18, <1>19, <1>20, <1>21,
     <1>22, <1>23, <1>24, <1>25, <1>26, <1>27, <1>28, <1>29, <1>30, <1>31,
     <1>32, <1>33, <1>34, <1>35, <1>36, <1>37, <1>38, <1>39, <1>40, <1>41,
     <1>42
     DEF Next, SessionStep, EnvironmentStep, Dialled, Requested, PieceHandled,
         MessageHandled, KeptAlive, Conns

\* A request only ever names a piece the remote holds: it is never refused.
THEOREM RequestsHeldAlways == Spec => []RequestsHeld
<1>1. WireInv => RequestsHeld
  BY DEF WireInv, WireOK, Asks, Upstream, RequestsHeld, Conns
<1> QED
  BY <1>1, InitTyped, TypeStep, WireInit, WireStep, PTL DEF Spec

(***************************************************************************)
(* One connection upstream.                                                *)
(***************************************************************************)

\* Only a write that fails, or a keep-alive misread, has a session connect
\* upstream again: without them, or with one connection in all, it has one.
Undisturbed == {"disk", "idle"} \cap Faults = {}
ConnectsOnce == Undisturbed \/ \A c, d \in UpConns : c = d

Opened(c) == link[c] # "unused"

\* then it never has a second connection upstream: it dials once it is started
\* and until it is connected
DialsOnce ==
  /\ \A c \in UpConns : Opened(c) => started /\ ~retryConn /\ loop # "dial"
  /\ loop = "dial" => started /\ ~retryConn
  /\ retryConn => started

\* and it only dials for the sake of some piece, so that its upstream is never
\* refused for want of a pieceSet
HasPieces ==
  loop = "dial" \/ retryConn \/ (\E c \in UpConns : Opened(c)) => totalPieces # 0

\* what it serves and visits was connected
SingleInv ==
  /\ \A c, d \in UpConns : Opened(c) /\ Opened(d) => c = d
  /\ Undisturbed => DialsOnce
  /\ HasPieces
  /\ loop \in {"request", "announce"} => Opened(serving)
  /\ \A c \in peers \cup pending : Opened(c)

LEMMA SingleInit == Init => SingleInv
BY DEF Init, SingleInv, DialsOnce, HasPieces, Opened, Conns

\* a step that connects to nobody and begins no dial
Undialled ==
  /\ \A c \in Conns : Opened(c)' <=> Opened(c)
  /\ peers' \cup pending' \subseteq peers \cup pending
  /\ UNCHANGED <<started, retryConn, totalPieces>> /\ loop' # "dial"
  /\ loop' \in {"request", "announce"} =>
       \/ serving' = serving /\ loop \in {"request", "announce"}
       \/ serving' \in Conns /\ Opened(serving')

LEMMA UndialledSingle == TypeInv /\ SingleInv /\ Undialled => SingleInv'
<1> SUFFICES ASSUME TypeInv, SingleInv, Undialled PROVE SingleInv'
  OBVIOUS
<1>1. peers \subseteq Conns /\ pending \subseteq Conns /\ UpConns \subseteq Conns
  BY DEF TypeInv, TypeOK, Conns
<1>2. loop' \in {"request", "announce"} => Opened(serving)'
  <2>1. loop \in {"request", "announce"} => serving \in Conns /\ Opened(serving)
    BY <1>1 DEF TypeInv, ControlOK, SingleInv
  <2> QED BY <2>1 DEF Undialled, Opened
<1>3. \A c \in peers' \cup pending' : Opened(c)'
  BY <1>1 DEF SingleInv, Undialled
<1>4. \A c, d \in UpConns : Opened(c)' /\ Opened(d)' => c = d
  BY <1>1 DEF SingleInv, Undialled
<1>5. Undisturbed => DialsOnce'
  BY <1>1 DEF SingleInv, DialsOnce, Undialled
<1>6. HasPieces'
  BY <1>1 DEF SingleInv, HasPieces, Undialled
<1> QED BY <1>2, <1>3, <1>4, <1>5, <1>6 DEF SingleInv, Undialled

\* closing opens nothing
LEMMA ClosingOpened ==
  ASSUME TypeInv, NEW c \in Conns, Opened(c), link' = [link EXCEPT ![c] = "closed"]
  PROVE  \A d \in Conns : Opened(d)' <=> Opened(d)
BY DEF TypeInv, TypeOK, Opened

\* the handler of an upstream's message closes it and dials again
LEMMA RedialledSingle ==
  ASSUME TypeInv, SingleInv, NEW c \in UpConns, Opened(c), ~Undisturbed,
         link' = [link EXCEPT ![c] = "closed"], peers' \subseteq peers, loop' = "dial",
         UNCHANGED <<pending, totalPieces>>
  PROVE  SingleInv'
<1>1. \A d \in Conns : Opened(d)' <=> Opened(d)
  BY ClosingOpened DEF Conns
<1>2. peers' \cup pending' \subseteq Conns /\ UpConns \subseteq Conns
  BY DEF TypeInv, TypeOK, Conns
<1> QED BY <1>1, <1>2 DEF SingleInv, HasPieces

\* a connection with something to read was opened
LEMMA ReadOpened == ASSUME WireInv, NEW c \in Conns, wire[c] # <<>> PROVE Opened(c)
BY DEF WireInv, WireOK, Opened

LEMMA SingleStep ==
  ASSUME ConnectsOnce
  PROVE  TypeInv /\ StoreInv /\ FlowInv /\ WireInv /\ SingleInv /\ [Next]_vars => SingleInv'
<1> SUFFICES ASSUME TypeInv, StoreInv, FlowInv, WireInv, SingleInv, [Next]_vars
             PROVE  SingleInv'
  OBVIOUS
<1> USE DEF Idle, store
<1>a. UpConns \subseteq Conns /\ DownConns \subseteq Conns /\ peers \subseteq Conns
  BY DEF Conns, TypeInv, TypeOK
<1>b. \A c \in Conns : writer[c] = "failed" => Opened(c)
  BY DEF FlowInv, WriterOK, Opened
<1>1. CASE InitInServer
  <2>1. totalPieces = 0 /\ UNCHANGED <<started, retryConn, serving, pending, link, peers>>
        /\ loop' = "select"
    BY <1>1 DEF InitInServer, conns, dialling, StoreInv, InitOK
  <2> QED BY <2>1, <1>a DEF SingleInv, DialsOnce, HasPieces, Opened
<1>2. CASE InitInClient
  <2>1. totalPieces = 0 /\ UNCHANGED <<started, retryConn, serving, pending, link, peers>>
        /\ loop' = "select"
    BY <1>2 DEF InitInClient, conns, dialling, StoreInv, InitOK
  <2> QED BY <2>1, <1>a DEF SingleInv, DialsOnce, HasPieces, Opened
<1>3. CASE InitFails
  BY <1>3, UndialledSingle DEF InitFails, conns, dialling, Undialled, Opened
<1>4. CASE Start
  <2>1. /\ ~started /\ started' /\ loop = "select" /\ UNCHANGED <<retryConn, serving, pending, link, peers, totalPieces>>
        /\ \/ loop' = "select"
           \/ loop' = "dial" /\ totalPieces # goodPieces
    BY <1>4 DEF Start, conns
  <2>2. totalPieces = 0 => goodPieces = 0
    <3>1. goodPieces = Cardinality(pieceSet) /\ (pieceSet # {} => totalPieces = Cardinality(Pieces))
      BY DEF StoreInv, InitOK, CountOK
    <3>2. pieceSet \subseteq Pieces
      BY DEF TypeInv, TypeOK
    <3> QED BY <3>1, <3>2, FS_EmptySet, PiecesFinite
  <2> QED BY <2>1, <2>2, <1>a DEF SingleInv, DialsOnce, HasPieces, Opened
<1>5. CASE DialFails
  BY <1>5, UndialledSingle DEF DialFails, conns, dialling, Undialled, Opened
<1>6. CASE HeaderFails
  BY <1>6, <1>a DEF HeaderFails, conns, SingleInv, DialsOnce, HasPieces, Opened
<1>7. CASE NoSession
  BY <1>7, <1>a DEF NoSession, conns, SingleInv, DialsOnce, HasPieces, Opened
<1>8. CASE RetryTimer
  BY <1>8, <1>a DEF RetryTimer, conns, SingleInv, DialsOnce, HasPieces, Opened
<1>9. ASSUME NEW c \in UpConns, Connected(c) PROVE SingleInv'
  <2>1. /\ c \in Conns /\ loop = "dial" /\ loop' = "select"
        /\ UNCHANGED <<started, retryConn, pending, totalPieces>> /\ peers' \subseteq peers \cup {c}
        /\ link[c] = "unused"
    BY <1>9, <1>a DEF Connected
  <2>2. Opened(c)' /\ \A d \in Conns \ {c} : Opened(d)' <=> Opened(d)
    BY <1>9, <2>1 DEF Connected, Opened, TypeInv, TypeOK
  <2>3. \A d \in UpConns : d = c \/ ~Opened(d)
    BY <2>1 DEF SingleInv, DialsOnce, ConnectsOnce
  <2>4. pending \subseteq Conns
    BY DEF TypeInv, TypeOK
  <2>5. Undisturbed => started' /\ ~retryConn'
    BY <2>1 DEF SingleInv, DialsOnce
  <2>6. totalPieces' # 0
    BY <2>1 DEF SingleInv, HasPieces
  <2> QED BY <2>1, <2>2, <2>3, <2>4, <2>5, <2>6, <1>a DEF SingleInv, DialsOnce, HasPieces
<1>10. ASSUME NEW c \in DownConns, AcceptPeer(c) PROVE SingleInv'
  <2>1. /\ c \in Conns /\ c \notin UpConns /\ loop = "select" /\ loop' = "select"
        /\ UNCHANGED <<started, retryConn, pending, totalPieces>> /\ peers' = peers \cup {c}
    BY <1>10, <1>a, ConnsAssumption DEF AcceptPeer, control, dialling
  <2>2. Opened(c)' /\ \A d \in Conns \ {c} : Opened(d)' <=> Opened(d)
    BY <1>10, <2>1 DEF AcceptPeer, Opened, TypeInv, TypeOK
  <2>3. pending \subseteq Conns
    BY DEF TypeInv, TypeOK
  <2> QED BY <2>1, <2>2, <2>3, <1>a DEF SingleInv, DialsOnce, HasPieces
<1>11. ASSUME NEW c \in UpConns, RequestActive(c) PROVE SingleInv'
  BY <1>11, UndialledSingle
     DEF RequestActive, SendRequest, Send, Called, Returned, Requesting, dialling, Undialled, Opened
<1>12. ASSUME NEW c \in UpConns, RequestNew(c) PROVE SingleInv'
  BY <1>12, UndialledSingle
     DEF RequestNew, SendRequest, Send, Called, Returned, Requesting, dialling, Undialled, Opened
<1>13. ASSUME NEW c \in UpConns, RequestEndgame(c) PROVE SingleInv'
  BY <1>13, UndialledSingle
     DEF RequestEndgame, SendRequest, Send, Called, Returned, Requesting, dialling, Undialled, Opened
<1>14. ASSUME NEW c \in UpConns, RequestNone(c) PROVE SingleInv'
  BY <1>14, UndialledSingle
     DEF RequestNone, Called, Returned, Requesting, conns, dialling, Undialled, Opened
<1>15. ASSUME NEW c \in Conns, HandleBitfield(c) PROVE SingleInv'
  BY <1>15, ReadOpened, UndialledSingle
     DEF HandleBitfield, Accepted, Received, ThenRequest, dialling, Undialled, Opened
<1>16. ASSUME NEW c \in Conns, HandleHave(c) PROVE SingleInv'
  BY <1>16, ReadOpened, UndialledSingle
     DEF HandleHave, Accepted, Received, ThenRequest, dialling, Undialled, Opened
<1>17. ASSUME NEW c \in Conns, HandleRequest(c) PROVE SingleInv'
  BY <1>17, UndialledSingle
     DEF HandleRequest, Accepted, Received, Send, dialling, Undialled, Opened
<1>18. ASSUME NEW c \in Conns, Refuse(c) PROVE SingleInv'
  <2>1. Opened(c)
    BY <1>18, ReadOpened DEF Refuse, Accepted, Received
  <2>2. \A d \in Conns : Opened(d)' <=> Opened(d)
    BY <1>18, <2>1, ClosingOpened DEF Refuse, ClosePeer, Closing
  <2>3. /\ loop' = IF c \in UpConns THEN "dial" ELSE "select"
        /\ UNCHANGED <<started, retryConn, pending, totalPieces>> /\ peers' \subseteq peers
        /\ link' = [link EXCEPT ![c] = "closed"]
    BY <1>18 DEF Refuse, TryReconn, Accepted, Received, ClosePeer, Closing, dialling
  <2>4. CASE c \in UpConns
    <3>1. totalPieces # 0
      BY <2>1, <2>4 DEF SingleInv, HasPieces
    <3>2. Head(wire[c]) \in UpMessages
      BY <1>18, <2>4 DEF Refuse, Accepted, Received, TypeInv, TypeOK
    <3>3. Head(wire[c]).type = "MISREAD"
      BY <1>18, <3>1, <3>2, MessageShape DEF Refuse, Accepted, Received
    <3>4. "idle" \in Faults
      BY <3>2, <3>3 DEF UpMessages, Bitfield, Have, Piece, EOF
    <3> QED BY <2>1, <2>3, <2>4, <3>4, RedialledSingle DEF Undisturbed
  <2>5. CASE c \notin UpConns
    BY <2>2, <2>3, <2>5, UndialledSingle DEF Undialled
  <2> QED BY <2>4, <2>5
<1>19. ASSUME NEW c \in Conns, HandleEOF(c) PROVE SingleInv'
  <2>1. Opened(c)
    BY <1>19, ReadOpened DEF HandleEOF, Received
  <2>2. \A d \in Conns : Opened(d)' <=> Opened(d)
    BY <1>19, <2>1, ClosingOpened DEF HandleEOF, ClosePeer, Closing
  <2>3. loop' = "select" /\ UNCHANGED <<started, retryConn, pending, totalPieces>> /\ peers' \subseteq peers
    BY <1>19 DEF HandleEOF, Received, ClosePeer, control, dialling
  <2> QED BY <2>2, <2>3, UndialledSingle DEF Undialled
<1>20. ASSUME NEW c \in Conns, HandleWriterExit(c) PROVE SingleInv'
  <2>1. Opened(c)
    BY <1>20, <1>b DEF HandleWriterExit
  <2>2. \A d \in Conns : Opened(d)' <=> Opened(d)
    BY <1>20, <2>1, ClosingOpened DEF HandleWriterExit, ClosePeer, Closing
  <2>3. loop' = "select" /\ UNCHANGED <<started, retryConn, pending, totalPieces>> /\ peers' \subseteq peers
    BY <1>20 DEF HandleWriterExit, ClosePeer, control, dialling
  <2> QED BY <2>2, <2>3, UndialledSingle DEF Undialled
<1>21. ASSUME NEW c \in UpConns, DuplicatePiece(c) PROVE SingleInv'
  BY <1>21, <1>a, ReadOpened, UndialledSingle
     DEF DuplicatePiece, Accepted, Received, ThenRequest, dialling, Undialled, Opened
<1>22. ASSUME NEW c \in UpConns, PieceWriteFails(c) PROVE SingleInv'
  <2>1. Opened(c)
    BY <1>22, <1>a, ReadOpened DEF PieceWriteFails, Accepted, Received
  <2>2. /\ "disk" \in Faults /\ loop' = "dial" /\ link' = [link EXCEPT ![c] = "closed"]
        /\ UNCHANGED <<pending, totalPieces>> /\ peers' \subseteq peers
    BY <1>22 DEF PieceWriteFails, TryReconn, ClosePeer, Closing
  <2> QED BY <2>1, <2>2, RedialledSingle DEF Undisturbed
<1>23. ASSUME NEW c \in UpConns, PieceStored(c) PROVE SingleInv'
  BY <1>23, <1>a, ReadOpened, UndialledSingle
     DEF PieceStored, Stored, Accepted, Received, ThenRequest, dialling, Undialled, Opened
<1>24. ASSUME NEW c \in UpConns, PieceCorrupt(c) PROVE SingleInv'
  <2>1. c \in Conns /\ Opened(c)
    BY <1>24, <1>a, ReadOpened DEF PieceCorrupt, Stored, Accepted, Received
  <2>2. \A d \in Conns : Opened(d)' <=> Opened(d)
    BY <1>24, <2>1, ClosingOpened DEF PieceCorrupt, Closing
  <2>3. /\ loop' = "request" /\ serving' = c
        /\ UNCHANGED <<started, retryConn, pending, peers, totalPieces>>
    BY <1>24 DEF PieceCorrupt, Stored, ThenRequest, dialling
  <2>4. Opened(serving')
    BY <2>1, <2>3
  <2> QED BY <2>1, <2>2, <2>3, <2>4, UndialledSingle DEF Undialled
<1>25. ASSUME NEW c \in UpConns, PieceVerified(c) PROVE SingleInv'
  BY <1>25, <1>a, ReadOpened, UndialledSingle
     DEF PieceVerified, Stored, Accepted, Received, Lacking, dialling, Undialled, Opened
<1>26. ASSUME NEW c \in Conns, SendHave(c) PROVE SingleInv'
  BY <1>26, UndialledSingle DEF SendHave, Send, dialling, Undialled, Opened
<1>27. CASE AllAnnounced
  BY <1>27, UndialledSingle DEF AllAnnounced, conns, dialling, Undialled, Opened
<1>28. CASE KeepAliveTick
  BY <1>28, UndialledSingle DEF KeepAliveTick, conns, dialling, Undialled, Opened
<1>29. CASE Quit
  BY <1>29, UndialledSingle DEF Quit, conns, dialling, Undialled, Opened
<1>30. ASSUME NEW c \in Conns, CloseIdle(c) PROVE SingleInv'
  <2>1. Opened(c)
    BY <1>30 DEF CloseIdle, SingleInv
  <2>2. \A d \in Conns : Opened(d)' <=> Opened(d)
    BY <1>30, <2>1, ClosingOpened DEF CloseIdle, ClosePeer, Closing
  <2>3. /\ loop' = "keepalive" /\ UNCHANGED <<started, retryConn, totalPieces>>
        /\ pending' \subseteq pending /\ peers' \subseteq peers
    BY <1>30 DEF CloseIdle, ClosePeer, dialling
  <2> QED BY <2>2, <2>3, UndialledSingle DEF Undialled
<1>31. ASSUME NEW c \in Conns, CheckRequests(c) PROVE SingleInv'
  BY <1>31, UndialledSingle DEF CheckRequests, Send, dialling, Undialled, Opened
<1>32. CASE AllChecked
  BY <1>32, UndialledSingle DEF AllChecked, conns, dialling, Undialled, Opened
<1>33. CASE AskQuit
  BY <1>33, <1>a DEF AskQuit, conns, dialling, SingleInv, DialsOnce, HasPieces, Opened
<1>34. ASSUME NEW c \in Conns, ShutdownPeer(c) PROVE SingleInv'
  <2>1. Opened(c)
    BY <1>34 DEF ShutdownPeer, SingleInv
  <2>2. \A d \in Conns : Opened(d)' <=> Opened(d)
    BY <1>34, <2>1, ClosingOpened DEF ShutdownPeer, ClosePeer, Closing
  <2>3. /\ loop' = "shutdown" /\ UNCHANGED <<started, retryConn, totalPieces>>
        /\ pending' \subseteq pending /\ peers' \subseteq peers
    BY <1>34 DEF ShutdownPeer, ClosePeer, dialling
  <2> QED BY <2>2, <2>3, UndialledSingle DEF Undialled
<1>35. CASE Shutdown
  BY <1>35, UndialledSingle DEF Shutdown, conns, dialling, Undialled, Opened
<1>36. ASSUME NEW c \in UpConns, RemoteAnswers(c) PROVE SingleInv'
  BY <1>36 DEF RemoteAnswers, control, dialling, SingleInv, DialsOnce, HasPieces, Opened
<1>37. ASSUME NEW c \in Conns, RemoteDrops(c) PROVE SingleInv'
  <2>1. /\ \A d \in Conns : Opened(d)' <=> Opened(d)
        /\ UNCHANGED <<loop, serving, pending, started, retryConn, peers, totalPieces>>
    BY <1>37 DEF RemoteDrops, Opened, TypeInv, TypeOK, control, dialling
  <2>2. pending \subseteq Conns /\ (loop \in {"request", "announce"} => serving \in Conns)
    BY <1>a DEF TypeInv, TypeOK, ControlOK
  <2>3. loop \in {"request", "announce"} => Opened(serving)'
    <3>1. loop \in {"request", "announce"} => Opened(serving)
      BY DEF SingleInv
    <3> QED BY <2>1, <2>2, <3>1 DEF Opened
  <2> QED BY <2>1, <2>2, <2>3, <1>a DEF SingleInv, DialsOnce, HasPieces
<1>38. ASSUME NEW c \in Conns, Discard(c) PROVE SingleInv'
  BY <1>38 DEF Discard, control, dialling, SingleInv, DialsOnce, HasPieces, Opened
<1>39. ASSUME NEW c \in DownConns, DownstreamSends(c) PROVE SingleInv'
  BY <1>39 DEF DownstreamSends, control, dialling, SingleInv, DialsOnce, HasPieces, Opened
<1>40. ASSUME NEW a \in Chain, NEW i \in Pieces, SourceGains(a, i) PROVE SingleInv'
  BY <1>40 DEF SourceGains, control, dialling, SingleInv, DialsOnce, HasPieces, Opened
<1>41. CASE UNCHANGED vars
  BY <1>41 DEF vars, control, dialling, conns, SingleInv, DialsOnce, HasPieces, Opened
<1>42. ASSUME NEW c \in Conns, RemoteIdles(c) PROVE SingleInv'
  BY <1>42 DEF RemoteIdles, control, dialling, SingleInv, DialsOnce, HasPieces, Opened
<1> QED
  BY <1>1, <1>2, <1>3, <1>4, <1>5, <1>6, <1>7, <1>8, <1>9, <1>10, <1>11,
     <1>12, <1>13, <1>14, <1>15, <1>16, <1>17, <1>18, <1>19, <1>20, <1>21,
     <1>22, <1>23, <1>24, <1>25, <1>26, <1>27, <1>28, <1>29, <1>30, <1>31,
     <1>32, <1>33, <1>34, <1>35, <1>36, <1>37, <1>38, <1>39, <1>40, <1>41,
     <1>42
     DEF Next, SessionStep, EnvironmentStep, Dialled, Requested, PieceHandled,
         MessageHandled, KeptAlive, Conns

(***************************************************************************)
(* Who is registered, and who hears of a piece.                            *)
(***************************************************************************)

\* nobody is connected before Init is over
OneLive == loop = "init" => \A c \in Conns : link[c] # "ok"

\* a piece is being announced only in recordBlock
FreshOK == fresh # {} => loop \in {"announce", "blocked"}

PeersInv == LiveRegistered /\ HaveToAll /\ OneLive /\ FreshOK

LEMMA PeersInit == Init => PeersInv
BY DEF Init, PeersInv, LiveRegistered, HaveToAll, OneLive, FreshOK

\* a step outside recordBlock
Settled ==
  /\ loop \notin {"init", "announce"} /\ loop' # "init" /\ UNCHANGED <<fresh, pieceSet>>
  /\ loop = "blocked" => loop' = "blocked"

\* that loses no peer and forgets nothing
LEMMA SteadyPeers ==
  ASSUME PeersInv, Settled, UNCHANGED <<link, addr, peers, announced>>,
         pending' = pending \/ fresh = {},
         \A c \in Conns : have[c] \subseteq have'[c]
  PROVE  PeersInv'
BY DEF PeersInv, Settled, LiveRegistered, HaveToAll, Shadowed, OneLive, FreshOK

\* or that closes one peer: whichever other its entry is taken from lives on
\* shadowed by it
LEMMA ClosingPeers ==
  ASSUME TypeInv, PeersInv, Settled, fresh = {}, NEW c \in Conns,
         link' = [link EXCEPT ![c] = "closed"],
         peers' \in {peers, peers \ Entry(c)},
         UNCHANGED <<addr, have, announced>>
  PROVE  PeersInv'
<1>1. \A d \in Conns : link'[d] = "ok" => d # c /\ link[d] = "ok"
  BY DEF TypeInv, TypeOK
<1>2. \A d \in Conns : link[d] # "unused" => link'[d] # "unused"
  BY DEF TypeInv, TypeOK
<1>3. \A d \in Conns : Shadowed(d) => Shadowed(d)'
  BY <1>2 DEF Shadowed, Conns
<1>4. \A d \in Conns \ {c} : d \in Entry(c) => Shadowed(d)'
  BY DEF Entry, Shadowed, TypeInv, TypeOK
<1>5. LiveRegistered'
  BY <1>1, <1>3, <1>4 DEF PeersInv, LiveRegistered
<1>6. HaveToAll'
  BY <1>1, <1>3 DEF PeersInv, HaveToAll, Settled
<1> QED
  BY <1>1, <1>5, <1>6 DEF PeersInv, Settled, OneLive, FreshOK

LEMMA PeersStep ==
  TypeInv /\ WireInv /\ PeersInv /\ [Next]_vars => PeersInv'
<1> SUFFICES ASSUME TypeInv, WireInv, PeersInv, [Next]_vars PROVE PeersInv'
  OBVIOUS
<1> USE DEF PeersInv
<1>1. CASE InitInServer
  BY <1>1 DEF InitInServer, conns, OneLive, FreshOK, HaveToAll, LiveRegistered, Shadowed
<1>2. CASE InitInClient
  BY <1>2 DEF InitInClient, conns, OneLive, FreshOK, HaveToAll, LiveRegistered, Shadowed
<1>3. CASE InitFails
  BY <1>3 DEF InitFails, conns, store, OneLive, FreshOK, HaveToAll, LiveRegistered, Shadowed
<1>4. CASE Start
  BY <1>4, SteadyPeers DEF Start, control, store, conns, Idle, Settled
<1>5. CASE DialFails
  BY <1>5, SteadyPeers DEF DialFails, control, store, conns, Idle, Settled
<1>6. CASE HeaderFails
  BY <1>6, SteadyPeers DEF HeaderFails, control, store, conns, Idle, Settled
<1>7. CASE NoSession
  BY <1>7, SteadyPeers DEF NoSession, control, store, conns, Idle, Settled
<1>8. CASE RetryTimer
  BY <1>8, SteadyPeers DEF RetryTimer, control, store, conns, Idle, Settled
<1>9. ASSUME NEW c \in UpConns, Connected(c) PROVE PeersInv'
  <2>1. /\ c \in Conns /\ loop = "dial" /\ loop' = "select" /\ link[c] = "unused"
        /\ fresh = {} /\ fresh' = {} /\ UNCHANGED <<pieceSet, have, pending>>
    BY <1>9 DEF Connected, store, Conns, FreshOK
  <2>2. /\ \A d \in Conns \ {c} : link'[d] = link[d] /\ announced'[d] = announced[d]
        /\ announced'[c] = pieceSet /\ link'[c] = "ok"
    BY <1>9, <2>1 DEF Connected, OurBitfield, TypeInv, TypeOK
  <2>3. addr'[c] = Target /\ \A d \in UpConns \ {c} : addr'[d] = addr[d]
    BY <1>9 DEF Connected, TypeInv, TypeOK
  <2>4. c \in peers' /\ \A d \in peers : (d \in UpConns /\ addr[d] = Target) \/ d \in peers'
    BY <1>9 DEF Connected
  <2>5. \A d \in Conns \ {c} : Shadowed(d) => Shadowed(d)'
    BY <2>1, <2>2, <2>3 DEF Shadowed, Conns
  <2>6. \A d \in UpConns \ {c} : addr[d] = Target => Shadowed(d)'
    BY <2>2, <2>3 DEF Shadowed
  <2>7. LiveRegistered'
    BY <2>2, <2>4, <2>5, <2>6 DEF LiveRegistered, Conns
  <2>8. HaveToAll'
    BY <2>1, <2>2, <2>5 DEF HaveToAll
  <2> QED
    BY <2>1, <2>7, <2>8 DEF OneLive, FreshOK
<1>10. ASSUME NEW c \in DownConns, AcceptPeer(c) PROVE PeersInv'
  <2>1. /\ c \in Conns /\ loop = "select" /\ fresh = {}
        /\ UNCHANGED <<pieceSet, have, pending, fresh, loop, addr>>
    BY <1>10 DEF AcceptPeer, Idle, control, store, Conns, FreshOK
  <2>2. /\ \A d \in Conns \ {c} : link'[d] = link[d] /\ announced'[d] = announced[d]
        /\ announced'[c] = pieceSet /\ peers' = peers \cup {c}
    BY <1>10, <2>1 DEF AcceptPeer, OurBitfield, TypeInv, TypeOK
  <2>3. \A d \in Conns : Shadowed(d) => Shadowed(d)'
    BY <1>10, <2>1, <2>2, ConnsAssumption DEF Shadowed, Conns
  <2> QED
    BY <2>1, <2>2, <2>3 DEF OneLive, FreshOK, HaveToAll, LiveRegistered
<1>11. ASSUME NEW c \in UpConns, RequestActive(c) PROVE PeersInv'
  BY <1>11, SteadyPeers DEF RequestActive, SendRequest, Send, Returned,
     Requesting, Settled, store
<1>12. ASSUME NEW c \in UpConns, RequestNew(c) PROVE PeersInv'
  BY <1>12, SteadyPeers DEF RequestNew, SendRequest, Send, Returned,
     Requesting, Settled, store
<1>13. ASSUME NEW c \in UpConns, RequestEndgame(c) PROVE PeersInv'
  BY <1>13, SteadyPeers DEF RequestEndgame, SendRequest, Send, Returned,
     Requesting, Settled, store
<1>14. ASSUME NEW c \in UpConns, RequestNone(c) PROVE PeersInv'
  BY <1>14, SteadyPeers DEF RequestNone, Returned, Requesting, Settled,
     store, conns
<1>15. ASSUME NEW c \in Conns, HandleBitfield(c) PROVE PeersInv'
  <2>1. /\ wire[c] # <<>> /\ Head(wire[c]).type = "BITFIELD"
        /\ have' = [have EXCEPT ![c] = Head(wire[c]).pieces]
    BY <1>15 DEF HandleBitfield, Accepted, Received
  <2>2. wire[c][1] = Head(wire[c]) /\ 1 \in 1 .. Len(wire[c])
    BY <2>1, QueuesTyped
  <2>3. have[c] = {}
    BY <2>1, <2>2 DEF WireInv, WireOK, First
  <2>4. \A d \in Conns : have[d] \subseteq have'[d]
    BY <2>1, <2>3 DEF TypeInv, TypeOK
  <2> QED
    BY <1>15, <2>4, SteadyPeers
       DEF HandleBitfield, Accepted, Received, Idle, ThenRequest, Settled, store
<1>16. ASSUME NEW c \in Conns, HandleHave(c) PROVE PeersInv'
  <2>1. \A d \in Conns : have[d] \subseteq have'[d]
    BY <1>16 DEF HandleHave, TypeInv, TypeOK
  <2> QED
    BY <1>16, <2>1, SteadyPeers
       DEF HandleHave, Accepted, Received, Idle, ThenRequest, Settled, store
<1>17. ASSUME NEW c \in Conns, HandleRequest(c) PROVE PeersInv'
  BY <1>17, SteadyPeers DEF HandleRequest, Accepted, Received, Idle, Send,
     Settled, store
<1>18. ASSUME NEW c \in Conns, Refuse(c) PROVE PeersInv'
  BY <1>18, ClosingPeers DEF FreshOK, Refuse, TryReconn, ClosePeer, Closing, Idle, control, store, Conns,
     Accepted, Received, Settled
<1>19. ASSUME NEW c \in Conns, HandleEOF(c) PROVE PeersInv'
  BY <1>19, ClosingPeers DEF FreshOK, HandleEOF, ClosePeer, Closing, Idle, control, store, Conns,
     Accepted, Received, Settled
<1>20. ASSUME NEW c \in Conns, HandleWriterExit(c) PROVE PeersInv'
  BY <1>20, ClosingPeers DEF FreshOK, HandleWriterExit, ClosePeer, Closing, Idle, control, store,
     Conns, Accepted, Received, Settled
<1>21. ASSUME NEW c \in UpConns, DuplicatePiece(c) PROVE PeersInv'
  BY <1>21, SteadyPeers DEF DuplicatePiece, Accepted, Received, Idle,
     ThenRequest, Settled, store
<1>22. ASSUME NEW c \in UpConns, PieceWriteFails(c) PROVE PeersInv'
  BY <1>22, ClosingPeers DEF FreshOK, PieceWriteFails, TryReconn, ClosePeer, Closing, Idle, control, store,
     Conns, Accepted, Received, Settled
<1>23. ASSUME NEW c \in UpConns, PieceStored(c) PROVE PeersInv'
  BY <1>23, SteadyPeers DEF PieceStored, Stored, Accepted, Received, Idle,
     ThenRequest, Settled
<1>24. ASSUME NEW c \in UpConns, PieceCorrupt(c) PROVE PeersInv'
  BY <1>24, ClosingPeers DEF FreshOK, PieceCorrupt, Closing, Stored, Accepted, Received, Idle,
     ThenRequest, Settled, Conns
<1>25. ASSUME NEW c \in UpConns, PieceVerified(c) PROVE PeersInv'
  <2> DEFINE i == Head(wire[c]).block[1]
  <2>1. /\ loop = "select" /\ loop' = "announce" /\ fresh = {} /\ fresh' = {i}
        /\ pieceSet' = pieceSet \cup {i} /\ pending' = Lacking(i)
        /\ UNCHANGED <<link, addr, peers, have, announced>>
    BY <1>25 DEF PieceVerified, Stored, Accepted, Received, Idle, FreshOK
  <2> QED
    BY <2>1 DEF OneLive, FreshOK, HaveToAll, LiveRegistered, Shadowed, Lacking
<1>26. ASSUME NEW c \in Conns, SendHave(c) PROVE PeersInv'
  <2>1. /\ loop = "announce" /\ loop' \in {"announce", "blocked"}
        /\ UNCHANGED <<link, addr, peers, have, fresh, pieceSet>> /\ pending' = pending \ {c}
    BY <1>26 DEF SendHave, Send, store
  <2>2. /\ announced'[c] = announced[c] \cup fresh
        /\ \A d \in Conns \ {c} : announced'[d] = announced[d]
    BY <1>26 DEF SendHave, TypeInv, TypeOK
  <2> QED
    BY <2>1, <2>2 DEF OneLive, FreshOK, HaveToAll, LiveRegistered, Shadowed
<1>27. CASE AllAnnounced
  BY <1>27 DEF AllAnnounced, conns, store, OneLive, FreshOK, HaveToAll, LiveRegistered, Shadowed
<1>28. CASE KeepAliveTick
  BY <1>28, SteadyPeers DEF FreshOK, KeepAliveTick, Idle, Settled, store,
     conns
<1>29. CASE Quit
  BY <1>29, SteadyPeers DEF FreshOK, Quit, Idle, Settled, store, conns
<1>30. ASSUME NEW c \in Conns, CloseIdle(c) PROVE PeersInv'
  BY <1>30, ClosingPeers DEF FreshOK, CloseIdle, ClosePeer, Closing, Idle, control, store, Conns,
     Settled
<1>31. ASSUME NEW c \in Conns, CheckRequests(c) PROVE PeersInv'
  BY <1>31, SteadyPeers DEF FreshOK, CheckRequests, Send, Settled, store
<1>32. CASE AllChecked
  BY <1>32, SteadyPeers DEF AllChecked, control, store, conns, Idle, Settled
<1>33. CASE AskQuit
  BY <1>33 DEF AskQuit, store, conns, OneLive, FreshOK, HaveToAll,
     LiveRegistered, Shadowed
<1>34. ASSUME NEW c \in Conns, ShutdownPeer(c) PROVE PeersInv'
  BY <1>34, ClosingPeers DEF FreshOK, ShutdownPeer, ClosePeer, Closing, Idle, control, store, Conns,
     Settled
<1>35. CASE Shutdown
  BY <1>35, SteadyPeers DEF Shutdown, control, store, conns, Idle, Settled
<1>36. ASSUME NEW c \in UpConns, RemoteAnswers(c) PROVE PeersInv'
  BY <1>36 DEF RemoteAnswers, control, store, OneLive, FreshOK, HaveToAll,
     LiveRegistered, Shadowed
<1>37. ASSUME NEW c \in Conns, RemoteDrops(c) PROVE PeersInv'
  <2>1. \A d \in Conns : link'[d] = "ok" => link[d] = "ok"
    BY <1>37 DEF RemoteDrops, TypeInv, TypeOK
  <2>2. \A d \in Conns : link[d] # "unused" => link'[d] # "unused"
    BY <1>37 DEF RemoteDrops, TypeInv, TypeOK
  <2>3. \A d \in Conns : Shadowed(d) => Shadowed(d)'
    BY <1>37, <2>2 DEF RemoteDrops, Shadowed, Conns
  <2> QED
    BY <1>37, <2>1, <2>3 DEF RemoteDrops, Alive, control, store, OneLive, FreshOK, HaveToAll, LiveRegistered
<1>38. ASSUME NEW c \in Conns, Discard(c) PROVE PeersInv'
  BY <1>38 DEF Discard, control, store, OneLive, FreshOK, HaveToAll,
     LiveRegistered, Shadowed
<1>39. ASSUME NEW c \in DownConns, DownstreamSends(c) PROVE PeersInv'
  BY <1>39 DEF DownstreamSends, control, store, OneLive, FreshOK, HaveToAll,
     LiveRegistered, Shadowed
<1>40. ASSUME NEW a \in Chain, NEW i \in Pieces, SourceGains(a, i) PROVE PeersInv'
  BY <1>40 DEF SourceGains, control, store, OneLive, FreshOK, HaveToAll,
     LiveRegistered, Shadowed
<1>41. CASE UNCHANGED vars
  BY <1>41 DEF vars, control, store, conns, OneLive, FreshOK, HaveToAll,
     LiveRegistered, Shadowed
<1>42. ASSUME NEW c \in Conns, RemoteIdles(c) PROVE PeersInv'
  BY <1>42 DEF RemoteIdles, control, store, OneLive, FreshOK, HaveToAll, LiveRegistered, Shadowed
<1> QED
  BY <1>1, <1>2, <1>3, <1>4, <1>5, <1>6, <1>7, <1>8, <1>9, <1>10, <1>11,
     <1>12, <1>13, <1>14, <1>15, <1>16, <1>17, <1>18, <1>19, <1>20, <1>21,
     <1>22, <1>23, <1>24, <1>25, <1>26, <1>27, <1>28, <1>29, <1>30, <1>31,
     <1>32, <1>33, <1>34, <1>35, <1>36, <1>37, <1>38, <1>39, <1>40, <1>41,
     <1>42
     DEF Next, SessionStep, EnvironmentStep, Dialled, Requested, PieceHandled,
         MessageHandled, KeptAlive, Conns

\* A live connection is in s.peers, so that it gets keep-alives and is closed
\* at the end -- through every reconnection a failed write or a misread
\* keep-alive causes, unless another connection to its address was opened.
THEOREM LiveRegisteredAlways == Spec => []LiveRegistered
<1>1. PeersInv => LiveRegistered
  BY DEF PeersInv
<1> QED
  BY <1>1, InitTyped, TypeStep, WireInit, WireStep, PeersInit, PeersStep, PTL DEF Spec

\* And every peer on a live connection hears of every piece, with the same
\* exception.
THEOREM HaveToAllAlways == Spec => []HaveToAll
<1>1. PeersInv => HaveToAll
  BY DEF PeersInv
<1> QED
  BY <1>1, InitTyped, TypeStep, WireInit, WireStep, PeersInit, PeersStep, PTL DEF Spec

(***************************************************************************)
(* Which blocks look free.                                                 *)
(***************************************************************************)

\* The inductive invariant of AskedCounted: blocks of no active piece are not
\* counted; what is asked for is of an active piece or of one that is there;
\* nothing is asked on the connections of a downstream, or before they are
\* opened; and nothing forgets a request (doCheckRequests) that is on its way.
CountingInv ==
  /\ \A k \in Blocks : k[1] \notin activePieces => downloaderCount[k] = 0
  /\ \A c \in UpConns : \A n \in 1 .. Len(asked[c]) : asked[c][n][1] \in activePieces \cup pieceSet
  /\ \A c \in Conns : c \in DownConns \/ ~Opened(c) => ourRequests[c] = {} /\ asked[c] = <<>>
  /\ loop # "keepalive"
  /\ AskedCounted

LEMMA CountingInit == Init => CountingInv
<1>1. Len(<<>>) = 0
  OBVIOUS
<1> QED BY <1>1 DEF Init, CountingInv, AskedCounted, Conns

\* a step that asks for nothing and records nothing
Uncounted ==
  /\ UNCHANGED <<downloaderCount, ourRequests, activePieces, pieceSet>>
  /\ \A c \in Conns : Opened(c) => Opened(c)'
  /\ \A c \in Conns : c \in DownConns \/ ~Opened(c)' => asked'[c] = asked[c]
  /\ \A c \in UpConns : \A n \in 1 .. Len(asked'[c]) : \E k \in 1 .. Len(asked[c]) : asked'[c][n] = asked[c][k]
  /\ loop' # "keepalive"

LEMMA UncountedCounting == CountingInv /\ Uncounted => CountingInv'
BY DEF CountingInv, Uncounted, AskedCounted, Conns

\* the same, seen from what such a step leaves alone
LEMMA QuietCounting ==
  ASSUME CountingInv, UNCHANGED <<link, asked, downloaderCount, ourRequests, activePieces>>,
         pieceSet \subseteq pieceSet', loop' # "keepalive"
  PROVE  CountingInv'
BY DEF CountingInv, AskedCounted, Opened

\* closing a connection, and with it the requests on it
LEMMA ClosingCounting ==
  ASSUME TypeInv, SingleInv, CountingInv, NEW c \in Conns, Opened(c),
         link' = [link EXCEPT ![c] = "closed"], asked' = [asked EXCEPT ![c] = <<>>],
         ClosePeer(c, wire[c]) \/ downloaderCount' = Released(ourRequests[c]),
         ourRequests' = [ourRequests EXCEPT ![c] = {}],
         UNCHANGED <<activePieces, pieceSet>>, loop' # "keepalive"
  PROVE  CountingInv'
<1>1. downloaderCount' = Released(ourRequests[c])
  BY DEF ClosePeer
<1>2. /\ asked'[c] = <<>> /\ ourRequests'[c] = {} /\ Len(<<>>) = 0
      /\ \A d \in Conns \ {c} : asked'[d] = asked[d] /\ ourRequests'[d] = ourRequests[d]
  BY DEF TypeInv, TypeOK
<1>3. \A d \in Conns : Opened(d)' <=> Opened(d)
  BY ClosingOpened
<1>4. \A k \in Blocks : k[1] \notin activePieces => downloaderCount'[k] = 0
  BY <1>1 DEF CountingInv, Released
<1>5. ASSUME NEW d \in UpConns, NEW n \in 1 .. Len(asked'[d]), asked'[d][n][1] \in activePieces
      PROVE  downloaderCount'[asked'[d][n]] # 0
  <2>1. d \in Conns /\ d # c /\ asked'[d] = asked[d]
    BY <1>2, <1>5 DEF Conns
  <2>2. asked[d] # <<>> /\ asked[d][n] \in Blocks
    <3>1. asked[d] \in Seq(Blocks)
      BY <2>1, QueuesTyped
    <3> QED BY <1>2, <1>5, <2>1, <3>1
  <2>3. Opened(d) /\ d \notin DownConns
    BY <2>1, <2>2 DEF CountingInv
  <2>4. c \notin UpConns
    BY <2>1, <2>3 DEF SingleInv
  <2>5. ourRequests[c] = {}
    BY <2>4 DEF CountingInv, Conns
  <2>6. downloaderCount'[asked[d][n]] = downloaderCount[asked[d][n]]
    BY <1>1, <2>2, <2>5 DEF Released
  <2> QED BY <1>5, <2>1, <2>6 DEF CountingInv, AskedCounted
<1> QED BY <1>2, <1>3, <1>4, <1>5 DEF CountingInv, AskedCounted, Conns

\* one more request, of a block that is then counted
LEMMA RequestCounting ==
  ASSUME TypeInv, StoreInv, SingleInv, CountingInv, NEW c \in UpConns, NEW i \in Pieces, NEW b \in BlocksOf[i],
         Requesting(c), SendRequest(c, <<i, b>>), downloaderCount[<<i, b>>] >= 0,
         activePieces' = activePieces \cup {i}, i \notin pieceSet
  PROVE  CountingInv'
<1> DEFINE k == <<i, b>>
<1>1. k \in Blocks /\ k[1] = i /\ c \in Conns /\ c \notin DownConns
  BY BlockShape, ConnsAssumption DEF Conns
<1>2. Opened(c) /\ loop = "request" /\ serving = c
  BY DEF Requesting, SingleInv
<1>3. /\ downloaderCount' = [downloaderCount EXCEPT ![k] = @ + 1]
      /\ ourRequests' = [ourRequests EXCEPT ![c] = @ \cup {k}]
      /\ asked' \in {asked, [asked EXCEPT ![c] = Append(@, k)]}
      /\ UNCHANGED <<link, pieceSet>> /\ loop' # "keepalive"
  BY <1>2 DEF SendRequest, CountedRequest, Called, Send, Returned, store
<1> HIDE DEF k
<1>4. ASSUME NEW l \in Blocks
      PROVE  downloaderCount'[l] = IF l = k THEN downloaderCount[k] + 1 ELSE downloaderCount[l]
  BY <1>1, <1>3 DEF TypeInv, TypeOK
<1>5. downloaderCount[k] + 1 # 0 /\ downloaderCount[k] + 1 \in Nat
  <2>1. downloaderCount[k] \in Nat \cup {-1}
    BY <1>1 DEF TypeInv, TypeOK
  <2> QED BY <2>1 DEF k
<1>6. ASSUME NEW d \in UpConns, NEW n \in 1 .. Len(asked'[d])
      PROVE  /\ asked'[d][n] \in Blocks
             /\ asked'[d][n] = k \/ \E m \in 1 .. Len(asked[d]) : asked'[d][n] = asked[d][m]
  <2>1. d \in Conns /\ asked[d] \in Seq(Blocks)
    BY QueuesTyped DEF Conns
  <2>2. asked'[d] = asked[d] \/ asked'[d] = Append(asked[d], k)
    BY <1>3, <2>1 DEF TypeInv, TypeOK
  <2>3. CASE asked'[d] = asked[d]
    BY <2>1, <2>3
  <2>4. CASE asked'[d] = Append(asked[d], k)
    BY <1>1, <2>1, <2>4
  <2> QED BY <2>2, <2>3, <2>4
<1>7. \A l \in Blocks : l[1] \notin activePieces' => downloaderCount'[l] = 0
  BY <1>1, <1>4 DEF CountingInv
<1>8. \A d \in UpConns : \A n \in 1 .. Len(asked'[d]) : asked'[d][n][1] \in activePieces' \cup pieceSet
  BY <1>1, <1>6 DEF CountingInv
<1>9. ASSUME NEW d \in Conns, d \in DownConns \/ ~Opened(d)'
      PROVE  ourRequests'[d] = {} /\ asked'[d] = <<>>
  <2>1. d # c /\ (d \in DownConns \/ ~Opened(d))
    BY <1>1, <1>2, <1>3, <1>9 DEF Opened
  <2> QED BY <1>3, <2>1 DEF CountingInv, TypeInv, TypeOK
<1>10. ASSUME NEW d \in UpConns, NEW n \in 1 .. Len(asked'[d]), asked'[d][n][1] \in activePieces'
       PROVE  downloaderCount'[asked'[d][n]] # 0
  <2>1. CASE asked'[d][n] = k
    BY <1>1, <1>4, <1>5, <2>1
  <2>2. CASE asked'[d][n] # k
    <3>1. PICK m \in 1 .. Len(asked[d]) : asked'[d][n] = asked[d][m]
      BY <1>6, <2>2
    <3>2. asked[d][m] \in Blocks /\ asked[d][m][1] \in activePieces \cup pieceSet
      BY <1>6, <3>1 DEF CountingInv
    <3>3. asked[d][m][1] \in activePieces
      BY <1>10, <3>1, <3>2
    <3>4. downloaderCount[asked[d][m]] # 0
      BY <3>3 DEF CountingInv, AskedCounted
    <3> QED BY <1>4, <2>2, <3>1, <3>2, <3>4
  <2> QED BY <2>1, <2>2
<1> QED BY <1>3, <1>7, <1>8, <1>9, <1>10 DEF CountingInv, AskedCounted

\* the last block of a piece is recorded: by the hash of it, the requests on
\* the connection are gone, or the piece is there
FinishedCounts(i) ==
  /\ Finished(i)
  /\ \A d \in UpConns : asked'[d] = <<>> \/ (asked'[d] = asked[d] /\ pieceSet' = pieceSet \cup {i})

LEMMA FinishedCounting ==
  ASSUME TypeInv, CountingInv, NEW c \in UpConns, NEW i \in Pieces, FinishedCounts(i),
         Opened(c), \A d \in Conns : Opened(d)' <=> Opened(d),
         \A d \in Conns : d # c => asked'[d] = asked[d] /\ ourRequests'[d] = ourRequests[d],
         pieceSet \subseteq pieceSet', loop' # "keepalive"
  PROVE  CountingInv'
<1>1. /\ activePieces' = activePieces \ {i}
      /\ \A k \in Blocks : downloaderCount'[k] = IF k[1] = i THEN 0 ELSE downloaderCount[k]
  BY DEF FinishedCounts, Finished
<1>2. \A k \in Blocks : k[1] \notin activePieces' => downloaderCount'[k] = 0
  BY <1>1 DEF CountingInv
<1>3. ASSUME NEW d \in UpConns, NEW n \in 1 .. Len(asked'[d])
      PROVE  /\ asked'[d][n][1] \in activePieces' \cup pieceSet'
             /\ asked'[d][n][1] \in activePieces' => downloaderCount'[asked'[d][n]] # 0
  <2>1. CASE asked'[d] = <<>>
    BY <1>3, <2>1
  <2>2. CASE asked'[d] = asked[d] /\ pieceSet' = pieceSet \cup {i}
    <3>1. d \in Conns /\ asked[d] \in Seq(Blocks)
      BY QueuesTyped DEF Conns
    <3>2. asked[d][n] \in Blocks /\ asked[d][n][1] \in activePieces \cup pieceSet
      BY <1>3, <2>2, <3>1 DEF CountingInv
    <3>3. asked[d][n][1] \in activePieces => downloaderCount[asked[d][n]] # 0
      BY <1>3, <2>2 DEF CountingInv, AskedCounted
    <3> QED BY <1>1, <2>2, <3>2, <3>3
  <2> QED BY <2>1, <2>2 DEF FinishedCounts
<1>4. \A d \in Conns : d \in DownConns \/ ~Opened(d)' => ourRequests'[d] = {} /\ asked'[d] = <<>>
  BY ConnsAssumption DEF CountingInv
<1> QED BY <1>2, <1>3, <1>4 DEF CountingInv, AskedCounted

LEMMA CountingStep ==
  ASSUME ConnectsOnce, "slow" \notin Faults
  PROVE  TypeInv /\ StoreInv /\ FlowInv /\ WireInv /\ SingleInv /\ CountingInv /\ [Next]_vars
           => CountingInv'
<1> SUFFICES ASSUME TypeInv, StoreInv, FlowInv, WireInv, SingleInv, CountingInv, [Next]_vars
             PROVE  CountingInv'
  OBVIOUS
<1> USE DEF Idle
<1>a. UpConns \subseteq Conns /\ DownConns \subseteq Conns /\ peers \cup pending \subseteq Conns
  BY DEF Conns, TypeInv, TypeOK
<1>b. loop # "keepalive"
  BY DEF CountingInv
<1>c. \A i \in activePieces : i \notin pieceSet
  BY DEF StoreInv, ActiveUnfinished
<1>1. CASE InitInServer
  <2>1. pieceSet \subseteq pieceSet'
    BY <1>1 DEF InitInServer, TypeInv, TypeOK
  <2> QED BY <1>1, <2>1, QuietCounting DEF InitInServer, conns, blocks
<1>2. CASE InitInClient
  <2>1. pieceSet \subseteq pieceSet'
    BY <1>2 DEF InitInClient, StoreInv, InitOK
  <2> QED BY <1>2, <2>1, QuietCounting DEF InitInClient, conns, blocks
<1>3. CASE InitFails
  BY <1>3, QuietCounting DEF InitFails, conns, blocks, store
<1>4. CASE Start
  BY <1>4, QuietCounting DEF Start, conns, blocks
<1>5. CASE DialFails
  BY <1>5, QuietCounting DEF DialFails, conns, blocks, store
<1>6. CASE HeaderFails
  BY <1>6, QuietCounting DEF HeaderFails, conns, blocks, store
<1>7. CASE NoSession
  BY <1>7, QuietCounting DEF NoSession, conns, blocks, store
<1>8. CASE RetryTimer
  BY <1>8, QuietCounting DEF RetryTimer, conns, blocks, store
<1>9. ASSUME NEW c \in UpConns, Connected(c) PROVE CountingInv'
  <2>1. \A d \in Conns : Opened(d) => Opened(d)'
    BY <1>9, <1>a DEF Connected, Opened, TypeInv, TypeOK
  <2> QED BY <1>9, <2>1, UncountedCounting DEF Connected, Uncounted, store, blocks
<1>10. ASSUME NEW c \in DownConns, AcceptPeer(c) PROVE CountingInv'
  <2>1. \A d \in Conns : Opened(d) => Opened(d)'
    BY <1>10, <1>a DEF AcceptPeer, Opened, TypeInv, TypeOK
  <2> QED BY <1>10, <2>1, UncountedCounting DEF AcceptPeer, Uncounted, store, blocks, control
<1>11. ASSUME NEW c \in UpConns, RequestActive(c) PROVE CountingInv'
  <2>1. PICK i \in Active(c) : \E b \in BlocksOf[i] : FirstFree(i, b) /\ SendRequest(c, <<i, b>>)
    BY <1>11 DEF RequestActive
  <2>2. PICK b \in BlocksOf[i] : FirstFree(i, b) /\ SendRequest(c, <<i, b>>)
    BY <2>1
  <2>3. i \in Pieces /\ i \notin pieceSet /\ activePieces' = activePieces \cup {i}
    BY <1>11, <2>1, <1>c DEF RequestActive, Active, TypeInv, TypeOK
  <2>4. downloaderCount[<<i, b>>] >= 0
    BY <2>2 DEF FirstFree, FreeBlocks
  <2> QED BY <1>11, <2>2, <2>3, <2>4, RequestCounting DEF RequestActive
<1>12. ASSUME NEW c \in UpConns, RequestNew(c) PROVE CountingInv'
  <2>1. PICK i \in Missing(c) : SendRequest(c, <<i, 0>>) /\ activePieces' = activePieces \cup {i}
    BY <1>12 DEF RequestNew
  <2>2. i \in Pieces /\ i \notin pieceSet /\ i \notin activePieces /\ 0 \in BlocksOf[i] /\ <<i, 0>> \in Blocks
    BY <1>a, BlockShape DEF Missing, TypeInv, TypeOK
  <2>3. downloaderCount[<<i, 0>>] >= 0
    <3>1. <<i, 0>>[1] = i
      OBVIOUS
    <3> QED BY <2>2, <3>1 DEF CountingInv
  <2> QED BY <1>12, <2>1, <2>2, <2>3, RequestCounting DEF RequestNew
<1>13. ASSUME NEW c \in UpConns, RequestEndgame(c) PROVE CountingInv'
  <2>1. PICK i \in Active(c) : \E b \in BlocksOf[i] : LeastAsked(i, b) /\ SendRequest(c, <<i, b>>)
    BY <1>13 DEF RequestEndgame
  <2>2. PICK b \in BlocksOf[i] : LeastAsked(i, b) /\ SendRequest(c, <<i, b>>)
    BY <2>1
  <2>3. i \in Pieces /\ i \notin pieceSet /\ activePieces' = activePieces \cup {i}
    BY <1>13, <2>1, <1>c DEF RequestEndgame, Active, TypeInv, TypeOK
  <2>4. downloaderCount[<<i, b>>] >= 0
    BY <2>2 DEF LeastAsked
  <2> QED BY <1>13, <2>2, <2>3, <2>4, RequestCounting DEF RequestEndgame
<1>14. ASSUME NEW c \in UpConns, RequestNone(c) PROVE CountingInv'
  BY <1>14, QuietCounting DEF RequestNone, conns, blocks, store, Requesting, Returned
<1>15. ASSUME NEW c \in Conns, HandleBitfield(c) PROVE CountingInv'
  BY <1>15, QuietCounting
     DEF HandleBitfield, Accepted, Received, ThenRequest, blocks, store
<1>16. ASSUME NEW c \in Conns, HandleHave(c) PROVE CountingInv'
  BY <1>16, QuietCounting DEF HandleHave, Accepted, Received, ThenRequest, blocks, store
<1>17. ASSUME NEW c \in Conns, HandleRequest(c) PROVE CountingInv'
  BY <1>17, QuietCounting DEF HandleRequest, Accepted, Received, Send, blocks, store
<1>18. ASSUME NEW c \in Conns, Refuse(c) PROVE CountingInv'
  <2>1. Opened(c)
    BY <1>18, ReadOpened DEF Refuse, Accepted, Received
  <2> QED
    BY <1>18, <1>b, <2>1, ClosingCounting DEF Refuse, TryReconn, ClosePeer, Closing, control, store
<1>19. ASSUME NEW c \in Conns, HandleEOF(c) PROVE CountingInv'
  <2>1. Opened(c)
    BY <1>19, ReadOpened DEF HandleEOF, Received
  <2> QED
    BY <1>19, <1>b, <2>1, ClosingCounting DEF HandleEOF, ClosePeer, Closing, control, store
<1>20. ASSUME NEW c \in Conns, HandleWriterExit(c) PROVE CountingInv'
  <2>1. Opened(c)
    BY <1>20 DEF HandleWriterExit, FlowInv, WriterOK, Opened
  <2> QED
    BY <1>20, <1>b, <2>1, ClosingCounting DEF HandleWriterExit, ClosePeer, Closing, control, store
<1>21. ASSUME NEW c \in UpConns, DuplicatePiece(c) PROVE CountingInv'
  BY <1>21, QuietCounting
     DEF DuplicatePiece, Accepted, Received, ThenRequest, blocks, store
<1>22. ASSUME NEW c \in UpConns, PieceWriteFails(c) PROVE CountingInv'
  <2>1. Opened(c)
    BY <1>22, <1>a, ReadOpened DEF PieceWriteFails, Accepted, Received
  <2> QED
    BY <1>22, <1>a, <1>b, <2>1, ClosingCounting DEF PieceWriteFails, TryReconn, ClosePeer, Closing
<1>23. ASSUME NEW c \in UpConns, PieceStored(c) PROVE CountingInv'
  <2> DEFINE k == Head(wire[c]).block
  <2>1. k \in Blocks /\ c \in Conns /\ c \notin DownConns
    BY <1>23, <1>a, PieceShape, ConnsAssumption DEF PieceStored, Stored, Accepted
  <2>2. Opened(c)
    BY <1>23, <1>a, ReadOpened DEF PieceStored, Stored, Accepted, Received
  <2>3. /\ downloaderCount' = IF k[1] \in activePieces
                              THEN [downloaderCount EXCEPT ![k] = -1] ELSE downloaderCount
        /\ UNCHANGED <<link, asked, activePieces, pieceSet>> /\ loop' # "keepalive"
        /\ ourRequests' = [ourRequests EXCEPT ![c] = @ \ {k}]
    BY <1>23 DEF PieceStored, Stored, ThenRequest
  <2> HIDE DEF k
  <2>4. ASSUME NEW l \in Blocks
        PROVE  \/ downloaderCount'[l] = downloaderCount[l]
               \/ l[1] \in activePieces /\ downloaderCount'[l] = -1
    BY <2>1, <2>3 DEF TypeInv, TypeOK
  <2>5. \A d \in Conns : d # c => ourRequests'[d] = ourRequests[d]
    BY <2>3 DEF TypeInv, TypeOK
  <2>6. ASSUME NEW d \in UpConns, NEW n \in 1 .. Len(asked[d]), asked[d][n][1] \in activePieces
        PROVE  downloaderCount'[asked[d][n]] # 0
    <3>1. asked[d] \in Seq(Blocks)
      BY <1>a, QueuesTyped
    <3>2. downloaderCount[asked[d][n]] # 0
      BY <2>6 DEF CountingInv, AskedCounted
    <3> QED BY <3>1, <3>2, <2>4
  <2> QED
    BY <2>1, <2>2, <2>3, <2>4, <2>5, <2>6 DEF CountingInv, AskedCounted, Opened
<1>24. ASSUME NEW c \in UpConns, PieceCorrupt(c) PROVE CountingInv'
  <2> DEFINE i == Head(wire[c]).block[1]
  <2>1. i \in Pieces /\ c \in Conns
    BY <1>24, <1>a, PieceShape, BlockShape DEF PieceCorrupt, Stored, Accepted
  <2>2. Opened(c)
    BY <1>24, <1>a, ReadOpened DEF PieceCorrupt, Stored, Accepted, Received
  <2>3. /\ Finished(i) /\ UNCHANGED pieceSet /\ loop' # "keepalive"
        /\ asked' = [asked EXCEPT ![c] = <<>>] /\ link' = [link EXCEPT ![c] = "closed"]
        /\ \E S : ourRequests' = [ourRequests EXCEPT ![c] = @ \ S]
    BY <1>24 DEF PieceCorrupt, Stored, Closing, ThenRequest
  <2> HIDE DEF i
  <2>4. asked'[c] = <<>> /\ \A d \in Conns : d # c => asked'[d] = asked[d] /\ ourRequests'[d] = ourRequests[d]
    BY <2>1, <2>3 DEF TypeInv, TypeOK
  <2>5. \A d \in UpConns : asked'[d] = <<>>
    BY <1>a, <2>2, <2>4 DEF SingleInv, CountingInv
  <2>6. \A d \in Conns : Opened(d)' <=> Opened(d)
    BY <2>1, <2>2, <2>3, ClosingOpened
  <2> QED BY <2>1, <2>2, <2>3, <2>4, <2>5, <2>6, FinishedCounting DEF FinishedCounts
<1>25. ASSUME NEW c \in UpConns, PieceVerified(c) PROVE CountingInv'
  <2> DEFINE i == Head(wire[c]).block[1]
  <2>1. i \in Pieces /\ c \in Conns
    BY <1>25, <1>a, PieceShape, BlockShape DEF PieceVerified, Stored, Accepted
  <2>2. Opened(c)
    BY <1>25, <1>a, ReadOpened DEF PieceVerified, Stored, Accepted, Received
  <2>3. /\ Finished(i) /\ pieceSet' = pieceSet \cup {i} /\ loop' # "keepalive"
        /\ UNCHANGED <<asked, link>>
        /\ \E S : ourRequests' = [ourRequests EXCEPT ![c] = @ \ S]
    BY <1>25 DEF PieceVerified, Stored
  <2> HIDE DEF i
  <2>4. \A d \in Conns : d # c => ourRequests'[d] = ourRequests[d]
    BY <2>1, <2>3 DEF TypeInv, TypeOK
  <2>5. \A d \in Conns : Opened(d)' <=> Opened(d)
    BY <2>3 DEF Opened
  <2> QED BY <2>1, <2>2, <2>3, <2>4, <2>5, FinishedCounting DEF FinishedCounts
<1>26. ASSUME NEW c \in Conns, SendHave(c) PROVE CountingInv'
  BY <1>26, QuietCounting DEF SendHave, Send, blocks, store
<1>27. CASE AllAnnounced
  BY <1>27, QuietCounting DEF AllAnnounced, conns, blocks, store
<1>28. CASE KeepAliveTick
  BY <1>28 DEF KeepAliveTick
<1>29. CASE Quit
  BY <1>29, QuietCounting DEF Quit, conns, blocks, store
<1>30. ASSUME NEW c \in Conns, CloseIdle(c) PROVE CountingInv'
  BY <1>30, <1>b DEF CloseIdle
<1>31. ASSUME NEW c \in Conns, CheckRequests(c) PROVE CountingInv'
  BY <1>31, <1>b DEF CheckRequests
<1>32. CASE AllChecked
  BY <1>32, <1>b DEF AllChecked
<1>33. CASE AskQuit
  BY <1>33, <1>b, QuietCounting DEF AskQuit, conns, blocks, store
<1>34. ASSUME NEW c \in Conns, ShutdownPeer(c) PROVE CountingInv'
  <2>1. Opened(c)
    BY <1>34 DEF ShutdownPeer, SingleInv
  <2> QED
    BY <1>34, <2>1, ClosingCounting DEF ShutdownPeer, ClosePeer, Closing, store
<1>35. CASE Shutdown
  BY <1>35, QuietCounting DEF Shutdown, conns, blocks, store
<1>36. ASSUME NEW c \in UpConns, RemoteAnswers(c) PROVE CountingInv'
  <2>1. /\ asked' = [asked EXCEPT ![c] = Tail(@)] /\ asked[c] # <<>> /\ c \in Conns
        /\ UNCHANGED <<link, downloaderCount, ourRequests, activePieces, pieceSet, loop>>
    BY <1>36, <1>a DEF RemoteAnswers, control, store, blocks
  <2>2. c \notin DownConns /\ Opened(c)
    BY <2>1 DEF CountingInv
  <2>3. asked'[c] = Tail(asked[c]) /\ \A d \in Conns : d # c => asked'[d] = asked[d]
    BY <2>1 DEF TypeInv, TypeOK
  <2>4. \A n \in 1 .. Len(asked'[c]) : n + 1 \in 1 .. Len(asked[c]) /\ asked'[c][n] = asked[c][n + 1]
    <3>1. asked[c] \in Seq(Blocks)
      BY <2>1, QueuesTyped
    <3>2. ASSUME NEW q \in Seq(Blocks), q # <<>>
          PROVE  \A n \in 1 .. Len(Tail(q)) : n + 1 \in 1 .. Len(q) /\ Tail(q)[n] = q[n + 1]
      BY <3>2
    <3> QED BY <2>1, <2>3, <3>1, <3>2
  <2>5. Uncounted
    BY <1>a, <1>b, <2>1, <2>2, <2>3, <2>4 DEF Uncounted, Opened
  <2> QED BY <2>5, UncountedCounting
<1>37. ASSUME NEW c \in Conns, RemoteDrops(c) PROVE CountingInv'
  <2>1. /\ asked' = [asked EXCEPT ![c] = <<>>] /\ link[c] = "ok" /\ link' = [link EXCEPT ![c] = "dropped"]
        /\ UNCHANGED <<downloaderCount, ourRequests, activePieces, pieceSet, loop>>
    BY <1>37 DEF RemoteDrops, control, store, blocks
  <2>2. asked'[c] = <<>> /\ \A d \in Conns : d # c => asked'[d] = asked[d]
    BY <2>1 DEF TypeInv, TypeOK
  <2>3. \A d \in Conns : Opened(d)' <=> Opened(d)
    BY <2>1 DEF TypeInv, TypeOK, Opened
  <2>4. Opened(c) /\ (c \in DownConns => asked[c] = <<>>)
    BY <2>1 DEF Opened, CountingInv
  <2>5. Uncounted
    BY <1>a, <1>b, <2>1, <2>2, <2>3, <2>4 DEF Uncounted
  <2> QED BY <2>5, UncountedCounting
<1>38. ASSUME NEW c \in Conns, Discard(c) PROVE CountingInv'
  BY <1>38, <1>b, QuietCounting DEF Discard, control, blocks, store
<1>39. ASSUME NEW c \in DownConns, DownstreamSends(c) PROVE CountingInv'
  BY <1>39, <1>b, QuietCounting DEF DownstreamSends, control, blocks, store
<1>40. ASSUME NEW a \in Chain, NEW i \in Pieces, SourceGains(a, i) PROVE CountingInv'
  BY <1>40, <1>b, QuietCounting DEF SourceGains, control, blocks, store
<1>41. CASE UNCHANGED vars
  BY <1>41, <1>b, QuietCounting DEF vars, control, conns, blocks, store
<1>42. ASSUME NEW c \in Conns, RemoteIdles(c) PROVE CountingInv'
  BY <1>42, <1>b, QuietCounting DEF RemoteIdles, control, blocks, store
<1> QED
  BY <1>1, <1>2, <1>3, <1>4, <1>5, <1>6, <1>7, <1>8, <1>9, <1>10, <1>11,
     <1>12, <1>13, <1>14, <1>15, <1>16, <1>17, <1>18, <1>19, <1>20, <1>21,
     <1>22, <1>23, <1>24, <1>25, <1>26, <1>27, <1>28, <1>29, <1>30, <1>31,
     <1>32, <1>33, <1>34, <1>35, <1>36, <1>37, <1>38, <1>39, <1>40, <1>41,
     <1>42
     DEF Next, SessionStep, EnvironmentStep, Dialled, Requested, PieceHandled,
         MessageHandled, KeptAlive, Conns

\* While a block is asked for it does not look free, so that it is asked for
\* again only in the endgame: as long as no request is late, and of a session
\* that connects upstream once, or in which nothing makes it connect again.
THEOREM AskedCountedAlways ==
  ASSUME ConnectsOnce, "slow" \notin Faults PROVE Spec => []AskedCounted
<1>1. CountingInv => AskedCounted
  BY DEF CountingInv
<1> QED
  BY <1>1, InitTyped, TypeStep, StoreInit, StoreStep, FlowInit, FlowStep, WireInit, WireStep,
     SingleInit, SingleStep, CountingInit, CountingStep, PTL DEF Spec
==============================================================================
