----------------------------- MODULE TaskSession -----------------------------
(***************************************************************************)
(* One p2p session of gofd (src/p2p/session.go, peer.go, piece.go): the    *)
(* goroutine that downloads the pieces of one task from the previous node  *)
(* of the dispatch chain and serves them to the next ones.                 *)
(*                                                                         *)
(* A session is one goroutine around a `select'; each peer connection has  *)
(* a reader and a writer goroutine.  A handler that sends several messages *)
(* is cut at each of them: loop is then "request", "dial", "announce",     *)
(* "keepalive" or "shutdown", and the goroutine takes no other case of the *)
(* select, while readers, writers, remote nodes and the network do move.   *)
(***************************************************************************)
EXTENDS Integers, Sequences, FiniteSets

CONSTANTS
  Pieces,          \* the pieces of the task's files
  BlocksOf,        \* BlocksOf[i]: the blocks 0..n-1 of piece i
  UpConns,         \* connections this node may open (each is used once)
  DownConns,       \* connections it may accept (each is used once)
  SelfPos,         \* its position in LinkChain.DispatchAddrs, 0 is the server
  MaxOurRequests,  \* maxOurRequests, requests sent on every HAVE
  Roles,           \* the values cfg.Server may have
  Faults,          \* what may go wrong in this instance
  NoConn

Conns == UpConns \cup DownConns
Blocks == UNION {{i} \X BlocksOf[i] : i \in Pieces}
Chain == 0 .. SelfPos - 1       \* the addresses before this node's
FaultKinds == {"init", "dial", "header", "drop", "corrupt", "disk", "slow", "idle"}

ASSUME PiecesFinite == IsFiniteSet(Pieces)
ASSUME BlocksAssumption ==
  BlocksOf \in [Pieces -> SUBSET Nat] /\ \A i \in Pieces : 0 \in BlocksOf[i]
ASSUME ConnsAssumption ==
  /\ UpConns \cap DownConns = {}
  /\ NoConn \notin UpConns \cup DownConns
ASSUME NumbersAssumption ==
  SelfPos \in Nat \ {0} /\ MaxOurRequests \in Nat \ {0}
ASSUME FlagsAssumption == Roles \subseteq BOOLEAN /\ Faults \subseteq FaultKinds

VARIABLES
  loop,            \* where the session's goroutine is
  serving, left,   \* the peer to request from, the requestBlock calls left
  pending, fresh,  \* peers a loop over s.peers has to visit, {piece to announce}
  started,         \* a StartTask was handled
  quitAsked,       \* Quit() is waiting on quitChan
  indexInChain,    \* the address tryNewPeer connects to
  retryConn,       \* retryConnTimeChan is armed
  totalPieces, goodPieces, pieceSet,
  disk,            \* blocks whose bytes on disk are those of the task
  reported,        \* percentages handed to the reporter: 100 and -1
  activePieces, downloaderCount,
  peers,           \* connections registered in s.peers
  link,            \* TCP connection: "unused", "ok", "dropped", "closed"
  addr,            \* position in the chain of an opened connection's remote
  writer,          \* writer goroutine: "up", "failed" (nil to post), "gone"
  have,            \* have[c]: pieces the remote announced
  announced,       \* announced[c]: pieces announced to the remote
  ourRequests,
  wire,            \* remote to session: network, reader and peerMessageChan
  asked,           \* REQUESTs the remote has still to answer
  source,          \* source[a]: pieces the session at address a holds
  server           \* cfg.Server: the server's own session, not an agent's

control == <<loop, serving, left, pending, fresh, started, quitAsked>>
dialling == <<indexInChain, retryConn>>
store == <<totalPieces, goodPieces, pieceSet, disk, reported>>
blocks == <<activePieces, downloaderCount>>
conns == <<peers, link, addr, writer, have, announced, ourRequests, wire, asked>>
vars == <<control, dialling, store, blocks, conns, source, server>>

-----------------------------------------------------------------------------
(* Messages on a connection; EOF is the nil message a reader posts last.   *)

Bitfield(S) == [type |-> "BITFIELD", pieces |-> S]
Have(i) == [type |-> "HAVE", piece |-> i]
Request(i) == [type |-> "REQUEST", piece |-> i]
Piece(k, good) == [type |-> "PIECE", block |-> k, good |-> good]
EOF == [type |-> "EOF"]

\* For a keep-alive, of length 0, peerReader reads one byte all the same: it is
\* the first of the next length, a zero, hence a HAVE of a wrong length.
Misread == [type |-> "MISREAD"]

\* The stream is out of step from there on: what follows is no message of its
\* own any more, but part of the misread or of another one.
InStep(q) == \A n \in 1 .. Len(q) : q[n] # Misread
Heard(q, m) == IF InStep(q) THEN Append(q, m) ELSE q

\* an upstream, whose p.client is true, never sends a REQUEST
UpMessages ==
  {Bitfield(S) : S \in SUBSET Pieces} \cup {Have(i) : i \in Pieces}
    \cup {Piece(k, good) : k \in Blocks, good \in BOOLEAN} \cup {EOF}
    \cup {m \in {Misread} : "idle" \in Faults}
Messages == UpMessages \cup {Request(i) : i \in Pieces}

TypeOK ==
  /\ loop \in {"init", "select", "request", "dial", "announce", "keepalive",
               "shutdown", "blocked", "ended", "crashed"}
  /\ serving \in Conns \cup {NoConn}
  /\ left \in Nat /\ pending \subseteq Conns /\ fresh \subseteq Pieces
  /\ started \in BOOLEAN /\ quitAsked \in BOOLEAN /\ retryConn \in BOOLEAN
  /\ indexInChain \in -1 .. SelfPos - 1
  /\ totalPieces \in Nat /\ goodPieces \in Nat
  /\ pieceSet \subseteq Pieces /\ disk \subseteq Blocks
  /\ reported \subseteq {100, -1}
  /\ activePieces \subseteq Pieces
  /\ downloaderCount \in [Blocks -> Nat \cup {-1}]
  /\ peers \subseteq Conns
  /\ link \in [Conns -> {"unused", "ok", "dropped", "closed"}]
  /\ addr \in [UpConns -> Chain]
  /\ writer \in [Conns -> {"up", "failed", "gone"}]
  /\ have \in [Conns -> SUBSET Pieces]
  /\ announced \in [Conns -> SUBSET Pieces]
  /\ ourRequests \in [Conns -> SUBSET Blocks]
  /\ wire \in [Conns -> Seq(Messages)]
  /\ \A c \in UpConns : wire[c] \in Seq(UpMessages)
  /\ asked \in [Conns -> Seq(Blocks)]
  /\ source \in [Chain -> SUBSET Pieces] /\ server \in BOOLEAN

Init ==
  /\ loop = "init" /\ serving = NoConn /\ left = 0 /\ pending = {} /\ fresh = {}
  /\ started = FALSE /\ quitAsked = FALSE /\ retryConn = FALSE
  /\ indexInChain = 0
  /\ totalPieces = 0 /\ goodPieces = 0 /\ pieceSet = {} /\ reported = {}
  /\ server \in Roles
  /\ disk \in IF server THEN {Blocks} ELSE SUBSET Blocks
  /\ activePieces = {} /\ downloaderCount = [k \in Blocks |-> 0]
  /\ peers = {}
  /\ link = [c \in Conns |-> "unused"]
  /\ addr = [c \in UpConns |-> 0]
  /\ writer = [c \in Conns |-> "up"]
  /\ have = [c \in Conns |-> {}]
  /\ announced = [c \in Conns |-> {}]
  /\ ourRequests = [c \in Conns |-> {}]
  /\ wire = [c \in Conns |-> <<>>]
  /\ asked = [c \in Conns |-> <<>>]
  /\ source = [a \in Chain |-> IF a = 0 THEN Pieces ELSE {}]

-----------------------------------------------------------------------------
(* Init() of the session, before its select loop.                          *)

\* checkPiece: the hash of piece i matches; checkPieces: those that do
Good(i, d) == \A b \in BlocksOf[i] : <<i, b>> \in d
GoodPieces(d) == {i \in Pieces : Good(i, d)}

InitInServer ==
  /\ loop = "init" /\ server
  /\ loop' = "select"
  /\ pieceSet' = Pieces
  /\ totalPieces' = Cardinality(Pieces)
  /\ goodPieces' = Cardinality(Pieces)
  /\ UNCHANGED <<serving, left, pending, fresh, started, quitAsked>>
  /\ UNCHANGED <<dialling, disk, reported, blocks, conns, source, server>>

\* exsited only looks at the last file of the task, so what the disk holds
\* may be ignored; otherwise the pieces with the right hash are kept.
InitInClient ==
  /\ loop = "init" /\ ~server
  /\ loop' = "select"
  /\ \E exsited \in BOOLEAN :
       pieceSet' = IF exsited THEN GoodPieces(disk) ELSE {}
  /\ totalPieces' = Cardinality(Pieces)
  /\ goodPieces' = Cardinality(pieceSet')
  /\ UNCHANGED <<serving, left, pending, fresh, started, quitAsked>>
  /\ UNCHANGED <<dialling, disk, reported, blocks, conns, source, server>>

\* NewFileStore failed: the error is logged and the loop entered all the same
InitFails ==
  /\ loop = "init" /\ "init" \in Faults
  /\ loop' = "select"
  /\ UNCHANGED <<serving, left, pending, fresh, started, quitAsked>>
  /\ UNCHANGED <<dialling, store, blocks, conns, source, server>>

-----------------------------------------------------------------------------
(* Starting, and connecting to the previous node of the chain.             *)

Idle == loop = "select"

Start ==
  /\ Idle /\ ~started
  /\ started' = TRUE
  /\ \/ /\ server
        /\ UNCHANGED <<loop, indexInChain, reported>>
     \/ /\ ~server /\ totalPieces = goodPieces   \* "already downloaded"
        /\ reported' = reported \cup {100}
        /\ UNCHANGED <<loop, indexInChain>>
     \/ /\ ~server /\ totalPieces # goodPieces
        /\ indexInChain' = SelfPos - 1
        /\ loop' = "dial"
        /\ UNCHANGED reported
  /\ UNCHANGED <<serving, left, pending, fresh, quitAsked, retryConn>>
  /\ UNCHANGED <<totalPieces, goodPieces, pieceSet, disk, blocks, conns, source, server>>

Target == IF indexInChain < 0 THEN 0 ELSE indexInChain

\* The keys of s.peers: connections opened to one address share one entry,
\* an accepted connection has a port, hence an entry, of its own.
Entry(c) == IF c \in UpConns THEN {p \in UpConns : addr[p] = addr[c]} ELSE {c}

\* SendBitfield of addPeerImp (EagerBitfield: a mutant, as every definition
\* below that says so)
EagerBitfield == pieceSet \cup activePieces
OurBitfield == pieceSet

\* DialTimeout, header and response succeed.  The remote's session does the
\* same addPeerImp: its bitfield is the first message on the connection.
Connected(c) ==
  /\ loop = "dial" /\ link[c] = "unused"
  /\ loop' = "select"
  /\ indexInChain' = Target
  /\ addr' = [addr EXCEPT ![c] = Target]
  /\ link' = [link EXCEPT ![c] = "ok"]
  /\ peers' = {p \in peers : p \in UpConns => addr[p] # Target} \cup {c}
  /\ announced' = [announced EXCEPT ![c] = OurBitfield]
  /\ wire' = [wire EXCEPT ![c] = <<Bitfield(source[Target])>>]
  /\ UNCHANGED <<serving, left, pending, fresh, started, quitAsked, retryConn>>
  /\ UNCHANGED <<store, blocks, writer, have, ourRequests, asked, source, server>>

\* DialTimeout returns a nil conn, and conn.Close() on it panics
DialFails ==
  /\ loop = "dial" /\ "dial" \in Faults
  /\ loop' = "crashed"
  /\ UNCHANGED <<serving, left, pending, fresh, started, quitAsked>>
  /\ UNCHANGED <<dialling, store, blocks, conns, source, server>>

HeaderFails ==
  /\ loop = "dial" /\ "header" \in Faults
  /\ loop' = "select"
  /\ indexInChain' = Target - 1
  /\ retryConn' = TRUE
  /\ UNCHANGED <<serving, left, pending, fresh, started, quitAsked>>
  /\ UNCHANGED <<store, blocks, conns, source, server>>

\* The remote has no session for the task yet and closes the connection
NoSession ==
  /\ loop = "dial"
  /\ loop' = "select"
  /\ indexInChain' = Target
  /\ retryConn' = TRUE
  /\ UNCHANGED <<serving, left, pending, fresh, started, quitAsked>>
  /\ UNCHANGED <<store, blocks, conns, source, server>>

RetryTimer ==
  /\ Idle /\ retryConn
  /\ retryConn' = FALSE
  /\ loop' = "dial"
  /\ UNCHANGED <<serving, left, pending, fresh, started, quitAsked, indexInChain>>
  /\ UNCHANGED <<store, blocks, conns, source, server>>

\* An accepted connection; the remote's bitfield is any set of pieces
AcceptPeer(c) ==
  /\ Idle /\ link[c] = "unused"
  /\ link' = [link EXCEPT ![c] = "ok"]
  /\ peers' = peers \cup {c}
  /\ announced' = [announced EXCEPT ![c] = OurBitfield]
  /\ \E S \in SUBSET Pieces : wire' = [wire EXCEPT ![c] = <<Bitfield(S)>>]
  /\ UNCHANGED <<control, dialling, store, blocks, source, server>>
  /\ UNCHANGED <<addr, writer, have, ourRequests, asked>>

-----------------------------------------------------------------------------
(* Sending and closing.                                                    *)

\* A write on a connection the remote has dropped may still be accepted
WriteResults(c) ==
  CASE link[c] = "closed" -> {"failed"}
    [] link[c] = "dropped" -> {"up", "failed"}
    [] OTHER -> {"up"}

\* sendMessage: writeChan has no buffer and, once the writer goroutine has
\* exited on an error, no receiver.
Send(c, next) ==
  \/ /\ writer[c] = "up"
     /\ loop' = next
     /\ \E w \in WriteResults(c) : writer' = [writer EXCEPT ![c] = w]
  \/ /\ writer[c] # "up"
     /\ loop' = "blocked"
     /\ UNCHANGED writer

\* removeRequests: the blocks of S lose one downloader
ReleasedBlindly(S) ==                               \* mutant: no test for > 0
  [k \in Blocks |-> IF k \in S THEN downloaderCount[k] - 1 ELSE downloaderCount[k]]
Released(S) ==
  [k \in Blocks |-> IF k \in S /\ downloaderCount[k] > 0
                    THEN downloaderCount[k] - 1 ELSE downloaderCount[k]]

\* conn.Close(); the reader posts its nil after what it has already read.
\* q is what is left to read on c once the current message is taken off.
ClosingLate(c, q) ==                                \* mutant: no conn.Close()
  wire' = [wire EXCEPT ![c] = q] /\ UNCHANGED <<link, asked>>
Closing(c, q) ==
  /\ link' = [link EXCEPT ![c] = "closed"]
  /\ wire' = [wire EXCEPT ![c] = IF link[c] = "ok" THEN Append(q, EOF) ELSE q]
  /\ asked' = [asked EXCEPT ![c] = <<>>]

ClosePeer(c, q) ==
  /\ Closing(c, q)
  /\ downloaderCount' = Released(ourRequests[c])
  /\ ourRequests' = [ourRequests EXCEPT ![c] = {}]
  /\ peers' = peers \ Entry(c)

\* the rest of closePeerAndTryReconn: of an upstream, tryNewPeer
TryReconn(c) ==
  /\ loop' = IF c \in UpConns THEN "dial" ELSE loop
  /\ UNCHANGED <<serving, left, pending, fresh, started, quitAsked, dialling>>

-----------------------------------------------------------------------------
(* requestBlock(serving), called left times.                               *)

Called(c) ==
  /\ left' = left - 1
  /\ serving' = IF left = 1 THEN NoConn ELSE c

Returned == IF left = 1 THEN "select" ELSE "request"

Requesting(c) == loop = "request" /\ serving = c

\* the downloaderCount[i]++ of both choices of a block
UncountedRequest(k) == downloaderCount                       \* mutant: no ++
CountedRequest(k) == [downloaderCount EXCEPT ![k] = @ + 1]

\* requestBlockImp, SendRequest
SendRequest(c, k) ==
  /\ downloaderCount' = CountedRequest(k)
  /\ ourRequests' = [ourRequests EXCEPT ![c] = @ \cup {k}]
  /\ asked' = IF link[c] = "ok" /\ writer[c] = "up"
              THEN [asked EXCEPT ![c] = Append(@, k)] ELSE asked
  /\ Called(c) /\ Send(c, Returned)
  /\ UNCHANGED <<pending, fresh, started, quitAsked, dialling, store, source, server>>
  /\ UNCHANGED <<peers, link, addr, have, announced, wire>>

\* chooseBlockToDownloadNormal: the first block nobody was asked for
FreeBlocks(i) == {b \in BlocksOf[i] : downloaderCount[<<i, b>>] = 0}
FirstFree(i, b) == b \in FreeBlocks(i) /\ \A e \in FreeBlocks(i) : b <= e

\* chooseBlockToDownloadEndgame: the first of those asked for least often
LeastAsked(i, b) ==
  LET count(e) == downloaderCount[<<i, e>>] IN
  /\ b \in BlocksOf[i] /\ count(b) >= 0
  /\ \A e \in BlocksOf[i] : count(e) >= 0 =>
       count(b) < count(e) \/ (count(b) = count(e) /\ b <= e)

Active(c) == activePieces \cap have[c]
MissingAnywhere(c) == Pieces \ (pieceSet \cup activePieces)  \* mutant: not have
Missing(c) == have[c] \ (pieceSet \cup activePieces)

RequestActive(c) ==
  /\ Requesting(c)
  /\ \E i \in Active(c) : \E b \in BlocksOf[i] :
       FirstFree(i, b) /\ SendRequest(c, <<i, b>>)
  /\ UNCHANGED activePieces

RequestNew(c) ==
  /\ Requesting(c) /\ \A i \in Active(c) : FreeBlocks(i) = {}
  /\ \E i \in Missing(c) :
       SendRequest(c, <<i, 0>>) /\ activePieces' = activePieces \cup {i}

RequestEndgame(c) ==
  /\ Requesting(c) /\ \A i \in Active(c) : FreeBlocks(i) = {}
  /\ Missing(c) = {}
  /\ \E i \in Active(c) : \E b \in BlocksOf[i] :
       LeastAsked(i, b) /\ SendRequest(c, <<i, b>>)
  /\ UNCHANGED activePieces

RequestNone(c) ==
  /\ Requesting(c) /\ Missing(c) = {}
  /\ \A i \in Active(c) : \A b \in BlocksOf[i] : downloaderCount[<<i, b>>] = -1
  /\ Called(c) /\ loop' = Returned
  /\ UNCHANGED <<pending, fresh, started, quitAsked, dialling>>
  /\ UNCHANGED <<store, blocks, conns, source, server>>

-----------------------------------------------------------------------------
(* doMessage: the messages of a peer, in the order its reader posts them.  *)

Received(c, type) == Idle /\ wire[c] # <<>> /\ Head(wire[c]).type = type
Accepted(c, type) == Received(c, type) /\ totalPieces > 0

Consume(c) == wire' = [wire EXCEPT ![c] = Tail(@)]

\* only the upstream (!p.client) is asked for blocks
ThenRequestOnce(c, n) ==                          \* mutant: HAVE asks nothing
  IF c \in UpConns /\ n = 1 THEN loop' = "request" /\ serving' = c /\ left' = n
                            ELSE UNCHANGED <<loop, serving, left>>
ThenRequest(c, n) ==
  IF c \in UpConns THEN loop' = "request" /\ serving' = c /\ left' = n
                   ELSE UNCHANGED <<loop, serving, left>>

HandleBitfield(c) ==
  /\ Accepted(c, "BITFIELD")
  /\ have' = [have EXCEPT ![c] = Head(wire[c]).pieces]
  /\ Consume(c) /\ ThenRequest(c, 1)
  /\ UNCHANGED <<pending, fresh, started, quitAsked, dialling, store, blocks>>
  /\ UNCHANGED <<peers, link, addr, writer, announced, ourRequests, asked, source, server>>

HandleHave(c) ==
  /\ Accepted(c, "HAVE")
  /\ have' = [have EXCEPT ![c] = @ \cup {Head(wire[c]).piece}]
  /\ Consume(c) /\ ThenRequest(c, MaxOurRequests)
  /\ UNCHANGED <<pending, fresh, started, quitAsked, dialling, store, blocks>>
  /\ UNCHANGED <<peers, link, addr, writer, announced, ourRequests, asked, source, server>>

\* sendPiece
HandleRequest(c) ==
  /\ Accepted(c, "REQUEST") /\ Head(wire[c]).piece \in pieceSet
  /\ Consume(c) /\ Send(c, "select")
  /\ UNCHANGED <<serving, left, pending, fresh, started, quitAsked, dialling>>
  /\ UNCHANGED <<store, blocks, peers, link, addr, have, announced>>
  /\ UNCHANGED <<ourRequests, asked, source, server>>

\* A request for a piece we lack, or that cannot be read, and a keep-alive
\* misread; with no pieceSet (failed initialisation) every message is refused.
Refuse(c) ==
  /\ \/ /\ Accepted(c, "REQUEST")
        /\ Head(wire[c]).piece \notin pieceSet \/ "disk" \in Faults
     \/ Received(c, "MISREAD")
     \/ /\ \E type \in {"BITFIELD", "HAVE", "REQUEST"} : Received(c, type)
        /\ totalPieces = 0
  /\ ClosePeer(c, Tail(wire[c])) /\ TryReconn(c)
  /\ UNCHANGED <<store, activePieces, addr, writer, have, announced, source, server>>

\* nil message: io.EOF, the peer is closed and, unlike on other errors, no
\* connection to the upstream is tried again
HandleEOF(c) ==
  /\ Received(c, "EOF")
  /\ ClosePeer(c, Tail(wire[c]))
  /\ UNCHANGED <<control, dialling, store, activePieces>>
  /\ UNCHANGED <<addr, writer, have, announced, source, server>>

HandleWriterExit(c) ==
  /\ Idle /\ writer[c] = "failed"
  /\ writer' = [writer EXCEPT ![c] = "gone"]
  /\ ClosePeer(c, wire[c])
  /\ UNCHANGED <<control, dialling, store, activePieces>>
  /\ UNCHANGED <<addr, have, announced, source, server>>

-----------------------------------------------------------------------------
(* doMessage: PIECE, from an upstream.                                     *)

\* s.pieceSet.IsSet(index)
NeverKnown(c) == FALSE                              \* mutant: no such test
Known(c) == Head(wire[c]).block[1] \in pieceSet

\* a PIECE of a piece already verified is not written, only answered by
\* one more request; its entry of ourRequests stays
DuplicatePiece(c) ==
  /\ Accepted(c, "PIECE") /\ Known(c)
  /\ Consume(c) /\ ThenRequest(c, 1)
  /\ UNCHANGED <<pending, fresh, started, quitAsked, dialling, store, blocks>>
  /\ UNCHANGED <<peers, link, addr, writer, have, announced, ourRequests>>
  /\ UNCHANGED <<asked, source, server>>

\* fileStore.WriteAt fails, perhaps halfway
PieceWriteFails(c) ==
  /\ Accepted(c, "PIECE") /\ ~Known(c) /\ "disk" \in Faults
  /\ disk' \in {disk, disk \ {Head(wire[c]).block}}
  /\ ClosePeer(c, Tail(wire[c])) /\ TryReconn(c)
  /\ UNCHANGED <<totalPieces, goodPieces, pieceSet, reported, activePieces>>
  /\ UNCHANGED <<addr, writer, have, announced, source, server>>

\* The bytes are written and recordBlock takes the block off ourRequests
Stored(c) ==
  LET m == Head(wire[c]) IN
  /\ Accepted(c, "PIECE") /\ ~Known(c)
  /\ disk' = IF m.good THEN disk \cup {m.block} ELSE disk \ {m.block}
  /\ ourRequests' = [ourRequests EXCEPT ![c] = @ \ {m.block}]
  /\ UNCHANGED <<started, quitAsked, dialling, totalPieces>>
  /\ UNCHANGED <<addr, writer, have, announced, source, server>>

\* k is the only block of its piece that was not recorded yet
Completes(k) ==
  /\ k[1] \in activePieces
  /\ \A b \in BlocksOf[k[1]] :
       <<k[1], b>> = k \/ downloaderCount[<<k[1], b>>] = -1

\* delete(s.activePieces, i)
FinishedKept(i) == UNCHANGED blocks                       \* mutant: no delete
Finished(i) ==
  /\ activePieces' = activePieces \ {i}
  /\ downloaderCount' = [k \in Blocks |-> IF k[1] = i THEN 0 ELSE downloaderCount[k]]

PieceStored(c) ==
  LET k == Head(wire[c]).block IN
  /\ Stored(c) /\ ~Completes(k)
  /\ downloaderCount' = IF k[1] \in activePieces
                        THEN [downloaderCount EXCEPT ![k] = -1] ELSE downloaderCount
  /\ Consume(c) /\ ThenRequest(c, 1)
  /\ UNCHANGED <<pending, fresh, goodPieces, pieceSet, reported, activePieces>>
  /\ UNCHANGED <<peers, link, asked>>

\* wrong hash, or the piece cannot be read back: -1 is reported and the
\* connection closed; the peer stays registered and is asked once more
PieceCorrupt(c) ==
  LET k == Head(wire[c]).block IN
  /\ Stored(c) /\ Completes(k)
  /\ ~Good(k[1], disk') \/ "disk" \in Faults
  /\ Finished(k[1])
  /\ reported' = reported \cup {-1}
  /\ Closing(c, Tail(wire[c])) /\ ThenRequest(c, 1)
  /\ UNCHANGED <<pending, fresh, goodPieces, pieceSet, peers>>

\* the reports of a verified piece that matter to the server: completion
ReportsEarly(n) == IF n + 1 >= totalPieces THEN {100} ELSE {}      \* mutant
ReportsLate(n) == IF n > totalPieces THEN {100} ELSE {}            \* mutant
Reports(n) == IF n = totalPieces THEN {100} ELSE {}

\* the peers SendHave is called for
Having(i) == {p \in peers : i \in have[p]}               \* mutant: test negated
Lacking(i) == {p \in peers : i \notin have[p]}

\* right hash: the piece is counted and announced to the peers that lack it
PieceVerified(c) ==
  LET i == Head(wire[c]).block[1] IN
  /\ Stored(c) /\ Completes(Head(wire[c]).block) /\ Good(i, disk')
  /\ Finished(i)
  /\ pieceSet' = pieceSet \cup {i}
  /\ goodPieces' = goodPieces + 1
  /\ reported' = reported \cup Reports(goodPieces')
  /\ Consume(c)
  /\ loop' = "announce" /\ serving' = c /\ left' = 1
  /\ pending' = Lacking(i) /\ fresh' = {i}
  /\ UNCHANGED <<peers, link, asked>>

SendHave(p) ==
  /\ loop = "announce" /\ p \in pending
  /\ pending' = pending \ {p}
  /\ announced' = [announced EXCEPT ![p] = @ \cup fresh]
  /\ Send(p, "announce")
  /\ UNCHANGED <<serving, left, fresh, started, quitAsked, dialling>>
  /\ UNCHANGED <<store, blocks, peers, link, addr, have, ourRequests>>
  /\ UNCHANGED <<wire, asked, source, server>>

AllAnnounced ==
  /\ loop = "announce" /\ pending = {}
  /\ loop' = "request" /\ fresh' = {}
  /\ UNCHANGED <<serving, left, pending, started, quitAsked, dialling>>
  /\ UNCHANGED <<store, blocks, conns, source, server>>

-----------------------------------------------------------------------------
(* The keep-alive tick, and Quit.                                          *)

\* peersKeepAlive, every minute: ticks that find no peer idle and no
\* request late only matter when one of them is possible ("slow").
KeepAliveTick ==
  /\ Idle /\ "slow" \in Faults /\ peers # {}
  /\ loop' = "keepalive" /\ pending' = peers
  /\ UNCHANGED <<serving, left, fresh, started, quitAsked, dialling>>
  /\ UNCHANGED <<store, blocks, conns, source, server>>

\* nothing was read from p for 3 minutes
CloseIdle(p) ==
  /\ loop = "keepalive" /\ p \in pending
  /\ ClosePeer(p, wire[p])
  /\ pending' = pending \ Entry(p)
  /\ UNCHANGED <<loop, serving, left, fresh, started, quitAsked, dialling>>
  /\ UNCHANGED <<store, activePieces, addr, writer, have, announced, source, server>>

\* doCheckRequests forgets requests older than 30 s, which stay in
\* ourRequests, then keepAlive; a keep-alive within 2 minutes of the last
\* write is dropped by the writer.
CheckRequests(p) ==
  /\ loop = "keepalive" /\ p \in pending
  /\ \E late \in SUBSET ourRequests[p] : downloaderCount' = Released(late)
  /\ pending' = pending \ {p}
  /\ Send(p, "keepalive") \/ (writer[p] = "up" /\ UNCHANGED <<loop, writer>>)
  /\ UNCHANGED <<serving, left, fresh, started, quitAsked, dialling, store>>
  /\ UNCHANGED <<activePieces, peers, link, addr, have, announced>>
  /\ UNCHANGED <<ourRequests, wire, asked, source, server>>

AllChecked ==
  /\ loop = "keepalive" /\ pending = {}
  /\ loop' = "select"
  /\ UNCHANGED <<serving, left, pending, fresh, started, quitAsked, dialling>>
  /\ UNCHANGED <<store, blocks, conns, source, server>>

\* the manager is in Quit(), blocked until the session or its end answers
AskQuit ==
  /\ ~quitAsked /\ loop \notin {"ended", "crashed"}
  /\ quitAsked' = TRUE
  /\ UNCHANGED <<loop, serving, left, pending, fresh, started, dialling>>
  /\ UNCHANGED <<store, blocks, conns, source, server>>

Quit ==
  /\ Idle /\ quitAsked
  /\ loop' = "shutdown" /\ pending' = peers
  /\ UNCHANGED <<serving, left, fresh, started, quitAsked, dialling>>
  /\ UNCHANGED <<store, blocks, conns, source, server>>

ShutdownPeer(p) ==
  /\ loop = "shutdown" /\ p \in pending
  /\ ClosePeer(p, wire[p])
  /\ pending' = pending \ Entry(p)
  /\ UNCHANGED <<loop, serving, left, fresh, started, quitAsked, dialling>>
  /\ UNCHANGED <<store, activePieces, addr, writer, have, announced, source, server>>

ShutdownOnly ==                                     \* mutant: no return
  /\ loop = "shutdown" /\ pending = {} /\ loop' = "select"
  /\ UNCHANGED <<serving, left, pending, fresh, started, quitAsked, dialling>>
  /\ UNCHANGED <<store, blocks, conns, source, server>>
Shutdown ==
  /\ loop = "shutdown" /\ pending = {}
  /\ loop' = "ended"
  /\ UNCHANGED <<serving, left, pending, fresh, started, quitAsked, dialling>>
  /\ UNCHANGED <<store, blocks, conns, source, server>>

-----------------------------------------------------------------------------
(* The remote sessions and the network.                                    *)

Alive == loop \notin {"init", "ended", "crashed"}

\* The session at address a, which runs this same code, verifies a piece
\* and sends HAVE to its peers it believes to lack it; what we announced
\* may still be on its way to it.
SourceGains(a, i) ==
  /\ Alive /\ a # 0 /\ i \notin source[a]
  /\ source' = [source EXCEPT ![a] = @ \cup {i}]
  /\ LET at == {c \in UpConns : link[c] = "ok" /\ addr[c] = a} IN
     \E told \in SUBSET at :
       /\ \A c \in at \ told : i \in announced[c]
       /\ wire' = [c \in Conns |-> IF c \in told THEN Heard(wire[c], Have(i)) ELSE wire[c]]
  /\ UNCHANGED <<control, dialling, store, blocks, server>>
  /\ UNCHANGED <<peers, link, addr, writer, have, announced, ourRequests, asked>>

\* sendPiece of the remote
RemoteAnswers(c) ==
  /\ Alive /\ asked[c] # <<>>
  /\ asked' = [asked EXCEPT ![c] = Tail(@)]
  /\ \E good \in IF "corrupt" \in Faults THEN BOOLEAN ELSE {TRUE} :
       wire' = [wire EXCEPT ![c] = Heard(@, Piece(Head(asked[c]), good))]
  /\ UNCHANGED <<control, dialling, store, blocks, source, server>>
  /\ UNCHANGED <<peers, link, addr, writer, have, announced, ourRequests>>

\* The remote closes the connection (a keep-alive of ours misread, a silence
\* of ours, its own end), or its process dies
RemoteDrops(c) ==
  /\ Alive /\ "drop" \in Faults /\ link[c] = "ok"
  /\ link' = [link EXCEPT ![c] = "dropped"]
  /\ wire' = [wire EXCEPT ![c] = Append(@, EOF)]
  /\ asked' = [asked EXCEPT ![c] = <<>>]
  /\ UNCHANGED <<control, dialling, store, blocks, source, server>>
  /\ UNCHANGED <<peers, addr, writer, have, announced, ourRequests>>

\* bytes of a connection that is no more, lost before the reader took them
Discard(c) ==
  /\ Alive /\ link[c] \in {"dropped", "closed"} /\ Len(wire[c]) > 1
  /\ wire' = [wire EXCEPT ![c] = Append(SubSeq(@, 1, Len(@) - 2), EOF)]
  /\ UNCHANGED <<control, dialling, store, blocks, source, server>>
  /\ UNCHANGED <<peers, link, addr, writer, have, announced, ourRequests, asked>>

\* A downstream session announces a piece, or requests one it knows we have.
\* Bound: one such message of each kind and piece on its way.
DownstreamSends(c) ==
  /\ Alive /\ link[c] = "ok"
  /\ \E m \in {Have(i) : i \in Pieces \ have[c]} \cup {Request(i) : i \in announced[c]} :
       /\ \A n \in 1 .. Len(wire[c]) : wire[c][n] # m
       /\ wire' = [wire EXCEPT ![c] = Heard(@, m)]
  /\ UNCHANGED <<control, dialling, store, blocks, source, server>>
  /\ UNCHANGED <<peers, link, addr, writer, have, announced, ourRequests, asked>>

\* The remote's writer had nothing else to send for two minutes.  Bound: two
\* misreads of a connection on their way.
RemoteIdles(c) ==
  /\ Alive /\ "idle" \in Faults /\ link[c] = "ok"
  /\ \A n \in 1 .. Len(wire[c]) - 1 : wire[c][n] # Misread
  /\ wire' = [wire EXCEPT ![c] = Append(@, Misread)]
  /\ UNCHANGED <<control, dialling, store, blocks, source, server>>
  /\ UNCHANGED <<peers, link, addr, writer, have, announced, ourRequests, asked>>

-----------------------------------------------------------------------------
Dialled == DialFails \/ HeaderFails \/ NoSession \/ \E c \in UpConns : Connected(c)

Requested(c) ==
  RequestActive(c) \/ RequestNew(c) \/ RequestEndgame(c) \/ RequestNone(c)

PieceHandled(c) ==
  \/ DuplicatePiece(c) \/ PieceWriteFails(c) \/ PieceStored(c)
  \/ PieceCorrupt(c) \/ PieceVerified(c)

MessageHandled(c) ==
  \/ HandleBitfield(c) \/ HandleHave(c) \/ HandleRequest(c) \/ Refuse(c)
  \/ HandleEOF(c) \/ HandleWriterExit(c)

KeptAlive(p) == CloseIdle(p) \/ CheckRequests(p)

SessionStep ==
  \/ InitInServer \/ InitInClient \/ InitFails
  \/ Start \/ Dialled \/ RetryTimer \/ \E c \in DownConns : AcceptPeer(c)
  \/ \E c \in UpConns : Requested(c) \/ PieceHandled(c)
  \/ \E c \in Conns : MessageHandled(c) \/ SendHave(c) \/ KeptAlive(c) \/ ShutdownPeer(c)
  \/ AllAnnounced \/ KeepAliveTick \/ AllChecked \/ Quit \/ Shutdown

EnvironmentStep ==
  \/ AskQuit
  \/ \E a \in Chain, i \in Pieces : SourceGains(a, i)
  \/ \E c \in UpConns : RemoteAnswers(c)
  \/ \E c \in Conns : RemoteDrops(c) \/ RemoteIdles(c) \/ Discard(c)
  \/ \E c \in DownConns : DownstreamSends(c)

Next == SessionStep \/ EnvironmentStep

Spec == Init /\ [][Next]_vars

\* What Go and the network owe: the goroutines run, a ready case of a select
\* is taken sooner or later (it picks among the ready ones at random), an
\* attempt to connect to a live upstream is answered (connectToPeer reads the
\* answer without a deadline) and succeeds in the end, and upstream sessions
\* progress and answer.  No fault is fair, nor is a call of Quit.
Fairness ==
  /\ WF_vars(InitInServer \/ InitInClient)
  /\ SF_vars(\E c \in UpConns : Connected(c))
  /\ SF_vars(RetryTimer)
  /\ WF_vars(\E c \in UpConns : Requested(c))
  /\ \A c \in UpConns : SF_vars(PieceHandled(c)) /\ WF_vars(RemoteAnswers(c))
  /\ \A c \in Conns : SF_vars(MessageHandled(c))
  /\ WF_vars(\E c \in Conns : SendHave(c) \/ KeptAlive(c) \/ ShutdownPeer(c))
  /\ WF_vars(AllAnnounced \/ AllChecked \/ Shutdown)
  /\ SF_vars(Quit)
  /\ \A a \in Chain, i \in Pieces : WF_vars(SourceGains(a, i))

FairSpec == Spec /\ Fairness

-----------------------------------------------------------------------------
(* Safety.                                                                 *)

\* What the session calls a piece it has -- and announces, serves and counts
\* -- is on disk with the right bytes, whatever late or corrupt blocks were
\* written in the meantime (generalMessage writes before any hash is known).
Verified == \A i \in pieceSet : Good(i, disk)

\* 100% is only reported with every piece verified, although the completion
\* tests go by the counter goodPieces.
ReportedComplete == 100 \in reported => pieceSet = Pieces

\* A piece in activePieces is not verified yet and has a block still to
\* come: with all of its blocks recorded, chooseBlockToDownload would never
\* pick it and checkRange would skip it, so it would never be downloaded.
ActiveUnfinished ==
  \A i \in activePieces :
    i \notin pieceSet /\ \E b \in BlocksOf[i] : downloaderCount[<<i, b>>] >= 0

\* On a live connection to an upstream with nothing on its way either
\* direction, an idle session has every piece that upstream announced: the
\* protocol never loses its last outstanding request.
NoStall ==
  \A c \in UpConns :
    Idle /\ link[c] = "ok" /\ wire[c] = <<>> /\ asked[c] = <<>>
      => have[c] \subseteq pieceSet

\* A request only ever names a piece the remote holds: the remote answers
\* any other with an error, closing the connection for good.
RequestsHeld ==
  \A c \in UpConns : \A n \in 1 .. Len(asked[c]) : asked[c][n][1] \in source[addr[c]]

\* Connections opened to one address share one entry of s.peers: the later one
\* takes it over, and whichever is closed first deletes it.
Shadowed(c) ==
  c \in UpConns /\ \E d \in UpConns \ {c} : addr[d] = addr[c] /\ link[d] # "unused"

\* Every peer on a live connection knows each piece we hold, unless it has
\* it or recordBlock is about to tell it: a downstream waits for a HAVE.  Only
\* an upstream that was connected to twice may be left out.
HaveToAll ==
  \A c \in Conns : link[c] = "ok" /\ ~Shadowed(c) =>
    pieceSet \subseteq announced[c] \cup have[c] \cup (IF c \in pending THEN fresh ELSE {})

\* Nothing is announced that could not be served
AnnouncedHeld == \A c \in Conns : announced[c] \subseteq pieceSet

\* A live connection is in s.peers -- only those get keep-alives, the idle
\* check and the close of shutdown -- but where another connection to the same
\* address was opened: nothing else makes the session lose a live peer.
LiveRegistered == \A c \in Conns : link[c] = "ok" /\ ~Shadowed(c) => c \in peers

\* While a block is being asked for, it does not look free to
\* chooseBlockToDownload: downloaderCount is released with the request.
AskedCounted ==
  \A c \in UpConns : \A n \in 1 .. Len(asked[c]) :
    asked[c][n][1] \in activePieces => downloaderCount[asked[c][n]] # 0

-----------------------------------------------------------------------------
(* The session implements Download.                                        *)

Phase ==
  CASE loop = "init" -> "starting"
    [] loop \in {"ended", "crashed"} -> "over"
    [] OTHER -> IF started THEN "running" ELSE "waiting"

Promise == INSTANCE Download WITH
  agent <- ~server, phase <- Phase, held <- pieceSet, told <- 100 \in reported

\* Each step of a session is one of Download's, or none: a piece joins the
\* set once, while the task runs, and 100% reaches the reporter in the step
\* that completes the set -- by the last block of the last piece, or by a
\* start that finds everything on disk -- and in no other.
ImplementsDownload == Promise!Spec

-----------------------------------------------------------------------------
(* Liveness, under FairSpec.                                               *)

\* No connection to an upstream, and none that is being tried: io.EOF from an
\* upstream closes the peer without the reconnection other errors get.
Stranded == Idle /\ ~retryConn /\ \A c \in UpConns : link[c] # "ok"

\* sendMessage to a peer whose writer has exited, its connection being lost;
\* the writer's last message waits for this very goroutine
BlockedSending ==
  loop = "blocked" /\ \E c \in Conns : writer[c] # "up" /\ link[c] \in {"dropped", "closed"}

\* A started session that is not told to quit ends up with every piece, unless
\* it lost its upstream to an io.EOF, or blocks in a send to a lost peer.
DownloadCompletes ==
  started ~> (pieceSet = Pieces \/ quitAsked \/ Stranded \/ BlockedSending)

\* Quit() returns once the session ends.  It does whatever is on its way from
\* and to the peers, whatever is being requested, announced or tried again, and
\* whichever connection is lost when, but behind a blocked send -- and behind
\* an upstream that never answers a connection, which Fairness excludes.
QuitServed == quitAsked ~> (loop = "ended" \/ BlockedSending)
==============================================================================
