------------------------------- MODULE Transfer -------------------------------
(***************************************************************************)
(* One agent copies the files of a task from one upstream peer: the files  *)
(* (FileStore), the connection with its header and its frames (peer.go,    *)
(* listen.go), the flow control of the upstream's writes (FlowCtrl).  The  *)
(* two sessions are here as far as these see them; their own order of      *)
(* events, with more peers, is TaskSession's.                              *)
(*                                                                         *)
(* A byte of the stream is a pair <<number of its message, position>>, so  *)
(* that any byte lost, repeated or misread shows.  A byte of a file is its *)
(* position in the source, counted from 1; no source byte is 0.            *)
(***************************************************************************)
EXTENDS FileStore, FlowCtrl, Bitset

CONSTANTS
  Layouts, Leftovers,   \* lengths of the files; what may lie on the agent's disk
  LenBytes, HeadBytes,  \* length of a message's length (4) and head (1, or 9)
  MaxConns, MaxStarts,  \* bounds: connections, starts of the agent's session
  Faults, None

FaultKinds == {"short", "idle", "drop", "corrupt", "disk", "crash"}

ASSUME FaultsAssumption == Faults \subseteq FaultKinds
ASSUME FilesAssumption == Layouts \subseteq Seq(Nat) \ {<<>>} /\ Leftovers \subseteq Seq(Int)
ASSUME FramesAssumption == LenBytes \in Nat \ {0} /\ HeadBytes \in Nat \ {0}
ASSUME BoundsAssumption == MaxConns \in Nat /\ MaxStarts \in Nat /\ None \notin Nat

VARIABLES
  lens, disk,      \* the layout; the agent's files
  session,         \* the agent's session: "down", "up"
  verified,        \* pieceSet
  active, recorded,\* the piece being downloaded, its blocks that came
  conns, starts,   \* how many there were
  link,            \* "none", "dial", "header", "refused", "open", "closed"
  requests,        \* frames on their way upstream: REQUESTs, keep-alives
  sent,            \* the messages the upstream's writer took, on this connection
  slice, payload,  \* what Writer.Write still has to write; the Write after it
  wire,            \* bytes in the connection
  got              \* the message delivered last; 0: none

files == <<lens, disk>>
store == <<session, verified, active, recorded, starts>>
stream == <<requests, sent, slice, payload, wire, got>>
vars == <<files, store, conns, link, stream, flow>>

Junk == -1
Pieces == PiecesOf(lens)

\* the upstream's files and the hashes of the MetaInfo
Master == [i \in DOMAIN lens |-> [k \in 1 .. lens[i] |-> Offset(lens, i) + k]]
Sums == [p \in Pieces |-> Sum(Master, lens, p)]

TypeOK ==
  /\ lens \in Layouts /\ DOMAIN disk = DOMAIN lens
  /\ session \in {"down", "up"} /\ verified \subseteq Pieces
  /\ active \in Pieces \cup {None} /\ recorded \subseteq Nat
  /\ (active = None => recorded = {}) /\ active \notin verified
  /\ conns \in 0 .. MaxConns /\ starts \in 0 .. MaxStarts
  /\ link \in {"none", "dial", "header", "refused", "open", "closed"}
  /\ got \in 0 .. Len(sent)
  /\ FlowTypeOK
  /\ left = Len(slice)
  /\ link # "open" => requests = <<>> /\ wire = <<>>

Init ==
  /\ lens \in Layouts
  /\ disk \in [DOMAIN lens -> Leftovers]
  /\ session = "down" /\ verified = {} /\ active = None /\ recorded = {}
  /\ conns = 0 /\ starts = 0 /\ link = "none"
  /\ requests = <<>> /\ sent = <<>> /\ slice = <<>> /\ payload = <<>>
  /\ wire = <<>> /\ got = 0
  /\ FlowInit

-----------------------------------------------------------------------------
(* The agent's session and its files.                                        *)

\* the connection is over, or a new one begins
Afresh ==
  /\ requests' = <<>> /\ sent' = <<>> /\ slice' = <<>> /\ payload' = <<>>
  /\ wire' = <<>> /\ got' = 0
  /\ New

\* initInClient and startImp.  NewFileStore resizes or makes file after file; the agent may die after n
\* of them.  What is there is hashed if the last file existed before.
Open ==
  /\ session = "down" /\ starts < MaxStarts
  /\ starts' = starts + 1
  /\ \E n \in IF "crash" \in Faults THEN 0 .. Len(lens) ELSE {Len(lens)} :
       /\ disk' = [i \in DOMAIN lens |-> IF i <= n THEN Resized(disk[i], lens[i]) ELSE disk[i]]
       /\ session' = IF n = Len(lens) THEN "up" ELSE "down"
       /\ verified' = IF session' = "down" \/ disk[Len(lens)] = Absent THEN {}
                      ELSE GoodPieces(disk', lens, Sums)
  /\ link' = IF session' = "down" \/ verified' = Pieces THEN "none" ELSE "dial"
  /\ UNCHANGED <<lens, active, recorded, conns, stream, flow>>

\* it quits, or the agent dies
Stop ==
  /\ "crash" \in Faults /\ session = "up" /\ conns < MaxConns
  /\ session' = "down" /\ verified' = {} /\ active' = None /\ recorded' = {}
  /\ link' = "none"
  /\ Afresh
  /\ UNCHANGED <<files, starts, conns>>

Message(kind, p, b, data) == [kind |-> kind, piece |-> p, block |-> b, data |-> data]

\* chooseBlockToDownload: nothing but this is on request
NextBlock(p, had) == CHOOSE b \in 0 .. NumBlocks(lens, p) - 1 :
                       b \notin had /\ \A a \in 0 .. b - 1 : a \in had

\* mutant: any piece will do
RequestAny(done, piece, had) ==
  IF piece = None /\ done = Pieces
  THEN active' = None /\ recorded' = {} /\ UNCHANGED requests
  ELSE /\ active' \in IF piece = None THEN Pieces ELSE {piece}
       /\ recorded' = had
       /\ requests' = Append(requests, Message("REQUEST", active', NextBlock(active', had), <<>>))

\* mutant: the blocks left of an active piece are not asked for
RequestNew(done, piece, had) ==
  IF piece # None \/ done = Pieces
  THEN active' = piece /\ recorded' = had /\ UNCHANGED requests
  ELSE /\ active' \in Pieces \ done /\ recorded' = {}
       /\ requests' = Append(requests, Message("REQUEST", active', NextBlock(active', {}), <<>>))

\* p.have: the bytes of the upstream's BITFIELD, the first message of all
Has(p) == IsSet(NewBitsetFromBytes(NumPieces(lens), sent[1].data), p)

\* requestBlock: the first block left of the active piece, or a new piece
Request(done, piece, had) ==
  LET wanted == {p \in IF piece = None THEN Pieces \ done ELSE {piece} : Has(p)}
  IN
  IF wanted = {}
  THEN active' = piece /\ recorded' = had /\ UNCHANGED requests
  ELSE /\ active' \in wanted
       /\ recorded' = had
       /\ requests' = Append(requests, Message("REQUEST", active', NextBlock(active', had), <<>>))

-----------------------------------------------------------------------------
(* The connection.                                                           *)

\* connectToPeer, from startImp or a retry
Dial ==
  /\ link = "dial" /\ conns < MaxConns
  /\ link' = "header" /\ conns' = conns + 1
  /\ UNCHANGED <<files, store, stream, flow>>

\* the upstream's listener reads the header with one Read, whatever has come
ReadHeader ==
  /\ link = "header"
  /\ \/ link' = "open"
     \/ "short" \in Faults /\ conns < MaxConns /\ link' = "refused"
  /\ UNCHANGED <<files, store, conns, stream, flow>>

\* nothing closes a connection refused, until it is garbage; then the Read
\* of its answer fails
Forgotten ==
  /\ link = "refused"
  /\ link' = "dial"
  /\ UNCHANGED <<files, store, conns, stream, flow>>

\* the upstream goes; io.EOF closes the peer without a reconnection
Closed(faults) ==
  /\ link = "open" /\ faults
  /\ link' = "closed"
  /\ Afresh
  /\ UNCHANGED <<files, store, conns>>
Drop == Closed("drop" \in Faults)

\* closePeerAndTryReconn, for the agent
Reconnect ==
  /\ link' = "dial"
  /\ Afresh

-----------------------------------------------------------------------------
(* The upstream: its session, its writer.                                    *)

Payload(m) == IF m.kind = "ALIVE" THEN 0 ELSE HeadBytes + Len(m.data)
Frame(n) == [j \in 1 .. LenBytes + Payload(sent[n]) |-> <<n, j>>]

\* peerWriter takes a message and writes its length; then its bytes
Take(m) ==
  /\ link = "open" /\ writer = "idle" /\ payload = <<>>
  /\ sent' = Append(sent, m)
  /\ slice' = [j \in 1 .. LenBytes |-> <<Len(sent'), j>>]
  /\ payload' = [j \in 1 .. Payload(m) |-> <<Len(sent'), LenBytes + j>>]
  /\ Write(LenBytes)
  /\ UNCHANGED <<files, store, conns, link, wire, got>>

SendBitfield ==
  /\ sent = <<>>
  /\ Take(Message("BITFIELD", 0, 0, BitsetOf(NumPieces(lens), Pieces)))
  /\ UNCHANGED requests

\* sendPiece; with "corrupt", the upstream's own files are not what they were
SendPiece ==
  /\ requests # <<>> /\ Head(requests).kind = "REQUEST"
  /\ LET p == Head(requests).piece
         b == Head(requests).block
         n == BlockLength(lens, p, b)
     IN  \/ Take(Message("PIECE", p, b, Read(Master, lens, BlockAt(p, b), n)))
         \/ "corrupt" \in Faults /\ Take(Message("PIECE", p, b, Zeros(n)))
  /\ requests' = Tail(requests)

\* keepAlive to a peer nothing was written to for two minutes
SendAlive ==
  /\ "idle" \in Faults /\ conns < MaxConns
  /\ sent # <<>> /\ Last(sent).kind # "ALIVE"
  /\ Take(Message("ALIVE", 0, 0, <<>>))
  /\ UNCHANGED requests

WritePayload ==
  /\ link = "open" /\ writer = "idle" /\ payload # <<>>
  /\ slice' = payload /\ payload' = <<>>
  /\ Write(Len(payload))
  /\ UNCHANGED <<files, store, conns, link, requests, sent, wire, got>>

\* mutant: the byte sent last is sent again
RestAgain(p, n) == SubSeq(p, n, Len(p))

\* Writer.Write: p[:Limit(...)] goes out, p = p[c:]
Rest(p, n) == SubSeq(p, n + 1, Len(p))

Chunk ==
  /\ Wrote(granted)
  /\ wire' = wire \o SubSeq(slice, 1, granted)
  /\ slice' = Rest(slice, granted)
  /\ UNCHANGED <<files, store, conns, link, requests, sent, payload, got>>

Limited ==
  /\ Limit \/ Wake
  /\ UNCHANGED <<files, store, conns, link, stream>>

Tick ==
  /\ link = "open" /\ Pass
  /\ UNCHANGED <<files, store, conns, link, stream>>

\* the same keep-alive from the agent, and the frame behind it: the upstream
\* reads one byte of that for a message, and closes the connection
AgentAlive ==
  /\ "idle" \in Faults /\ link = "open"
  /\ \A k \in DOMAIN requests : requests[k].kind # "ALIVE"
  /\ requests' = Append(requests, Message("ALIVE", 0, 0, <<>>))
  /\ UNCHANGED <<files, store, conns, link, sent, slice, payload, wire, got, flow>>

AliveMisread == Closed(Len(requests) > 1 /\ Head(requests).kind = "ALIVE")

-----------------------------------------------------------------------------
(* The agent reads and handles a message: peerReader, generalMessage.        *)

\* The frame at the head of the stream: its length says how many bytes are
\* read for it.  A keep-alive has a length of 0, and one byte is read for it.
ReadSize ==
  LET size == Payload(sent[wire[1][1]])
  IN  LenBytes + IF size = 0 THEN 1 ELSE size

\* the message these are, or none
Incoming ==
  IF SubSeq(wire, 1, ReadSize) = Frame(wire[1][1]) THEN wire[1][1] ELSE Junk

Bad(p) == Sum(disk', lens, p) # Sums[p]

\* WriteAt, recordBlock, checkPiece, requestBlock
Store(m) ==
  LET off == BlockAt(m.piece, m.block)
      had == recorded \cup {m.block}
      whole == had = 0 .. NumBlocks(lens, m.piece) - 1
  IN  /\ disk' = Written(disk, lens, m.data, off)
      /\ IF whole /\ Bad(m.piece)
         THEN /\ active' = None /\ recorded' = {}       \* p.Close
              /\ link' = "closed" /\ Afresh
              /\ UNCHANGED verified
         ELSE /\ verified' = IF whole THEN verified \cup {m.piece} ELSE verified
              /\ IF whole THEN Request(verified', None, {}) ELSE Request(verified, m.piece, had)
              /\ UNCHANGED <<link, sent, slice, payload, flow>>

\* a write that fails half-way
StoreFails(m) ==
  /\ "disk" \in Faults /\ conns < MaxConns
  /\ \E n \in 0 .. Len(m.data) - 1 :
       disk' = Written(disk, lens, SubSeq(m.data, 1, n), BlockAt(m.piece, m.block))
  /\ Reconnect
  /\ UNCHANGED <<verified, active, recorded>>

Receive ==
  /\ link = "open" /\ Len(wire) >= LenBytes /\ Len(wire) >= ReadSize
  /\ LET m == sent[Incoming]
         nil == /\ Incoming # Junk /\ m.kind = "BITFIELD"
                /\ NewBitsetFromBytes(NumPieces(lens), m.data) = Invalid
     IN  \/ /\ Incoming = Junk \/ nil    \* an unknown message, an invalid bitfield
            /\ Reconnect
            /\ UNCHANGED <<disk, verified, active, recorded>>
         \/ /\ Incoming # Junk
            /\ \/ /\ m.kind = "BITFIELD" /\ ~nil
                  /\ Request(verified, active, recorded)
                  /\ UNCHANGED <<link, disk, verified, sent, slice, payload, flow>>
               \/ m.kind = "PIECE" /\ Store(m)
            /\ link' = "open" => wire' = Rest(wire, ReadSize) /\ got' = Incoming
         \/ Incoming # Junk /\ m.kind = "PIECE" /\ StoreFails(m)
  /\ UNCHANGED <<lens, session, starts, conns>>

Next ==
  \/ Open \/ Stop \/ Dial \/ ReadHeader \/ Forgotten \/ Drop
  \/ SendBitfield \/ SendPiece \/ SendAlive \/ WritePayload \/ Chunk \/ Limited
  \/ Tick \/ AgentAlive \/ AliveMisread \/ Receive

Spec == Init /\ [][Next]_vars

\* The goroutines run on, the kernel delivers, a garbage collector runs and
\* time passes; nobody has to fail, to be idle, or to start a task again.
FairSpec ==
  /\ Spec
  /\ WF_vars(Dial \/ Receive)
  /\ WF_vars(ReadHeader \/ Forgotten)
  /\ WF_vars(SendBitfield \/ SendPiece \/ WritePayload \/ Chunk \/ Limited \/ AliveMisread)
  /\ WF_vars(Tick)

-----------------------------------------------------------------------------
\* The bytes read, in the connection and still to be written are the frames
\* that were not delivered yet, whole and in order: cutting the writes to the
\* rate loses and repeats nothing.
StreamWhole ==
  link = "open" => wire \o slice \o payload =
                   FlattenSeq([k \in 1 .. Len(sent) - got |-> Frame(got + k)])

\* With every piece verified, every file is the source's file, to its length:
\* piece and block arithmetic, files shorter than a block, files of no bytes
\* and what lay on the disk before come to that.
FilesRight == session = "up" /\ verified = Pieces => disk = Master

\* Where each place of the source is on the agent's disk
Places == UNION {1 .. TotalSize(l) : l \in Layouts}
OnDisk(k) == IF k > TotalSize(lens) THEN k ELSE ByteAt(disk, lens, k)

\* A block that was recorded is on disk as it was sent, in the places the
\* layout gives it, over the ends of files and behind empty ones: so only
\* an upstream that sends wrong bytes has its piece found bad.
BlocksStored ==
  \A b \in recorded :
    LET first  == active * PieceLen + b * BlockLen
        places == first + 1 .. Least(first + BlockLen, TotalSize(lens))
    IN  (\A k \in places : OnDisk(k) = k) \/ (\A k \in places : OnDisk(k) = 0)

C == INSTANCE Copy WITH
  Bytes <- Int,
  Source <- [k \in Places |-> k],
  Pieces <- {(k - 1) \div PieceLen : k \in Places},
  PieceOf <- [k \in Places |-> (k - 1) \div PieceLen],
  content <- [k \in Places |-> OnDisk(k)]

\* The files and the session that makes them are a copy as Copy has it: what
\* is verified is the source's, and no write of a block, however it is spread
\* over files or fails, touches it again.
ImplementsCopy == C!Spec

\* session.go:216: a download that was started comes to its end, whatever the
\* rate, the headers cut short, and the writes that failed, unless the
\* connection is closed from the other side or the session ends.
Completes == link = "dial" ~> verified = Pieces \/ link \in {"closed", "none"}

\* session.go:352 and peer.go:132: a keep-alive is an empty message, and
\* nothing is done about it.
KeepAliveSkipped == link = "dial" ~> verified = Pieces
==============================================================================
