# GoFD in TLA+

GoFD distributes files from one server to many agents. The server receives a
task over REST, creates a session for it on every agent and on itself, and
starts the agents once they have answered. The addresses form a chain (the
server first); the session of each agent connects to the address before its
own, downloads the pieces from it with a four-message subset of BitTorrent
(BITFIELD, HAVE, REQUEST, PIECE), serves them to the agent after it, and
reports its progress to the server.

Line numbers below are those of `src/`.

- [Inventory](#inventory)
- [Modules](#modules): what models what, state and actions against the code
- [Runs](#runs): what is model-checked, with which bounds and fairness
- [Theorems](#theorems): what is proved, and along which argument
- [Disagreements](#disagreements) between the code and what is said of it
- [Not modelled](#not-modelled), and the [plan](#plan)

## Inventory

| Part | State | Operations | Talks to |
|---|---|---|---|
| Task session (p2p/session.go, peer.go, piece.go) | pieces verified (`pieceSet`, `goodPieces`), pieces being downloaded (`activePieces`, `downloaderCount`), peers with `have` and `ourRequests`, retry state | `Init`; a `select` loop: connections, messages of peers, start, keep-alive tick, retry timer, report tick, quit; one reader and one writer goroutine per peer | other sessions over TCP, reporter and deployer over channels, manager over `startChan`, `addPeerChan`, `quitChan`, `stopSessChan` |
| Session manager (p2p/sessionmgnt.go) | the map of sessions | create, start, stop, hand over a connection, end | REST handlers of the agent or tasks of the server, listener, sessions |
| Listener (p2p/listen.go) | a connection being handed over | accept, read and check the header | manager |
| Agent service (agent/) | none | REST: create, start, cancel | manager |
| Server task (server/taskmgnt.go) | status, dispatch status of each agent, answers counted | create on all agents, wait, start, wait; then a `select` loop: cancel, query, comparison, report, eviction | agents by HTTP, server's own session manager, cache, handlers over channels |
| Server handlers, service (server/handler.go, server.go, api.go) | a cache with lifetimes and one eviction callback | REST: create, cancel, query, report, archive | tasks over channels |
| Reporter (p2p/report.go), Deployer (p2p/deploy.go) | a channel of 20 each | report by HTTP; unpack; `Close` | session; server |
| Archive tasks (server/archivemgnt.go) | status | compress a directory, answer queries, make a failed archive again | handlers, the cache they share with the tasks |
| Packing and unpacking (common/archive.go) | none | `TarGz`, `UnTarGz` | archive tasks, deployer |
| Block cache (p2p/cache.go) | boxes of blocks | read, write, trim | file store |
| File store (p2p/file.go, osfile.go) | files and their offsets | find, read, write across files | session |
| Bitset, numeric helpers, metadata (p2p/bitset.go, utils.go, meta.go) | bits | set, test, find; piece length, hashes | session |
| Flow control (flowctrl/) | rate samples | limit, update | writers of peers |
| Configuration, HTTP, command line (common/, cmd/) | none that changes | load, send, start a service | everything |

Which behaviours are hard, and what makes each part correct:

- **Task session.** One goroutine must never lose the last request it has
  outstanding, while pieces arrive late, twice or corrupt, connections drop
  in the middle of a handler, and each block is counted in three places
  (`downloaderCount`, `ourRequests`, the remote's queue). Correct means: what
  it calls verified is on disk; 100 % is reported for a complete download
  only; it neither stalls nor asks for what the remote does not have; every
  peer hears of every piece; told to quit, it ends.
- **Session manager.** One goroutine sends to many on unbuffered channels,
  and they send back to it. Correct means: it never sends to a session that
  is gone, is held up by none that still takes its cases, and leaves no session
  nobody can stop.
- **Server task.** Answers of HTTP requests are counted over two phases and
  any number of restarts, with failures anywhere; handlers find the task in a
  cache it may leave at any moment. Correct means: no answer is counted in a
  round it is not of, nobody is started before everybody answered, a task in
  progress still waits for somebody, a task that is over leaves the cache,
  every handler is answered.
- **Cache and handlers.** The handlers look up and insert without a lock, a
  janitor evicts what has expired and tells its goroutine. Correct means: one
  goroutine works on a task, and is in the cache while it does; what a handler
  found serves it; what is over leaves; the janitor is not held up.
- **Connection and files.** A stream of frames cut to a rate, read by lengths;
  blocks and pieces laid over files of any length, of none, and with an older
  version on disk; crashes between two of them. Correct means: no byte lost or
  repeated, the rate kept, verified pieces right and never written again, and a
  download that comes to its end.
- **Reporter and deployer.** Goroutines that overtake each other on channels
  that are closed while they still send. Correct means: the server is told
  nothing false, is told in the end, a deployment is carried out, and what is
  deployed is what was packed.

`PROJECT.json` lists these as hazards, each at the line where it bites and
with the properties that would catch it.

## Modules

| Module | Models |
|---|---|
| `TaskSession` | one session, its peers, its disk, the remote sessions as far as it can tell |
| `Download` | abstract: what a session promises its agent; `TaskSession` implements it |
| `SessionMgnt` | the manager, its callers, its sessions as far as it can tell |
| `ServerTask` | a task on the server, its handlers, its cache entry, the agents as far as it can tell |
| `ServerCache` | the cache with tasks and archives, all REST handlers, the janitor |
| `FlowCtrl` | `flowctrl.Writer` and its `Monitor`, in ticks and bytes |
| `FileStore` | operators: files as one row of bytes, pieces and blocks of it |
| `Bitset` | operators: the bytes of a BITFIELD |
| `Transfer` | composes the three: one agent copies a task's files over one connection after another |
| `Copy` | abstract: what a download promises about files; `Transfer` implements it |
| `Archive` | operators: what `TarGz` makes of files that change, what `UnTarGz` makes of that |
| `Reporter` | a session's reports and deployment, both goroutines, `Close`; uses `Archive` |
| `TaskSession_proofs`, `SessionMgnt_proofs`, `ServerTask_proofs`, `ServerCache_proofs`, `FileStore_proofs`, `Transfer_proofs` (with `FlowCtrl`), `Copy_proofs`, `Reporter_proofs` (with `Archive`) | theorems of these |
| `MCTaskSession`, `MCSessionMgnt`, `MCServerTask`, `MCServerCache`, `MCTransfer`, `MCReporter` | values of the constants for TLC |

Each module has the next one's view of it as its environment: an agent's
`agent[a]` in `ServerTask` is what `SessionMgnt` does with a POST; a session's
`phase` in `SessionMgnt` is what `TaskSession`'s `loop` does, seen from its
channels; a block that is right or not in `TaskSession` is bytes in files in
`Transfer`; a task that is busy or at its select in `ServerCache` is
`ServerTask`'s goroutine; the piece counted in `Reporter` is `TaskSession`'s
`recordBlock`.

Definitions marked `mutant` are not used by the specifications. Each is a
plausible bug of the definition next to it, kept so that every property can be
shown to fail when that bug is put in.

### TaskSession

The session's goroutine takes one case of its `select` at a time. A handler
that sends several messages is cut at each of them, because `sendMessage`
(peer.go:74) may block there and because the network moves meanwhile; a handler
that sends none is one step. `loop` says where the goroutine is:

| `loop` | Where | Left by |
|---|---|---|
| `init` | `Init`, before the loop | `InitInServer`, `InitInClient`, `InitFails` |
| `select` | waiting for a case | `Start`, `RetryTimer`, `AcceptPeer`, the message handlers, `KeepAliveTick`, `Quit` |
| `dial` | in `tryNewPeer`, `connectToPeer` | `Connected`, `DialFails`, `HeaderFails`, `NoSession` |
| `request` | in `requestBlock`, `left` calls of it to go | `RequestActive`, `RequestNew`, `RequestEndgame`, `RequestNone` |
| `announce` | in `recordBlock`'s loop over the peers | `SendHave`, `AllAnnounced` |
| `keepalive` | in `peersKeepAlive`'s loop | `CloseIdle`, `CheckRequests`, `AllChecked` |
| `shutdown` | in `shutdown`'s loop | `ShutdownPeer`, `Shutdown` |
| `blocked` | in `sendMessage`, with no writer left to receive | nothing |
| `ended`, `crashed` | returned, panicked | nothing |

Data. A piece is a number, a block a pair of a piece and a number. `disk` is
the set of blocks whose bytes on disk are right, so that a hash is right when
all blocks of its piece are in `disk`: a write of a good block adds it, a write
of a bad one or half a write removes it, and a hash never matches by chance.
`downloaderCount` is -1 for a block recorded, as in the code. Bytes, lengths
and offsets are left out, and with them `checkRange`'s refusals, which sessions
of the same task cannot cause. Of the percentages reported, 100 and -1 are
kept: they are the ones the server acts on.

A connection `c` has the messages on their way to the session in `wire[c]`
(network, reader goroutine and `peerMessageChan` together, which keep their
order; `EOF` is the nil a reader posts last) and the requests the remote has
still to answer in `asked[c]`. `peers` is the set of connections that are
values of the map `s.peers`: connections opened to one address share an entry (`Entry`),
so that a second one replaces the first, and the close of either deletes it
(`Shadowed`). `link` is the TCP connection, `writer` the writer goroutine. Upstream sessions (`source`) gain
pieces and announce them as this same code does; downstream ones announce
anything and request what was announced to them.

`Faults` names what an instance lets go wrong:

| Fault | What happens |
|---|---|
| `init` | `NewFileStore` fails |
| `dial` | `DialTimeout` fails |
| `header` | writing or reading the header fails |
| `drop` | a remote closes a connection, or dies |
| `corrupt` | a PIECE carries wrong bytes |
| `disk` | reads and writes of files fail |
| `slow` | a peer is silent for minutes, a request unanswered for 30 s |
| `idle` | a remote sends a keep-alive, which is read with the first byte of the next message (`Misread`): a HAVE of a wrong length |

What a misread puts out of step (`InStep`) is no message any more: the session
refuses the misread, closes the connection and, if it is an upstream's, connects
again (`Refuse`, `TryReconn`: session.go:311-316).

`server` is `cfg.Server`, a variable that never changes, so that one run has the
sessions of agents and of the server (`Roles`).

`connFailCount` is not a variable: it is only ever incremented after the line
that panics (session.go:238).

### SessionMgnt

`CreateTask`, `StartTask` and `StopTask` start a goroutine each that sends on
a channel. When it gets to send is up to the scheduler, so a call is one step,
its receipt: it is `pending` until then, which is in any order, or never; buffers
and `Stop`'s channel cannot be told apart from goroutines. The exception is
`stopSessChan`, on whose one slot sessions block themselves (session.go:740): it
is a variable.

The manager is in `select`, or sending to the session `serving` (`start`,
`accept`, `quit`), or `ended`. Its case functions are `CreateSession`,
`StartSession`, `StopSession`, `NewConnection`, `QuitAll`; the sends completed
are `Started`, `PeerQueued`, `Quit`. A session is in `init` or `busy` (in a
handler), in its `select`, `stopping` (about to send on `stopSessChan`), `blocked`
or `ended`. A handler returns (`Return`), or blocks for ever (`Block`, with
`Blocking`): in a send to a peer whose writer is gone (peer.go:74,
`BlockedSending` in `TaskSession`), or in a read without a deadline
(session.go:256). `replaced` is history: the sessions whose entry a second
creation of their task took (sessionmgnt.go:61).

### ServerTask

The task's goroutine is at `create` (before `createTask`), `creating` or
`starting` (waiting for answers), `select`, `quit` or `crashed`. `CreateTask`,
`StartTask`, `Response`, `WaitTimeout` are `createTask`, `startTask` and
`checkAgentRsp`; `Stop`, `Query`, `Compare`, `Report` and `Quit` the cases of
the loop; `EndTask` is `endTask`, with `stopAllClientTask` in `StopAll`. `posts`
are HTTP requests under way, `agentRsp` their answers, in the channel or in the
goroutine that sends on it. `round` counts runs of `createTask` and only labels
posts, so that a property can tell an old answer from a new one. `cache` is the
task's entry: `expiring` once `endTask` has set five minutes. `agent[a]` is the
session on an agent: `none`, `created`, `started`, `finished`, `stopped` by a DELETE,
or `unheard`: it has finished, and the report that would say so is lost (history,
for `StillAwaited`).

An HTTP request ends within 2 s (common/http.go:66), the wait for answers after
5 s without one (taskmgnt.go:217), so a wait is given up with nothing
under way; the fault `late` gives that up, for a process that lags. The other
faults: `meta` (the task's files cannot be read), `post` (a POST or DELETE, or
its answer, is lost), `bad` (an agent reports -1), `report` (a report is lost),
`ttl` (lifetimes in the cache pass).

Assumed: the agents of a task are distinct, and a resubmission names the same
files, so that `Compare` only compares the agents' addresses, in the way
`equalSlice` (taskmgnt.go:365) does.

### ServerCache

An object is a `CachedTaskInfo` or a `CachedArchiveInfo`, named by the call that
made it. `at` is its goroutine: `made` (not started yet), `busy` (in its first
work), `select`, `quit`. A call is at `new`, `make` (it found nothing), `hook` (it
has set its entry; `OnEvicted` and `go Start` come next), `send` (it found an
object), `waiting`, and `done`. Nothing protects what a call has found, or has not
found, between two of these: another creation may come first, the lifetime may
pass, the janitor may evict. `Put` is the cache's `Set`, and `Replace` writes where
something is held, whatever it is: both may take the entry from another object,
and `dropped` is history: the objects that lost theirs so, or by their lifetime.
`expiry` is `running` from the moment
the end of a task or archive gave its entry a lifetime, and `past` when the
lifetime is over but the janitor has not been there. The janitor deletes (`Evict`)
and then calls back for each of what it deleted, with a send that blocks
(`CallBack`). `OnEvicted` keeps one function, of the kind of the last creation, and
an object of the other kind panics in the janitor's goroutine: `down`. So does an
archive whose source cannot be opened, where `Fatal` allows it (archive.go:33).

### Transfer, FileStore, FlowCtrl, Bitset

A layout is the lengths of the task's files; a byte of a file is its position in
the source; a byte of the stream is its message's number and its position there,
so that one that is lost, repeated or misread shows. `Take`, `WritePayload` and
`Chunk` are `peerWriter`: two `Write`s for each message, each cut to what
`Monitor.Limit` allows (`Limited`), which sleeps until the sample is over (`Tick`).
`Receive` is `peerReader` and `generalMessage`: as many bytes as the length says,
and then a write over as many files as the block lies in, a hash, a request. `Open`
is `initInClient` with `NewFileStore`, which resizes file after file and may die
after any of them; the last one's existence decides whether what is there is hashed
(session.go:134). `ReadHeader` is the listener, which reads the header with one
`Read`, and leaves a connection open that it refused (`Forgotten`: until its
finaliser closes it). The order of several peers is `TaskSession`'s, so one request
is outstanding.

| Fault | What happens |
|---|---|
| `short` | the header has not come in full when it is read |
| `idle` | a keep-alive is sent |
| `drop` | the upstream closes the connection |
| `corrupt` | its files are not what they were |
| `disk` | a write fails half-way |
| `crash` | the session ends or its process dies, in `NewFileStore` too |

Reduced, and named in the configurations: `LenBytes` = 2 for the 4 bytes of a
length, `HeadBytes` = 1 for the 9 bytes before a block's data, `ByteBits` = 2 for 8,
pieces of 4 bytes and blocks of 2, samples of 2 ticks for 5. Of a bitset only what
is sent and read is modelled; `MCTransfer` has TLC evaluate, for every set of up to
three bytes of bits, that the receiver finds just these, and that it takes no other
bytes for a bitset (`BitfieldRight`).

### Archive and Reporter

An item is a file with the size its `Stat` gave and the bytes its copy then read.
`handleError` only logs, so that a header refused by `archive/tar`, because the
file before came short, is followed by a copy into the entry of that file: `Add`
says what becomes of it. In `Reporter` each report and the deployment has a
goroutine of its own that sends when it gets to it (`going`); reports are numbered,
so that two of one percentage are two. `Quit` closes both channels, in one step
although the code has one call after the other: a goroutine that sends between
them does what it could have done before. A send on a closed channel ends the
process (`SendClosed`). `Restart` is the next session of the task: `Reporter` lets
it begin only when no goroutine of the last one is left, which a session created
within moments of the last one's end would not see to.

Percentages are whole, as the server takes them. `Faults`: `lost` (a POST fails),
`misnamed` (the archive is not named as `deployImp` expects), `kill`.

## Runs

| Run | Checks | Instance |
|---|---|---|
| `session_store` | `Verified`, `ReportedComplete`, `ActiveUnfinished`, `NoStall`, `RequestsHeld`, `LiveRegistered`, `ImplementsDownload` | an agent, 2 pieces of which one has 2 blocks, 2 connections upstream, faults `disk`, `corrupt` |
| `session_faults` | `TypeOK`, `AnnouncedHeld`, `HaveToAll` | an agent, or the server's session (`Roles`), 1 piece of 1 block, a connection each way, all faults |
| `session_live` | `AskedCounted`, `DownloadCompletes`, `QuitServed` | an agent, 2 pieces of 2 and 1 blocks, a connection upstream, faults `header`, `drop`, `FairSpec` |
| `mgnt_all` | `RegisteredAlive`, `NoOrphan`, `HeldByBlockedOnly`, `StopEndsAll` | a task created twice, started and stopped, 2 connections, `addPeerChan` of 1, timeouts, handlers that block, `FairSpec` |
| `mgnt_deadlock` | `ManagerReturns` is violated | 2 tasks, timeouts, 2 stops of one task, no handler that blocks, `FairSpec` |
| `task_rounds` | `StillAwaited`, `CreatesFirst`, `RoundsSeparate`, `EndedExpires` | 2 agents, a cancel, an equal and a differing resubmission, all faults but `late` |
| `task_live` | `HandlersServed`, `TaskEnds` | 2 agents, a cancel and a query, faults `post`, `late`, `FairSpec` |
| `cache_serving` | `WorkReachable`, `CallsServed`, `EvictedQuits`, `OverLeaves` | one id, two creations of a task and one of an archive, a query, a cancel, a report, channels of 1, `Fatal`, `FairSpec` |
| `cache_overlap` | `OneGoroutine` is violated | one id, two creations of a task, a query, a cancel, a report |
| `transfer_files` | `TypeOK`, `StreamWhole`, `RateKept`, `FilesRight`, `BlocksStored`, `ImplementsCopy`, `Completes` | two layouts (an empty file between others, files shorter than a block), nothing or an older version on disk, 2 connections, 2 starts, all faults, `FairSpec` |
| `transfer_idle` | `KeepAliveSkipped` is violated | one layout, one start, fault `idle` |
| `reporter_all` | `CompletedWhole`, `RoomForAll`, `WordArrived`, `DeployedRight`, `Deploys`, `BothEnd` | 3 pieces, a bad one, 2 sessions, 3 items of which the first grew or shrank, all faults, `FairSpec` |

### What they show

`session_store`: late, duplicate and corrupt blocks, and writes that fail, never
touch a piece once it is verified (`generalMessage` writes before a hash is
known, and session.go:404 is what makes that safe); 100 % means complete, also
after a restart with any part of the files on disk; no piece is stuck in
`activePieces` with nothing left to ask for; the protocol never loses its last
request; no request overtakes the HAVE it rests on, although a reconnection forgets what was
announced before; and every live connection is in `s.peers`, unless another one to
its address was opened.

`session_faults`: with every fault at once, nothing is announced that is not
held, every live peer hears of every piece, and the block counters stay at -1
or above although requests are released by answers, closes and the 30 s check,
which does not forget what it released (session.go:768).

`session_live`: a download completes through failed headers and a walk down the
chain, and, told to quit, a session ends, when the upstream may drop the connection
at any moment. What else may come of it is in the properties: the upstream's
`io.EOF`, after which nothing is tried again (`Stranded`), and a send to a peer that
is lost (`BlockedSending`), which holds up the session, and `Quit` with it. A block
that is being asked for never looks free.

`mgnt_all`: for any interleaving of calls, timeouts and connections, of one task
created twice, the manager only sends to sessions that live, and a session it
forgets is being quit, or lost its entry to the second creation. Two things can hold
the manager up for good: a session that timed out and blocks on `stopSessChan`, and
one blocked in a handler; a session that still takes its cases never does. The
manager's end ends all other sessions that have an entry.

`task_rounds`: any failures on the way, restarts of a failed task and evictions
leave no answer of one round to the next, start nobody early, and set the lifetime
of every task that is over. A task in progress waits for somebody, and each agent it
waits for was started and has still to report, or its report is under way, with two
exceptions that `Awaited` names: `unheard`, whose report was lost, and `stopped`, by
the DELETE of an earlier attempt. `task_live`:
handlers are answered and a task in progress ends, also when requests outlast
the waits.

`cache_serving`: whatever the order of look-ups, insertions, ends, lifetimes and
evictions, with creations that overlap and lifetimes that pass while handlers hold
what they found. Work in progress is in the cache without a limit, unless another
object took its entry or its lifetime had passed before it was started again
(`dropped`). Every call is answered, unless the goroutine it found has quit. What is
evicted quits, unless it had quit before and is evicted again (`Twice`). What is over
leaves the cache. `cache_overlap`: creations that overlap put two goroutines on one
task.

`transfer_files`: the offsets of pieces, blocks and files agree, over empty files
and ends of files, with a longer older version on disk; the stream stays whole
however it is cut; the rate is kept; a crash in the middle of making the files, or
half a write, leaves nothing that a later session takes for right; and a copy comes
to its end through refused headers and failed writes. `Transfer` is a `Copy`.

`reporter_all`: reports in any order never tell the server more than is so, and in
the end tell it all; eleven reports fit a channel of twenty; a deployment that was
handed over is carried out although the session quits; a file that grew while it
was packed is cut, and one that shrank spoils only what was packed behind it.

The three runs that end in a violation are findings; see [Disagreements](#disagreements).

### Bounds

- *Two pieces, two blocks in one of them*: a piece with blocks left and one
  with none, a block chosen among several, the end game, the completion of one
  piece while another is under way. More pieces repeat these.
- *Two connections upstream*: a reconnection with the old connection's messages
  still arriving. `session_faults` has one, and one piece of one block, for the sake
  of its faults: its states are many.
- *Each connection is used once*; with none left to open, the session keeps trying.
- `MaxOurRequests` = 2 (5 in the code): several requests per HAVE.
- *Position 2 in the chain*: a step down it.
- *A downstream has one message of each kind and piece on its way, and a connection
  two misreads.* This bounds `wire`; more would be refused or answered alike.
- *One task created twice, started and stopped, with two connections and
  `addPeerChan` of one* (five in the code): a full channel; a session that lost its
  entry, and may time out, while the manager serves the other.
- *Two agents*: all, some or none fail; the last answer and one before it.
- *Each REST call is made once.*
- *Layouts of 4 and 7 bytes*: one piece and two, a last piece that is short, blocks
  over two and three files, an empty file. `MaxConns` = 2 also bounds the faults that
  need another connection. `MaxTime` = 2 bounds time while no writer sleeps.
- *Three pieces and `Step` = 100* (10 in the code) with room for 3 reports: a step
  that is reported, one that is not, and the end; the room is the least that
  `RoomAssumption` allows.

The theorems hold without these bounds.

Deadlock is not checked: a session that has quit, a manager that ended, a task
that is over and a copy that is made have nothing left to do.

### Fairness

Weak fairness for steps of a goroutine that nothing but itself can disable: Go
runs its goroutines, and a handler that does not block returns. Strong fairness for a case of a `select`, which the
handling of another case disables for a while: of the cases that are ready Go
picks one at random, so one that is ready again and again is taken. Answers of
live upstream sessions, the end of HTTP requests, and an attempt at connecting
that is made again and again are fair: a peer that is up answers. (An upstream that
accepts a connection and never answers, because its own manager is held up, would
hold this session up as well: session.go:256 reads without a deadline. In
`SessionMgnt` such a session is `blocked`.) `AgentFinishes`
is fair in `task_live`: the download of a started agent ends, which `session_live`
is about. No fault, no call of `Quit`, `Stop` or a handler, and no timeout is fair.

In `Transfer` time passes, the listener goes on reading, and a connection that was
refused is garbage in the end (`Forgotten`), which the runtime's finaliser closes; no
keep-alive has to be sent. In `ServerCache` each call is made at most once, so that
it is enough that handlers and janitor, and the objects' goroutines, each go on
while they can. In `Reporter` goroutines that send, the reporter and the deployer
go on; no piece has to come and nobody has to quit.

What the faults may do for good is in the properties: `Stranded`, `BlockedSending`,
the phases `stopping` and `blocked`, `down`, `Twice`.

## Theorems

All are of `Spec`, for every value of the constants that satisfies the `ASSUME`s
of the module: any number of pieces, blocks, connections, tasks, calls, agents,
any lengths of files, pieces, blocks, frames and samples. They cover every
invariant, action property and refinement that a run checks.

| Theorem | Says | Assuming |
|---|---|---|
| `TaskSession_proofs!Typing` | `[]TypeOK` | |
| `VerifiedAlways`, `ActiveUnfinishedAlways` | `[]` of each | |
| `ReportedCompleteAlways` | `[]ReportedComplete` | no fault `init` |
| `NoStallAlways`, `AnnouncedHeldAlways` | `[]` of each | |
| `DownloadImplemented` | `Spec` implements `Download` (`ImplementsDownload`) | no fault `init` |
| `RequestsHeldAlways` | `[]RequestsHeld` | |
| `LiveRegisteredAlways`, `HaveToAllAlways` | `[]` of each | |
| `AskedCountedAlways` | `[]AskedCounted` | no fault `slow`; one connection upstream at most, or no faults `disk`, `idle` (`ConnectsOnce`) |
| `SessionMgnt_proofs!Typing` | `[]TypeOK` | |
| `RegisteredAliveAlways` | `[]RegisteredAlive` | |
| `NoOrphanAlways` | `[]NoOrphan` | |
| `ServerTask_proofs!Typing` | `[]TypeOK` | |
| `RoundsSeparateAlways`, `CreatesFirstAlways`, `StillAwaitedAlways` | `[]` of each | no fault `late` |
| `EndedExpiresAlways` | `[]EndedExpires` | |
| `ServerCache_proofs!WorkReachableAlways` | `[]WorkReachable` | |
| `FileStore_proofs!ReadsTheRow`, `WritesTheRow` | files read and written in chunks are read and written as one row of bytes | files of the layout's lengths |
| `SameRow` | files of the same lengths and bytes are the same | |
| `Transfer_proofs!SampleKeptAlways`, `RateKeptAlways` | `[]SampleKept`, `[]RateKept` of `FlowSpec` | |
| `TransferTypeOK`, `TransferStreamWhole`, `TransferRateKept` | `[]` of `TypeOK`, `StreamWhole`, `RateKept` | |
| `TransferBlocksStored`, `TransferFilesRight` | `[]` of `BlocksStored`, `FilesRight` | |
| `TransferImplementsCopy` | `Spec` implements `Copy` (`ImplementsCopy`) | |
| `Copy_proofs!VerifiedRightAlways` | `[]VerifiedRight` | |
| `Reporter_proofs!Typing` | `[]TypeOK` | |
| `CompletedWholeAlways`, `RoomForAllAlways`, `WordArrivedAlways` | `[]` of each | |
| `PackRight` | what `TarGz` makes of any items of different names | |
| `DeployedRightAlways` | `[]DeployedRight` | |

The assumptions of a module say what the code says of its parameters. A layout
has a file, and lengths are natural numbers (`FilesAssumption`); a piece is a whole
number of blocks (`LengthsAssumption`: session.go divides one by the other); a frame
has a length and a block a head (`FramesAssumption`); a byte has a bit
(`ByteAssumption`). No item of a packing has another's name (`PackingsAssumption`),
as a walk through a directory comes to each once. The room for reports is in
`RoomAssumption`, which the code's numbers satisfy.

The type invariants of `SessionMgnt`, `ServerTask` and `Reporter`, and `SampleKept`
and `VerifiedRight`, are proved and therefore in no run.

None of the properties is inductive by itself.

*Session, store.* `StoreInv` adds to `Verified`, `ReportedComplete` and
`ActiveUnfinished` that the counters agree: `goodPieces` is the size of
`pieceSet`, and `totalPieces` is 0 only before an initialisation, or after a
failed one (`InitOK`, `CountOK`). Then 100 %, reported when the numbers are
equal, means the sets are. `Verified` survives a write since a block is only
written to a piece that is not in `pieceSet`; `ActiveUnfinished` since the step
that records the last block of a piece also takes the piece out. Most steps are
`Quiet` and need none of this. Without the assumption `ReportedComplete` is
false: see session.go:187 below.

*Session, flow.* `NoStall` needs `Served`: a live upstream is `Busy` (a message
to be handled, a request to be answered, or the loop is about to ask it) or has
nothing we lack. `Served` in turn needs that a request really goes out
(`WriterOK`: the writer of a live connection is up) and that with nothing to ask
for (`RequestNone`) every block of an active piece the remote has is recorded,
which contradicts `ActiveUnfinished`. `AnnouncedHeld` needs that what is about to
be announced is held.

*Session, peers.* `RequestsHeld` rests on what is on its way (`WireInv`): of each
connection, the messages in the queue and what was heard before say only what the
upstream has (`Sound`), a bitfield comes first (`First`: it replaces what was heard),
and nothing is left of a connection not yet opened. Each step takes a message, adds
one, cuts the queue or closes the connection, and there is a lemma for each.
`LiveRegistered` holds since only a connection to the same address takes an entry
of `s.peers` or deletes it (session.go:322, below): the exception is that another one
was opened to it (`Shadowed`), which stays so. `HaveToAll` rests on it, and on a
piece being `fresh` only in `recordBlock`'s loop.

*Session, counters.* `AskedCounted` relates a counter of blocks to the requests of
all connections (`CountingInv`). A counter that is set back to 0 is what could break
it: that of a block recorded is -1, and that of a piece taken out of `activePieces`
is reset, so that what is still asked of such a piece must be of a verified one,
which is never chosen. Nothing is asked on a downstream, or before a connection is
opened; and `doCheckRequests` forgets nothing, which is where `slow` comes in: it
releases a request whose answer may still come. A connection that closes releases
its requests while another may have asked for the same block (session.go:333), so
there must be one only: a failed write and a misread keep-alive alone have a session
dial again, and `SingleInv` says that it dials once started and until it is
connected, and that whatever it serves or visits was connected.

*Manager.* `RegistryInv` says that a session is filed under its own task
(`Filed`), that only a received creation made one (`Created`), and whom the
manager may be blocked on (`Blocked`): in the map, or just taken out to be quit.
A session ends only when quit, and a session being quit is in the map no more:
hence `RegisteredAlive`. `NoOrphan` is inductive with it: a session leaves its entry
when it is quit, or when another creation takes it (sessionmgnt.go:61), which is when
it joins `replaced`.

*Server task.* While the goroutine waits, each agent asked is in exactly one
place: answered and counted, answered and in the channel, or under way; so
`succCount + failCount + |Pending| = allCount` (`RoundInv`), and when the counts
add up nothing of the round is under way. This is a fact about cardinalities,
and `FiniteSetTheorems` carries it. `AnswerInv` ties the counts to
`dispatch`: a success counted is of an agent in progress, and an agent still
`INIT` has its creation under way; hence when not all failed, somebody is
awaited. `AgentInv` follows each agent: one in progress was created while
creations are answered, and from the next phase on either its start is under way or
it is `Awaited`; an answer that says it succeeded is of an agent that did.

`EndedExpires` needs only that a task that waits for answers is in progress
(`EndInv`), so that a failure among the answers reaches `endTask`, which sets the
status and the lifetime in one step; hence it holds for late requests too.

*Cache.* `WorkReachable` is about the work, but rests on the entry (`KeptOK`): an
object that is made keeps its entry until it is `dropped`, from before its goroutine
runs (`MakersOK`), and while it works the entry has no lifetime. Only `Put`, an expiry
and the janitor touch entries, and each either gives the entry to the object at
hand, or takes it from one that is dropped by it. `dropped` is what the property
excuses; nothing else takes work out of the cache.

*Flow control.* `Measured`: every sample that is over carried at most `limit` bytes
and lasted at least `SampleTicks`; `Fits`: what `Limit` has allowed fits into the
current one. `limit` is at least 1 whatever the rate (`LimitPositive`), and `Limit`
waits for a sample with room. The arithmetic is not linear, and is kept in lemmas.

*File store.* `Chunks` cuts a part of the row into one piece for each file it
touches; `Read` and `Written` are folds over them. That each chunk begins where the
one before it ended, empty files between or not, and that they end with the part
or the last file, is in lemmas about the recursive functions `Offset` and `Chunks`.
Each is an induction whose set is named (`InductionBySet`, from the well-foundedness
of `<` on the natural numbers), so that it needs no operator as a parameter. What a
fold computes follows from its steps, one for each element.

*Transfer.* `TransferInv` has three parts. `StoreInv`: the verified pieces are the
source's bytes; the blocks recorded are the first ones of the active piece, and are
on disk as they were sent, which may be wrong (`corrupt`). A piece is hashed when
its last block is there, and the next block is of a piece not verified, so that a
write never touches a verified one: this is where the offsets of `FileStore` are
needed. `StreamInv`: what was taken is what is still in the writer, on the wire,
or read, in this order; the rates are kept; there is nothing in a connection that
is not open. `FlightInv`: of request, BITFIELD and answer one at most is on its way,
and an answer is to the next block; otherwise the block that came would not be the
one that is recorded next. The mapping to `Copy` follows from this: each step
writes outside of what is verified, verifies a piece that is right, or ends or
begins a session.

*Copy.* `VerifiedRight` is inductive with the types: what is written is in no
verified piece (`RightKept`).

*Reporter.* `TrueReports`: a report of 100 on its way is of a session that has every
piece. `CountedReports`: each report of progress has raised `reportStep`, so that
there are no more than steps, for which `RoomAssumption` leaves room. `Word` adds
that without a bad piece nobody reports -1 (`TrueFailures`), and that a complete
session has told the server or is about to (`WordKept`).

*Deployment.* `PackRight` is about the fold of `TarGz`: up to the first item that
came short, each item is in the archive, at its place, with as many bytes as its
header said; what is behind has other names, and so cannot overwrite it when it is
unpacked. `DeployInv` adds how far the unpacking is: what is out of the sound items
is as it was packed (`UnpackedTo`).

*Download.* A step of `TaskSession` that starts no session and obtains no piece is
`Steady`, and a stutter or an end of `Download`; the others are its `Find`, `Begin`
and `Obtain`. `PromiseInv` is what the mapping needs besides `StoreInv`: only
a started agent connects upstream (`FetchOK`), and 100 % has been reported exactly
when such an agent has every piece (`ToldOK`).

Only model-checked: liveness under fairness (`DownloadCompletes`, `QuitServed`,
`HeldByBlockedOnly`, `StopEndsAll`, `HandlersServed`, `TaskEnds`, `CallsServed`,
`EvictedQuits`, `OverLeaves`, `Completes`, `Deploys`, `BothEnd`), which is out of the prover's
reach, as it needs `ENABLED`; and `BitfieldRight`, which TLC evaluates for every
set of up to three bytes of bits.

## Disagreements

Between what the code does and what a comment or document says of it, or what
a reader would expect. The first three are the violation runs and findings.

1. session.go:740: a session timing out and a manager sending to that session wait
   for each other, when the one slot of `stopSessChan` is taken. Then no task of
   the process can be created, started or stopped. (`mgnt_deadlock`)
2. peer.go:133: of a keep-alive, a message of length 0, the reader reads one byte
   all the same. It is the first of the next length, so that from there on nothing
   is read as it was written. (`transfer_idle`)
3. handler.go:24: two creations of an id that overlap both find nothing; the second
   entry replaces the first, whose goroutine goes on with the task where no handler
   finds it; taskmgnt.go:34 says that one goroutine handles all of a task.
   (`cache_overlap`)

Met while modelling, and in the models. TLC finds most of them; no run is kept.

In a session:

- session.go:238: after a refused connection, `conn.Close()` is called on a nil
  `conn`: the process panics, with all its tasks. The lines after it were to
  count the failure and try again.
- session.go:322: `ClosePeer` deletes the entry of the peer's address, also when
  it has been replaced by a reconnection. The new peer then gets no HAVE, no
  keep-alive and no close at shutdown; session.go:529 says HAVE goes to every
  connected peer. (The exception `Shadowed` of `LiveRegistered` and `HaveToAll`.)
- session.go:333: closing a connection releases its requests from
  `downloaderCount` also where a second connection asks for the same block, which
  then looks free (`AskedCounted` with two connections upstream and the fault `disk`
  or `idle`); so does the 30 s check (session.go:768, with `slow`).
- session.go:366: a keep-alive that is misread is refused. A session that reads it
  from its upstream connects again (session.go:314); the session at the other end,
  which reads one from it, closes the connection, and the first sees an `io.EOF`.
- session.go:187: an initialisation that fails leaves `totalPieces` = 0, and the
  session is started as complete and reports 100 % (`ReportedComplete` with the
  fault `init`).
- session.go:190: a session started with every piece on disk reports 100 but
  deploys nothing; only a session that completes its pieces does.
- session.go:734: on `io.EOF` from the upstream, unlike on other errors, no
  reconnection is tried, so that the download stops (`Stranded`); the server is always there as
  a source (README.md:11 of the source), and sessionmgnt.go:90 has a TODO to let
  the client reconnect.
- session.go:376: every HAVE adds `maxOurRequests` requests; nothing bounds what is
  outstanding, as the name (peer.go:13) suggests.
- session.go:518: a report of -1 has a goroutine of its own, so that it may arrive
  after the 100 that followed it.
- peer.go:74: `sendMessage` to a peer whose writer has exited blocks for ever, and
  with it `Quit` (`BlockedSending`) and the manager that calls it.
- session.go:256: the answer of an upstream is read without a deadline, so that a
  manager held up there holds up this session.
- listen.go:112: the connection of a header that is refused is not closed, and its
  peer waits until the garbage is collected.

In a manager:

- sessionmgnt.go:70: a start that overtakes its creation (sessionmgnt.go:110, a
  goroutine each) is dropped.
- sessionmgnt.go:61: a task created twice leaves a session that `Stop`
  (sessionmgnt.go:98) does not reach (`replaced`); a session that timed out and has
  not handed over its stop when the manager ends is not ended either (`stopping`).
- sessionmgnt.go:74: a stop sent for an earlier session of a task quits the later one.

On the server:

- taskmgnt.go:138: a differing resubmission is answered twice, and the second
  answer may find the channel closed: the server panics.
- taskmgnt.go:365: `equalSlice` compares all pairs, so lists of two or more
  different elements are never equal, to themselves either.
- taskmgnt.go:135: a failed task is restarted by a resubmission that is refused.
- taskmgnt.go:358: a task all of whose agents failed is COMPLETED.
- taskmgnt.go:148: reports that arrive after a cancel turn FAILED into COMPLETED.
- taskmgnt.go:140: a restart does not notice that its entry has left the cache:
  the task goes on where no handler finds it.
- taskmgnt.go:147: a handler reads the `TaskInfo` it was answered with while the
  task's goroutine writes it: a data race.
- taskmgnt.go:219: a creation that fails on some agents leaves sessions on the others.
- taskmgnt.go:300: a DELETE of one attempt may arrive after the creation of the
  next and end its session (`stopped` in `StillAwaited`).
- report.go:74: a report that is not delivered is not sent again, so that the task
  waits for an agent that is done (`unheard` in `StillAwaited`).
- taskmgnt.go:163: `Replace` writes what its caller gives it over whatever entry is
  there. A goroutine that was evicted and handles a cancel or report before it quits
  takes the entry of the task created after it; it then quits, is evicted a second
  time, and holds the janitor for ever (`Twice`).
- handler.go:40: the callback set for evictions is that of the last creation's kind
  and panics for an entry of the other, in the janitor's goroutine.
- handler.go:57: a handler that found the task just before it was evicted sends to
  a goroutine that has returned, and waits for ever (the exception of `CallsServed`).

Reports and archives:

- report.go:50: a goroutine that still sends when its session quits panics on the
  closed channel, and the process with it.
- archive.go:108: the header of a file that shrank is followed by another's content,
  as `handleError` only logs; what was packed behind it is spoilt.
- archive.go:134: an archive that is not there under the name `deployImp` gives it is
  opened as nil, and reading it panics.

## Not modelled

| Part | Why |
|---|---|
| Block cache (p2p/cache.go) | dead code in this commit: session.go:699 tests `fileStore` before it is set, so no cache is ever made |
| `Reader`, `Done`, `Status`, `SetTransferSize` and the like of flowctrl | nothing calls them: connections are only written through it |
| `Clear`, `FindNextSet`, `FindNextClear`, `IsEndValid` of the bitset; `choosePieceLength` | nothing calls them, or the piece length is always given |
| The header's authentication (p2p/listen.go) | a pure check of user and password; `header` stands for its refusal |
| Configuration, HTTP client, command line | input and output; what a lost request does is in `ServerTask`, `ServerCache`, `Reporter` |
| Third-party code | used through its interface; what a model needs of it is marked external |

Also left out: percentages other than 100 and -1 in `TaskSession` (`Reporter` has
them), the content of a query's answer, times (a timeout is a step that may be
taken when the code could take it; `FlowCtrl` has ticks).

## Plan

Done: `TaskSession`, `SessionMgnt`, `ServerTask`, in the order of how much of the
system rests on them; `Download` and the session as one; `ServerCache`; the bytes
under a session (`FlowCtrl`, `FileStore`, `Bitset`, composed in `Transfer`, which
is a `Copy`); `Archive` and `Reporter`. Left:

1. `Swarm`: several sessions over real channels along the chain; the environment of
   `TaskSession` as what its neighbours do.
