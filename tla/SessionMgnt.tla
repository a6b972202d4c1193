----------------------------- MODULE SessionMgnt -----------------------------
(***************************************************************************)
(* The session manager of a gofd process (src/p2p/sessionmgnt.go), which   *)
(* the REST handlers of the agent and the tasks of the server call: one    *)
(* goroutine that creates, starts and stops sessions and hands them the    *)
(* connections its listener accepts.                                       *)
(*                                                                         *)
(* CreateTask, StartTask and StopTask each leave their argument to a new   *)
(* goroutine that sends it on a channel, and Stop sends on a buffer: the   *)
(* caller goes on, and nobody sees what waits in these goroutines, buffers *)
(* or in nothing yet.  A call is therefore one step, when it is received,  *)
(* and it may be received, in any order, or never -- but for the one slot  *)
(* of stopSessChan, on which sessions themselves block.                    *)
(***************************************************************************)
EXTENDS Integers, FiniteSets

CONSTANTS
  Tasks,
  Creates,        \* calls of CreateTask; each makes one session, named alike
  Starts, Stops,  \* calls of StartTask and StopTask
  Inbound,        \* connections accepted by the listener, header read
  TaskOf,         \* the task of each of them
  AddPeerCap,     \* capacity of a session's addPeerChan
  Timeouts,       \* sessions may time out
  Blocking,       \* handlers of sessions may block for ever
  None

Calls == Creates \cup Starts \cup Stops

ASSUME CallsAssumption ==
  /\ Creates \cap (Starts \cup Stops) = {} /\ Starts \cap Stops = {}
  /\ TaskOf \in [Calls \cup Inbound -> Tasks]
ASSUME NoneAssumption == None \notin Creates \cup Inbound \cup Tasks
ASSUME ParametersAssumption ==
  AddPeerCap \in Nat \ {0} /\ Timeouts \in BOOLEAN /\ Blocking \in BOOLEAN

VARIABLES
  pending,        \* calls to be made, or made and not handed over yet
  stopSessChan,   \* its only slot: a task or None
  manager,        \* where the manager's goroutine is
  serving,        \* the session it is sending to
  sessions,       \* the map from tasks to sessions
  phase,          \* where each session's goroutine is
  started,        \* startAt is set
  finished,       \* finishedAt is set
  addPeerChan,    \* how many connections wait in it
  accepting,      \* the connection the listener is handing over
  waiting,        \* connections the listener has not accepted yet
  quitting,       \* sessions a goroutine started by the manager's end quits
  replaced        \* history: sessions whose entry another creation took

requests == <<pending, stopSessChan>>
control == <<manager, serving, sessions, quitting, replaced>>
session == <<phase, started, finished, addPeerChan>>
listener == <<accepting, waiting>>
vars == <<requests, control, session, listener>>

TypeOK ==
  /\ pending \subseteq Calls /\ stopSessChan \in Tasks \cup {None}
  /\ manager \in {"select", "start", "quit", "accept", "ended"}
  /\ serving \in Creates \cup {None}
  /\ sessions \in [Tasks -> Creates \cup {None}]
  /\ phase \in [Creates -> {"none", "init", "select", "busy", "stopping", "blocked", "ended"}]
  /\ started \in [Creates -> BOOLEAN] /\ finished \in [Creates -> BOOLEAN]
  /\ addPeerChan \in [Creates -> 0 .. AddPeerCap]
  /\ accepting \in Inbound \cup {None} /\ waiting \subseteq Inbound
  /\ quitting \subseteq Creates /\ replaced \subseteq Creates

Init ==
  /\ pending = Calls /\ stopSessChan = None
  /\ manager = "select" /\ serving = None /\ quitting = {} /\ replaced = {}
  /\ sessions = [t \in Tasks |-> None]
  /\ phase = [s \in Creates |-> "none"]
  /\ started = [s \in Creates |-> FALSE] /\ finished = [s \in Creates |-> FALSE]
  /\ addPeerChan = [s \in Creates |-> 0]
  /\ accepting = None /\ waiting = Inbound

-----------------------------------------------------------------------------
(* The callers and the listener.                                           *)

\* the goroutine of StopTask fills the slot
SendStop(c) ==
  /\ c \in pending \cap Stops /\ stopSessChan = None
  /\ stopSessChan' = TaskOf[c] /\ pending' = pending \ {c}
  /\ UNCHANGED <<control, session, listener>>

\* The listener's goroutine holds one connection until the manager takes it
Accept(i) ==
  /\ i \in waiting /\ accepting = None
  /\ accepting' = i /\ waiting' = waiting \ {i}
  /\ UNCHANGED <<requests, control, session>>

-----------------------------------------------------------------------------
(* The manager's select loop.                                              *)

Receiving == manager = "select"

\* A task created again takes the entry of its first session, which runs on
CreateSession(s) ==
  /\ Receiving /\ s \in pending \cap Creates
  /\ pending' = pending \ {s}
  /\ sessions' = [sessions EXCEPT ![TaskOf[s]] = s]
  /\ replaced' = replaced \cup ({sessions[TaskOf[s]]} \ {None})
  /\ phase' = [phase EXCEPT ![s] = "init"]
  /\ UNCHANGED <<stopSessChan, manager, serving, quitting>>
  /\ UNCHANGED <<started, finished, addPeerChan, listener>>

StartSession(c) ==
  LET s == sessions[TaskOf[c]] IN
  /\ Receiving /\ c \in pending \cap Starts
  /\ pending' = pending \ {c}
  /\ \/ s # None /\ manager' = "start" /\ serving' = s
     \/ s = None /\ UNCHANGED <<manager, serving>>
  /\ UNCHANGED <<stopSessChan, sessions, quitting, replaced>>
  /\ UNCHANGED <<session, listener>>

\* delete(sm.sessions, taskID), before Quit
Kept(t) == sessions                                  \* mutant: no delete
Forgotten(t) == [sessions EXCEPT ![t] = None]

StopSession ==
  LET s == sessions[stopSessChan] IN
  /\ Receiving /\ stopSessChan # None
  /\ stopSessChan' = None
  /\ \/ s # None /\ sessions' = Forgotten(stopSessChan) /\ manager' = "quit" /\ serving' = s
     \/ s = None /\ UNCHANGED <<sessions, manager, serving>>
  /\ UNCHANGED <<pending, quitting, replaced, session, listener>>

\* A new connection: answered and handed to its task's session, or closed;
\* the connection of an answer that cannot be written is forgotten
NewConnection ==
  LET s == sessions[TaskOf[accepting]] IN
  /\ Receiving /\ accepting # None
  /\ accepting' = None
  /\ \/ s # None /\ manager' = "accept" /\ serving' = s
     \/ UNCHANGED <<manager, serving>>
  /\ UNCHANGED <<requests, sessions, quitting, replaced, session, waiting>>

\* the sessions a goroutine is started to quit
StartedOnly == {s \in Creates : sessions[TaskOf[s]] = s /\ started[s]}  \* mutant
Registered == {s \in Creates : sessions[TaskOf[s]] = s}

\* Stop(), by OnStop of the service, was called
QuitAll ==
  /\ Receiving
  /\ manager' = "ended"
  /\ quitting' = Registered
  /\ UNCHANGED <<requests, serving, sessions, replaced, session, listener>>

-----------------------------------------------------------------------------
(* A send by the manager and the session's select loop taking it.          *)

Done == manager' = "select" /\ serving' = None

\* startChan is not buffered
Started ==
  /\ manager = "start" /\ phase[serving] = "select"
  /\ Done
  /\ phase' = [phase EXCEPT ![serving] = "busy"]
  /\ started' = [started EXCEPT ![serving] = TRUE]
  /\ UNCHANGED <<requests, sessions, quitting, replaced>>
  /\ UNCHANGED <<finished, addPeerChan, listener>>

\* addPeerChan is
Room(s) == addPeerChan[s] < AddPeerCap
PeerQueued ==
  /\ manager = "accept" /\ Room(serving)
  /\ Done
  /\ addPeerChan' = [addPeerChan EXCEPT ![serving] = @ + 1]
  /\ UNCHANGED <<requests, sessions, quitting, replaced>>
  /\ UNCHANGED <<phase, started, finished, listener>>

\* Quit: the session takes quitChan and shuts down, or had already ended
QuitIfIdle ==                                \* mutant: the send has a default
  /\ manager = "quit"
  /\ Done
  /\ phase' = [phase EXCEPT ![serving] = IF @ = "select" THEN "ended" ELSE @]
  /\ UNCHANGED <<requests, sessions, quitting, replaced>>
  /\ UNCHANGED <<started, finished, addPeerChan, listener>>
Quit ==
  /\ manager = "quit" /\ phase[serving] \in {"select", "ended"}
  /\ Done
  /\ phase' = [phase EXCEPT ![serving] = "ended"]
  /\ UNCHANGED <<requests, sessions, quitting, replaced>>
  /\ UNCHANGED <<started, finished, addPeerChan, listener>>

QuitLater(s) ==
  /\ s \in quitting /\ phase[s] \in {"select", "ended"}
  /\ quitting' = quitting \ {s}
  /\ phase' = [phase EXCEPT ![s] = "ended"]
  /\ UNCHANGED <<requests, manager, serving, sessions, replaced>>
  /\ UNCHANGED <<started, finished, addPeerChan, listener>>

-----------------------------------------------------------------------------
(* The sessions' goroutines; TaskSession has what a handler does.          *)

\* Init hashes the files, then a started agent may finish its download
Return(s) ==
  /\ phase[s] \in {"init", "busy"}
  /\ phase' = [phase EXCEPT ![s] = "select"]
  /\ finished' \in {finished, [finished EXCEPT ![s] = started[s]]}
  /\ UNCHANGED <<requests, control, started, addPeerChan, listener>>

\* or never returns: it sends to a peer whose writer is gone, or waits for the
\* answer of an upstream that gives none (Conn.Read has no deadline)
Block(s) ==
  /\ Blocking /\ phase[s] = "busy"
  /\ phase' = [phase EXCEPT ![s] = "blocked"]
  /\ UNCHANGED <<requests, control, started, finished, addPeerChan, listener>>

\* a message of a peer, a tick, the retry timer
Handle(s) ==
  /\ phase[s] = "select"
  /\ phase' = [phase EXCEPT ![s] = "busy"]
  /\ UNCHANGED <<requests, control, started, finished, addPeerChan, listener>>

TakeNoPeer(s) == FALSE                      \* mutant: no case for addPeerChan
TakePeer(s) ==
  /\ phase[s] = "select" /\ addPeerChan[s] > 0
  /\ phase' = [phase EXCEPT ![s] = "busy"]
  /\ addPeerChan' = [addPeerChan EXCEPT ![s] = @ - 1]
  /\ UNCHANGED <<requests, control, started, finished, listener>>

\* timeout(): 3 minutes without a start, or since the download finished;
\* the session's goroutine sends its task on stopSessChan
Expired(s) == ~started[s] \/ finished[s]
Expire(s) ==
  /\ Timeouts /\ phase[s] = "select" /\ Expired(s)
  /\ phase' = [phase EXCEPT ![s] = "stopping"]
  /\ UNCHANGED <<requests, control, started, finished, addPeerChan, listener>>

SendExpired(s) ==
  /\ phase[s] = "stopping" /\ stopSessChan = None
  /\ stopSessChan' = TaskOf[s]
  /\ phase' = [phase EXCEPT ![s] = "busy"]
  /\ UNCHANGED <<pending, control>>
  /\ UNCHANGED <<started, finished, addPeerChan, listener>>

-----------------------------------------------------------------------------
Manager ==
  \/ \E s \in Creates : CreateSession(s)
  \/ \E c \in Starts : StartSession(c)
  \/ StopSession \/ NewConnection \/ QuitAll

Handed == Started \/ PeerQueued \/ Quit

Session(s) ==
  Return(s) \/ Block(s) \/ Handle(s) \/ TakePeer(s) \/ Expire(s) \/ SendExpired(s)

Next ==
  \/ \E c \in Stops : SendStop(c)
  \/ \E i \in Inbound : Accept(i)
  \/ Manager \/ Handed
  \/ \E s \in Creates : Session(s) \/ QuitLater(s)

Spec == Init /\ [][Next]_vars

\* Goroutines run, and handlers return if they do not block; of the cases of
\* a select that stay ready one is taken, and each in turn (Go picks at
\* random).  Nobody has to call.
Fairness ==
  /\ WF_vars(StopSession \/ NewConnection) /\ SF_vars(Handed)
  /\ \A s \in Creates : WF_vars(Return(s)) /\ SF_vars(TakePeer(s))
                          /\ SF_vars(SendExpired(s)) /\ SF_vars(QuitLater(s))

FairSpec == Spec /\ Fairness

-----------------------------------------------------------------------------
(* Properties.                                                             *)

\* While the manager runs, a session in its map is alive, and so is the one
\* it hands a start or a connection to: sending to an ended session would
\* block the manager, and with it every task of the process, for ever.
RegisteredAlive ==
  manager # "ended" =>
    /\ \A t \in Tasks : sessions[t] # None => phase[sessions[t]] \notin {"none", "ended"}
    /\ manager \in {"start", "accept"} => phase[serving] \notin {"none", "ended"}

\* A session that runs is in the map, where a stop finds it, or is being quit:
\* no stop, timeout or connection loses one, only a second creation of its
\* task, which takes its entry.
NoOrphan ==
  manager # "ended" =>
    \A s \in Creates \ replaced :
      phase[s] \notin {"none", "ended"} =>
        sessions[TaskOf[s]] = s \/ (manager = "quit" /\ serving = s)

\* The manager always comes back to its select (session.go:668: Quit does
\* not block).
ManagerReturns == manager \in {"start", "accept", "quit"} ~> manager = "select"

\* What remains true of it: if the manager never comes back, the session it
\* sends to timed out and is itself blocked on stopSessChan, or is blocked in
\* a handler.  A session that still takes its cases never holds it up, with
\* whatever calls, connections and timeouts of its own or of other sessions.
HeldByBlockedOnly ==
  <>[](manager \in {"start", "accept", "quit"})
    => <>[](\E s \in Creates : serving = s /\ phase[s] \in {"stopping", "blocked"})

\* When the manager is stopped every session it still reaches ends: not one
\* that timed out and finds nobody to tell any more, one blocked in a handler,
\* or one whose entry was taken, which goes on.
StopEndsAll ==
  manager = "ended" ~>
    \A s \in Creates \ replaced : phase[s] \in {"none", "ended", "stopping", "blocked"}
==============================================================================
