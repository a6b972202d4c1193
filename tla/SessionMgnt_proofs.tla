-------------------------- MODULE SessionMgnt_proofs --------------------------
(* Proofs about SessionMgnt.                                               *)
EXTENDS SessionMgnt, TLAPS

\* calls and connections name a task
LEMMA CallTasks == \A c \in Calls \cup Inbound : TaskOf[c] \in Tasks
BY CallsAssumption

\* the initial state is well-typed
LEMMA InitTyped == Init => TypeOK
<1>1. 0 \in 0 .. AddPeerCap
  BY ParametersAssumption
<1> QED
  BY <1>1 DEF Init, TypeOK, Calls

\* and every step keeps it so
LEMMA TypeStep == TypeOK /\ [Next]_vars => TypeOK'
<1> SUFFICES ASSUME TypeOK, [Next]_vars PROVE TypeOK'
  OBVIOUS
<1> USE CallTasks, NoneAssumption, ParametersAssumption DEF Calls, TypeOK
<1>1. ASSUME NEW s \in Creates, Block(s) PROVE TypeOK'
  BY <1>1 DEF Block, requests, control, session, listener
<1>2. ASSUME NEW c \in Stops, SendStop(c) PROVE TypeOK'
  BY <1>2 DEF SendStop, requests, control, session, listener
<1>4. ASSUME NEW i \in Inbound, Accept(i) PROVE TypeOK'
  BY <1>4 DEF Accept, requests, control, session, listener
<1>5. ASSUME NEW s \in Creates, CreateSession(s) PROVE TypeOK'
  BY <1>5 DEF CreateSession, requests, control, session, listener
<1>6. ASSUME NEW c \in Starts, StartSession(c) PROVE TypeOK'
  BY <1>6 DEF StartSession, requests, control, session, listener
<1>7. ASSUME StopSession PROVE TypeOK'
  BY <1>7 DEF StopSession, Forgotten, requests, control, session, listener
<1>8. ASSUME NewConnection PROVE TypeOK'
  BY <1>8 DEF NewConnection, requests, control, session, listener
<1>9. ASSUME QuitAll PROVE TypeOK'
  BY <1>9 DEF QuitAll, Registered, requests, control, session, listener
<1>10. ASSUME Started PROVE TypeOK'
  BY <1>10 DEF Started, Done, requests, control, session, listener
<1>11. ASSUME PeerQueued PROVE TypeOK'
  <2>1. serving \in Creates => addPeerChan[serving] + 1 \in 0 .. AddPeerCap
    BY <1>11 DEF PeerQueued, Room
  <2> QED
    BY <1>11, <2>1 DEF PeerQueued, Done, requests, control, session, listener
<1>12. ASSUME Quit PROVE TypeOK'
  BY <1>12 DEF Quit, Done, requests, control, session, listener
<1>13. ASSUME NEW s \in Creates, QuitLater(s) PROVE TypeOK'
  BY <1>13 DEF QuitLater, requests, control, session, listener
<1>14. ASSUME NEW s \in Creates, Return(s) PROVE TypeOK'
  BY <1>14 DEF Return, requests, control, session, listener
<1>15. ASSUME NEW s \in Creates, Handle(s) PROVE TypeOK'
  BY <1>15 DEF Handle, requests, control, session, listener
<1>16. ASSUME NEW s \in Creates, TakePeer(s) PROVE TypeOK'
  <2>1. addPeerChan[s] - 1 \in 0 .. AddPeerCap
    BY <1>16 DEF TakePeer
  <2> QED
    BY <1>16, <2>1 DEF TakePeer, requests, control, session, listener
<1>17. ASSUME NEW s \in Creates, Expire(s) PROVE TypeOK'
  BY <1>17 DEF Expire, requests, control, session, listener
<1>18. ASSUME NEW s \in Creates, SendExpired(s) PROVE TypeOK'
  BY <1>18 DEF SendExpired, requests, control, session, listener
<1>19. CASE UNCHANGED vars
  BY <1>19 DEF vars, requests, control, session, listener
<1> QED
  BY <1>1, <1>2, <1>4, <1>5, <1>6, <1>7, <1>8, <1>9, <1>10,
     <1>11, <1>12, <1>13, <1>14, <1>15, <1>16, <1>17, <1>18, <1>19
     DEF Next, Manager, Handed, Session

\* The manager's state is well-typed: in particular addPeerChan keeps within
\* its capacity, which the manager's blocking send relies on.
THEOREM Typing == Spec => []TypeOK
BY InitTyped, TypeStep, PTL DEF Spec

(***************************************************************************)
(* The inductive invariant of RegisteredAlive and NoOrphan.  A session's   *)
(* goroutine runs once its creation was received; the map files it under   *)
(* its own task; and the manager, which alone changes the map, blocks only *)
(* on a session it has in the map, or has just taken out of it to quit.    *)
(***************************************************************************)
Created == \A s \in Creates : phase[s] = "none" <=> s \in pending

Filed == \A t \in Tasks : sessions[t] # None => TaskOf[sessions[t]] = t

Blocked ==
  /\ manager \in {"start", "accept"} =>
       serving \in Creates /\ sessions[TaskOf[serving]] = serving
  /\ manager = "quit" =>
       /\ serving \in Creates /\ phase[serving] # "none"
       /\ sessions[TaskOf[serving]] # serving
  /\ quitting # {} => manager = "ended"

RegistryInv == Created /\ Filed /\ Blocked /\ RegisteredAlive

\* nothing is registered at first
LEMMA RegistryInit == Init => RegistryInv
BY NoneAssumption DEF Init, Calls, RegistryInv, Created, Filed, Blocked, RegisteredAlive

\* and every step keeps the map and the goroutines in accord
LEMMA RegistryStep == TypeOK /\ RegistryInv /\ [Next]_vars => RegistryInv'
<1> SUFFICES ASSUME TypeOK, RegistryInv, [Next]_vars PROVE RegistryInv'
  OBVIOUS
<1> USE CallTasks, NoneAssumption
    DEF Calls, TypeOK, RegistryInv, Created, Filed, Blocked, RegisteredAlive
<1>1. ASSUME NEW s \in Creates, Block(s) PROVE RegistryInv'
  BY <1>1 DEF Block, requests, control, session, listener, Receiving
<1>2. ASSUME NEW c \in Stops, SendStop(c) PROVE RegistryInv'
  BY <1>2, CallsAssumption DEF SendStop, requests, control, session, listener, Receiving
<1>4. ASSUME NEW i \in Inbound, Accept(i) PROVE RegistryInv'
  BY <1>4 DEF Accept, requests, control, session, listener, Receiving
<1>5. ASSUME NEW s \in Creates, CreateSession(s) PROVE RegistryInv'
  BY <1>5, CallsAssumption DEF CreateSession, requests, control, session, listener, Receiving
<1>6. ASSUME NEW c \in Starts, StartSession(c) PROVE RegistryInv'
  BY <1>6, CallsAssumption DEF StartSession, requests, control, session, listener, Receiving
<1>7. ASSUME StopSession PROVE RegistryInv'
  BY <1>7 DEF StopSession, Forgotten, requests, control, session, listener, Receiving
<1>8. ASSUME NewConnection PROVE RegistryInv'
  BY <1>8 DEF NewConnection, requests, control, session, listener, Receiving
<1>9. ASSUME QuitAll PROVE RegistryInv'
  BY <1>9 DEF QuitAll, Registered, requests, control, session, listener, Receiving
<1>10. ASSUME Started PROVE RegistryInv'
  BY <1>10 DEF Started, Done, requests, control, session, listener, Receiving
<1>11. ASSUME PeerQueued PROVE RegistryInv'
  BY <1>11 DEF PeerQueued, Done, requests, control, session, listener, Receiving
<1>12. ASSUME Quit PROVE RegistryInv'
  BY <1>12 DEF Quit, Done, requests, control, session, listener, Receiving
<1>13. ASSUME NEW s \in Creates, QuitLater(s) PROVE RegistryInv'
  BY <1>13 DEF QuitLater, requests, control, session, listener, Receiving
<1>14. ASSUME NEW s \in Creates, Return(s) PROVE RegistryInv'
  BY <1>14 DEF Return, requests, control, session, listener, Receiving
<1>15. ASSUME NEW s \in Creates, Handle(s) PROVE RegistryInv'
  BY <1>15 DEF Handle, requests, control, session, listener, Receiving
<1>16. ASSUME NEW s \in Creates, TakePeer(s) PROVE RegistryInv'
  BY <1>16 DEF TakePeer, requests, control, session, listener, Receiving
<1>17. ASSUME NEW s \in Creates, Expire(s) PROVE RegistryInv'
  BY <1>17 DEF Expire, requests, control, session, listener, Receiving
<1>18. ASSUME NEW s \in Creates, SendExpired(s) PROVE RegistryInv'
  BY <1>18 DEF SendExpired, requests, control, session, listener, Receiving
<1>19. CASE UNCHANGED vars
  BY <1>19 DEF vars, requests, control, session, listener, Receiving
<1> QED
  BY <1>1, <1>2, <1>4, <1>5, <1>6, <1>7, <1>8, <1>9, <1>10,
     <1>11, <1>12, <1>13, <1>14, <1>15, <1>16, <1>17, <1>18, <1>19
     DEF Next, Manager, Handed, Session

\* While the manager runs, the sessions in its map, and the one it hands a
\* start or a connection to, are alive: it never blocks on an ended session.
THEOREM RegisteredAliveAlways == Spec => []RegisteredAlive
<1>1. RegistryInv => RegisteredAlive
  BY DEF RegistryInv
<1> QED
  BY <1>1, InitTyped, TypeStep, RegistryInit, RegistryStep, PTL DEF Spec

\* only a creation takes the entry of a session that runs, and notes it
LEMMA OrphanStep == TypeOK /\ RegistryInv /\ NoOrphan /\ [Next]_vars => NoOrphan'
<1> SUFFICES ASSUME TypeOK, RegistryInv, NoOrphan, [Next]_vars PROVE NoOrphan'
  OBVIOUS
<1> USE CallTasks, NoneAssumption
    DEF Calls, TypeOK, RegistryInv, Created, Filed, Blocked, NoOrphan
<1>1. ASSUME NEW s \in Creates, Block(s) PROVE NoOrphan'
  BY <1>1 DEF Block, requests, control, session, listener, Receiving
<1>2. ASSUME NEW c \in Stops, SendStop(c) PROVE NoOrphan'
  BY <1>2 DEF SendStop, requests, control, session, listener, Receiving
<1>4. ASSUME NEW i \in Inbound, Accept(i) PROVE NoOrphan'
  BY <1>4 DEF Accept, requests, control, session, listener, Receiving
<1>5. ASSUME NEW s \in Creates, CreateSession(s) PROVE NoOrphan'
  BY <1>5 DEF CreateSession, requests, control, session, listener, Receiving
<1>6. ASSUME NEW c \in Starts, StartSession(c) PROVE NoOrphan'
  BY <1>6 DEF StartSession, requests, control, session, listener, Receiving
<1>7. ASSUME StopSession PROVE NoOrphan'
  BY <1>7 DEF StopSession, Forgotten, requests, control, session, listener, Receiving
<1>8. ASSUME NewConnection PROVE NoOrphan'
  BY <1>8 DEF NewConnection, requests, control, session, listener, Receiving
<1>9. ASSUME QuitAll PROVE NoOrphan'
  BY <1>9 DEF QuitAll, Registered, requests, control, session, listener, Receiving
<1>10. ASSUME Started PROVE NoOrphan'
  BY <1>10 DEF Started, Done, requests, control, session, listener, Receiving
<1>11. ASSUME PeerQueued PROVE NoOrphan'
  BY <1>11 DEF PeerQueued, Done, requests, control, session, listener, Receiving
<1>12. ASSUME Quit PROVE NoOrphan'
  BY <1>12 DEF Quit, Done, requests, control, session, listener, Receiving
<1>13. ASSUME NEW s \in Creates, QuitLater(s) PROVE NoOrphan'
  BY <1>13 DEF QuitLater, requests, control, session, listener, Receiving
<1>14. ASSUME NEW s \in Creates, Return(s) PROVE NoOrphan'
  BY <1>14 DEF Return, requests, control, session, listener, Receiving
<1>15. ASSUME NEW s \in Creates, Handle(s) PROVE NoOrphan'
  BY <1>15 DEF Handle, requests, control, session, listener, Receiving
<1>16. ASSUME NEW s \in Creates, TakePeer(s) PROVE NoOrphan'
  BY <1>16 DEF TakePeer, requests, control, session, listener, Receiving
<1>17. ASSUME NEW s \in Creates, Expire(s) PROVE NoOrphan'
  BY <1>17 DEF Expire, requests, control, session, listener, Receiving
<1>18. ASSUME NEW s \in Creates, SendExpired(s) PROVE NoOrphan'
  BY <1>18 DEF SendExpired, requests, control, session, listener, Receiving
<1>19. CASE UNCHANGED vars
  BY <1>19 DEF vars, requests, control, session, listener, Receiving
<1> QED
  BY <1>1, <1>2, <1>4, <1>5, <1>6, <1>7, <1>8, <1>9, <1>10,
     <1>11, <1>12, <1>13, <1>14, <1>15, <1>16, <1>17, <1>18, <1>19
     DEF Next, Manager, Handed, Session

\* A session that runs is in the map or being quit, unless a second creation
\* of its task took its entry: nothing else leaves one that no stop can reach.
THEOREM NoOrphanAlways == Spec => []NoOrphan
<1>1. Init => NoOrphan
  BY DEF Init, NoOrphan
<1> QED
  BY <1>1, InitTyped, TypeStep, RegistryInit, RegistryStep, OrphanStep, PTL DEF Spec
===============================================================================
