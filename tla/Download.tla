------------------------------- MODULE Download -------------------------------
(***************************************************************************)
(* What a task session promises to the agent that runs it, and through it  *)
(* to the server: the pieces it holds only grow, one verified piece at a   *)
(* time and only while the task runs, and the completion is told in the    *)
(* very step that makes the set complete -- never before, never twice,     *)
(* never missed.  How pieces are found, requested and checked is the       *)
(* business of TaskSession, which implements this module.                  *)
(***************************************************************************)
CONSTANT Pieces

VARIABLES
  agent,           \* an agent downloads; the server's own session only serves
  phase,           \* "starting", "waiting", "running", "over"
  held,            \* the pieces that are verified on disk
  told             \* the completion was reported

vars == <<agent, phase, held, told>>

Init == agent \in BOOLEAN /\ phase = "starting" /\ held = {} /\ told = FALSE

\* a session may find pieces, or all of them, on its disk
Find ==
  /\ phase = "starting"
  /\ phase' = "waiting"
  /\ held' \in SUBSET Pieces
  /\ UNCHANGED <<agent, told>>

Begin ==
  /\ phase = "waiting"
  /\ phase' = "running"
  /\ told' = (agent /\ held = Pieces)
  /\ UNCHANGED <<agent, held>>

Obtain(i) ==
  /\ phase = "running" /\ i \notin held
  /\ held' = held \cup {i}
  /\ told' = (agent /\ held' = Pieces)
  /\ UNCHANGED <<agent, phase>>

\* it quits, or its process dies
End ==
  /\ phase # "over"
  /\ phase' = "over"
  /\ UNCHANGED <<agent, held, told>>

Next == Find \/ Begin \/ End \/ \E i \in Pieces : Obtain(i)

Spec == Init /\ [][Next]_vars
==============================================================================
