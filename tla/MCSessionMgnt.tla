---------------------------- MODULE MCSessionMgnt ----------------------------
(* Model checking of SessionMgnt: everything is of task t1, but what is in  *)
(* Second.                                                                 *)
EXTENDS SessionMgnt

CONSTANTS t1, t2, Second

MCTaskOf == [x \in Calls \cup Inbound |-> IF x \in Second THEN t2 ELSE t1]
==============================================================================
