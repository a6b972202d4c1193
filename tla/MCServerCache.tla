----------------------------- MODULE MCServerCache -----------------------------
(* ServerCache with the calls named for what they are.                       *)
EXTENDS ServerCache

CONSTANTS t1, t2, a1, q1, k1, r1, x, y,
  Apart            \* the calls about y

MCIdOf == [h \in Calls |-> IF h \in Apart THEN y ELSE x]
MCKindOf == [h \in Calls |-> IF h = a1 THEN "archive" ELSE "task"]
MCBodyOf == [h \in Creates |-> IF h = a1 THEN "dir" ELSE "files"]
==============================================================================
