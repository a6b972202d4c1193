---------------------------- MODULE MCServerTask ----------------------------
(* A task for two agents, and handlers that submit it again with the same   *)
(* list of agents (same) or with another (other).                           *)
EXTENDS ServerTask

CONSTANTS a1, a2, same, other

Two == <<a1, a2>>
MCIPsOf == [h \in Resubmits |-> IF h = same THEN Two ELSE <<a2>>]
=============================================================================
