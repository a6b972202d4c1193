---------------------------- MODULE MCTaskSession ----------------------------
(* TaskSession on small instances: pieces are numbers, so that a cfg can    *)
(* name how many there are and how many blocks the first of them has.       *)
EXTENDS TaskSession

CONSTANTS NumPieces, FirstBlocks

MCPieces == 1 .. NumPieces
MCBlocksOf == [i \in MCPieces |-> IF i = 1 THEN 0 .. FirstBlocks - 1 ELSE {0}]
==============================================================================
