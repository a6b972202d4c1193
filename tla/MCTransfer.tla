------------------------------ MODULE MCTransfer ------------------------------
(* Transfer with files of a few bytes: one file, one with an empty file and  *)
(* one with files shorter than a block between others; on the agent's disk   *)
(* nothing, or a file of an earlier version, longer or shorter, that begins  *)
(* like the new one.                                                         *)
EXTENDS Transfer

MCLayouts == {<<3, 0, 4>>, <<1, 1, 2>>}
OneLayout == {<<2, 0, 3>>}
MCLeftovers == {Absent, <<1, 2, 3, 4, 9>>}
NoLeftovers == {Absent}

(* What a bitset should be: of each set of bits, up to three bytes of them,  *)
(* the receiver has just these; and any bytes it takes for a bitset are one. *)
Members(n, b) == {i \in 0 .. n - 1 : IsSet(b, i)}

ASSUME BitfieldRight ==
  \A n \in 1 .. 3 * ByteBits :
    /\ \A bits \in SUBSET (0 .. n - 1) :
         LET b == NewBitsetFromBytes(n, BitsetOf(n, bits))
         IN  b # Invalid /\ Members(n, b) = bits
    /\ \A data \in [1 .. Len(NewBitset(n)) -> 0 .. 2 ^ ByteBits - 1] :
         NewBitsetFromBytes(n, data) # Invalid => BitsetOf(n, Members(n, data)) = data
==============================================================================
