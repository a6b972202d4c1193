-------------------------------- MODULE Bitset --------------------------------
(***************************************************************************)
(* The bits of a BITFIELD (src/p2p/bitset.go): n bits in bytes, the high   *)
(* bit of the first byte first, and no bit set behind the last of the n.   *)
(* A bitset is the sequence of its bytes; bits count from 0.               *)
(***************************************************************************)
EXTENDS Integers, SequencesExt

CONSTANT ByteBits      \* bits of a byte (8)

ASSUME ByteAssumption == ByteBits \in Nat \ {0}

Invalid == <<-1>>      \* the nil of NewBitsetFromBytes

NewBitset(n) == [k \in 1 .. (n + ByteBits - 1) \div ByteBits |-> 0]

\* 128 >> index&7
Mask(i) == 2 ^ (ByteBits - 1 - (i % ByteBits))

IsSet(b, i) == (b[i \div ByteBits + 1] \div Mask(i)) % 2 = 1

SetBit(b, i) == IF IsSet(b, i) THEN b ELSE [b EXCEPT ![i \div ByteBits + 1] = @ + Mask(i)]

\* a bit of the last byte that is no bit of the set is set
SpareSet(n, b) == n % ByteBits # 0 /\ Last(b) % (2 ^ (ByteBits - (n % ByteBits))) # 0

NewBitsetFromBytes(n, data) ==
  IF Len(data) # Len(NewBitset(n)) \/ SpareSet(n, data) THEN Invalid ELSE data

\* initInServer, checkPieces: a new bitset, bit after bit
BitsetOf(n, bits) ==
  LET loop[i \in 0 .. n] ==
        IF i = 0 THEN NewBitset(n)
        ELSE IF i - 1 \in bits THEN SetBit(loop[i - 1], i - 1)
        ELSE loop[i - 1]
  IN  loop[n]
===============================================================================
