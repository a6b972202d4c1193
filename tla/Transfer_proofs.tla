----------------------------- MODULE Transfer_proofs -----------------------------
(***************************************************************************)
(* Theorems about Transfer and the parts it is made of, for any layout,    *)
(* lengths of pieces, blocks and frames, rate and faults: first FlowCtrl   *)
(* by itself, then the bytes of a connection, what is on its way on it,    *)
(* the session and its files, and the copy.                                *)
(***************************************************************************)
EXTENDS Transfer, FileStore_proofs

-----------------------------------------------------------------------------
(* Flow control.                                                             *)

\* What makes the rates inductive: every sample that is over carried limit
\* bytes at most and lasted SampleTicks at least,
Measured ==
  Rate >= 1 => bytes <= limit * samples /\ samples * SampleTicks <= sLast

\* and what Limit has allowed fits into the current one.
Fits == Rate >= 1 => sBytes + granted <= limit

FlowInv == FlowTypeOK /\ Measured /\ Fits

\* One byte at least in each sample
LEMMA LimitPositive == limit \in Nat /\ limit >= 1
<1> DEFINE exact == (2 * Rate * SampleTicks + TicksPerSecond) \div (2 * TicksPerSecond)
<1>1. exact \in Int
  <2>1. 2 * Rate * SampleTicks + TicksPerSecond \in Int
    BY RateAssumption
  <2>2. 2 * TicksPerSecond \in Nat \ {0}
    BY RateAssumption
  <2>3. ASSUME NEW a \in Int, NEW b \in Nat \ {0} PROVE a \div b \in Int
    OBVIOUS
  <2> QED
    BY <2>1, <2>2, <2>3
<1>2. limit = IF exact <= 0 THEN 1 ELSE exact
  BY DEF limit
<1> QED
  BY <1>1, <1>2

\* the one step of arithmetic that is not linear
LEMMA OneMore ==
  ASSUME NEW a \in Nat, NEW b \in Nat
  PROVE  a * (b + 1) = a * b + a /\ (b + 1) * a = b * a + a
OBVIOUS

\* what Allow leaves of a sample
LEMMA Room ==
  ASSUME NEW have \in Nat, NEW most \in Nat, NEW want \in Nat \ {0}, ~(have >= most)
  PROVE  /\ AtMost(want, most - have) \in 1 .. want
         /\ have + AtMost(want, most - have) <= most
BY DEF AtMost

\* The rates hold at first
LEMMA FlowStart == FlowInit => FlowInv
<1> SUFFICES ASSUME FlowInit PROVE FlowInv
  OBVIOUS
<1>1. limit * 0 = 0 /\ 0 * SampleTicks = 0
  BY LimitPositive, RateAssumption
<1> QED
  BY <1>1, LimitPositive DEF FlowInit, FlowInv, FlowTypeOK, Measured, Fits

\* update(n) of bytes that were allowed before
LEMMA UpdateKeeps ==
  ASSUME FlowInv, NEW n \in Nat, update(n), Rate >= 1 => sBytes + n <= limit
  PROVE  /\ sLast' \in 0 .. now /\ sBytes' \in Nat /\ bytes' \in Nat /\ samples' \in Nat
         /\ Rate >= 1 => sBytes' <= limit
         /\ Measured'
<1> USE LimitPositive, RateAssumption DEF FlowInv, FlowTypeOK
<1>0. limit' = limit
  BY DEF limit
<1>1. CASE now - sLast >= SampleTicks
  <2>1. bytes' = bytes + sBytes + n /\ samples' = samples + 1 /\ sBytes' = 0 /\ sLast' = now
    BY <1>1 DEF update
  <2>2. limit * samples' = limit * samples + limit
    BY <2>1, OneMore
  <2>3. samples' * SampleTicks = samples * SampleTicks + SampleTicks
    BY <2>1, OneMore
  <2> DEFINE done == limit * samples
             spent == samples * SampleTicks
  <2>4. done \in Nat /\ spent \in Nat
    OBVIOUS
  <2>5. Rate >= 1 => bytes <= done /\ spent <= sLast
    BY DEF Measured
  <2>6. Rate >= 1 => bytes' <= done + limit /\ spent + SampleTicks <= sLast'
    <3> HIDE DEF done, spent
    <3> QED
      BY <1>1, <2>1, <2>4, <2>5
  <2>7. Measured'
    BY <1>0, <2>2, <2>3, <2>6 DEF Measured
  <2> QED
    BY <2>1, <2>7
<1>2. CASE ~(now - sLast >= SampleTicks)
  <2>1. sBytes' = sBytes + n /\ bytes' = bytes /\ samples' = samples /\ sLast' = sLast
    BY <1>2 DEF update
  <2>2. Measured'
    BY <1>0, <2>1 DEF Measured
  <2> QED
    BY <2>1, <2>2
<1> QED
  BY <1>1, <1>2

\* ... and every step keeps them
LEMMA FlowStep == FlowInv /\ [FlowNext]_flow => FlowInv'
<1> SUFFICES ASSUME FlowInv, [FlowNext]_flow PROVE FlowInv'
  OBVIOUS
<1> USE LimitPositive, RateAssumption
<1>0. limit' = limit
  BY DEF limit
<1>u. ASSUME UNCHANGED monitor PROVE Measured'
  BY <1>0, <1>u DEF monitor, Measured, FlowInv
<1>1. CASE New
  <2>1. limit * 0 = 0 /\ 0 * SampleTicks = 0
    OBVIOUS
  <2> QED
    BY <1>0, <1>1, <2>1 DEF New, FlowInv, FlowTypeOK, Measured, Fits
<1>2. CASE Limit
  <2>0. writer = "limit" /\ now' = now /\ left' = left /\ granted = 0 /\ left \in Nat \ {0}
    BY <1>2 DEF Limit, FlowInv, FlowTypeOK
  <2>1. CASE Rate < 1
    <3>1. writer' = "write" /\ granted' = left /\ UNCHANGED monitor
      BY <1>2, <2>1 DEF Limit
    <3> QED
      BY <1>u, <2>0, <2>1, <3>1 DEF FlowInv, FlowTypeOK, Fits, monitor
  <2>2. CASE ~(Rate < 1)
    <3>1. update(0)
      BY <1>2, <2>2 DEF Limit
    <3>2. Rate >= 1 => sBytes + 0 <= limit
      BY <2>0 DEF FlowInv, FlowTypeOK, Fits
    <3>3. /\ sLast' \in 0 .. now /\ sBytes' \in Nat /\ bytes' \in Nat /\ samples' \in Nat
          /\ Rate >= 1 => sBytes' <= limit
          /\ Measured'
      BY <3>1, <3>2, UpdateKeeps
    <3>4. CASE sBytes' >= limit
      <4>1. writer' = "sleep" /\ granted' = granted
        BY <1>2, <2>2, <3>4 DEF Limit
      <4>2. FlowTypeOK'
        BY <2>0, <3>3, <4>1 DEF FlowInv, FlowTypeOK
      <4>3. Fits'
        <5>1. PICK b \in Nat : b = sBytes'
          BY <3>3
        <5>2. b <= limit
          BY <2>2, <3>3, <5>1
        <5>3. b + 0 = b
          OBVIOUS
        <5> QED
          BY <1>0, <2>0, <4>1, <5>1, <5>2, <5>3 DEF Fits
      <4> QED
        BY <3>3, <4>2, <4>3 DEF FlowInv
    <3>5. CASE ~(sBytes' >= limit)
      <4>1. writer' = "write" /\ granted' = AtMost(left, limit - sBytes')
        BY <1>2, <2>2, <3>5 DEF Limit, Allow
      <4>2. granted' \in 1 .. left /\ sBytes' + granted' <= limit
        <5>1. PICK b \in Nat : b = sBytes'
          BY <3>3
        <5>2. ~(b >= limit)
          BY <3>5, <5>1
        <5>3. AtMost(left, limit - b) \in 1 .. left /\ b + AtMost(left, limit - b) <= limit
          BY <2>0, <5>2, Room
        <5> QED
          BY <4>1, <5>1, <5>3
      <4> QED
        BY <1>0, <2>0, <3>3, <4>1, <4>2 DEF FlowInv, FlowTypeOK, Fits
    <3> QED
      BY <3>4, <3>5
  <2> QED
    BY <2>1, <2>2
<1>3. CASE Wake
  <2>0. writer = "sleep" /\ now' = now /\ left' = left /\ granted = 0 /\ left \in Nat \ {0}
    BY <1>3 DEF Wake, FlowInv, FlowTypeOK
  <2>1. update(0)
    BY <1>3 DEF Wake
  <2>2. Rate >= 1 => sBytes + 0 <= limit
    BY <2>0 DEF FlowInv, FlowTypeOK, Fits
  <2>3. /\ sLast' \in 0 .. now /\ sBytes' \in Nat /\ bytes' \in Nat /\ samples' \in Nat
        /\ Rate >= 1 => sBytes' <= limit
        /\ Measured'
    BY <2>1, <2>2, UpdateKeeps
  <2>4. sBytes' = 0
    BY <1>3 DEF Wake, update
  <2>5. writer' = "write" /\ granted' = AtMost(left, limit - sBytes')
    BY <1>3 DEF Wake, Allow
  <2>6. granted' \in 1 .. left /\ sBytes' + granted' <= limit
    BY <2>0, <2>4, <2>5 DEF AtMost
  <2> QED
    BY <1>0, <2>0, <2>3, <2>5, <2>6 DEF FlowInv, FlowTypeOK, Fits
<1>4. CASE Pass
  BY <1>0, <1>4, <1>u DEF Pass, FlowInv, FlowTypeOK, Fits, monitor
<1>5. ASSUME NEW n \in Sizes, Write(n) PROVE FlowInv'
  <2>1. n \in Nat \ {0}
    BY SizesAssumption
  <2> QED
    BY <1>0, <1>5, <1>u, <2>1 DEF Write, FlowInv, FlowTypeOK, Fits, monitor
<1>6. ASSUME NEW c \in 0 .. granted, Wrote(c) PROVE FlowInv'
  <2>1. update(c) /\ writer = "write" /\ now' = now /\ left' = left - c /\ granted' = 0
    BY <1>6 DEF Wrote
  <2>2. c \in Nat /\ c <= granted /\ granted <= left /\ left \in Nat
    BY DEF FlowInv, FlowTypeOK
  <2>3. Rate >= 1 => sBytes + c <= limit
    BY <2>2 DEF FlowInv, FlowTypeOK, Fits
  <2>4. /\ sLast' \in 0 .. now /\ sBytes' \in Nat /\ bytes' \in Nat /\ samples' \in Nat
        /\ Rate >= 1 => sBytes' <= limit
        /\ Measured'
    BY <2>1, <2>2, <2>3, UpdateKeeps
  <2>5. writer' \in {"limit", "idle"} /\ (writer' # "idle" => c < left)
    BY <1>6 DEF Wrote
  <2>6. left' \in Nat /\ (writer' # "idle" => left' > 0) /\ now \in Nat
    BY <2>1, <2>2, <2>5 DEF FlowInv, FlowTypeOK
  <2>7. FlowTypeOK'
    BY <2>1, <2>4, <2>5, <2>6 DEF FlowTypeOK
  <2>8. Fits'
    <3>1. PICK b \in Nat : b = sBytes'
      BY <2>4
    <3>2. Rate >= 1 => b <= limit
      BY <2>4, <3>1
    <3>3. b + 0 = b
      OBVIOUS
    <3> QED
      BY <1>0, <2>1, <3>1, <3>2, <3>3 DEF Fits
  <2> QED
    BY <2>4, <2>7, <2>8 DEF FlowInv
<1>7. CASE UNCHANGED flow
  BY <1>0, <1>7, <1>u DEF flow, monitor, FlowInv, FlowTypeOK, Fits
<1> QED
  BY <1>1, <1>2, <1>3, <1>4, <1>5, <1>6, <1>7 DEF FlowNext

\* What one Writer and its Monitor keep
LEMMA FlowInvariance == FlowSpec => []FlowInv
BY FlowStart, FlowStep, PTL DEF FlowSpec

\* No sample carries more than its share.
THEOREM SampleKeptAlways == FlowSpec => []SampleKept
<1>1. FlowInv => SampleKept
  BY LimitPositive DEF FlowInv, FlowTypeOK, Fits, SampleKept
<1> QED
  BY <1>1, FlowInvariance, PTL

\* Each sample that is over carried limit bytes at most, the current one too
LEMMA RateFromSamples == FlowInv => RateKept
<1> SUFFICES ASSUME FlowInv, Rate >= 1
             PROVE  (bytes + sBytes) * SampleTicks <= limit * (now + SampleTicks)
  BY DEF RateKept
<1> USE LimitPositive, RateAssumption
<1>1. /\ bytes + sBytes \in Nat /\ samples \in Nat /\ now \in Nat
      /\ bytes + sBytes <= limit * samples + limit
      /\ samples * SampleTicks <= now
  BY DEF FlowInv, FlowTypeOK, Measured, Fits
<1>2. bytes + sBytes <= limit * (samples + 1)
  BY <1>1, OneMore
<1>3. (bytes + sBytes) * SampleTicks <= (limit * (samples + 1)) * SampleTicks
  <2>1. ASSUME NEW a \in Nat, NEW b \in Nat, NEW c \in Nat, a <= b
        PROVE  a * c <= b * c
    BY <2>1
  <2> QED
    BY <1>1, <1>2, <2>1
<1>4. (limit * (samples + 1)) * SampleTicks = limit * (samples * SampleTicks + SampleTicks)
  BY <1>1
<1>5. limit * (samples * SampleTicks + SampleTicks) <= limit * (now + SampleTicks)
  <2>1. ASSUME NEW a \in Nat, NEW b \in Nat, NEW c \in Nat, a <= b
        PROVE  c * a <= c * b
    BY <2>1
  <2> DEFINE spent == samples * SampleTicks
  <2>2. spent \in Nat /\ spent <= now
    BY <1>1
  <2> HIDE DEF spent
  <2>3. spent + SampleTicks \in Nat /\ now + SampleTicks \in Nat
        /\ spent + SampleTicks <= now + SampleTicks
    BY <1>1, <2>2
  <2> QED
    BY <2>1, <2>3 DEF spent
<1> DEFINE x == (bytes + sBytes) * SampleTicks
           y == (limit * (samples + 1)) * SampleTicks
           z == limit * (now + SampleTicks)
<1>6. x \in Int /\ y \in Int /\ z \in Int /\ x <= y /\ y <= z
  BY <1>1, <1>3, <1>4, <1>5
<1> HIDE DEF x, y, z
<1>7. x <= z
  BY <1>6
<1> QED
  BY <1>7 DEF x, z

\* Over its life a connection carries no more than limit bytes for each
\* sampling period that has begun: the rate asked for, and one sample more.
THEOREM RateKeptAlways == FlowSpec => []RateKept
BY RateFromSamples, FlowInvariance, PTL

-----------------------------------------------------------------------------
(* The bitset.                                                               *)

\* f is the loop of BitsetOf as far as m
BitsTo(f, n, bits, m) ==
  f = [i \in 0 .. m |-> IF i = 0 THEN NewBitset(n)
                        ELSE IF i - 1 \in bits THEN SetBit(f[i - 1], i - 1)
                        ELSE f[i - 1]]

\* The loop of BitsetOf is a function
LEMMA BitsExist ==
  ASSUME NEW n, NEW bits, NEW m \in Nat
  PROVE  \E f : BitsTo(f, n, bits, m)
<1> DEFINE next(b, i) == IF i - 1 \in bits THEN SetBit(b, i - 1) ELSE b
           S == {k \in Nat : \E f : BitsTo(f, n, bits, k)}
<1>1. 0 \in S
  <2> DEFINE f == [i \in 0 .. 0 |-> NewBitset(n)]
  <2>1. BitsTo(f, n, bits, 0)
    BY DEF BitsTo
  <2> HIDE DEF f
  <2> QED BY <2>1
<1>2. ASSUME NEW k \in S PROVE k + 1 \in S
  <2>1. PICK f : BitsTo(f, n, bits, k)
    OBVIOUS
  <2>2. \A i \in 0 .. k : f[i] = IF i = 0 THEN NewBitset(n) ELSE next(f[i - 1], i)
    BY <2>1 DEF BitsTo
  <2> HIDE DEF next
  <2> DEFINE g == [i \in 0 .. k + 1 |-> IF i = k + 1 THEN next(f[k], k + 1) ELSE f[i]]
  <2>3. ASSUME NEW i \in 0 .. k + 1
        PROVE  g[i] = IF i = 0 THEN NewBitset(n) ELSE next(g[i - 1], i)
    <3>1. CASE i = k + 1
      <4>1. i # 0 /\ i - 1 = k /\ k \in 0 .. k + 1 /\ k # k + 1
        BY <3>1
      <4>2. g[k] = f[k] /\ g[i] = next(f[k], i)
        BY <3>1, <4>1
      <4> HIDE DEF g
      <4> QED BY <4>1, <4>2
    <3>2. CASE i # k + 1
      <4>1. i \in 0 .. k
        BY <3>2
      <4>2. g[i] = f[i] /\ f[i] = IF i = 0 THEN NewBitset(n) ELSE next(f[i - 1], i)
        BY <2>2, <3>2, <4>1
      <4>3. i # 0 => g[i - 1] = f[i - 1]
        BY <4>1
      <4> HIDE DEF g
      <4> QED BY <4>2, <4>3
    <3> QED BY <3>1, <3>2
  <2>4. g = [i \in 0 .. k + 1 |-> g[i]] /\ k + 1 \in Nat
    OBVIOUS
  <2> HIDE DEF g
  <2>5. BitsTo(g, n, bits, k + 1)
    BY <2>3, <2>4 DEF BitsTo, next
  <2> QED BY <2>4, <2>5
<1>3. S = Nat
  <2> S \in SUBSET Nat
    OBVIOUS
  <2> HIDE DEF S
  <2> QED BY <1>1, <1>2, InductionBySet
<1>4. m \in S
  <2> HIDE DEF S
  <2> QED BY <1>3
<1> QED BY <1>4

\* A mask is a number
LEMMA MaskIs == ASSUME NEW i \in Nat PROVE Mask(i) \in Int
<1>1. i % ByteBits \in 0 .. ByteBits - 1
  BY ByteAssumption, Division
<1>2. PICK e \in Nat : e = ByteBits - 1 - (i % ByteBits)
  BY <1>1, ByteAssumption
<1>3. 2 ^ e \in Int
  BY SMTT(30)
<1> QED BY <1>2, <1>3 DEF Mask

\* A bitset is a sequence of bytes
LEMMA BitsetIs ==
  ASSUME NEW n \in Nat, NEW bits
  PROVE  BitsetOf(n, bits) \in Seq(Int)
<1>1. PICK K \in Nat : K = (n + ByteBits - 1) \div ByteBits
  <2>1. n + ByteBits - 1 \in Nat
    BY ByteAssumption
  <2> QED BY <2>1, ByteAssumption, Division
<1> DEFINE f == CHOOSE g : g = [i \in 0 .. n |-> IF i = 0 THEN NewBitset(n)
                        ELSE IF i - 1 \in bits THEN SetBit(g[i - 1], i - 1)
                        ELSE g[i - 1]]
<1>2. BitsTo(f, n, bits, n)
  <2>1. PICK g : BitsTo(g, n, bits, n)
    BY BitsExist
  <2> QED BY <2>1 DEF BitsTo
<1>3. BitsetOf(n, bits) = f[n]
  BY DEF BitsetOf
<1> HIDE DEF f
<1>4. \A i \in 0 .. n : f[i] = IF i = 0 THEN NewBitset(n)
                               ELSE IF i - 1 \in bits THEN SetBit(f[i - 1], i - 1) ELSE f[i - 1]
  BY <1>2 DEF BitsTo
<1> DEFINE S == {m \in Nat : m <= n => f[m] \in [1 .. K -> Int]}
<1>5. 0 \in S
  <2>1. f[0] = NewBitset(n)
    BY <1>4
  <2> QED BY <1>1, <2>1 DEF NewBitset
<1>6. ASSUME NEW m \in S PROVE m + 1 \in S
  <2>1. ASSUME m + 1 <= n PROVE f[m + 1] \in [1 .. K -> Int]
    <3>1. PICK b : b = f[m] /\ b \in [1 .. K -> Int]
      BY <2>1
    <3>2. m + 1 \in 0 .. n /\ m + 1 # 0 /\ (m + 1) - 1 = m
      BY <2>1
    <3>3. f[m + 1] = SetBit(b, m) \/ f[m + 1] = b
      BY <1>4, <3>1, <3>2
    <3>4. SetBit(b, m) \in [1 .. K -> Int]
      <4>1. Mask(m) \in Int
        BY MaskIs
      <4>2. ASSUME NEW i, NEW x \in Int PROVE [b EXCEPT ![i] = b[i] + x] \in [1 .. K -> Int]
        <5>1. CASE i \in 1 .. K
          <6>1. b[i] + x \in Int
            BY <3>1, <5>1
          <6> QED BY <3>1, <6>1
        <5>2. CASE i \notin 1 .. K
          BY <3>1, <5>2
        <5> QED BY <5>1, <5>2
      <4> DEFINE i == m \div ByteBits + 1
      <4>3. [b EXCEPT ![i] = b[i] + Mask(m)] \in [1 .. K -> Int]
        <5> HIDE DEF i
        <5> QED BY <4>1, <4>2
      <4> QED BY <3>1, <4>3 DEF SetBit
    <3> QED BY <3>1, <3>3, <3>4
  <2>2. m + 1 \in Nat
    OBVIOUS
  <2> QED BY <2>1, <2>2
<1>7. S = Nat
  <2> S \in SUBSET Nat
    OBVIOUS
  <2> HIDE DEF S
  <2> QED BY <1>5, <1>6, InductionBySet
<1>8. f[n] \in [1 .. K -> Int]
  <2>1. n \in S
    <3> HIDE DEF S
    <3> QED BY <1>7
  <2> QED BY <2>1
<1> QED BY <1>3, <1>8

-----------------------------------------------------------------------------
(* The bytes of a connection.                                                *)

\* a byte of the stream: its message and its position
Byte == Nat \X Nat

\* the messages of a connection, either way
Messages == [kind : {"REQUEST", "BITFIELD", "PIECE", "ALIVE"}, piece : Nat, block : Nat, data : Seq(Int)]

\* the bytes of message n; the frames behind message g
FrameOf(snt, n) == [j \in 1 .. LenBytes + Payload(snt[n]) |-> <<n, j>>]
Frames(snt, g) == [k \in 1 .. Len(snt) - g |-> FrameOf(snt, g + k)]

\* slices, payload and wire hold just the frames not delivered
StreamOK(snt, sl, pl, w, g) ==
  /\ snt \in Seq(Messages) /\ g \in 0 .. Len(snt)
  /\ sl \in Seq(Byte) /\ pl \in Seq(Byte) /\ w \in Seq(Byte)
  /\ w \o sl \o pl = FlattenSeq(Frames(snt, g))

\* Only a keep-alive has no payload
LEMMA PayloadIs ==
  ASSUME NEW m \in Messages
  PROVE  Payload(m) \in Nat /\ (Payload(m) = 0 <=> m.kind = "ALIVE")
<1>1. Len(m.data) \in Nat
  BY DEF Messages
<1> QED BY <1>1, FramesAssumption DEF Payload

\* A frame begins with the first byte of its message
LEMMA FrameIs ==
  ASSUME NEW snt \in Seq(Messages), NEW n \in 1 .. Len(snt)
  PROVE  /\ FrameOf(snt, n) \in Seq(Byte) /\ Len(FrameOf(snt, n)) = LenBytes + Payload(snt[n])
         /\ Len(FrameOf(snt, n)) \in Nat \ {0}
         /\ FrameOf(snt, n)[1] = <<n, 1>>
<1>1. PICK z \in Nat \ {0} : z = LenBytes + Payload(snt[n])
  <2>1. snt[n] \in Messages
    OBVIOUS
  <2>2. Payload(snt[n]) \in Nat
    BY <2>1, PayloadIs
  <2> QED BY <2>2, FramesAssumption
<1>2. n \in Nat
  OBVIOUS
<1>3. FrameOf(snt, n) = [j \in 1 .. z |-> <<n, j>>]
  BY <1>1 DEF FrameOf
<1>4. \A j \in 1 .. z : <<n, j>> \in Byte
  BY <1>2 DEF Byte
<1>5. FrameOf(snt, n) \in [1 .. z -> Byte]
  BY <1>3, <1>4
<1>6. FrameOf(snt, n) \in Seq(Byte) /\ Len(FrameOf(snt, n)) = z
  BY <1>5
<1> QED BY <1>1, <1>3, <1>6

\* The frames behind message g
LEMMA FramesAre ==
  ASSUME NEW snt \in Seq(Messages), NEW g \in 0 .. Len(snt)
  PROVE  /\ Frames(snt, g) \in Seq(Seq(Byte)) /\ Len(Frames(snt, g)) = Len(snt) - g
         /\ \A k \in 1 .. Len(snt) - g : Frames(snt, g)[k] = FrameOf(snt, g + k)
<1>1. PICK z \in Nat : z = Len(snt) - g
  BY Len(snt) \in Nat
<1>2. ASSUME NEW k \in 1 .. z PROVE FrameOf(snt, g + k) \in Seq(Byte)
  <2>1. g + k \in 1 .. Len(snt)
    BY <1>1
  <2> QED BY <2>1, FrameIs
<1>3. Frames(snt, g) = [k \in 1 .. z |-> FrameOf(snt, g + k)]
  BY <1>1 DEF Frames
<1>4. Frames(snt, g) \in [1 .. z -> Seq(Byte)]
  BY <1>2, <1>3
<1>5. Frames(snt, g) \in Seq(Seq(Byte)) /\ Len(Frames(snt, g)) = z
  BY <1>4
<1> QED BY <1>1, <1>3, <1>5

\* Nothing was sent yet
LEMMA StreamEmpty == StreamOK(<<>>, <<>>, <<>>, <<>>, 0)
<1>1. <<>> \in Seq(Messages) /\ Len(<<>>) = 0 /\ <<>> \in Seq(Byte)
  OBVIOUS
<1>2. Frames(<<>>, 0) = <<>>
  <2>1. 0 \in 0 .. Len(<<>>) /\ Len(<<>>) - 0 = 0
    BY <1>1
  <2>2. Frames(<<>>, 0) \in Seq(Seq(Byte)) /\ Len(Frames(<<>>, 0)) = Len(<<>>) - 0
    BY <1>1, <2>1, FramesAre
  <2>3. \A s \in Seq(Seq(Byte)) : Len(s) = 0 => s = <<>>
    OBVIOUS
  <2> QED BY <2>1, <2>2, <2>3
<1>3. FlattenSeq(<<>>) = <<>>
  BY DEF FlattenSeq
<1>4. <<>> \o <<>> \o <<>> = <<>>
  OBVIOUS
<1> QED BY <1>1, <1>2, <1>3, <1>4 DEF StreamOK

\* Nothing added
LEMMA CatEmpty ==
  ASSUME NEW V, NEW x \in Seq(V)
  PROVE  x \o <<>> = x /\ <<>> \o x = x
OBVIOUS

\* The length of two
LEMMA CatIs ==
  ASSUME NEW V, NEW x \in Seq(V), NEW y \in Seq(V)
  PROVE  x \o y \in Seq(V) /\ Len(x \o y) = Len(x) + Len(y)
OBVIOUS

\* the writer takes the next message
Taken(snt, m, w, g, more, sl, pl) ==
  /\ StreamOK(more, sl, pl, w, g) /\ Len(sl) = LenBytes

\* the two Writes of message n
LengthOf(n) == [j \in 1 .. LenBytes |-> <<n, j>>]
BodyOf(n, m) == [j \in 1 .. Payload(m) |-> <<n, LenBytes + j>>]

\* The writer takes the next message
LEMMA StreamTake ==
  ASSUME NEW snt, NEW w, NEW g, StreamOK(snt, <<>>, <<>>, w, g), NEW m \in Messages
  PROVE  Taken(snt, m, w, g, Append(snt, m), LengthOf(Len(snt) + 1), BodyOf(Len(snt) + 1, m))
<1> DEFINE more == Append(snt, m)
           sl == LengthOf(Len(snt) + 1)
           pl == BodyOf(Len(snt) + 1, m)
<1>0. /\ more = Append(snt, m)
      /\ sl = [j \in 1 .. LenBytes |-> <<Len(more), j>>]
      /\ pl = [j \in 1 .. Payload(m) |-> <<Len(more), LenBytes + j>>]
  <2>1. snt \in Seq(Messages)
    BY DEF StreamOK
  <2>2. Len(more) = Len(snt) + 1
    BY <2>1
  <2> HIDE DEF more
  <2> QED BY <2>2 DEF more, LengthOf, BodyOf
<1> HIDE DEF more, sl, pl
<1>1. snt \in Seq(Messages) /\ g \in 0 .. Len(snt) /\ w \in Seq(Byte) /\ Len(snt) \in Nat
  BY DEF StreamOK
<1>2. /\ more \in Seq(Messages) /\ Len(more) = Len(snt) + 1 /\ more[Len(more)] = m
      /\ \A k \in 1 .. Len(snt) : more[k] = snt[k]
      /\ g \in 0 .. Len(more) /\ Len(more) \in 1 .. Len(more) /\ Len(more) \in Nat
  BY <1>0, <1>1
<1>3. PICK a \in Nat \ {0}, b \in Nat, n \in Nat : a = LenBytes /\ b = Payload(m) /\ n = Len(more)
  BY <1>2, PayloadIs, FramesAssumption
<1>4. sl \in Seq(Byte) /\ Len(sl) = a /\ sl = [j \in 1 .. a |-> <<n, j>>]
  <2>1. sl = [j \in 1 .. a |-> <<n, j>>]
    BY <1>0, <1>3
  <2>2. \A j \in 1 .. a : <<n, j>> \in Byte
    BY DEF Byte
  <2>3. sl \in [1 .. a -> Byte]
    BY <2>1, <2>2
  <2>4. \A s \in [1 .. a -> Byte] : s \in Seq(Byte) /\ Len(s) = a
    OBVIOUS
  <2> QED BY <2>1, <2>3, <2>4
<1>5. pl \in Seq(Byte) /\ Len(pl) = b /\ pl = [j \in 1 .. b |-> <<n, a + j>>]
  <2>1. pl = [j \in 1 .. b |-> <<n, a + j>>]
    BY <1>0, <1>3
  <2>2. \A j \in 1 .. b : <<n, a + j>> \in Byte
    BY DEF Byte
  <2>3. pl \in [1 .. b -> Byte]
    BY <2>1, <2>2
  <2>4. \A s \in [1 .. b -> Byte] : s \in Seq(Byte) /\ Len(s) = b
    OBVIOUS
  <2> QED BY <2>1, <2>3, <2>4
<1>6. sl \o pl = FrameOf(more, n)
  <2>1. FrameOf(more, n) = [j \in 1 .. a + b |-> <<n, j>>]
    BY <1>2, <1>3 DEF FrameOf
  <2>2. Joined(Byte, sl \o pl, sl, pl, a, b)
    BY <1>4, <1>5, CatParts
  <2>3. ASSUME NEW j \in 1 .. a + b PROVE (sl \o pl)[j] = <<n, j>>
    <3>1. CASE j <= a
      <4>1. j \in 1 .. a
        BY <3>1
      <4>2. (sl \o pl)[j] = sl[j]
        BY <2>2, <4>1 DEF Joined
      <4> QED BY <4>1, <4>2, <1>4
    <3>2. CASE ~(j <= a)
      <4>1. j \in a + 1 .. a + b /\ j - a \in 1 .. b /\ a + (j - a) = j
        BY <3>2
      <4>2. (sl \o pl)[j] = pl[j - a]
        BY <2>2, <4>1 DEF Joined
      <4> QED BY <4>1, <4>2, <1>5
    <3> QED BY <3>1, <3>2
  <2>4. sl \o pl \in Seq(Byte) /\ Len(sl \o pl) = a + b
    BY <2>2 DEF Joined
  <2>5. \A s \in Seq(Byte) : Len(s) = a + b => s = [j \in 1 .. a + b |-> s[j]]
    OBVIOUS
  <2>6. sl \o pl = [j \in 1 .. a + b |-> (sl \o pl)[j]]
    BY <2>4, <2>5
  <2> HIDE DEF FrameOf
  <2> QED BY <2>1, <2>3, <2>6
<1>7. Frames(more, g) = Append(Frames(snt, g), FrameOf(more, n))
  <2>1. /\ Frames(snt, g) \in Seq(Seq(Byte)) /\ Len(Frames(snt, g)) = Len(snt) - g
        /\ \A k \in 1 .. Len(snt) - g : Frames(snt, g)[k] = FrameOf(snt, g + k)
    BY <1>1, FramesAre
  <2>2. /\ Frames(more, g) \in Seq(Seq(Byte)) /\ Len(Frames(more, g)) = Len(more) - g
        /\ \A k \in 1 .. Len(more) - g : Frames(more, g)[k] = FrameOf(more, g + k)
    BY <1>2, FramesAre
  <2>3. FrameOf(more, n) \in Seq(Byte)
    BY <1>2, <1>3, FrameIs
  <2>4. PICK z \in Nat : z = Len(snt) - g /\ z + 1 = Len(more) - g /\ g + (z + 1) = n
    <3>1. Len(snt) - g \in Nat /\ (Len(snt) - g) + 1 = (Len(snt) + 1) - g
          /\ g + ((Len(snt) - g) + 1) = Len(snt) + 1
      BY <1>1
    <3> QED BY <3>1, <1>2, <1>3
  <2>5. ASSUME NEW k \in 1 .. z PROVE FrameOf(more, g + k) = FrameOf(snt, g + k)
    <3>1. g + k \in 1 .. Len(snt)
      BY <1>1, <2>4
    <3>2. more[g + k] = snt[g + k]
      BY <1>2, <3>1
    <3> QED BY <3>2 DEF FrameOf
  <2> DEFINE x == Frames(snt, g)
             y == Frames(more, g)
             v == FrameOf(more, n)
  <2>6. x \in Seq(Seq(Byte)) /\ y \in Seq(Seq(Byte)) /\ v \in Seq(Byte) /\ Len(x) = z /\ Len(y) = z + 1
        /\ y[z + 1] = v /\ \A k \in 1 .. z : y[k] = x[k]
    BY <2>1, <2>2, <2>3, <2>4, <2>5
  <2> HIDE DEF x, y, v
  <2>7. y = Append(x, v)
    BY <2>6
  <2> QED BY <2>7 DEF x, y, v
<1>8. w = FlattenSeq(Frames(snt, g))
  <2>1. w \o <<>> \o <<>> = FlattenSeq(Frames(snt, g))
    BY DEF StreamOK
  <2>2. w \o <<>> = w
    BY <1>1, CatEmpty
  <2> QED BY <2>1, <2>2
<1>9. FlattenSeq(Frames(more, g)) = w \o (sl \o pl)
  <2>1. Frames(snt, g) \in Seq(Seq(Byte)) /\ FrameOf(more, n) \in Seq(Byte)
    BY <1>1, <1>2, <1>3, FramesAre, FrameIs
  <2>2. FlattenSeq(Append(Frames(snt, g), FrameOf(more, n))) =
          FlattenSeq(Frames(snt, g)) \o FrameOf(more, n)
    BY <2>1, FlattenLast
  <2> QED BY <2>2, <1>6, <1>7, <1>8
<1>10. (w \o sl) \o pl = w \o (sl \o pl)
  <2>1. Cat(Cat(w, sl), pl) = Cat(w, Cat(sl, pl))
    <3>1. w \in Seq(Byte) /\ sl \in Seq(Byte) /\ pl \in Seq(Byte)
      BY <1>1, <1>4, <1>5
    <3> QED BY <3>1, CatAssociative
  <2> QED BY <2>1 DEF Cat
<1>11. StreamOK(more, sl, pl, w, g)
  BY <1>1, <1>2, <1>4, <1>5, <1>9, <1>10 DEF StreamOK
<1> QED BY <1>3, <1>4, <1>11 DEF Taken, more, sl, pl

\* A sequence cut in two
LEMMA Split ==
  ASSUME NEW V, NEW s \in Seq(V), NEW n \in 0 .. Len(s)
  PROVE  /\ SubSeq(s, 1, n) \in Seq(V) /\ Len(SubSeq(s, 1, n)) = n
         /\ Rest(s, n) \in Seq(V) /\ Len(Rest(s, n)) = Len(s) - n
         /\ \A k \in 1 .. n : SubSeq(s, 1, n)[k] = s[k]
         /\ SubSeq(s, 1, n) \o Rest(s, n) = s
<1>1. PICK a \in Nat, b \in Nat : a = n /\ b = Len(s) - n /\ Len(s) = a + b
  <2>1. n \in Nat /\ Len(s) - n \in Nat /\ Len(s) = n + (Len(s) - n)
    BY Len(s) \in Nat
  <2> QED BY <2>1
<1>2. \A k \in 1 .. a + b : s[k] \in V
  BY <1>1
<1>3. /\ SubSeq(s, 1, a) \in Seq(V) /\ Len(SubSeq(s, 1, a)) = a
      /\ \A k \in 1 .. a : SubSeq(s, 1, a)[k] = s[k]
  <2>1. \A k \in 1 .. a : s[k] \in V
    BY <1>2
  <2>2. /\ SubSeq(s, 1, a) \in Seq(V)
        /\ Len(SubSeq(s, 1, a)) = IF 1 <= a THEN a - 1 + 1 ELSE 0
        /\ \A k \in 1 .. (a - 1 + 1) : SubSeq(s, 1, a)[k] = s[1 + k - 1]
    BY <2>1, SubSeqProperties
  <2>3. (IF 1 <= a THEN a - 1 + 1 ELSE 0) = a /\ a - 1 + 1 = a /\ \A k \in 1 .. a : 1 + k - 1 = k
    OBVIOUS
  <2> QED BY <2>2, <2>3
<1>4. /\ SubSeq(s, a + 1, a + b) \in Seq(V) /\ Len(SubSeq(s, a + 1, a + b)) = b
      /\ \A k \in 1 .. b : SubSeq(s, a + 1, a + b)[k] = s[a + k]
  <2>1. PICK m \in Nat, e \in Nat : m = a + 1 /\ e = a + b
    OBVIOUS
  <2>2. ASSUME NEW k \in m .. e PROVE s[k] \in V
    <3>1. k \in 1 .. a + b
      BY <2>1
    <3> QED BY <1>2, <3>1
  <2>3. /\ SubSeq(s, m, e) \in Seq(V)
        /\ Len(SubSeq(s, m, e)) = IF m <= e THEN e - m + 1 ELSE 0
        /\ \A k \in 1 .. (e - m + 1) : SubSeq(s, m, e)[k] = s[m + k - 1]
    BY <2>2, SubSeqProperties
  <2>4. /\ (IF m <= e THEN e - m + 1 ELSE 0) = b /\ e - m + 1 = b
        /\ \A k \in 1 .. b : m + k - 1 = a + k
    BY <2>1
  <2> QED BY <2>1, <2>3, <2>4
<1> DEFINE x == SubSeq(s, 1, a)
           y == SubSeq(s, a + 1, a + b)
<1>5. Joined(V, x \o y, x, y, a, b)
  <2> HIDE DEF x, y
  <2> QED BY <1>3, <1>4, CatParts DEF x, y
<1>6. ASSUME NEW k \in 1 .. a + b PROVE (x \o y)[k] = s[k]
  <2>1. CASE k <= a
    <3>1. k \in 1 .. a
      BY <2>1
    <3>2. (x \o y)[k] = x[k]
      BY <1>5, <3>1 DEF Joined
    <3> QED BY <1>3, <3>1, <3>2
  <2>2. CASE ~(k <= a)
    <3>1. k \in a + 1 .. a + b /\ k - a \in 1 .. b /\ a + (k - a) = k
      BY <2>2
    <3>2. (x \o y)[k] = y[k - a]
      BY <1>5, <3>1 DEF Joined
    <3> QED BY <1>4, <3>1, <3>2
  <2> QED BY <2>1, <2>2
<1>7. x \o y \in Seq(V) /\ Len(x \o y) = a + b
  BY <1>5 DEF Joined
<1> HIDE DEF x, y
<1>8. x \o y = s
  <2>1. \A t \in Seq(V) : Len(t) = a + b => t = [k \in 1 .. a + b |-> t[k]]
    OBVIOUS
  <2>2. x \o y = [k \in 1 .. a + b |-> (x \o y)[k]] /\ s = [k \in 1 .. a + b |-> s[k]]
    BY <1>1, <1>7, <2>1
  <2> QED BY <1>6, <2>2
<1>9. Rest(s, n) = y
  BY <1>1 DEF Rest, y
<1> QED BY <1>1, <1>3, <1>4, <1>8, <1>9 DEF x, y

\* the connection takes n bytes
LEMMA StreamChunk ==
  ASSUME NEW snt, NEW sl, NEW pl, NEW w, NEW g, StreamOK(snt, sl, pl, w, g), NEW n \in 0 .. Len(sl)
  PROVE  StreamOK(snt, Rest(sl, n), pl, w \o SubSeq(sl, 1, n), g) /\ Len(Rest(sl, n)) = Len(sl) - n
<1>1. /\ sl \in Seq(Byte) /\ pl \in Seq(Byte) /\ w \in Seq(Byte)
      /\ (w \o sl) \o pl = FlattenSeq(Frames(snt, g))
  BY DEF StreamOK
<1> DEFINE x == SubSeq(sl, 1, n)
           y == Rest(sl, n)
<1>2. x \in Seq(Byte) /\ y \in Seq(Byte) /\ x \o y = sl /\ Len(y) = Len(sl) - n
  BY <1>1, Split
<1> HIDE DEF x, y
<1>3. Cat(Cat(w, x), y) = Cat(w, sl)
  <2>1. Cat(Cat(w, x), y) = Cat(w, Cat(x, y))
    BY <1>1, <1>2, CatAssociative
  <2> QED BY <1>2, <2>1 DEF Cat
<1>4. ((w \o x) \o y) \o pl = FlattenSeq(Frames(snt, g))
  BY <1>1, <1>3 DEF Cat
<1>5. w \o x \in Seq(Byte)
  BY <1>1, <1>2, CatIs
<1> QED BY <1>1, <1>2, <1>4, <1>5 DEF StreamOK, x, y

\* the second Write of a message begins
LEMMA StreamPayload ==
  ASSUME NEW snt, NEW pl, NEW w, NEW g, StreamOK(snt, <<>>, pl, w, g)
  PROVE  StreamOK(snt, pl, <<>>, w, g)
<1>1. /\ <<>> \in Seq(Byte) /\ pl \in Seq(Byte) /\ w \in Seq(Byte)
      /\ (w \o <<>>) \o pl = FlattenSeq(Frames(snt, g))
  BY DEF StreamOK
<1>2. w \o <<>> = w /\ w \o pl \in Seq(Byte)
  BY <1>1, CatEmpty, CatIs
<1>3. (w \o pl) \o <<>> = w \o pl
  BY <1>2, CatEmpty
<1> QED BY <1>1, <1>2, <1>3 DEF StreamOK

\* what is at the head of a sequence of two ways to see it
LEMMA Heads ==
  ASSUME NEW V, NEW a \in Seq(V), NEW b \in Seq(V), NEW c \in Seq(V), NEW d \in Seq(V),
         a \o b = c \o d
  PROVE  /\ \A k \in 1 .. Len(a) : k <= Len(c) => a[k] = c[k]
         /\ Len(c) <= Len(a) => /\ SubSeq(a, 1, Len(c)) = c
                                /\ Rest(a, Len(c)) \o b = d
<1>1. PICK la \in Nat, lb \in Nat, lc \in Nat, ld \in Nat :
        la = Len(a) /\ lb = Len(b) /\ lc = Len(c) /\ ld = Len(d)
  OBVIOUS
<1>2. Joined(V, a \o b, a, b, la, lb) /\ Joined(V, c \o d, c, d, lc, ld)
  BY <1>1, CatParts
<1> DEFINE s == a \o b
<1>3. /\ s \in Seq(V) /\ Len(s) = la + lb /\ Len(s) = lc + ld
      /\ \A k \in 1 .. la : s[k] = a[k]
      /\ \A k \in 1 .. lc : s[k] = c[k]
      /\ \A k \in la + 1 .. la + lb : s[k] = b[k - la]
      /\ \A k \in lc + 1 .. lc + ld : s[k] = d[k - lc]
  BY <1>2 DEF Joined
<1> HIDE DEF s
<1>4. ASSUME NEW k \in 1 .. la, k <= lc PROVE a[k] = c[k]
  <2>1. k \in 1 .. lc
    BY <1>4
  <2> QED BY <1>3, <2>1
<1>5. ASSUME lc <= la PROVE SubSeq(a, 1, lc) = c /\ Rest(a, lc) \o b = d
  <2>1. lc \in 0 .. Len(a)
    BY <1>1, <1>5
  <2> DEFINE x == SubSeq(a, 1, lc)
             y == Rest(a, lc)
  <2>2. /\ x \in Seq(V) /\ Len(x) = lc /\ y \in Seq(V) /\ Len(y) = la - lc
        /\ \A k \in 1 .. lc : x[k] = a[k]
        /\ x \o y = a
    BY <1>1, <2>1, Split
  <2> HIDE DEF x, y
  <2>3. x = c
    <3>1. \A k \in 1 .. lc : x[k] = c[k]
      <4>1. \A k \in 1 .. lc : k \in 1 .. la
        BY <1>5
      <4> QED BY <1>4, <2>2, <4>1
    <3>2. \A t \in Seq(V) : Len(t) = lc => t = [k \in 1 .. lc |-> t[k]]
      OBVIOUS
    <3>3. x = [k \in 1 .. lc |-> x[k]] /\ c = [k \in 1 .. lc |-> c[k]]
      BY <1>1, <2>2, <3>2
    <3> QED BY <3>1, <3>3
  <2>4. Cat(Cat(x, y), b) = Cat(x, Cat(y, b))
    BY <2>2, CatAssociative
  <2>5. c \o d = c \o (y \o b)
    BY <2>2, <2>3, <2>4 DEF Cat
  <2>6. y \o b \in Seq(V) /\ Len(y \o b) = ld
    <3>1. y \o b \in Seq(V) /\ Len(y \o b) = Len(y) + Len(b)
      BY <2>2, CatIs
    <3>2. (la - lc) + lb = ld
      BY <1>3
    <3> QED BY <1>1, <2>2, <3>1, <3>2
  <2>7. Joined(V, c \o (y \o b), c, y \o b, lc, ld)
    BY <1>1, <2>6, CatParts
  <2>8. ASSUME NEW k \in 1 .. ld PROVE (y \o b)[k] = d[k]
    <3>1. lc + k \in lc + 1 .. lc + ld /\ (lc + k) - lc = k
      OBVIOUS
    <3>2. (c \o (y \o b))[lc + k] = (y \o b)[k]
      BY <2>7, <3>1 DEF Joined
    <3>3. (c \o d)[lc + k] = d[k]
      BY <1>2, <3>1 DEF Joined
    <3> QED BY <2>5, <3>2, <3>3
  <2>9. y \o b = d
    <3>1. \A t \in Seq(V) : Len(t) = ld => t = [k \in 1 .. ld |-> t[k]]
      OBVIOUS
    <3>2. y \o b = [k \in 1 .. ld |-> (y \o b)[k]] /\ d = [k \in 1 .. ld |-> d[k]]
      BY <1>1, <2>6, <3>1
    <3> QED BY <2>8, <3>2
  <2> QED BY <2>3, <2>9 DEF x, y
<1> QED BY <1>1, <1>4, <1>5

\* The reader finds the next frame at the head of the connection, whole when
\* all its bytes are there.
LEMMA StreamRead ==
  ASSUME NEW snt, NEW sl, NEW pl, NEW w, NEW g, StreamOK(snt, sl, pl, w, g), Len(w) >= LenBytes
  PROVE  /\ g + 1 \in 1 .. Len(snt) /\ w[1] = <<g + 1, 1>>
         /\ LET size == LenBytes + Payload(snt[g + 1])
            IN  Len(w) >= size => /\ SubSeq(w, 1, size) = FrameOf(snt, g + 1)
                                  /\ StreamOK(snt, sl, pl, Rest(w, size), g + 1)
<1>1. /\ snt \in Seq(Messages) /\ g \in 0 .. Len(snt) /\ Len(snt) \in Nat /\ g \in Nat
      /\ sl \in Seq(Byte) /\ pl \in Seq(Byte) /\ w \in Seq(Byte) /\ Len(w) \in Nat
      /\ (w \o sl) \o pl = FlattenSeq(Frames(snt, g))
  BY DEF StreamOK
<1> DEFINE tail == sl \o pl
<1>2. tail \in Seq(Byte)
  BY <1>1, CatIs
<1>3. w \o tail = FlattenSeq(Frames(snt, g))
  <2>1. Cat(Cat(w, sl), pl) = Cat(w, Cat(sl, pl))
    BY <1>1, CatAssociative
  <2> QED BY <1>1, <2>1 DEF Cat
<1> HIDE DEF tail
<1>4. Len(w) > 0
  BY <1>1, FramesAssumption
<1>5. g < Len(snt)
  <2>1. SUFFICES ASSUME g = Len(snt) PROVE FALSE
    BY <1>1
  <2>2. Frames(snt, g) \in Seq(Seq(Byte)) /\ Len(Frames(snt, g)) = 0
    <3>1. Len(snt) - g = 0
      BY <1>1, <2>1
    <3> QED BY <1>1, <3>1, FramesAre
  <2>3. FlattenSeq(Frames(snt, g)) = <<>>
    <3>1. \A s \in Seq(Seq(Byte)) : Len(s) = 0 => s = <<>>
      OBVIOUS
    <3>2. Frames(snt, g) = <<>>
      BY <2>2, <3>1
    <3> QED BY <2>2, <3>2 DEF FlattenSeq
  <2>4. Len(w \o tail) = Len(w) + Len(tail) /\ Len(tail) \in Nat
    BY <1>1, <1>2, CatIs
  <2> QED BY <1>1, <1>3, <1>4, <2>3, <2>4
<1>6. g + 1 \in 1 .. Len(snt) /\ g + 1 \in 0 .. Len(snt)
  BY <1>1, <1>5
<1> DEFINE f == FrameOf(snt, g + 1)
           rest == FlattenSeq(Frames(snt, g + 1))
<1>7. f \in Seq(Byte) /\ Len(f) = LenBytes + Payload(snt[g + 1]) /\ Len(f) \in Nat \ {0}
      /\ f[1] = <<g + 1, 1>>
  BY <1>1, <1>6, FrameIs
<1>8. rest \in Seq(Byte) /\ FlattenSeq(Frames(snt, g)) = f \o rest
  <2>1. /\ Frames(snt, g) \in Seq(Seq(Byte)) /\ Len(Frames(snt, g)) = Len(snt) - g
        /\ \A k \in 1 .. Len(snt) - g : Frames(snt, g)[k] = FrameOf(snt, g + k)
    BY <1>1, FramesAre
  <2>2. /\ Frames(snt, g + 1) \in Seq(Seq(Byte)) /\ Len(Frames(snt, g + 1)) = Len(snt) - (g + 1)
        /\ \A k \in 1 .. Len(snt) - (g + 1) : Frames(snt, g + 1)[k] = FrameOf(snt, (g + 1) + k)
    BY <1>1, <1>6, FramesAre
  <2>3. PICK z \in Nat : z = Len(snt) - (g + 1) /\ z + 1 = Len(snt) - g
    <3>1. Len(snt) - (g + 1) \in Nat /\ (Len(snt) - (g + 1)) + 1 = Len(snt) - g
      BY <1>1, <1>5
    <3> QED BY <3>1
  <2>4. \A k \in 1 .. z : (g + 1) + k = g + (k + 1) /\ k + 1 \in 1 .. z + 1
    BY <1>1
  <2>5. \A k \in 1 .. Len(Frames(snt, g + 1)) : Frames(snt, g + 1)[k] = Frames(snt, g)[k + 1]
    BY <2>1, <2>2, <2>3, <2>4
  <2>6. Frames(snt, g)[1] = f
    <3>1. 1 \in 1 .. z + 1
      BY <2>3
    <3> QED BY <2>1, <2>3, <3>1
  <2>7. Len(Frames(snt, g)) = Len(Frames(snt, g + 1)) + 1
    BY <2>1, <2>2, <2>3
  <2>8. FlattenSeq(Frames(snt, g)) = Frames(snt, g)[1] \o FlattenSeq(Frames(snt, g + 1))
    BY <2>1, <2>2, <2>5, <2>7, FlattenFirst
  <2>9. FlattenSeq(Frames(snt, g + 1)) \in Seq(Byte)
    BY <2>2, FlattenType
  <2> QED BY <2>6, <2>8, <2>9
<1> HIDE DEF f, rest
<1>9. w \o tail = f \o rest
  BY <1>3, <1>8
<1>10. /\ \A k \in 1 .. Len(w) : k <= Len(f) => w[k] = f[k]
       /\ Len(f) <= Len(w) => SubSeq(w, 1, Len(f)) = f /\ Rest(w, Len(f)) \o tail = rest
  BY <1>1, <1>2, <1>7, <1>8, <1>9, Heads
<1>11. w[1] = <<g + 1, 1>>
  <2>1. 1 \in 1 .. Len(w) /\ 1 <= Len(f)
    BY <1>1, <1>4, <1>7
  <2> QED BY <1>7, <1>10, <2>1
<1>12. ASSUME Len(w) >= Len(f)
       PROVE  SubSeq(w, 1, Len(f)) = f /\ StreamOK(snt, sl, pl, Rest(w, Len(f)), g + 1)
  <2>1. Len(f) <= Len(w) /\ Len(f) \in 0 .. Len(w)
    BY <1>1, <1>7, <1>12
  <2>2. PICK y \in Seq(Byte) : y = Rest(w, Len(f))
    BY <1>1, <2>1, Split
  <2>3. y \o tail = rest
    BY <1>10, <2>1, <2>2
  <2>4. (y \o sl) \o pl = rest
    <3>1. Cat(Cat(y, sl), pl) = Cat(y, Cat(sl, pl))
      BY <1>1, <2>2, CatAssociative
    <3> QED BY <2>3, <3>1 DEF Cat, tail
  <2>5. StreamOK(snt, sl, pl, y, g + 1)
    BY <1>1, <1>6, <2>2, <2>4 DEF StreamOK, rest
  <2> QED BY <1>10, <2>1, <2>2, <2>5
<1> QED BY <1>6, <1>7, <1>11, <1>12 DEF f

-----------------------------------------------------------------------------
(* What is on its way.                                                       *)

\* m names the one block that may be on request: the next of the active piece
Asked(l, act, rec, m) ==
  /\ m.piece \in PiecesOf(l) /\ m.piece = act
  /\ m.block \in 0 .. NumBlocks(l, m.piece) - 1 /\ rec = 0 .. m.block - 1

\* What is on its way: keep-alives, and one request, BITFIELD or answer at most.
\* An answer is for the block that was asked for, with the bytes for it or zeros.
Flight(l, act, rec, reqs, snt, g) ==
  /\ \A k \in 1 .. Len(reqs) :
       \/ reqs[k].kind = "ALIVE"
       \/ reqs[k].kind = "REQUEST" /\ Asked(l, act, rec, reqs[k])
  /\ \A n \in g + 1 .. Len(snt) :
       /\ snt[n].kind # "REQUEST"
       /\ snt[n].kind = "PIECE" =>
            /\ Asked(l, act, rec, snt[n])
            /\ BlockData(l, snt[n].piece, snt[n].block, snt[n].data)
  /\ \A j, k \in 1 .. Len(reqs) : reqs[j].kind = "ALIVE" \/ reqs[k].kind = "ALIVE" \/ j = k
  /\ \A j, k \in g + 1 .. Len(snt) : snt[j].kind = "ALIVE" \/ snt[k].kind = "ALIVE" \/ j = k
  /\ \A j \in 1 .. Len(reqs), k \in g + 1 .. Len(snt) :
       reqs[j].kind = "ALIVE" \/ snt[k].kind = "ALIVE"
  /\ Len(snt) = 0 => \A k \in 1 .. Len(reqs) : reqs[k].kind = "ALIVE"

\* a request that fits, or none
Requested(l, act, rec, old, new) ==
  \/ new = old
  \/ \E m \in Messages :
       new = Append(old, m) /\ m.kind = "REQUEST" /\ Asked(l, act, rec, m)

\* On a connection that begins nothing is on its way
LEMMA FlightNone ==
  ASSUME NEW l, NEW act, NEW rec
  PROVE  Flight(l, act, rec, <<>>, <<>>, 0)
BY DEF Flight

\* A message more at the end
LEMMA OneMoreMessage ==
  ASSUME NEW s \in Seq(Messages), NEW m \in Messages
  PROVE  /\ Append(s, m) \in Seq(Messages) /\ Len(Append(s, m)) = Len(s) + 1 /\ Len(s) \in Nat
         /\ Append(s, m)[Len(s) + 1] = m
         /\ \A k \in 1 .. Len(s) : Append(s, m)[k] = s[k]
         /\ \A k \in 1 .. Len(s) + 1 : k \in 1 .. Len(s) \/ k = Len(s) + 1
OBVIOUS

\* A BITFIELD comes first, a keep-alive later: neither is an answer to anything
\* that was asked
LEMMA FlightSent ==
  ASSUME NEW l, NEW act, NEW rec, NEW reqs \in Seq(Messages), NEW snt \in Seq(Messages),
         NEW g \in 0 .. Len(snt), Flight(l, act, rec, reqs, snt, g), NEW m \in Messages,
         \/ m.kind = "ALIVE" /\ Len(snt) # 0
         \/ m.kind = "BITFIELD" /\ Len(snt) = 0
  PROVE  Flight(l, act, rec, reqs, Append(snt, m), g)
<1> DEFINE more == Append(snt, m)
<1>1. /\ Len(more) = Len(snt) + 1 /\ Len(snt) \in Nat /\ more[Len(snt) + 1] = m /\ g \in Nat
      /\ \A k \in 1 .. Len(snt) : more[k] = snt[k]
  BY OneMoreMessage
<1> HIDE DEF more
<1>2. \A k \in g + 1 .. Len(more) : (k \in g + 1 .. Len(snt) /\ more[k] = snt[k]) \/ (k = Len(snt) + 1 /\ more[k] = m)
  <2>1. PICK z \in Nat : z = Len(snt)
    BY <1>1
  <2>2. \A k \in g + 1 .. z + 1 : (k \in g + 1 .. z /\ k \in 1 .. z) \/ k = z + 1
    BY <1>1
  <2> QED BY <1>1, <2>1, <2>2
<1>3. m.kind # "ALIVE" => \A k \in g + 1 .. Len(more) : k = Len(snt) + 1
  BY <1>1
<1>4. m.kind # "REQUEST" /\ m.kind # "PIECE"
  OBVIOUS
<1> QED BY <1>1, <1>2, <1>3, <1>4 DEF Flight, more

\* A keep-alive of the agent
LEMMA FlightAgentAlive ==
  ASSUME NEW l, NEW act, NEW rec, NEW reqs \in Seq(Messages), NEW snt, NEW g,
         Flight(l, act, rec, reqs, snt, g), NEW m \in Messages, m.kind = "ALIVE"
  PROVE  Flight(l, act, rec, Append(reqs, m), snt, g)
<1> DEFINE more == Append(reqs, m)
<1>1. /\ Len(more) = Len(reqs) + 1 /\ Len(reqs) \in Nat /\ more[Len(reqs) + 1] = m
      /\ \A k \in 1 .. Len(reqs) : more[k] = reqs[k]
  BY OneMoreMessage
<1> HIDE DEF more
<1>2. \A k \in 1 .. Len(more) : (k \in 1 .. Len(reqs) /\ more[k] = reqs[k]) \/ more[k] = m
  BY <1>1
<1> QED BY <1>1, <1>2 DEF Flight, more

\* The answer takes the place of its request
LEMMA FlightPiece ==
  ASSUME NEW l, NEW act, NEW rec, NEW reqs \in Seq(Messages), NEW snt \in Seq(Messages),
         NEW g \in 0 .. Len(snt), Flight(l, act, rec, reqs, snt, g), NEW m \in Messages,
         reqs # <<>>, Head(reqs).kind = "REQUEST", m.kind = "PIECE",
         m.piece = Head(reqs).piece, m.block = Head(reqs).block,
         BlockData(l, m.piece, m.block, m.data)
  PROVE  Flight(l, act, rec, Tail(reqs), Append(snt, m), g)
<1> DEFINE more == Append(snt, m)
           fewer == Tail(reqs)
<1>1. /\ Len(more) = Len(snt) + 1 /\ Len(snt) \in Nat /\ more[Len(snt) + 1] = m /\ g \in Nat
      /\ \A k \in 1 .. Len(snt) : more[k] = snt[k]
  BY OneMoreMessage
<1>2. /\ Len(fewer) = Len(reqs) - 1 /\ Len(reqs) \in Nat \ {0} /\ Head(reqs) = reqs[1]
      /\ \A k \in 1 .. Len(fewer) : fewer[k] = reqs[k + 1]
  OBVIOUS
<1> HIDE DEF more, fewer
<1>3. \A k \in g + 1 .. Len(more) : (k \in g + 1 .. Len(snt) /\ more[k] = snt[k]) \/ (k = Len(snt) + 1 /\ more[k] = m)
  <2>1. PICK z \in Nat : z = Len(snt)
    BY <1>1
  <2>2. \A k \in g + 1 .. z + 1 : (k \in g + 1 .. z /\ k \in 1 .. z) \/ k = z + 1
    BY <1>1
  <2> QED BY <1>1, <2>1, <2>2
<1>4. 1 \in 1 .. Len(reqs) /\ reqs[1].kind # "ALIVE" /\ Asked(l, act, rec, reqs[1])
  BY <1>2 DEF Flight
<1>5. \A k \in 1 .. Len(fewer) : k + 1 \in 1 .. Len(reqs) /\ k + 1 # 1 /\ fewer[k] = reqs[k + 1]
  BY <1>2
<1>6. \A k \in 1 .. Len(fewer) : fewer[k].kind = "ALIVE"
  BY <1>4, <1>5 DEF Flight
<1>7. \A k \in g + 1 .. Len(snt) : snt[k].kind = "ALIVE"
  BY <1>4 DEF Flight
<1>8. Asked(l, act, rec, m)
  BY <1>2, <1>4 DEF Asked
<1> QED BY <1>1, <1>3, <1>6, <1>7, <1>8 DEF Flight, more, fewer

\* What comes was the only thing on its way, so the next request is again
LEMMA FlightReceived ==
  ASSUME NEW l, NEW act, NEW rec, NEW reqs \in Seq(Messages), NEW snt \in Seq(Messages),
         NEW g \in 0 .. Len(snt), Flight(l, act, rec, reqs, snt, g),
         g + 1 \in 1 .. Len(snt), snt[g + 1].kind # "ALIVE",
         NEW a, NEW r, NEW new, Requested(l, a, r, reqs, new)
  PROVE  Flight(l, a, r, new, snt, g + 1) /\ new \in Seq(Messages)
<1>1. g \in Nat /\ Len(snt) \in Nat /\ g + 1 \in g + 1 .. Len(snt) /\ Len(snt) # 0
  OBVIOUS
<1>2. \A k \in 1 .. Len(reqs) : reqs[k].kind = "ALIVE"
  BY <1>1 DEF Flight
<1>3. \A k \in (g + 1) + 1 .. Len(snt) : k \in g + 1 .. Len(snt) /\ k # g + 1
  BY <1>1
<1>4. \A k \in (g + 1) + 1 .. Len(snt) : snt[k].kind = "ALIVE"
  BY <1>1, <1>3 DEF Flight
<1>5. CASE new = reqs
  BY <1>1, <1>2, <1>4, <1>5 DEF Flight
<1>6. ASSUME NEW m \in Messages, new = Append(reqs, m), m.kind = "REQUEST", Asked(l, a, r, m)
      PROVE  Flight(l, a, r, new, snt, g + 1) /\ new \in Seq(Messages)
  <2>1. /\ new \in Seq(Messages) /\ Len(new) = Len(reqs) + 1 /\ Len(reqs) \in Nat
        /\ new[Len(reqs) + 1] = m
        /\ \A k \in 1 .. Len(reqs) : new[k] = reqs[k]
    BY <1>6, OneMoreMessage
  <2>2. \A k \in 1 .. Len(new) : (k \in 1 .. Len(reqs) /\ new[k] = reqs[k]) \/ (k = Len(reqs) + 1 /\ new[k] = m)
    <3>1. PICK z \in Nat : z = Len(reqs)
      BY <2>1
    <3>2. \A k \in 1 .. z + 1 : (k \in 1 .. z /\ k \in 1 .. z) \/ k = z + 1
      BY <2>1
    <3> QED BY <2>1, <3>1, <3>2
  <2> QED BY <1>1, <1>2, <1>4, <1>6, <2>1, <2>2 DEF Flight
<1> QED BY <1>5, <1>6 DEF Requested

-----------------------------------------------------------------------------
(* The connection.                                                           *)

\* the states of a connection
Links == {"none", "dial", "header", "refused", "open", "closed"}

\* nothing in the connection
Quiet ==
  /\ requests = <<>> /\ sent = <<>> /\ slice = <<>> /\ payload = <<>> /\ wire = <<>> /\ got = 0
  /\ writer = "idle"

\* The connection: the stream is whole, the rates are kept, and nothing is in
\* it unless it is open.
StreamInv ==
  /\ requests \in Seq(Messages)
  /\ StreamOK(sent, slice, payload, wire, got)
  /\ FlowInv /\ left = Len(slice) /\ (writer = "idle" => slice = <<>>)
  /\ conns \in 0 .. MaxConns /\ link \in Links
  /\ link # "open" => Quiet

\* A Write of any length keeps the rates
LEMMA FlowWrite ==
  ASSUME FlowInv, NEW n \in Nat \ {0}, Write(n)
  PROVE  FlowInv'
<1> USE LimitPositive, RateAssumption
<1>0. limit' = limit
  BY DEF limit
<1>1. Measured'
  BY <1>0 DEF Write, monitor, Measured, FlowInv
<1> QED
  BY <1>0, <1>1 DEF Write, FlowInv, FlowTypeOK, Fits, monitor

\* A connection begins, or is gone
LEMMA AfreshStream ==
  ASSUME StreamInv, Afresh, link' \in Links, conns' \in 0 .. MaxConns
  PROVE  StreamInv'
<1>1. FlowInv'
  <2>1. New => FlowNext
    BY DEF FlowNext
  <2> QED BY <2>1, FlowStep DEF StreamInv, Afresh
<1>2. Quiet'
  BY DEF Quiet, Afresh, New
<1>3. left' = Len(slice')
  BY DEF Afresh, New
<1>4. StreamOK(sent', slice', payload', wire', got')
  BY <1>2, StreamEmpty DEF Quiet
<1> QED BY <1>1, <1>2, <1>3, <1>4 DEF StreamInv, Quiet

\* Nothing of it changes
LEMMA SameStream ==
  ASSUME StreamInv, UNCHANGED <<stream, flow>>, link' \in Links, conns' \in 0 .. MaxConns,
         link' = link \/ link # "open"
  PROVE  StreamInv'
<1>1. FlowInv'
  BY FlowStep DEF StreamInv
<1>2. /\ requests' = requests /\ sent' = sent /\ slice' = slice /\ payload' = payload /\ wire' = wire
      /\ got' = got /\ left' = left /\ writer' = writer
  BY DEF stream, flow
<1>3. Quiet' <=> Quiet
  BY <1>2 DEF Quiet
<1>4. StreamOK(sent, slice, payload, wire, got)'
  BY <1>2 DEF StreamInv
<1>5. link' # "open" => Quiet'
  BY <1>3 DEF StreamInv
<1> QED BY <1>1, <1>2, <1>4, <1>5 DEF StreamInv

\* A message is taken by the writer
LEMMA TakeStream ==
  ASSUME StreamInv, NEW m \in Messages, Take(m), requests' \in Seq(Messages)
  PROVE  StreamInv' /\ sent' = Append(sent, m)
<1>1. /\ link = "open" /\ writer = "idle" /\ payload = <<>> /\ sent' = Append(sent, m)
      /\ slice' = [j \in 1 .. LenBytes |-> <<Len(sent'), j>>]
      /\ payload' = [j \in 1 .. Payload(m) |-> <<Len(sent'), LenBytes + j>>]
      /\ Write(LenBytes) /\ link' = link /\ wire' = wire /\ got' = got /\ conns' = conns
  BY DEF Take
<1>2. slice = <<>> /\ StreamOK(sent, <<>>, <<>>, wire, got)
  BY <1>1 DEF StreamInv
<1>3. StreamOK(sent', slice', payload', wire, got) /\ Len(slice') = LenBytes
  <2>1. Len(sent') = Len(sent) + 1
    <3>1. sent \in Seq(Messages)
      BY <1>2 DEF StreamOK
    <3> QED BY <1>1, <3>1
  <2>2. slice' = LengthOf(Len(sent) + 1) /\ payload' = BodyOf(Len(sent) + 1, m)
    BY <1>1, <2>1 DEF LengthOf, BodyOf
  <2>3. Taken(sent, m, wire, got, Append(sent, m), LengthOf(Len(sent) + 1), BodyOf(Len(sent) + 1, m))
    BY <1>2, StreamTake
  <2> QED BY <1>1, <2>2, <2>3 DEF Taken
<1>4. FlowInv'
  BY <1>1, FlowWrite, FramesAssumption DEF StreamInv
<1>5. left' = Len(slice') /\ writer' # "idle"
  BY <1>1, <1>3 DEF Write
<1> QED BY <1>1, <1>3, <1>4, <1>5 DEF StreamInv

\* ... and its second Write begins
LEMMA WritePayloadStream ==
  ASSUME StreamInv, WritePayload
  PROVE  StreamInv'
<1>1. /\ link = "open" /\ writer = "idle" /\ payload # <<>> /\ slice' = payload /\ payload' = <<>>
      /\ Write(Len(payload)) /\ link' = link /\ wire' = wire /\ got' = got /\ conns' = conns
      /\ sent' = sent /\ requests' = requests
  BY DEF WritePayload
<1>2. slice = <<>> /\ StreamOK(sent, <<>>, payload, wire, got)
  BY <1>1 DEF StreamInv
<1>3. StreamOK(sent, payload, <<>>, wire, got)
  BY <1>2, StreamPayload
<1>4. Len(payload) \in Nat \ {0}
  <2>1. payload \in Seq(Byte)
    BY <1>2 DEF StreamOK
  <2> QED BY <1>1, <2>1
<1>5. FlowInv'
  BY <1>1, <1>4, FlowWrite DEF StreamInv
<1>6. left' = Len(slice') /\ writer' # "idle"
  BY <1>1 DEF Write
<1>7. StreamOK(sent', slice', payload', wire', got')
  BY <1>1, <1>3
<1> QED BY <1>1, <1>5, <1>6, <1>7 DEF StreamInv

\* The connection takes what Limit granted
LEMMA ChunkStream ==
  ASSUME StreamInv, Chunk
  PROVE  StreamInv'
<1>1. /\ Wrote(granted) /\ writer = "write"
      /\ wire' = wire \o SubSeq(slice, 1, granted) /\ slice' = Rest(slice, granted)
      /\ link' = link /\ got' = got /\ conns' = conns /\ sent' = sent /\ requests' = requests
      /\ payload' = payload
  BY DEF Chunk, Wrote
<1>2. granted \in 0 .. Len(slice) /\ Len(slice) \in Nat /\ left = Len(slice) /\ StreamOK(sent, slice, payload, wire, got)
  BY DEF StreamInv, FlowInv, FlowTypeOK
<1>3. StreamOK(sent, slice', payload, wire', got) /\ Len(slice') = left - granted
  BY <1>1, <1>2, StreamChunk
<1>4. FlowInv'
  <2>1. granted \in 0 .. granted
    BY <1>2
  <2>2. FlowNext
    BY <1>1, <2>1 DEF FlowNext
  <2> QED BY <2>2, FlowStep DEF StreamInv
<1>5. left' = left - granted /\ writer' = IF granted = granted /\ granted < left THEN "limit" ELSE "idle"
  BY <1>1 DEF Wrote
<1>6. writer' = "idle" => slice' = <<>>
  <2>1. SUFFICES ASSUME writer' = "idle" PROVE slice' = <<>>
    OBVIOUS
  <2>2. ~(granted < left)
    BY <1>5, <2>1
  <2>3. Len(slice') = 0
    BY <1>2, <1>3, <2>2
  <2>4. slice' \in Seq(Byte)
    BY <1>3 DEF StreamOK
  <2> QED BY <2>3, <2>4
<1>7. link = "open"
  BY <1>1 DEF StreamInv, Quiet
<1>8. StreamOK(sent', slice', payload', wire', got')
  BY <1>1, <1>3
<1> QED BY <1>1, <1>3, <1>4, <1>5, <1>6, <1>7, <1>8 DEF StreamInv

\* Limit answers, or sleeps
LEMMA LimitedStream ==
  ASSUME StreamInv, Limited
  PROVE  StreamInv'
<1>1. /\ requests' = requests /\ sent' = sent /\ slice' = slice /\ payload' = payload /\ wire' = wire
      /\ got' = got /\ link' = link /\ conns' = conns
  BY DEF Limited, stream
<1>2. FlowInv'
  <2>1. FlowNext
    BY DEF Limited, FlowNext
  <2> QED BY <2>1, FlowStep DEF StreamInv
<1>3. writer # "idle" /\ writer' # "idle" /\ left' = left
  BY DEF Limited, Limit, Wake
<1>4. link = "open"
  BY <1>3 DEF StreamInv, Quiet
<1>5. StreamOK(sent, slice, payload, wire, got)'
  BY <1>1 DEF StreamInv
<1> QED BY <1>1, <1>2, <1>3, <1>4, <1>5 DEF StreamInv

\* Time passes
LEMMA TickStream ==
  ASSUME StreamInv, Tick
  PROVE  StreamInv'
<1>1. /\ requests' = requests /\ sent' = sent /\ slice' = slice /\ payload' = payload /\ wire' = wire
      /\ got' = got /\ link' = link /\ conns' = conns /\ link = "open"
  BY DEF Tick, stream
<1>2. FlowInv'
  <2>1. FlowNext
    BY DEF Tick, FlowNext
  <2> QED BY <2>1, FlowStep DEF StreamInv
<1>3. writer' = writer /\ left' = left
  BY DEF Tick, Pass
<1>4. StreamOK(sent, slice, payload, wire, got)'
  BY <1>1 DEF StreamInv
<1> QED BY <1>1, <1>2, <1>3, <1>4 DEF StreamInv

\* The agent keeps the connection alive
LEMMA AgentAliveStream ==
  ASSUME StreamInv, AgentAlive
  PROVE  StreamInv'
<1>1. /\ requests' = Append(requests, Message("ALIVE", 0, 0, <<>>))
      /\ sent' = sent /\ slice' = slice /\ payload' = payload /\ wire' = wire
      /\ got' = got /\ link' = link /\ conns' = conns /\ link = "open" /\ UNCHANGED flow
  BY DEF AgentAlive
<1>2. Message("ALIVE", 0, 0, <<>>) \in Messages
  BY DEF Message, Messages
<1>3. requests' \in Seq(Messages)
  BY <1>1, <1>2 DEF StreamInv
<1>4. FlowInv' /\ writer' = writer /\ left' = left
  BY <1>1, FlowStep DEF StreamInv, flow
<1>5. StreamOK(sent, slice, payload, wire, got)'
  BY <1>1 DEF StreamInv
<1> QED BY <1>1, <1>3, <1>4, <1>5 DEF StreamInv

\* what Receive finds at the head of the connection
LEMMA HeadOfWire ==
  ASSUME StreamInv, Len(wire) >= LenBytes, Len(wire) >= ReadSize
  PROVE  /\ got + 1 \in 1 .. Len(sent) /\ got \in 0 .. Len(sent) /\ sent \in Seq(Messages)
         /\ sent[got + 1] \in Messages /\ got + 1 # Junk
         /\ sent[got + 1].kind = "ALIVE" => Incoming = Junk
         /\ sent[got + 1].kind # "ALIVE" =>
              /\ Incoming = got + 1
              /\ StreamOK(sent, slice, payload, Rest(wire, ReadSize), got + 1)
<1>1. StreamOK(sent, slice, payload, wire, got)
  BY DEF StreamInv
<1>2. /\ got + 1 \in 1 .. Len(sent) /\ wire[1] = <<got + 1, 1>>
      /\ LET size == LenBytes + Payload(sent[got + 1])
         IN  Len(wire) >= size => /\ SubSeq(wire, 1, size) = FrameOf(sent, got + 1)
                                  /\ StreamOK(sent, slice, payload, Rest(wire, size), got + 1)
  BY <1>1, StreamRead
<1>3. got \in 0 .. Len(sent) /\ sent \in Seq(Messages) /\ wire \in Seq(Byte)
  BY <1>1 DEF StreamOK
<1>4. sent[got + 1] \in Messages /\ got + 1 # Junk
  BY <1>2, <1>3 DEF Junk
<1>5. wire[1][1] = got + 1
  BY <1>2
<1>6. Frame(got + 1) = FrameOf(sent, got + 1)
  BY DEF Frame, FrameOf
<1>7. PICK z \in Nat : z = Payload(sent[got + 1]) /\ (z = 0 <=> sent[got + 1].kind = "ALIVE")
  BY <1>4, PayloadIs
<1>8. ReadSize = LenBytes + IF z = 0 THEN 1 ELSE z
  BY <1>5, <1>7 DEF ReadSize
<1>9. ASSUME sent[got + 1].kind = "ALIVE" PROVE Incoming = Junk
  <2>1. z = 0 /\ ReadSize = LenBytes + 1 /\ LenBytes + 1 \in 0 .. Len(wire)
    BY <1>3, <1>7, <1>8, <1>9, FramesAssumption
  <2>2. Len(SubSeq(wire, 1, ReadSize)) = LenBytes + 1
    BY <1>3, <2>1, Split
  <2>3. Len(FrameOf(sent, got + 1)) = LenBytes
    BY <1>2, <1>3, <1>7, <2>1, FrameIs, FramesAssumption
  <2>4. SubSeq(wire, 1, ReadSize) # Frame(got + 1)
    <3>1. LenBytes + 1 # LenBytes
      BY FramesAssumption
    <3> QED BY <1>6, <2>2, <2>3, <3>1
  <2> QED BY <1>5, <2>4 DEF Incoming
<1>10. ASSUME sent[got + 1].kind # "ALIVE"
       PROVE  Incoming = got + 1 /\ StreamOK(sent, slice, payload, Rest(wire, ReadSize), got + 1)
  <2>1. ReadSize = LenBytes + z
    BY <1>7, <1>8, <1>10
  <2>2. /\ SubSeq(wire, 1, ReadSize) = FrameOf(sent, got + 1)
        /\ StreamOK(sent, slice, payload, Rest(wire, ReadSize), got + 1)
    BY <1>2, <1>7, <2>1
  <2> QED BY <1>5, <1>6, <2>2 DEF Incoming
<1> QED BY <1>2, <1>3, <1>4, <1>9, <1>10

-----------------------------------------------------------------------------
(* The session and its files.                                                *)

\* the blocks recorded of the active piece are the first ones, not all
Progress(l, held, act, rec) ==
  /\ held \subseteq PiecesOf(l)
  /\ act \in PiecesOf(l) \cup {None} /\ act \notin held
  /\ act = None => rec = {}
  /\ act # None => \E c \in 0 .. NumBlocks(l, act) - 1 : rec = 0 .. c - 1

\* the pieces held have the bytes of the source
VerifiedOn(l, d, held) ==
  \A p \in held : \A k \in 1 .. TotalSize(l) : (k - 1) \div PieceLen = p => ByteAt(d, l, k) = k

\* the blocks recorded are there as they were sent
StoredOn(l, d, act, rec) ==
  \A b \in rec : \/ \A k \in BlockPlaces(l, act, b) : ByteAt(d, l, k) = k
                 \/ \A k \in BlockPlaces(l, act, b) : ByteAt(d, l, k) = 0

\* The session and its files
StoreInv ==
  /\ lens \in Layouts /\ session \in {"down", "up"} /\ starts \in 0 .. MaxStarts
  /\ disk \in [1 .. Len(lens) -> Seq(Int)]
  /\ session = "up" => Sized(disk, lens)
  /\ session = "down" => verified = {} /\ active = None /\ recorded = {} /\ link = "none"
  /\ Progress(lens, verified, active, recorded)
  /\ VerifiedOn(lens, disk, verified)
  /\ StoredOn(lens, disk, active, recorded)

\* A layout has a file
LEMMA LayoutIs ==
  ASSUME NEW l \in Layouts
  PROVE  Layout(l)
<1>1. l \in Seq(Nat) /\ l # <<>>
  BY FilesAssumption
<1> QED BY <1>1 DEF Layout

\* The files of the source
LEMMA MasterIs ==
  ASSUME lens \in Layouts
  PROVE  /\ Sized(Master, lens) /\ \A k \in 1 .. TotalSize(lens) : ByteAt(Master, lens, k) = k
<1>1. Layout(lens)
  BY LayoutIs
<1> QED BY <1>1, SourceRow DEF Master

\* the block that is asked for
LEMMA NextBlockIs ==
  ASSUME NEW l, lens = l, NEW p, NEW c \in 0 .. NumBlocks(l, p) - 1, NumBlocks(l, p) \in Nat
  PROVE  NextBlock(p, 0 .. c - 1) = c
<1> DEFINE n == NumBlocks(l, p)
           P(b) == b \notin 0 .. c - 1 /\ \A a \in 0 .. b - 1 : a \in 0 .. c - 1
<1>1. NextBlock(p, 0 .. c - 1) = CHOOSE b \in 0 .. n - 1 : P(b)
  BY DEF NextBlock
<1> HIDE DEF n
<1>2. c \in 0 .. n - 1 /\ n \in Nat /\ c \in Nat
  BY DEF n
<1>3. P(c)
  BY <1>2
<1>4. ASSUME NEW b \in 0 .. n - 1, P(b) PROVE b = c
  <2>1. b \in Nat /\ ~(b < c)
    BY <1>2, <1>4
  <2>2. ~(c < b)
    <3>1. SUFFICES ASSUME c < b PROVE FALSE
      OBVIOUS
    <3>2. c \in 0 .. b - 1
      BY <1>2, <2>1, <3>1
    <3>3. c \in 0 .. c - 1
      BY <1>4, <3>2
    <3> QED BY <1>2, <3>3
  <2> QED BY <1>2, <2>1, <2>2
<1> HIDE DEF P
<1> QED BY <1>1, <1>2, <1>3, <1>4

\* Pieces are numbers, and have blocks
LEMMA PieceIsNumber ==
  ASSUME NEW l \in Layouts, NEW p \in PiecesOf(l)
  PROVE  p \in Nat /\ p # None /\ NumBlocks(l, p) \in Nat \ {0} /\ NumPieces(l) \in Nat
<1>1. Layout(l)
  BY LayoutIs
<1>2. p \in Nat
  BY <1>1, PieceInRow
<1>3. NumBlocks(l, p) \in Nat \ {0}
  BY <1>1, BlockInPiece
<1>4. NumPieces(l) \in Nat
  <2>1. TotalSize(l) \in Nat
    BY <1>1, PieceInRow
  <2> QED BY <2>1, PiecesFill DEF NumPieces
<1> QED BY <1>2, <1>3, <1>4, BoundsAssumption

\* No piece is None
LEMMA NoneIsNoPiece ==
  ASSUME NEW l \in Layouts
  PROVE  None \notin PiecesOf(l)
BY PieceIsNumber, BoundsAssumption

\* what requestBlock should do
IsRequest(l, done, piece, had, act, rec, old, new) ==
  /\ Progress(l, done, act, rec) /\ Requested(l, act, rec, old, new)
  /\ rec = had /\ (rec # {} => act = piece)

\* requestBlock asks for the block that follows those recorded, or for the first
\* of a piece not verified
LEMMA RequestIs ==
  ASSUME lens \in Layouts, NEW done, NEW piece, NEW had, Progress(lens, done, piece, had),
         Request(done, piece, had)
  PROVE  IsRequest(lens, done, piece, had, active', recorded', requests, requests')
<1> DEFINE wanted == {p \in IF piece = None THEN Pieces \ done ELSE {piece} : Has(p)}
<1>1. CASE wanted = {}
  <2>1. active' = piece /\ recorded' = had /\ requests' = requests
    BY <1>1 DEF Request
  <2> QED BY <2>1 DEF IsRequest, Requested
<1>2. CASE wanted # {}
  <2>1. active' \in wanted /\ recorded' = had
        /\ requests' = Append(requests, Message("REQUEST", active', NextBlock(active', had), <<>>))
    BY <1>2 DEF Request
  <2>2. PICK p : p = active'
    OBVIOUS
  <2>3. p \in (IF piece = None THEN Pieces \ done ELSE {piece})
    BY <2>1, <2>2
  <2> HIDE DEF wanted
  <2>4. p \in PiecesOf(lens) /\ p \notin done
    BY <2>3 DEF Progress, Pieces
  <2>5. p \in Nat /\ p # None /\ NumBlocks(lens, p) \in Nat \ {0}
    BY <2>4, PieceIsNumber
  <2>6. \E c \in 0 .. NumBlocks(lens, p) - 1 : had = 0 .. c - 1
    <3>1. CASE piece = None
      <4>1. had = {} /\ 0 \in 0 .. NumBlocks(lens, p) - 1 /\ 0 .. 0 - 1 = {}
        BY <2>5, <3>1 DEF Progress
      <4> QED BY <4>1
    <3>2. CASE piece # None
      BY <2>3, <3>2 DEF Progress
    <3> QED BY <3>1, <3>2
  <2>7. PICK c \in 0 .. NumBlocks(lens, p) - 1 : had = 0 .. c - 1
    BY <2>6
  <2>8. NextBlock(p, had) = c
    BY <2>5, <2>7, NextBlockIs
  <2>9. Progress(lens, done, p, had)
    BY <2>4, <2>5, <2>7 DEF Progress
  <2>10. PICK m : m = Message("REQUEST", p, c, <<>>)
    OBVIOUS
  <2>11. c \in Nat
    BY <2>5
  <2>12. m \in Messages /\ m.kind = "REQUEST" /\ m.piece = p /\ m.block = c
    BY <2>5, <2>10, <2>11 DEF Message, Messages
  <2>13. Asked(lens, p, had, m)
    BY <2>4, <2>7, <2>12 DEF Asked
  <2>14. requests' = Append(requests, m)
    BY <2>1, <2>2, <2>8, <2>10
  <2>15. Requested(lens, p, had, requests, requests')
    BY <2>12, <2>13, <2>14 DEF Requested
  <2>16. had # {} => p = piece
    BY <2>3 DEF Progress
  <2> QED BY <2>1, <2>2, <2>9, <2>15, <2>16 DEF IsRequest
<1> QED BY <1>1, <1>2

\* What a write for block b of piece p leaves as it was
LEMMA BlockKeeps ==
  ASSUME NEW l \in Layouts, NEW d, Sized(d, l), NEW held, NEW p, NEW b, NEW data \in Seq(Int),
         Progress(l, held, p, 0 .. b - 1), p \in PiecesOf(l), b \in 0 .. NumBlocks(l, p) - 1,
         Len(data) <= BlockLength(l, p, b),
         VerifiedOn(l, d, held), StoredOn(l, d, p, 0 .. b - 1),
         NEW e, BlockWritten(l, p, b, data, d, e)
  PROVE  Sized(e, l) /\ VerifiedOn(l, e, held) /\ StoredOn(l, e, p, 0 .. b - 1)
<1>1. Sized(e, l)
  BY DEF BlockWritten
<1>2. VerifiedOn(l, e, held)
  <2>1. p \notin held
    BY DEF Progress
  <2> QED BY <2>1 DEF BlockWritten, VerifiedOn
<1>3. StoredOn(l, e, p, 0 .. b - 1)
  BY DEF BlockWritten, StoredOn
<1> QED BY <1>1, <1>2, <1>3

\* A block that came is stored as it was sent
LEMMA BlockComes ==
  ASSUME NEW l \in Layouts, NEW p \in PiecesOf(l), NEW b \in 0 .. NumBlocks(l, p) - 1,
         NEW data, BlockData(l, p, b, data), NEW d, NEW e, BlockWritten(l, p, b, data, d, e),
         StoredOn(l, e, p, 0 .. b - 1), NEW had, had = (0 .. b - 1) \cup {b}
  PROVE  StoredOn(l, e, p, had) /\ had = 0 .. b
<1>1. Layout(l)
  BY LayoutIs
<1>2. Len(data) = BlockLength(l, p, b)
  BY DEF BlockData
<1>3. ASSUME NEW k \in BlockPlaces(l, p, b)
      PROVE  k - BlockAt(p, b) \in 1 .. Len(data) /\ BlockAt(p, b) + (k - BlockAt(p, b)) = k
             /\ ByteAt(e, l, k) = data[k - BlockAt(p, b)]
  <2>1. k \in 1 .. TotalSize(l) /\ k - BlockAt(p, b) \in 1 .. BlockLength(l, p, b)
    BY <1>1, <1>3, BlockPlacesIn
  <2>2. BlockAt(p, b) \in Nat
    <3>1. b \in Nat /\ b < NumBlocks(l, p)
      BY <1>1, BlockInPiece
    <3> QED BY <1>1, <3>1, BlockInPiece
  <2>3. TotalSize(l) \in Nat
    BY <1>1, PieceInRow
  <2>4. BlockAt(p, b) + (k - BlockAt(p, b)) = k
    BY <2>1, <2>2, <2>3
  <2>5. ByteAt(e, l, k) = data[k - BlockAt(p, b)]
    BY <1>2 DEF BlockWritten
  <2> QED BY <1>2, <2>1, <2>4, <2>5
<1>4. \/ \A k \in BlockPlaces(l, p, b) : ByteAt(e, l, k) = k
      \/ \A k \in BlockPlaces(l, p, b) : ByteAt(e, l, k) = 0
  <2>1. CASE \A x \in 1 .. Len(data) : data[x] = BlockAt(p, b) + x
    BY <1>3, <2>1
  <2>2. CASE \A x \in 1 .. Len(data) : data[x] = 0
    BY <1>3, <2>2
  <2> QED BY <2>1, <2>2 DEF BlockData
<1>5. had = 0 .. b
  OBVIOUS
<1>6. ASSUME NEW a \in had
      PROVE  \/ \A k \in BlockPlaces(l, p, a) : ByteAt(e, l, k) = k
             \/ \A k \in BlockPlaces(l, p, a) : ByteAt(e, l, k) = 0
  <2>1. CASE a = b
    BY <1>4, <2>1
  <2>2. CASE a \in 0 .. b - 1
    BY <2>2 DEF StoredOn
  <2> QED BY <2>1, <2>2
<1> QED BY <1>5, <1>6 DEF StoredOn

\* no byte of a piece held has changed
KeptOn(l, d, e, held) ==
  \A k \in 1 .. TotalSize(l) : (k - 1) \div PieceLen \in held => ByteAt(e, l, k) = ByteAt(d, l, k)

\* what the step is to the files that are copied
Copies ==
  /\ KeptOn(lens, disk, disk', verified)
  /\ verified' = verified \/ \E p \in PiecesOf(lens) : verified' = verified \cup {p}

\* A write for an active piece touches no verified one
LEMMA BlockKept ==
  ASSUME NEW l, NEW held, NEW p, p \notin held, NEW b, NEW data, NEW d, NEW e,
         BlockWritten(l, p, b, data, d, e)
  PROVE  KeptOn(l, d, e, held)
BY DEF BlockWritten, KeptOn

\* what handling a message does to the connection
Handled == 
  \/ link' = "closed" /\ Afresh
  \/ /\ UNCHANGED <<link, sent, slice, payload, flow>>
     /\ Requested(lens, active', recorded', requests, requests')

\* The session after a step that leaves it up
LEMMA StoreSession ==
  ASSUME StoreInv, session = "up", UNCHANGED <<lens, session, starts>>,
         Sized(disk', lens), Progress(lens, verified', active', recorded'),
         VerifiedOn(lens, disk', verified'), StoredOn(lens, disk', active', recorded')
  PROVE  StoreInv'
BY DEF StoreInv, Sized

\* recordBlock, checkPiece, requestBlock: a piece whose sum is right is right
LEMMA StoreIs ==
  ASSUME StoreInv, session = "up", NEW m \in Messages, Asked(lens, active, recorded, m),
         BlockData(lens, m.piece, m.block, m.data), Store(m),
         UNCHANGED <<lens, session, starts>>
  PROVE  StoreInv' /\ Copies /\ Handled
<1> DEFINE p == m.piece
           b == m.block
           had == recorded \cup {b}
           whole == had = 0 .. NumBlocks(lens, p) - 1
<1>1. /\ lens \in Layouts /\ Layout(lens) /\ Sized(disk, lens)
      /\ Progress(lens, verified, p, recorded) /\ VerifiedOn(lens, disk, verified)
      /\ StoredOn(lens, disk, p, recorded)
      /\ p \in PiecesOf(lens) /\ b \in 0 .. NumBlocks(lens, p) - 1 /\ recorded = 0 .. b - 1
      /\ BlockData(lens, p, b, m.data) /\ m.data \in Seq(Int)
      /\ disk' = Written(disk, lens, m.data, BlockAt(p, b))
  BY LayoutIs DEF StoreInv, Asked, Store, BlockData
<1>2. \/ /\ whole /\ Bad(p) /\ active' = None /\ recorded' = {}
         /\ link' = "closed" /\ Afresh /\ verified' = verified
      \/ /\ ~(whole /\ Bad(p))
         /\ verified' = IF whole THEN verified \cup {p} ELSE verified
         /\ IF whole THEN Request(verified', None, {}) ELSE Request(verified, p, had)
         /\ UNCHANGED <<link, sent, slice, payload, flow>>
  BY DEF Store
<1> HIDE DEF p, b
<1>3. p \in Nat /\ p # None /\ NumBlocks(lens, p) \in Nat \ {0} /\ b \in Nat
  <2>1. p \in Nat /\ p # None /\ NumBlocks(lens, p) \in Nat \ {0}
    BY <1>1, PieceIsNumber
  <2> QED BY <1>1, <2>1
<1>4. Len(m.data) = BlockLength(lens, p, b) /\ BlockLength(lens, p, b) \in Nat
  <2>1. b < NumBlocks(lens, p)
    BY <1>1, <1>3
  <2>2. BlockLength(lens, p, b) \in 1 .. BlockLen
    BY <1>1, <1>3, <2>1, BlockInPiece
  <2> QED BY <1>1, <2>2 DEF BlockData
<1>5. BlockWritten(lens, p, b, m.data, disk, disk')
  BY <1>1, <1>4, WritesTheBlock
<1>6. Sized(disk', lens) /\ VerifiedOn(lens, disk', verified) /\ StoredOn(lens, disk', p, 0 .. b - 1)
  <2>1. Progress(lens, verified, p, 0 .. b - 1) /\ StoredOn(lens, disk, p, 0 .. b - 1)
    BY <1>1
  <2>2. Len(m.data) <= BlockLength(lens, p, b)
    BY <1>4
  <2>3. PICK data \in Seq(Int) : data = m.data
    BY <1>1
  <2>4. BlockWritten(lens, p, b, data, disk, disk') /\ Len(data) <= BlockLength(lens, p, b)
    BY <1>5, <2>2, <2>3
  <2> QED BY <1>1, <2>1, <2>4, BlockKeeps
<1>7. StoredOn(lens, disk', p, had) /\ had = 0 .. b
  BY <1>1, <1>5, <1>6, BlockComes
<1>8. KeptOn(lens, disk, disk', verified)
  <2>1. p \notin verified
    BY <1>1 DEF Progress
  <2> QED BY <2>1, <1>5, BlockKept
<1>9. verified \subseteq PiecesOf(lens)
  BY <1>1 DEF Progress
<1> HIDE DEF had
<1>10. CASE whole /\ Bad(p) /\ active' = None /\ recorded' = {} /\ link' = "closed" /\ Afresh /\ verified' = verified
  <2>1. Progress(lens, verified', active', recorded')
    <3>1. None \notin PiecesOf(lens)
      BY <1>1, NoneIsNoPiece
    <3> QED BY <1>9, <1>10, <3>1 DEF Progress
  <2>2. StoredOn(lens, disk', active', recorded') /\ VerifiedOn(lens, disk', verified')
    BY <1>6, <1>10 DEF StoredOn
  <2>3. StoreInv'
    BY <1>6, <2>1, <2>2, StoreSession
  <2> QED BY <1>8, <1>10, <2>3 DEF Copies, Handled
<1>11. CASE whole /\ ~Bad(p) /\ verified' = verified \cup {p} /\ Request(verified', None, {})
            /\ UNCHANGED <<link, sent, slice, payload, flow>>
  <2>1. Sum(disk', lens, p) = Sum(Master, lens, p)
    BY <1>1, <1>11 DEF Bad, Sums, Pieces
  <2>2. ASSUME NEW k \in 1 .. TotalSize(lens), (k - 1) \div PieceLen = p PROVE ByteAt(disk', lens, k) = k
    <3>1. Sized(Master, lens) /\ ByteAt(Master, lens, k) = k
      BY <1>1, MasterIs
    <3>2. ByteAt(disk', lens, k) = ByteAt(Master, lens, k)
      BY <1>1, <1>6, <2>1, <2>2, <3>1, SumEqual
    <3> QED BY <3>1, <3>2
  <2>3. VerifiedOn(lens, disk', verified')
    BY <1>6, <1>11, <2>2 DEF VerifiedOn
  <2>4. Progress(lens, verified', None, {})
    <3>1. None \notin verified'
      <4>1. None \notin PiecesOf(lens)
        BY <1>1, NoneIsNoPiece
      <4> QED BY <1>1, <1>9, <1>11, <4>1
    <3> QED BY <1>1, <1>9, <1>11, <3>1 DEF Progress
  <2>5. PICK done : done = verified'
    OBVIOUS
  <2>6. IsRequest(lens, done, None, {}, active', recorded', requests, requests')
    BY <1>1, <1>11, <2>4, <2>5, RequestIs
  <2>7. /\ Progress(lens, verified', active', recorded') /\ recorded' = {}
        /\ Requested(lens, active', recorded', requests, requests')
    BY <2>5, <2>6 DEF IsRequest
  <2>8. StoredOn(lens, disk', active', recorded')
    BY <2>7 DEF StoredOn
  <2>9. StoreInv'
    BY <1>6, <2>3, <2>7, <2>8, StoreSession
  <2> QED BY <1>1, <1>8, <1>11, <2>7, <2>9 DEF Copies, Handled
<1>12. CASE ~whole /\ verified' = verified /\ Request(verified, p, had)
            /\ UNCHANGED <<link, sent, slice, payload, flow>>
  <2>1. b + 1 \in 0 .. NumBlocks(lens, p) - 1 /\ had = 0 .. (b + 1) - 1 /\ had # {}
    <3>1. b # NumBlocks(lens, p) - 1
      BY <1>7, <1>12
    <3>2. b + 1 \in 0 .. NumBlocks(lens, p) - 1 /\ b = (b + 1) - 1 /\ b \in 0 .. b
      BY <1>1, <1>3, <3>1
    <3> QED BY <1>7, <3>2
  <2>2. Progress(lens, verified, p, had)
    <3>1. p \notin verified
      BY <1>1 DEF Progress
    <3> QED BY <1>1, <1>3, <1>9, <2>1, <3>1 DEF Progress
  <2>3. IsRequest(lens, verified, p, had, active', recorded', requests, requests')
    BY <1>1, <1>12, <2>2, RequestIs
  <2>4. /\ Progress(lens, verified', active', recorded') /\ recorded' = had /\ active' = p
        /\ Requested(lens, active', recorded', requests, requests')
    BY <1>12, <2>1, <2>3 DEF IsRequest
  <2>5. StoreInv'
    BY <1>6, <1>7, <1>12, <2>4, StoreSession
  <2> QED BY <1>8, <1>12, <2>4, <2>5 DEF Copies, Handled
<1> QED BY <1>2, <1>10, <1>11, <1>12

\* A write that fails half-way
LEMMA StoreFailsIs ==
  ASSUME StoreInv, session = "up", NEW m \in Messages, Asked(lens, active, recorded, m),
         BlockData(lens, m.piece, m.block, m.data), StoreFails(m),
         UNCHANGED <<lens, session, starts>>
  PROVE  StoreInv' /\ Copies
<1> DEFINE p == m.piece
           b == m.block
<1>1. PICK n \in 0 .. Len(m.data) - 1 : disk' = Written(disk, lens, SubSeq(m.data, 1, n), BlockAt(p, b))
  BY DEF StoreFails
<1>2. UNCHANGED <<verified, active, recorded>>
  BY DEF StoreFails
<1>3. /\ lens \in Layouts /\ Layout(lens) /\ Sized(disk, lens)
      /\ Progress(lens, verified, p, recorded) /\ VerifiedOn(lens, disk, verified)
      /\ StoredOn(lens, disk, p, recorded)
      /\ p \in PiecesOf(lens) /\ b \in 0 .. NumBlocks(lens, p) - 1 /\ recorded = 0 .. b - 1
      /\ BlockData(lens, p, b, m.data) /\ m.data \in Seq(Int) /\ p = active
  BY LayoutIs DEF StoreInv, Asked, BlockData
<1> HIDE DEF p, b
<1>4. b \in Nat /\ Len(m.data) = BlockLength(lens, p, b) /\ BlockLength(lens, p, b) \in Nat
  <2>1. NumBlocks(lens, p) \in Nat
    BY <1>3, PieceIsNumber
  <2>2. b \in Nat /\ b < NumBlocks(lens, p)
    BY <1>3, <2>1
  <2>3. BlockLength(lens, p, b) \in 1 .. BlockLen
    BY <1>3, <2>2, BlockInPiece
  <2> QED BY <1>3, <2>2, <2>3 DEF BlockData
<1>5. PICK data \in Seq(Int) : data = SubSeq(m.data, 1, n) /\ Len(data) = n
  <2>1. n \in 0 .. Len(m.data)
    BY <1>4
  <2>2. PICK s \in Seq(Int) : s = m.data
    BY <1>3
  <2>3. SubSeq(s, 1, n) \in Seq(Int) /\ Len(SubSeq(s, 1, n)) = n
    BY <2>1, <2>2, Split
  <2> QED BY <2>2, <2>3
<1>6. Len(data) <= BlockLength(lens, p, b) /\ disk' = Written(disk, lens, data, BlockAt(p, b))
  BY <1>1, <1>4, <1>5
<1>7. BlockWritten(lens, p, b, data, disk, disk')
  BY <1>3, <1>6, WritesTheBlock
<1>8. Sized(disk', lens) /\ VerifiedOn(lens, disk', verified) /\ StoredOn(lens, disk', p, 0 .. b - 1)
  BY <1>3, <1>6, <1>7, BlockKeeps
<1>9. p \notin verified
  BY <1>3 DEF Progress
<1>10. KeptOn(lens, disk, disk', verified)
  BY <1>7, <1>9, BlockKept
<1>11. StoreInv'
  BY <1>2, <1>3, <1>8, StoreSession
<1> QED BY <1>2, <1>10, <1>11 DEF Copies

-----------------------------------------------------------------------------
(* The steps.                                                                *)

\* What is on its way belongs to what the session does.
FlightInv == Flight(lens, active, recorded, requests, sent, got)

\* The inductive invariant
TransferInv == StoreInv /\ StreamInv /\ FlightInv

\* what each step is to Copy: Write or Verify, Resume, Stop
Refines ==
  /\ lens' = lens
  /\ \/ Copies
     \/ verified = {}
     \/ verified' = {} /\ disk' = disk

\* Neither files nor session change
LEMMA SameStore ==
  ASSUME StoreInv, UNCHANGED <<files, store>>, link = "none" => link' = "none"
  PROVE  StoreInv' /\ Refines
<1>1. /\ lens' = lens /\ disk' = disk /\ session' = session /\ verified' = verified
      /\ active' = active /\ recorded' = recorded /\ starts' = starts
  BY DEF files, store
<1>2. StoreInv'
  BY <1>1 DEF StoreInv
<1>3. Copies
  BY <1>1 DEF Copies, KeptOn
<1> QED BY <1>1, <1>2, <1>3 DEF Refines

\* Nothing on its way changes
LEMMA SameFlight ==
  ASSUME FlightInv, UNCHANGED <<lens, active, recorded, requests, sent, got>>
  PROVE  FlightInv'
BY DEF FlightInv

\* Nothing is on its way on a new connection
LEMMA AfreshFlight ==
  ASSUME Afresh
  PROVE  FlightInv'
<1>1. Flight(lens', active', recorded', <<>>, <<>>, 0)
  BY FlightNone
<1>2. requests' = <<>> /\ sent' = <<>> /\ got' = 0
  BY DEF Afresh
<1> QED BY <1>1, <1>2 DEF FlightInv

\* initInClient, whatever lies on disk and wherever the agent dies
LEMMA OpenKeeps ==
  ASSUME TransferInv, Open
  PROVE  TransferInv' /\ Refines
<1>1. /\ session = "down" /\ starts < MaxStarts /\ starts' = starts + 1
      /\ lens' = lens /\ active' = active /\ recorded' = recorded /\ conns' = conns
      /\ UNCHANGED <<stream, flow>>
      /\ link' = IF session' = "down" \/ verified' = Pieces THEN "none" ELSE "dial"
  BY DEF Open
<1>2. PICK n \in 0 .. Len(lens) :
        /\ disk' = [i \in DOMAIN lens |-> IF i <= n THEN Resized(disk[i], lens[i]) ELSE disk[i]]
        /\ session' = IF n = Len(lens) THEN "up" ELSE "down"
        /\ verified' = IF session' = "down" \/ disk[Len(lens)] = Absent THEN {}
                       ELSE GoodPieces(disk', lens, Sums)
  <2>1. lens \in Seq(Nat)
    BY LayoutIs DEF TransferInv, StoreInv, Layout
  <2>2. (IF "crash" \in Faults THEN 0 .. Len(lens) ELSE {Len(lens)}) \subseteq 0 .. Len(lens)
    BY <2>1
  <2> QED BY <2>2 DEF Open
<1>3. /\ lens \in Layouts /\ Layout(lens) /\ lens \in Seq(Nat)
      /\ disk \in [1 .. Len(lens) -> Seq(Int)] /\ starts \in 0 .. MaxStarts
      /\ verified = {} /\ active = None /\ recorded = {} /\ link = "none"
  BY <1>1, LayoutIs DEF TransferInv, StoreInv, Layout
<1>4. ASSUME NEW i \in 1 .. Len(lens)
      PROVE  /\ Resized(disk[i], lens[i]) \in Seq(Int)
             /\ Len(Resized(disk[i], lens[i])) = lens[i] /\ disk[i] \in Seq(Int)
  <2>1. PICK file \in Seq(Int), m \in Nat : file = disk[i] /\ m = lens[i]
    BY <1>3
  <2>2. Resized(file, m) \in Seq(Int) /\ Len(Resized(file, m)) = m
    BY ResizedFile
  <2> QED BY <2>1, <2>2
<1>5. DOMAIN lens = 1 .. Len(lens) /\ Len(lens) \in Nat
  BY <1>3
<1>6. disk' \in [1 .. Len(lens) -> Seq(Int)]
  <2>1. \A i \in 1 .. Len(lens) : (IF i <= n THEN Resized(disk[i], lens[i]) ELSE disk[i]) \in Seq(Int)
    BY <1>4
  <2> QED BY <1>2, <1>5, <2>1
<1>7. ASSUME session' = "up" PROVE Sized(disk', lens)
  <2>1. n = Len(lens)
    BY <1>2, <1>7
  <2>2. \A i \in 1 .. Len(lens) : disk'[i] = Resized(disk[i], lens[i])
    BY <1>2, <1>5, <2>1
  <2> QED BY <1>4, <1>6, <2>2 DEF Sized
<1>8. verified' = {} \/ (session' = "up" /\ verified' = GoodPieces(disk', lens, Sums))
  <2>1. CASE session' = "down" \/ disk[Len(lens)] = Absent
    BY <1>2, <2>1
  <2>2. CASE ~(session' = "down" \/ disk[Len(lens)] = Absent)
    <3>1. session' = "up"
      BY <1>2, <2>2
    <3>2. verified' = GoodPieces(disk', lens, Sums)
      BY <1>2, <2>2
    <3> QED BY <3>1, <3>2
  <2> QED BY <2>1, <2>2
<1>9. verified' \subseteq PiecesOf(lens) /\ VerifiedOn(lens, disk', verified')
  <2>1. CASE verified' = {}
    BY <2>1 DEF VerifiedOn
  <2>2. CASE session' = "up" /\ verified' = GoodPieces(disk', lens, Sums)
    <3>1. ASSUME NEW p \in verified' PROVE p \in PiecesOf(lens) /\ Sum(disk', lens, p) = Sum(Master, lens, p)
      BY <2>2, <3>1 DEF GoodPieces, Sums, Pieces
    <3>2. ASSUME NEW p \in verified', NEW k \in 1 .. TotalSize(lens), (k - 1) \div PieceLen = p
          PROVE  ByteAt(disk', lens, k) = k
      <4>1. Sized(Master, lens) /\ ByteAt(Master, lens, k) = k
        BY <1>3, MasterIs
      <4>2. Sized(disk', lens) /\ p \in PiecesOf(lens) /\ Sum(disk', lens, p) = Sum(Master, lens, p)
        BY <1>7, <2>2, <3>1
      <4>3. ByteAt(disk', lens, k) = ByteAt(Master, lens, k)
        BY <1>3, <3>2, <4>1, <4>2, SumEqual
      <4> QED BY <4>1, <4>3
    <3> QED BY <3>1, <3>2 DEF VerifiedOn
  <2> QED BY <1>8, <2>1, <2>2
<1>10. Progress(lens, verified', None, {})
  <2>1. None \notin PiecesOf(lens)
    BY <1>3, NoneIsNoPiece
  <2> QED BY <1>9, <2>1 DEF Progress
<1>11. StoredOn(lens, disk', None, {})
  BY DEF StoredOn
<1>12. starts' \in 0 .. MaxStarts
  BY <1>1, <1>3, BoundsAssumption
<1>13. session' \in {"up", "down"} /\ (session' = "down" => verified' = {} /\ link' = "none")
  BY <1>1, <1>2
<1>14. StoreInv'
  BY <1>1, <1>3, <1>6, <1>7, <1>9, <1>10, <1>11, <1>12, <1>13 DEF StoreInv
<1>15. StreamInv'
  <2>1. link' \in Links /\ link # "open" /\ conns' \in 0 .. MaxConns
    BY <1>1, <1>3 DEF Links, TransferInv, StreamInv
  <2> QED BY <1>1, <2>1, SameStream DEF TransferInv
<1>16. FlightInv'
  <2>1. UNCHANGED <<requests, sent, got>>
    BY <1>1 DEF stream
  <2> QED BY <1>1, <2>1, SameFlight DEF TransferInv
<1> QED BY <1>1, <1>3, <1>14, <1>15, <1>16 DEF TransferInv, Refines

\* The session ends
LEMMA StopKeeps ==
  ASSUME TransferInv, Stop
  PROVE  TransferInv' /\ Refines
<1>1. /\ session' = "down" /\ verified' = {} /\ active' = None /\ recorded' = {} /\ link' = "none"
      /\ Afresh /\ lens' = lens /\ disk' = disk /\ starts' = starts /\ conns' = conns
  BY DEF Stop, files
<1>2. /\ lens \in Layouts /\ disk \in [1 .. Len(lens) -> Seq(Int)] /\ starts \in 0 .. MaxStarts
  BY DEF TransferInv, StoreInv
<1>3. Progress(lens, {}, None, {}) /\ VerifiedOn(lens, disk, {}) /\ StoredOn(lens, disk, None, {})
  BY <1>2 DEF Progress, VerifiedOn, StoredOn
<1>4. StoreInv'
  BY <1>1, <1>2, <1>3 DEF StoreInv
<1>5. StreamInv'
  <2>1. link' \in Links /\ conns' \in 0 .. MaxConns
    BY <1>1 DEF Links, TransferInv, StreamInv
  <2> QED BY <1>1, <2>1, AfreshStream DEF TransferInv
<1>6. FlightInv'
  BY <1>1, AfreshFlight
<1> QED BY <1>1, <1>4, <1>5, <1>6 DEF TransferInv, Refines

\* Steps of the link before it is open
LEMMA LinkKeeps ==
  ASSUME TransferInv, Dial \/ ReadHeader \/ Forgotten
  PROVE  TransferInv' /\ Refines
<1>1. /\ UNCHANGED <<files, store, stream, flow>> /\ link # "none" /\ link # "open"
      /\ link' \in Links
  BY DEF Dial, ReadHeader, Forgotten, Links
<1>2. conns' \in 0 .. MaxConns
  BY BoundsAssumption DEF Dial, ReadHeader, Forgotten, TransferInv, StreamInv
<1>3. StoreInv' /\ Refines
  BY <1>1, SameStore DEF TransferInv
<1>4. StreamInv'
  BY <1>1, <1>2, SameStream DEF TransferInv
<1>5. FlightInv'
  <2>1. UNCHANGED <<lens, active, recorded, requests, sent, got>>
    BY <1>1 DEF files, store, stream
  <2> QED BY <2>1, SameFlight DEF TransferInv
<1> QED BY <1>3, <1>4, <1>5 DEF TransferInv

\* The connection is closed
LEMMA ClosedKeeps ==
  ASSUME TransferInv, NEW faults, Closed(faults)
  PROVE  TransferInv' /\ Refines
<1>1. /\ UNCHANGED <<files, store>> /\ link = "open" /\ link' \in Links /\ Afresh /\ conns' = conns
  BY DEF Closed, Links
<1>2. StoreInv' /\ Refines
  BY <1>1, SameStore DEF TransferInv
<1>3. StreamInv'
  BY <1>1, AfreshStream DEF TransferInv, StreamInv
<1>4. FlightInv'
  BY <1>1, AfreshFlight
<1> QED BY <1>2, <1>3, <1>4 DEF TransferInv

\* The upstream's writer takes a message
LEMMA TakeKeeps ==
  ASSUME TransferInv, NEW m \in Messages, Take(m), requests' \in Seq(Messages),
         Flight(lens, active, recorded, requests', Append(sent, m), got)
  PROVE  TransferInv' /\ Refines
<1>1. UNCHANGED <<files, store>> /\ link' = link /\ got' = got
  BY DEF Take
<1>2. StoreInv' /\ Refines
  BY <1>1, SameStore DEF TransferInv
<1>3. StreamInv' /\ sent' = Append(sent, m)
  BY TakeStream DEF TransferInv
<1>4. FlightInv'
  BY <1>1, <1>3 DEF FlightInv, files, store
<1> QED BY <1>2, <1>3, <1>4 DEF TransferInv

\* What the steps below need of the invariant
LEMMA InFlight ==
  ASSUME TransferInv
  PROVE  /\ lens \in Layouts /\ Layout(lens) /\ requests \in Seq(Messages) /\ sent \in Seq(Messages)
         /\ got \in 0 .. Len(sent) /\ Flight(lens, active, recorded, requests, sent, got)
BY LayoutIs DEF TransferInv, StoreInv, StreamInv, StreamOK, FlightInv

\* The BITFIELD is sent
LEMMA SendBitfieldKeeps ==
  ASSUME TransferInv, SendBitfield
  PROVE  TransferInv' /\ Refines
<1>1. PICK m : m = Message("BITFIELD", 0, 0, BitsetOf(NumPieces(lens), Pieces))
  OBVIOUS
<1>2. sent = <<>> /\ Take(m) /\ requests' = requests
  BY <1>1 DEF SendBitfield
<1>3. m \in Messages /\ m.kind = "BITFIELD"
  <2>1. NumPieces(lens) \in Nat
    <3>1. TotalSize(lens) \in Nat
      <4>1. 1 \in 1 .. Len(lens) /\ lens \in Seq(Nat)
        BY InFlight DEF Layout
      <4> QED BY <4>1, TotalNext
    <3> QED BY <3>1, PiecesFill DEF NumPieces
  <2>2. BitsetOf(NumPieces(lens), Pieces) \in Seq(Int)
    BY <2>1, BitsetIs
  <2> QED BY <1>1, <2>2 DEF Message, Messages
<1>4. Len(sent) = 0
  BY <1>2
<1>5. Flight(lens, active, recorded, requests, Append(sent, m), got)
  BY <1>3, <1>4, InFlight, FlightSent
<1> QED BY <1>2, <1>3, <1>5, InFlight, TakeKeeps

\* A keep-alive is sent
LEMMA SendAliveKeeps ==
  ASSUME TransferInv, SendAlive
  PROVE  TransferInv' /\ Refines
<1>1. PICK m : m = Message("ALIVE", 0, 0, <<>>)
  OBVIOUS
<1>2. sent # <<>> /\ Take(m) /\ requests' = requests
  BY <1>1 DEF SendAlive
<1>3. m \in Messages /\ m.kind = "ALIVE"
  BY <1>1 DEF Message, Messages
<1>4. Len(sent) # 0
  BY <1>2, InFlight
<1>5. Flight(lens, active, recorded, requests, Append(sent, m), got)
  BY <1>3, <1>4, InFlight, FlightSent
<1> QED BY <1>2, <1>3, <1>5, InFlight, TakeKeeps

\* sendPiece answers the request at the head
LEMMA SendPieceKeeps ==
  ASSUME TransferInv, SendPiece
  PROVE  TransferInv' /\ Refines
<1> DEFINE r == Head(requests)
           n == BlockLength(lens, r.piece, r.block)
<1>1. PICK data :
        /\ data = Read(Master, lens, BlockAt(r.piece, r.block), n) \/ data = Zeros(n)
        /\ Take(Message("PIECE", r.piece, r.block, data))
  BY DEF SendPiece
<1>2. requests # <<>> /\ r.kind = "REQUEST" /\ requests' = Tail(requests)
  BY DEF SendPiece
<1>3. r = requests[1] /\ r \in Messages /\ 1 \in 1 .. Len(requests) /\ requests' \in Seq(Messages)
  BY <1>2, InFlight
<1> HIDE DEF r
<1>4. Asked(lens, active, recorded, r)
  <2>1. Flight(lens, active, recorded, requests, sent, got)
    BY InFlight
  <2> QED BY <1>2, <1>3, <2>1 DEF Flight
<1>5. r.piece \in PiecesOf(lens) /\ r.block \in 0 .. NumBlocks(lens, r.piece) - 1
  BY <1>4 DEF Asked
<1>6. BlockData(lens, r.piece, r.block, data)
  <2>1. Sized(Master, lens) /\ \A k \in 1 .. TotalSize(lens) : ByteAt(Master, lens, k) = k
    BY InFlight, MasterIs
  <2>2. /\ BlockData(lens, r.piece, r.block, Read(Master, lens, BlockAt(r.piece, r.block), n))
        /\ BlockData(lens, r.piece, r.block, Zeros(n))
    BY <1>5, <2>1, InFlight, BlockOfSource
  <2> QED BY <1>1, <2>2
<1> HIDE DEF n
<1>7. PICK m : m = Message("PIECE", r.piece, r.block, data)
  OBVIOUS
<1>8. m \in Messages /\ m.kind = "PIECE" /\ m.piece = r.piece /\ m.block = r.block /\ m.data = data
  <2>1. r.piece \in Nat /\ r.block \in Nat
    BY <1>3 DEF Messages
  <2>2. data \in Seq(Int)
    BY <1>6 DEF BlockData
  <2> QED BY <1>7, <2>1, <2>2 DEF Message, Messages
<1>9. Flight(lens, active, recorded, Tail(requests), Append(sent, m), got)
  <2>1. BlockData(lens, m.piece, m.block, m.data)
    BY <1>6, <1>8
  <2> QED BY <1>2, <1>8, <2>1, InFlight, FlightPiece DEF r
<1>10. Take(m)
  BY <1>1, <1>7
<1> QED BY <1>2, <1>3, <1>8, <1>9, <1>10, TakeKeeps

\* The writer goes on, time passes
LEMMA WriterKeeps ==
  ASSUME TransferInv, WritePayload \/ Chunk \/ Limited \/ Tick
  PROVE  TransferInv' /\ Refines
<1>1. UNCHANGED <<files, store, link, requests, sent, got>>
  BY DEF WritePayload, Chunk, Limited, Tick, stream
<1>2. StoreInv' /\ Refines
  BY <1>1, SameStore DEF TransferInv
<1>3. StreamInv'
  BY WritePayloadStream, ChunkStream, LimitedStream, TickStream DEF TransferInv
<1>4. FlightInv'
  BY <1>1, SameFlight DEF TransferInv, files, store
<1> QED BY <1>2, <1>3, <1>4 DEF TransferInv

\* A keep-alive of the agent
LEMMA AgentAliveKeeps ==
  ASSUME TransferInv, AgentAlive
  PROVE  TransferInv' /\ Refines
<1>1. PICK m : m = Message("ALIVE", 0, 0, <<>>)
  OBVIOUS
<1>2. /\ UNCHANGED <<files, store, link, sent, got>> /\ requests' = Append(requests, m)
      /\ m \in Messages /\ m.kind = "ALIVE"
  BY <1>1 DEF AgentAlive, Message, Messages
<1>3. StoreInv' /\ Refines
  BY <1>2, SameStore DEF TransferInv
<1>4. StreamInv'
  BY AgentAliveStream DEF TransferInv
<1>5. Flight(lens, active, recorded, Append(requests, m), sent, got)
  BY <1>2, InFlight, FlightAgentAlive
<1>6. FlightInv'
  BY <1>2, <1>5 DEF FlightInv, files, store
<1> QED BY <1>3, <1>4, <1>6 DEF TransferInv

\* The message at the head is taken off the connection
LEMMA ReceivedStream ==
  ASSUME StreamInv, link = "open", UNCHANGED <<link, conns, sent, slice, payload, flow>>,
         requests' \in Seq(Messages), StreamOK(sent, slice, payload, wire', got')
  PROVE  StreamInv'
<1>1. FlowInv' /\ left' = left /\ writer' = writer
  BY FlowStep DEF StreamInv, flow
<1>2. StreamOK(sent', slice', payload', wire', got')
  OBVIOUS
<1> QED BY <1>1, <1>2 DEF StreamInv

\* ... and what is asked for next is on its way
LEMMA ReceivedKeeps ==
  ASSUME TransferInv, link = "open", UNCHANGED <<lens, session, starts, conns>>,
         StoreInv', Refines, Handled,
         got + 1 \in 1 .. Len(sent), sent[got + 1].kind # "ALIVE",
         link' = "open" => /\ got' = got + 1
                           /\ StreamOK(sent, slice, payload, wire', got + 1)
  PROVE  TransferInv' /\ Refines
<1>1. CASE link' = "closed" /\ Afresh
  <2>1. link' \in Links /\ conns' \in 0 .. MaxConns
    BY <1>1 DEF Links, TransferInv, StreamInv
  <2> QED BY <1>1, <2>1, AfreshStream, AfreshFlight DEF TransferInv
<1>2. CASE /\ UNCHANGED <<link, sent, slice, payload, flow>>
           /\ Requested(lens, active', recorded', requests, requests')
  <2>1. got' = got + 1 /\ StreamOK(sent, slice, payload, wire', got')
    BY <1>2
  <2>2. Flight(lens, active', recorded', requests', sent, got + 1) /\ requests' \in Seq(Messages)
    BY <1>2, InFlight, FlightReceived
  <2>3. FlightInv'
    BY <1>2, <2>1, <2>2 DEF FlightInv
  <2>4. StreamInv'
    BY <1>2, <2>1, <2>2, ReceivedStream DEF TransferInv
  <2> QED BY <2>3, <2>4 DEF TransferInv
<1> QED BY <1>1, <1>2 DEF Handled

\* The agent reads a message and handles it
LEMMA ReceiveKeeps ==
  ASSUME TransferInv, Receive
  PROVE  TransferInv' /\ Refines
<1> DEFINE m == sent[Incoming]
           nil == /\ Incoming # Junk /\ m.kind = "BITFIELD"
                  /\ NewBitsetFromBytes(NumPieces(lens), m.data) = Invalid
<1>1. /\ link = "open" /\ Len(wire) >= LenBytes /\ Len(wire) >= ReadSize
      /\ UNCHANGED <<lens, session, starts, conns>>
      /\ \/ Reconnect /\ UNCHANGED <<disk, verified, active, recorded>>
         \/ /\ Incoming # Junk
            /\ \/ /\ m.kind = "BITFIELD"
                  /\ Request(verified, active, recorded)
                  /\ UNCHANGED <<link, disk, verified, sent, slice, payload, flow>>
               \/ m.kind = "PIECE" /\ Store(m)
            /\ link' = "open" => wire' = Rest(wire, ReadSize) /\ got' = Incoming
         \/ Incoming # Junk /\ m.kind = "PIECE" /\ StoreFails(m)
  BY DEF Receive
<1>2. /\ got + 1 \in 1 .. Len(sent) /\ sent[got + 1] \in Messages
      /\ sent[got + 1].kind = "ALIVE" => Incoming = Junk
      /\ sent[got + 1].kind # "ALIVE" =>
           /\ Incoming = got + 1
           /\ StreamOK(sent, slice, payload, Rest(wire, ReadSize), got + 1)
  BY <1>1, HeadOfWire DEF TransferInv
<1>3. session = "up" /\ lens \in Layouts
  BY <1>1 DEF TransferInv, StoreInv
<1>4. ASSUME Reconnect, StoreInv', Refines PROVE TransferInv'
  <2>1. link' \in Links /\ conns' \in 0 .. MaxConns /\ Afresh
    BY <1>1, <1>4 DEF Reconnect, Links, TransferInv, StreamInv
  <2> QED BY <1>4, <2>1, AfreshStream, AfreshFlight DEF TransferInv
<1>5. CASE Reconnect /\ UNCHANGED <<disk, verified, active, recorded>>
  <2>1. UNCHANGED <<files, store>>
    BY <1>1, <1>5 DEF files, store
  <2>2. StoreInv' /\ Refines
    BY <1>1, <2>1, SameStore DEF TransferInv
  <2> QED BY <1>4, <1>5, <2>2
<1>6. ASSUME Incoming # Junk
      PROVE  /\ sent[got + 1].kind # "ALIVE" /\ Incoming = got + 1 /\ m = sent[got + 1] /\ m \in Messages
             /\ StreamOK(sent, slice, payload, Rest(wire, ReadSize), got + 1)
             /\ m.kind = "PIECE" => /\ Asked(lens, active, recorded, m)
                                    /\ BlockData(lens, m.piece, m.block, m.data)
  <2>1. sent[got + 1].kind # "ALIVE" /\ Incoming = got + 1
    BY <1>2, <1>6
  <2>2. got + 1 \in got + 1 .. Len(sent)
    <3>1. got \in Nat /\ Len(sent) \in Nat
      BY InFlight
    <3> QED BY <1>2, <3>1
  <2>3. Flight(lens, active, recorded, requests, sent, got)
    BY InFlight
  <2>4. sent[got + 1].kind = "PIECE" =>
          /\ Asked(lens, active, recorded, sent[got + 1])
          /\ BlockData(lens, sent[got + 1].piece, sent[got + 1].block, sent[got + 1].data)
    BY <2>2, <2>3 DEF Flight
  <2> QED BY <1>2, <2>1, <2>4
<1> HIDE DEF m
<1>7. CASE /\ Incoming # Junk /\ m.kind = "BITFIELD" /\ Request(verified, active, recorded)
           /\ UNCHANGED <<link, disk, verified, sent, slice, payload, flow>>
           /\ link' = "open" => wire' = Rest(wire, ReadSize) /\ got' = Incoming
  <2>1. Progress(lens, verified, active, recorded) /\ StoredOn(lens, disk, active, recorded)
    BY DEF TransferInv, StoreInv
  <2>2. IsRequest(lens, verified, active, recorded, active', recorded', requests, requests')
    BY <1>3, <1>7, <2>1, RequestIs
  <2>3. /\ Progress(lens, verified, active', recorded') /\ Requested(lens, active', recorded', requests, requests')
        /\ recorded' = recorded /\ (recorded' # {} => active' = active)
    BY <2>2 DEF IsRequest
  <2>4. StoredOn(lens, disk, active', recorded')
    BY <2>1, <2>3 DEF StoredOn
  <2>5. StoreInv'
    BY <1>1, <1>3, <1>7, <2>3, <2>4 DEF TransferInv, StoreInv
  <2>6. Refines
    BY <1>1, <1>7 DEF Refines, Copies, KeptOn
  <2>7. Handled
    BY <1>7, <2>3 DEF Handled
  <2> QED BY <1>1, <1>2, <1>6, <1>7, <2>5, <2>6, <2>7, ReceivedKeeps
<1>8. CASE /\ Incoming # Junk /\ m.kind = "PIECE" /\ Store(m)
           /\ link' = "open" => wire' = Rest(wire, ReadSize) /\ got' = Incoming
  <2>1. StoreInv' /\ Copies /\ Handled
    BY <1>1, <1>3, <1>6, <1>8, StoreIs DEF TransferInv
  <2>2. Refines
    BY <1>1, <2>1 DEF Refines
  <2> QED BY <1>1, <1>2, <1>6, <1>8, <2>1, <2>2, ReceivedKeeps
<1>9. CASE Incoming # Junk /\ m.kind = "PIECE" /\ StoreFails(m)
  <2>1. StoreInv' /\ Copies
    BY <1>1, <1>3, <1>6, <1>9, StoreFailsIs DEF TransferInv
  <2>2. Refines
    BY <1>1, <2>1 DEF Refines
  <2>3. Reconnect
    BY <1>9 DEF StoreFails
  <2> QED BY <1>4, <2>1, <2>2, <2>3
<1> QED BY <1>1, <1>5, <1>7, <1>8, <1>9

\* The invariant holds at first
LEMMA TransferStart == Init => TransferInv
<1> SUFFICES ASSUME Init PROVE TransferInv
  OBVIOUS
<1>1. lens \in Layouts /\ Layout(lens) /\ lens \in Seq(Nat) /\ DOMAIN lens = 1 .. Len(lens)
  BY LayoutIs DEF Init, Layout
<1>2. disk \in [1 .. Len(lens) -> Seq(Int)]
  <2>1. disk \in [1 .. Len(lens) -> Leftovers]
    BY <1>1 DEF Init
  <2> QED BY <2>1, FilesAssumption
<1>3. Progress(lens, {}, None, {}) /\ VerifiedOn(lens, disk, {}) /\ StoredOn(lens, disk, None, {})
  BY <1>1 DEF Progress, VerifiedOn, StoredOn
<1>4. StoreInv
  BY <1>1, <1>2, <1>3, BoundsAssumption DEF Init, StoreInv
<1>5. StreamInv
  <2>1. FlowInv /\ left = 0 /\ writer = "idle"
    BY FlowStart DEF Init, FlowInit
  <2>2. Quiet /\ link \in Links /\ conns \in 0 .. MaxConns
    BY <2>1, BoundsAssumption DEF Init, Quiet, Links
  <2>3. StreamOK(sent, slice, payload, wire, got)
    BY <2>2, StreamEmpty DEF Quiet
  <2> QED BY <2>1, <2>2, <2>3 DEF StreamInv, Quiet
<1>6. FlightInv
  BY FlightNone DEF Init, FlightInv
<1> QED BY <1>4, <1>5, <1>6 DEF TransferInv

\* ... and every step keeps it, and does to the files what Copy allows
LEMMA TransferStep == TransferInv /\ [Next]_vars => TransferInv' /\ Refines
<1> SUFFICES ASSUME TransferInv, [Next]_vars PROVE TransferInv' /\ Refines
  OBVIOUS
<1>1. CASE Drop
  BY <1>1, ClosedKeeps DEF Drop
<1>2. CASE AliveMisread
  BY <1>2, ClosedKeeps DEF AliveMisread
<1>3. CASE UNCHANGED vars
  <2>1. UNCHANGED <<files, store, conns, link, stream, flow>>
    BY <1>3 DEF vars
  <2>2. StoreInv' /\ Refines
    BY <2>1, SameStore DEF TransferInv
  <2>3. StreamInv'
    BY <2>1, SameStream DEF TransferInv, StreamInv
  <2>4. FlightInv'
    BY <2>1, SameFlight DEF TransferInv, files, store, stream
  <2> QED BY <2>2, <2>3, <2>4 DEF TransferInv
<1> QED
  BY <1>1, <1>2, <1>3, OpenKeeps, StopKeeps, LinkKeeps, SendBitfieldKeeps, SendPieceKeeps,
     SendAliveKeeps, WriterKeeps, AgentAliveKeeps, ReceiveKeeps DEF Next

\* What one copy of one agent keeps, for every layout, rate, loss and crash
LEMMA TransferInvariance == Spec => []TransferInv
BY TransferStart, TransferStep, PTL DEF Spec

-----------------------------------------------------------------------------
(* What follows.                                                             *)

\* Every variable has the values it should, in every run.
THEOREM TransferTypeOK == Spec => []TypeOK
<1>1. TransferInv => TypeOK
  <2> SUFFICES ASSUME TransferInv PROVE TypeOK
    OBVIOUS
  <2>1. lens \in Layouts /\ Layout(lens) /\ got \in 0 .. Len(sent)
    BY InFlight
  <2>2. DOMAIN disk = DOMAIN lens
    BY <2>1 DEF TransferInv, StoreInv, Layout
  <2>3. /\ session \in {"down", "up"} /\ starts \in 0 .. MaxStarts
        /\ verified \subseteq Pieces /\ active \in Pieces \cup {None} /\ active \notin verified
        /\ active = None => recorded = {}
    BY DEF TransferInv, StoreInv, Progress, Pieces
  <2>4. recorded \subseteq Nat
    <3>1. CASE active = None
      BY <2>3, <3>1
    <3>2. CASE active # None
      <4>1. PICK c \in 0 .. NumBlocks(lens, active) - 1 : recorded = 0 .. c - 1
        BY <3>2 DEF TransferInv, StoreInv, Progress
      <4> QED BY <4>1
    <3> QED BY <3>1, <3>2
  <2>5. /\ conns \in 0 .. MaxConns /\ link \in Links /\ FlowTypeOK /\ left = Len(slice)
        /\ link # "open" => requests = <<>> /\ wire = <<>>
    BY DEF TransferInv, StreamInv, FlowInv, Quiet
  <2> QED BY <2>1, <2>2, <2>3, <2>4, <2>5 DEF TypeOK, Links
<1> QED BY <1>1, TransferInvariance, PTL

\* However the writes are cut to the rate and wherever the connection ends,
\* what is read, in the connection and still to be written is what was not
\* delivered yet, whole and in order.
THEOREM TransferStreamWhole == Spec => []StreamWhole
<1>1. TransferInv => StreamWhole
  <2>1. Frames(sent, got) = [k \in 1 .. Len(sent) - got |-> Frame(got + k)]
    BY DEF Frames, FrameOf, Frame
  <2> QED BY <2>1 DEF TransferInv, StreamInv, StreamOK, StreamWhole
<1> QED BY <1>1, TransferInvariance, PTL

\* A connection carries no more than its rate allows, also when it is made of
\* the lengths and payloads of frames, and begun again after a failure.
THEOREM TransferRateKept == Spec => []RateKept
<1>1. TransferInv => RateKept
  BY RateFromSamples DEF TransferInv, StreamInv
<1> QED BY <1>1, TransferInvariance, PTL

\* A block recorded is on disk as it was sent, in the places of the layout.
THEOREM TransferBlocksStored == Spec => []BlocksStored
<1>1. TransferInv => BlocksStored
  <2> SUFFICES ASSUME TransferInv, NEW b \in recorded
               PROVE  LET first  == active * PieceLen + b * BlockLen
                          places == first + 1 .. Least(first + BlockLen, TotalSize(lens))
                      IN  (\A k \in places : OnDisk(k) = k) \/ (\A k \in places : OnDisk(k) = 0)
    BY DEF BlocksStored
  <2>1. lens \in Layouts /\ Layout(lens)
    BY InFlight
  <2>2. active # None /\ active \in PiecesOf(lens)
    BY DEF TransferInv, StoreInv, Progress
  <2>3. PICK c \in 0 .. NumBlocks(lens, active) - 1 : recorded = 0 .. c - 1
    BY <2>2 DEF TransferInv, StoreInv, Progress
  <2>4. NumBlocks(lens, active) \in Nat
    BY <2>1, <2>2, PieceIsNumber
  <2>5. b \in 0 .. NumBlocks(lens, active) - 1
    BY <2>3, <2>4
  <2>6. ASSUME NEW k \in BlockPlaces(lens, active, b) PROVE OnDisk(k) = ByteAt(disk, lens, k)
    <3>1. k \in 1 .. TotalSize(lens)
      BY <2>1, <2>2, <2>5, BlockPlacesIn
    <3>2. TotalSize(lens) \in Nat
      BY <2>1, <2>2, PieceInRow
    <3>3. ~(k > TotalSize(lens))
      BY <3>1, <3>2
    <3> QED BY <3>3 DEF OnDisk
  <2>7. \/ \A k \in BlockPlaces(lens, active, b) : ByteAt(disk, lens, k) = k
        \/ \A k \in BlockPlaces(lens, active, b) : ByteAt(disk, lens, k) = 0
    BY DEF TransferInv, StoreInv, StoredOn
  <2> QED BY <2>6, <2>7 DEF BlockPlaces, BlockAt
<1> QED BY <1>1, TransferInvariance, PTL

\* With every piece verified the agent's files are the source's files, to their
\* lengths: for every layout, whatever lay on the disk, whatever failed.
THEOREM TransferFilesRight == Spec => []FilesRight
<1>1. TransferInv => FilesRight
  <2> SUFFICES ASSUME TransferInv, session = "up", verified = Pieces PROVE disk = Master
    BY DEF FilesRight
  <2>1. lens \in Layouts /\ Layout(lens) /\ Sized(disk, lens) /\ VerifiedOn(lens, disk, verified)
    BY InFlight DEF TransferInv, StoreInv
  <2>2. Sized(Master, lens) /\ \A k \in 1 .. TotalSize(lens) : ByteAt(Master, lens, k) = k
    BY <2>1, MasterIs
  <2>3. ASSUME NEW k \in 1 .. TotalSize(lens) PROVE ByteAt(disk, lens, k) = ByteAt(Master, lens, k)
    <3>1. (k - 1) \div PieceLen \in verified
      BY <2>1, PlaceInPiece DEF Pieces
    <3>2. ByteAt(disk, lens, k) = k
      BY <2>1, <3>1 DEF VerifiedOn
    <3> QED BY <2>2, <3>2
  <2> QED BY <2>1, <2>2, <2>3, SameRow
<1> QED BY <1>1, TransferInvariance, PTL

-----------------------------------------------------------------------------

\* Places are counted from 1
LEMMA PlaceIs ==
  ASSUME NEW k \in Places
  PROVE  k \in Nat \ {0}
<1>1. PICK l \in Layouts : k \in 1 .. TotalSize(l)
  BY DEF Places
<1>2. TotalSize(l) \in Nat
  <2>1. 1 \in 1 .. Len(l) /\ l \in Seq(Nat)
    BY LayoutIs DEF Layout
  <2> QED BY <2>1, TotalNext
<1> QED BY <1>1, <1>2

\* Every place has a byte
LEMMA ByteIs ==
  ASSUME StoreInv, NEW k \in Places
  PROVE  OnDisk(k) \in Int
<1>1. k \in Nat \ {0}
  BY PlaceIs
<1>2. lens \in Seq(Nat) /\ disk \in [1 .. Len(lens) -> Seq(Int)] /\ TotalSize(lens) \in Nat
  <2>1. 1 \in 1 .. Len(lens) /\ lens \in Seq(Nat)
    BY LayoutIs DEF StoreInv, Layout
  <2> QED BY <2>1, TotalNext DEF StoreInv
<1>3. CASE k > TotalSize(lens)
  BY <1>1, <1>3 DEF OnDisk
<1>4. CASE ~(k > TotalSize(lens))
  <2>1. k \in 1 .. TotalSize(lens)
    BY <1>1, <1>2, <1>4
  <2>2. PICK i \in 1 .. Len(lens) : i = FileOf(lens, k)
    BY <1>2, <2>1, PlaceHasFile
  <2>3. PICK file \in Seq(Int) : file = disk[i]
    BY <1>2
  <2>4. PICK at : at = k - Offset(lens, i)
    OBVIOUS
  <2>5. ByteAt(disk, lens, k) = IF at \in DOMAIN file THEN file[at] ELSE 0
    BY <2>2, <2>3, <2>4 DEF ByteAt
  <2>6. \A x \in DOMAIN file : file[x] \in Int
    OBVIOUS
  <2>7. ByteAt(disk, lens, k) \in Int
    BY <2>5, <2>6
  <2> QED BY <1>4, <2>7 DEF OnDisk
<1> QED BY <1>3, <1>4

\* The pieces are Copy's
LEMMA InPieces ==
  ASSUME NEW l \in Layouts
  PROVE  PiecesOf(l) \subseteq {(k - 1) \div PieceLen : k \in Places}
<1> SUFFICES ASSUME NEW p \in PiecesOf(l) PROVE \E k \in Places : p = (k - 1) \div PieceLen
  OBVIOUS
<1>1. /\ p \in Nat /\ p * PieceLen \in Nat /\ TotalSize(l) \in Nat
      /\ pieceLength(l, p) \in 1 .. PieceLen
      /\ p * PieceLen + pieceLength(l, p) <= TotalSize(l)
  BY LayoutIs, PieceInRow
<1>2. PICK k \in Nat \ {0} : k = p * PieceLen + 1
  BY <1>1
<1>3. PieceLen \in Nat \ {0}
  BY LengthsAre
<1>4. k - p * PieceLen \in 1 .. PieceLen /\ k \in 1 .. TotalSize(l)
  BY <1>1, <1>2, <1>3
<1>5. (k - 1) \div PieceLen = p
  BY <1>1, <1>4, PlacesOfPiece
<1>6. k \in Places
  BY <1>4 DEF Places
<1> QED BY <1>5, <1>6

\* the copy as ImplementsCopy sees it
Content == [k \in Places |-> OnDisk(k)]

\* ... is made of bytes, and right where it is verified
ContentRight == Content \in [Places -> Int] /\ verified \subseteq C!Right(Content)

\* What is verified is right, seen as Copy sees it
LEMMA ContentIs == StoreInv => ContentRight
<1> SUFFICES ASSUME StoreInv PROVE ContentRight
  OBVIOUS
<1>1. Content \in [Places -> Int]
  BY ByteIs DEF Content
<1>2. lens \in Layouts /\ verified \subseteq PiecesOf(lens) /\ VerifiedOn(lens, disk, verified)
  BY DEF StoreInv, Progress
<1>3. ASSUME NEW p \in verified, NEW k \in Places, (k - 1) \div PieceLen = p
      PROVE  Content[k] = k
  <2>1. k \in Nat \ {0}
    BY PlaceIs
  <2>2. TotalSize(lens) \in Nat
    BY <1>2, LayoutIs, PieceInRow
  <2>3. CASE k > TotalSize(lens)
    BY <2>3 DEF Content, OnDisk
  <2>4. CASE ~(k > TotalSize(lens))
    <3>1. k \in 1 .. TotalSize(lens)
      BY <2>1, <2>2, <2>4
    <3>2. ByteAt(disk, lens, k) = k
      BY <1>2, <1>3, <3>1 DEF VerifiedOn
    <3> QED BY <2>4, <3>2 DEF Content, OnDisk
  <2> QED BY <2>3, <2>4
<1>4. verified \subseteq {(k - 1) \div PieceLen : k \in Places}
  BY <1>2, InPieces
<1> QED BY <1>1, <1>3, <1>4 DEF C!Right, ContentRight

\* ... and what a step keeps
LEMMA ContentKept ==
  ASSUME StoreInv, lens' = lens, KeptOn(lens, disk, disk', verified),
         NEW k \in Places, (k - 1) \div PieceLen \in verified
  PROVE  Content'[k] = Content[k]
<1>1. k \in Nat \ {0}
  BY PlaceIs
<1>2. TotalSize(lens) \in Nat
  <2>1. 1 \in 1 .. Len(lens) /\ lens \in Seq(Nat)
    BY LayoutIs DEF StoreInv, Layout
  <2> QED BY <2>1, TotalNext DEF StoreInv
<1>3. Content[k] = OnDisk(k) /\ Content'[k] = OnDisk(k)'
  BY DEF Content
<1>4. CASE k > TotalSize(lens)
  BY <1>3, <1>4 DEF OnDisk
<1>5. CASE ~(k > TotalSize(lens))
  <2>1. k \in 1 .. TotalSize(lens)
    BY <1>1, <1>2, <1>5
  <2>2. ByteAt(disk', lens, k) = ByteAt(disk, lens, k)
    BY <2>1 DEF KeptOn
  <2> QED BY <1>3, <1>5, <2>2 DEF OnDisk
<1> QED BY <1>4, <1>5

\* The files, the session and the connection implement Copy: each step obtains
\* bytes outside of what is verified, verifies one piece that is right, ends the
\* session or begins one with what is right on disk, or is none of these.
THEOREM TransferImplementsCopy == Spec => ImplementsCopy
<1>1. Init => C!Init
  <2> SUFFICES ASSUME Init PROVE C!Init
    OBVIOUS
  <2>1. StoreInv /\ verified = {}
    BY TransferStart DEF TransferInv, Init
  <2> QED BY <2>1, ContentIs DEF C!Init, Content, ContentRight
<1>p. StoreInv' => ContentRight'
  BY ContentIs, PTL
<1>2. TransferInv /\ [Next]_vars /\ TransferInv' /\ Refines => [C!Next]_(C!vars)
  <2> SUFFICES ASSUME TransferInv, TransferInv', Refines PROVE [C!Next]_(C!vars)
    OBVIOUS
  <2>1. /\ Content \in [Places -> Int] /\ verified \subseteq C!Right(Content)
    BY ContentIs DEF TransferInv, ContentRight
  <2>2. /\ Content' \in [Places -> Int] /\ verified' \subseteq C!Right(Content')
    BY <1>p DEF TransferInv, ContentRight
  <2>3. CASE verified = {}
    BY <2>2, <2>3 DEF C!Next, C!Resume, Content
  <2>4. CASE verified' = {} /\ disk' = disk /\ lens' = lens
    <3>1. Content' = Content
      BY <2>4 DEF Content, OnDisk
    <3> QED BY <2>4, <3>1 DEF C!Next, C!Stop, Content
  <2>5. CASE Copies /\ lens' = lens
    <3>1. \A k \in Places : (k - 1) \div PieceLen \in verified => Content'[k] = Content[k]
      BY <2>5, ContentKept DEF Copies, TransferInv
    <3>2. CASE verified' = verified
      BY <2>2, <3>1, <3>2 DEF C!Next, C!Write, Content
    <3>3. ASSUME NEW p \in PiecesOf(lens), verified' = verified \cup {p} PROVE C!Next
      <4>1. p \in {(k - 1) \div PieceLen : k \in Places}
        BY InFlight, InPieces
      <4>2. p \in C!Right(Content')
        BY <2>2, <3>3
      <4>3. C!Verify(p)
        BY <2>2, <3>1, <3>3, <4>2 DEF C!Verify, Content
      <4> QED BY <4>1, <4>3 DEF C!Next
    <3> QED BY <2>5, <3>2, <3>3 DEF Copies
  <2> QED BY <2>3, <2>4, <2>5 DEF Refines
<1> QED BY <1>1, <1>2, TransferInvariance, TransferStep, PTL DEF Spec, ImplementsCopy, C!Spec

\* What the session holds for verified is right, at every moment.
THEOREM TransferVerifiedRight == Spec => []C!VerifiedRight
<1>1. TransferInv => C!VerifiedRight
  BY ContentIs DEF TransferInv, ContentRight, Content, C!VerifiedRight
<1> QED BY <1>1, TransferInvariance, PTL
==============================================================================
