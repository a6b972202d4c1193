------------------------------- MODULE FlowCtrl -------------------------------
(***************************************************************************)
(* Flow control of one peer's connection (src/flowctrl): a Writer that     *)
(* cuts every Write into what its Monitor allows in the current sample and *)
(* sleeps until the next one when nothing is left.  Time is counted in     *)
(* ticks of clock(), which is as coarse as that; bytes are only counted.   *)
(* The Monitor's rates and averages are figures for a display and are left *)
(* out: nothing decides on them.                                           *)
(***************************************************************************)
EXTENDS Integers

CONSTANTS
  Rate,            \* Writer.limit, in bytes per second; below 1: no limit
  TicksPerSecond,  \* 50: clockRate is 20 ms
  SampleTicks,     \* 5: the default sRate, in ticks
  Sizes,           \* lengths of the slices given to Write
  MaxTime          \* bound on the time that passes with nobody asleep

ASSUME RateAssumption ==
  /\ Rate \in Int /\ TicksPerSecond \in Nat \ {0} /\ SampleTicks \in Nat \ {0}
ASSUME SizesAssumption == Sizes \subseteq Nat \ {0} /\ MaxTime \in Nat

VARIABLES
  now,             \* clock(), since the Monitor was made
  sLast, sBytes,   \* Monitor.sLast, sBytes: the current sample
  bytes, samples,  \* Monitor.bytes, samples: those that are over
  writer,          \* where Writer.Write is; "idle": not called
  left, granted    \* len(p), and len(s): what Limit allowed

monitor == <<sLast, sBytes, bytes, samples>>
flow == <<now, monitor, writer, left, granted>>

\* Bytes in one sample: rate * sRate, rounded, and one at least
limit ==
  LET exact == (2 * Rate * SampleTicks + TicksPerSecond) \div (2 * TicksPerSecond)
  IN  IF exact <= 0 THEN 1 ELSE exact

FlowTypeOK ==
  /\ now \in Nat /\ sLast \in 0 .. now
  /\ sBytes \in Nat /\ bytes \in Nat /\ samples \in Nat
  /\ writer \in {"idle", "limit", "sleep", "write"}
  /\ left \in Nat /\ granted \in 0 .. left
  /\ writer # "idle" => left > 0
  /\ writer = "write" <=> granted > 0

FlowInit ==
  /\ now = 0 /\ sLast = 0 /\ sBytes = 0 /\ bytes = 0 /\ samples = 0
  /\ writer = "idle" /\ left = 0 /\ granted = 0

\* a Monitor for the next connection
New ==
  /\ now' = 0 /\ sLast' = 0 /\ sBytes' = 0 /\ bytes' = 0 /\ samples' = 0
  /\ writer' = "idle" /\ left' = 0 /\ granted' = 0

-----------------------------------------------------------------------------
\* mutant: a sample is closed one tick before it has lasted
updateEarly(n) ==
  IF now - sLast >= SampleTicks - 1
  THEN bytes' = bytes + sBytes + n /\ samples' = samples + 1 /\ sBytes' = 0 /\ sLast' = now
  ELSE sBytes' = sBytes + n /\ UNCHANGED <<bytes, samples, sLast>>

\* Monitor.update: n more bytes; a sample that has lasted is closed
update(n) ==
  IF now - sLast >= SampleTicks
  THEN /\ bytes' = bytes + sBytes + n
       /\ samples' = samples + 1
       /\ sBytes' = 0 /\ sLast' = now
  ELSE /\ sBytes' = sBytes + n
       /\ UNCHANGED <<bytes, samples, sLast>>

AtMost(a, b) == IF a <= b THEN a ELSE b

Write(n) ==
  /\ writer = "idle"
  /\ writer' = "limit" /\ left' = n /\ granted' = 0
  /\ UNCHANGED <<now, monitor>>

\* what Limit answers once the sample has room
Allow == granted' = AtMost(left, limit - sBytes')

Limit ==
  /\ writer = "limit"
  /\ IF Rate < 1
     THEN /\ writer' = "write" /\ granted' = left
          /\ UNCHANGED monitor
     ELSE /\ update(0)
          /\ IF sBytes' >= limit THEN writer' = "sleep" /\ UNCHANGED granted
                                 ELSE writer' = "write" /\ Allow
  /\ UNCHANGED <<now, left>>

\* waitNextSample: it sleeps for what is left of the sample, or longer
Wake ==
  /\ writer = "sleep" /\ now - sLast >= SampleTicks
  /\ update(0)
  /\ writer' = "write" /\ Allow
  /\ UNCHANGED <<now, left>>

\* the connection took c bytes; fewer than it was given means an error, and
\* ends the Write
Wrote(c) ==
  /\ writer = "write" /\ c <= granted
  /\ update(c)
  /\ left' = left - c
  /\ writer' = IF c = granted /\ c < left THEN "limit" ELSE "idle"
  /\ granted' = 0
  /\ UNCHANGED now

Pass ==
  /\ now < MaxTime \/ (writer = "sleep" /\ now - sLast < SampleTicks)
  /\ now' = now + 1
  /\ UNCHANGED <<monitor, writer, left, granted>>

FlowNext ==
  \/ New \/ Limit \/ Wake \/ Pass
  \/ \E n \in Sizes : Write(n)
  \/ \E c \in 0 .. granted : Wrote(c)

FlowSpec == FlowInit /\ [][FlowNext]_flow

-----------------------------------------------------------------------------
\* flowctrl.go:197: no sample carries more than rate allows for one sampling
\* period, however a message is cut, how long a write takes, and whether it
\* fails half-way.
SampleKept == Rate >= 1 => sBytes <= limit

\* Over the life of a connection: limit bytes in each sampling period begun.
RateKept ==
  Rate >= 1 => (bytes + sBytes) * SampleTicks <= limit * (now + SampleTicks)
==============================================================================
