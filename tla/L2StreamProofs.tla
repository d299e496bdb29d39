--------------------------- MODULE L2StreamProofs ----------------------------
(***************************************************************************)
(* Proofs about L2Stream for any set of streams, every cycle time that the *)
(* API accepts, every width of the sequence number and any number of       *)
(* frames and reconfigurations.                                            *)
(***************************************************************************)
EXTENDS L2Stream, TLAPS

Ticks == TicksPerCycle(CycleTimeNano)
Tolerance == ToleranceTicks(CycleTimeNano)

\* The counter b is the one of k cycles after the counter a: every cycle is off
\* by at most MaxJitter ticks, and the counter has wrapped w times.
Drift(a, b, k) ==
    \E d \in -(k * MaxJitter)..k * MaxJitter, w \in Int :
        b = a + k * Ticks + d - w * CounterModulus

\* When a cycle and its jitter are good enough for the check of the counter, and
\* when n cycles are, for the report of a gap.
Steady == MaxJitter <= Ticks
SteadyGap(n) ==
    n >= 2 /\ 2 * ((n + 1) * MaxJitter + 1) <= Ticks
           /\ (n + 1) * Ticks + (n + 1) * MaxJitter < U16 \div 2
------------------------------------------------------------------------------
(***************************************************************************)
(* The arithmetic of the cycle counter.                                    *)
(***************************************************************************)

\* The numbers behind the names.
LEMMA Moduli ==
    /\ CounterModulus \in Nat /\ CounterModulus > 8 /\ U16 = CounterModulus + 1
    /\ TickNs \in Nat \ {0} /\ MinCycleTime = 8 * TickNs
BY DEF CounterModulus, U16, TickNs, MinCycleTime

\* A quotient that is rounded up.
LEMMA CeilDivBounds ==
    ASSUME NEW a \in Nat, NEW b \in Nat \ {0}
    PROVE  /\ CeilDiv(a, b) \in Nat
           /\ b * CeilDiv(a, b) >= a
           /\ b * CeilDiv(a, b) < a + b
BY DEF CeilDiv

\* A remainder is known once a number in its range differs by a multiple.
LEMMA Remainder ==
    ASSUME NEW m \in Nat \ {0}, NEW a \in Int, NEW w \in Int, NEW r \in 0..m - 1,
           a = m * w + r
    PROVE  a % m = r
OBVIOUS

\* The remainder of a number that is not negative is no larger.
LEMMA RemainderLess ==
    ASSUME NEW m \in Nat \ {0}, NEW a \in Nat
    PROVE  a % m \in Nat /\ a % m <= a /\ a % m <= m - 1
OBVIOUS

\* A multiple may be taken off.
LEMMA RemainderShift ==
    ASSUME NEW m \in Nat \ {0}, NEW a \in Int, NEW w \in Int
    PROVE  (a + m * w) % m = a % m
<1> DEFINE r == a % m
           q == a \div m
<1>1. r \in 0..m - 1 /\ q \in Int /\ a = m * q + r
  OBVIOUS
<1> HIDE DEF r, q
<1>2. q + w \in Int /\ a + m * w \in Int /\ a + m * w = m * (q + w) + r
  BY <1>1
<1>3. (a + m * w) % m = r
  BY <1>1, <1>2, Remainder
<1> QED
  BY <1>3 DEF r

\* A product with a positive factor is no smaller.
LEMMA Cancel ==
    ASSUME NEW m \in Nat \ {0}, NEW a \in Int, NEW b \in Int
    PROVE  (m * a < m * b => a < b) /\ (m * a <= m * b => a <= b)
OBVIOUS

\* A cycle has eight ticks or more, and the tolerance is one and a half cycles
\* up to a tick.
LEMMA CycleBounds ==
    /\ Ticks \in Nat /\ Ticks >= 8
    /\ Tolerance \in Nat
    /\ 3 * Ticks - 2 <= 2 * Tolerance
    /\ 2 * Tolerance <= 3 * Ticks + 1
<1> DEFINE ns == CycleTimeNano
           k == TickNs
<1>1. ns \in Nat /\ k \in Nat \ {0} /\ ns >= 8 * k
  BY Moduli, L2StreamAssumption
<1>2. Ticks \in Nat /\ k * Ticks >= ns /\ k * Ticks < ns + k
  BY <1>1, CeilDivBounds DEF Ticks, TicksPerCycle
<1>3. Tolerance \in Nat /\ (2 * k) * Tolerance >= 3 * ns /\ (2 * k) * Tolerance < 3 * ns + 2 * k
  <2>1. 3 * ns \in Nat /\ 2 * k \in Nat \ {0}
    BY <1>1
  <2> QED
    BY <2>1, CeilDivBounds DEF Tolerance, ToleranceTicks
<1> HIDE DEF ns, k
<1>4. Ticks >= 8
  BY <1>1, <1>2, Cancel
<1>5. k * (3 * Ticks - 3) < k * (2 * Tolerance)
  BY <1>1, <1>2, <1>3
<1>6. k * (2 * Tolerance) < k * (3 * Ticks + 2)
  BY <1>1, <1>2, <1>3
<1> QED
  BY <1>1, <1>2, <1>3, <1>4, <1>5, <1>6, Cancel

\* What the two distances are when the received counter is x ticks from the
\* expected one.
LEMMA Distances ==
    ASSUME NEW a \in 0..CounterModulus - 1, NEW b \in 0..CounterModulus - 1,
           NEW x \in Int, NEW w \in Int, b = a + Ticks + x - w * CounterModulus
    PROVE  LET expected == (a + Ticks) % U16
           IN  /\ WrappingSub(b, expected) = (x + w) % U16
               /\ WrappingSub(expected, b) = (-(x + w)) % U16
<1> DEFINE expected == (a + Ticks) % U16
           v == (a + Ticks) \div U16
<1>1. /\ U16 \in Nat \ {0} /\ CounterModulus = U16 - 1
      /\ a \in Int /\ b \in Int /\ Ticks \in Int /\ a + Ticks \in Int
  BY Moduli, CycleBounds
<1>2. v \in Int /\ expected \in Int /\ a + Ticks = U16 * v + expected
  BY <1>1
<1> HIDE DEF v, expected
<1>3. /\ b - expected = (x + w) + U16 * (v - w)
      /\ expected - b = -(x + w) + U16 * (w - v)
      /\ x + w \in Int /\ -(x + w) \in Int /\ v - w \in Int /\ w - v \in Int
  BY <1>1, <1>2
<1>4. ((x + w) + U16 * (v - w)) % U16 = (x + w) % U16
  BY <1>1, <1>3, RemainderShift
<1>5. (-(x + w) + U16 * (w - v)) % U16 = (-(x + w)) % U16
  BY <1>1, <1>3, RemainderShift
<1>6. /\ WrappingSub(b, expected) = (x + w) % U16
      /\ WrappingSub(expected, b) = (-(x + w)) % U16
  BY <1>3, <1>4, <1>5 DEF WrappingSub
<1> QED
  BY <1>6 DEF expected

\* The number of missed cycles, by the two distances.
LEMMA Missed ==
    ASSUME NEW a \in 0..CounterModulus - 1, NEW b \in 0..CounterModulus - 1,
           NEW x \in Int, NEW w \in Int, b = a + Ticks + x - w * CounterModulus
    PROVE  MissedCycles(a, b, CycleTimeNano) =
              LET forward == (x + w) % U16
                  backward == (-(x + w)) % U16
              IN  IF forward <= Tolerance \/ backward <= Tolerance THEN 0
                  ELSE IF forward <= backward THEN CeilDiv(forward, Ticks) ELSE 1
<1>1. /\ WrappingSub(b, (a + Ticks) % U16) = (x + w) % U16
      /\ WrappingSub((a + Ticks) % U16, b) = (-(x + w)) % U16
  BY Distances
<1> QED
  BY <1>1 DEF MissedCycles, Ticks, Tolerance

\* Consecutive cycles are within the tolerance.
LEMMA ConsecutiveCycles ==
    ASSUME NEW a \in 0..CounterModulus - 1, NEW b \in 0..CounterModulus - 1, Drift(a, b, 1), Steady
    PROVE  MissedCycles(a, b, CycleTimeNano) = 0
<1>0. MaxJitter \in Nat /\ 1 * MaxJitter = MaxJitter
  BY L2StreamAssumption
<1>1. PICK d \in -MaxJitter..MaxJitter, w \in Int : b = a + 1 * Ticks + d - w * CounterModulus
  BY <1>0 DEF Drift
<1>2. /\ a \in Int /\ b \in Int /\ d \in Int /\ a >= 0 /\ b >= 0
      /\ a <= CounterModulus - 1 /\ b <= CounterModulus - 1 /\ d >= -Ticks /\ d <= Ticks
      /\ CounterModulus \in Nat /\ CounterModulus > 8 /\ U16 = CounterModulus + 1
      /\ Ticks \in Nat /\ Ticks >= 8 /\ Tolerance \in Nat /\ 3 * Ticks - 2 <= 2 * Tolerance
  BY <1>0, Moduli, CycleBounds DEF Steady
<1>3. w >= 0
  <2>1. w * CounterModulus > -CounterModulus
    BY <1>1, <1>2
  <2>2. CounterModulus * (-1) < CounterModulus * w /\ CounterModulus \in Nat \ {0}
    BY <1>2, <2>1
  <2> QED
    BY <2>2, Cancel
<1>4. d + w <= Tolerance
  <2>1. CASE w <= 1
    BY <1>2, <2>1
  <2>2. CASE w >= 2
    <3>1. (w - 1) * CounterModulus <= 2 * Ticks
      BY <1>1, <1>2
    <3>2. (w - 1) * CounterModulus >= (w - 1) * 8
      BY <1>2, <2>2
    <3> QED
      BY <1>2, <2>2, <3>1, <3>2
  <2> QED
    BY <1>3, <2>1, <2>2
<1>5. b = a + Ticks + d - w * CounterModulus
  BY <1>1, <1>2
<1>6. (d + w) % U16 <= Tolerance \/ (-(d + w)) % U16 <= Tolerance
  <2>1. CASE d + w >= 0
    <3>1. d + w \in Nat /\ U16 \in Nat \ {0}
      BY <1>2, <2>1
    <3>2. (d + w) % U16 \in Nat /\ (d + w) % U16 <= d + w
      BY <3>1, RemainderLess
    <3> QED
      BY <1>2, <1>4, <3>1, <3>2
  <2>2. CASE d + w < 0
    <3>1. -(d + w) \in Nat /\ U16 \in Nat \ {0} /\ -(d + w) <= Ticks
      BY <1>2, <1>3, <2>2
    <3>2. (-(d + w)) % U16 \in Nat /\ (-(d + w)) % U16 <= -(d + w)
      BY <3>1, RemainderLess
    <3> QED
      BY <1>2, <3>1, <3>2
  <2> QED
    BY <1>2, <2>1, <2>2
<1>7. MissedCycles(a, b, CycleTimeNano) =
         IF (d + w) % U16 <= Tolerance \/ (-(d + w)) % U16 <= Tolerance THEN 0
         ELSE IF (d + w) % U16 <= (-(d + w)) % U16 THEN CeilDiv((d + w) % U16, Ticks) ELSE 1
  BY <1>2, <1>5, Missed
<1> QED
  BY <1>6, <1>7

\* A gap of n lost cycles, two or more, is reported.
LEMMA LostCycles ==
    ASSUME NEW a \in 0..CounterModulus - 1, NEW b \in 0..CounterModulus - 1,
           NEW n \in Nat, SteadyGap(n), Drift(a, b, n + 1)
    PROVE  MissedCycles(a, b, CycleTimeNano) \in n..n + 1
<1> DEFINE j == (n + 1) * MaxJitter
<1>0. j \in Nat
  BY L2StreamAssumption
<1>1. PICK d \in -j..j, w \in Int : b = a + (n + 1) * Ticks + d - w * CounterModulus
  BY DEF Drift
<1>2. /\ a \in Int /\ b \in Int /\ d \in Int /\ a >= 0 /\ b >= 0 /\ n >= 2
      /\ a <= CounterModulus - 1 /\ b <= CounterModulus - 1 /\ d >= -j /\ d <= j
      /\ CounterModulus \in Nat /\ CounterModulus > 8 /\ U16 = CounterModulus + 1
      /\ Ticks \in Nat /\ Ticks >= 8 /\ Tolerance \in Nat /\ 2 * Tolerance <= 3 * Ticks + 1
      /\ 2 * (j + 1) <= Ticks
  BY <1>0, Moduli, CycleBounds DEF SteadyGap
<1> DEFINE p == n * Ticks
           f == p + d + w
<1>3. /\ p \in Nat /\ (n + 1) * Ticks = p + Ticks /\ p >= 2 * Ticks
  BY <1>2
<1>4. 2 * (p + Ticks + j) < U16
  <2>1. (n + 1) * Ticks + j < U16 \div 2
    BY DEF SteadyGap
  <2> HIDE DEF j, p
  <2> QED
    BY <1>0, <1>2, <1>3, <2>1
<1> HIDE DEF p, j
<1>6. w \in 0..1
  <2>1. w * CounterModulus = a - b + p + Ticks + d
    BY <1>1, <1>2, <1>3
  <2>2. w * CounterModulus < 2 * CounterModulus
    BY <1>0, <1>2, <1>3, <1>4, <2>1
  <2>3. w * CounterModulus > -CounterModulus
    BY <1>0, <1>2, <1>3, <2>1
  <2>4. CounterModulus * w < CounterModulus * 2 /\ CounterModulus * (-1) < CounterModulus * w
    BY <1>2, <2>2, <2>3
  <2>5. w < 2 /\ -1 < w
    BY <1>2, <2>4, Cancel
  <2> QED
    BY <2>5
<1>7. /\ f \in Nat /\ 2 * f < U16 /\ f > Tolerance /\ U16 - f > Tolerance
  BY <1>0, <1>2, <1>3, <1>4, <1>6
<1>8. /\ f + Ticks > p /\ f <= p + Ticks
  BY <1>0, <1>2, <1>3, <1>6
<1>9. b = a + Ticks + (p + d) - w * CounterModulus
  BY <1>1, <1>2, <1>3
<1>10. p + d \in Int /\ f = (p + d) + w
  BY <1>2, <1>3
<1>11. MissedCycles(a, b, CycleTimeNano) = CeilDiv(f, Ticks)
  <2>1. f % U16 = f /\ (-f) % U16 = U16 - f
    <3>1. f \in 0..U16 - 1 /\ U16 - f \in 0..U16 - 1 /\ U16 \in Nat \ {0}
      BY <1>2, <1>7
    <3>2. f = U16 * 0 + f /\ -f = U16 * (-1) + (U16 - f) /\ f \in Int /\ -f \in Int
      BY <1>2, <1>7
    <3> HIDE DEF f
    <3>3. f % U16 = f
      BY <3>1, <3>2, Remainder
    <3>4. (-f) % U16 = U16 - f
      BY <3>1, <3>2, Remainder
    <3> QED
      BY <3>3, <3>4
  <2>2. MissedCycles(a, b, CycleTimeNano) =
           IF f % U16 <= Tolerance \/ (-f) % U16 <= Tolerance THEN 0
           ELSE IF f % U16 <= (-f) % U16 THEN CeilDiv(f % U16, Ticks) ELSE 1
    BY <1>9, <1>10, Missed
  <2> HIDE DEF f
  <2>3. ~(f <= Tolerance) /\ ~(U16 - f <= Tolerance) /\ f <= U16 - f
    BY <1>2, <1>7
  <2> QED
    BY <2>1, <2>2, <2>3
<1> DEFINE c == CeilDiv(f, Ticks)
<1>12. c \in Nat /\ Ticks * c >= f /\ Ticks * c < f + Ticks
  <2> HIDE DEF f
  <2>1. f \in Nat /\ Ticks \in Nat \ {0}
    BY <1>2, <1>7
  <2> QED
    BY <2>1, CeilDivBounds
<1> HIDE DEF c, f
<1>13. Ticks * (n - 1) < Ticks * c /\ Ticks * c < Ticks * (n + 2)
  BY <1>2, <1>7, <1>8, <1>12 DEF p
<1>14. n - 1 < c /\ c < n + 2
  BY <1>2, <1>12, <1>13, Cancel
<1> QED
  BY <1>11, <1>12, <1>14 DEF c
------------------------------------------------------------------------------
(***************************************************************************)
(* The inductive invariant.                                                *)
(***************************************************************************)

\* The sequence number at either end of a stream.
Sending(s) == Producer(s)[s]
Window(s) == Consumer(s)[s]

\* The frames of a stream are numbered by their cycles, and their counters are
\* as many cycles apart as their numbers.
CounterInv ==
    \A f \in net :
        /\ f.num <= sent[f.stream]
        /\ Drift(f.counter, clock[f.stream], sent[f.stream] - f.num)
        /\ \A g \in net : g.stream = f.stream /\ g.num > f.num
              => Drift(f.counter, g.counter, g.num - f.num)

\* The last good frame a consumer remembers was sent.
LastInv ==
    \A s \in Streams : last[s] # NoFrame =>
        \E f \in net : f.stream = s /\ f.num = last[s].num /\ f.counter = last[s].counter

CheckInv == NoFalseAlarm /\ GapReported

\* The producer of a stream has it and numbers its frames in their order, and
\* neither a frame nor the window reaches the number that comes next.
OrderInv ==
    \A s \in Streams : SameNumbering(s) =>
        /\ Sending(s) \in 1..SeqMax
        /\ \A f \in net : f.stream = s =>
              /\ f.seq <= Sending(s)
              /\ f.seq < Sending(s) \/ Sending(s) = SeqMax
              /\ \A g \in net : g.stream = s /\ f.num <= g.num => f.seq <= g.seq
        /\ Window(s) < Sending(s) \/ Sending(s) = SeqMax

\* The frame the process data came from is inside the window, unless the
\* consumer was configured anew since.
ImageInv ==
    \A s \in Streams :
        /\ image[s].epoch <= resets
        /\ SameNumbering(s) /\ image[s].epoch = resets /\ image[s].num > 0 =>
              /\ Window(s) # Absent
              /\ \E f \in net : f.stream = s /\ f.num = image[s].num /\ f.seq <= Window(s)

IInv == TypeOK /\ CounterInv /\ LastInv /\ CheckInv /\ OrderInv /\ ImageInv
------------------------------------------------------------------------------
(***************************************************************************)
(* What the steps do to the two ends of every stream.                      *)
(***************************************************************************)

\* The types the arithmetic below needs.
LEMMA Types ==
    ASSUME TypeOK, NEW s \in Streams
    PROVE  /\ SeqMax \in Nat /\ SeqMax >= 2 /\ MaxFrames \in Nat /\ MaxResets \in Nat
           /\ Sending(s) \in 0..SeqMax \cup {Absent} /\ Window(s) \in 0..SeqMax \cup {Absent}
           /\ Sending(s) \in Int /\ Window(s) \in Int
           /\ sent[s] \in Nat /\ clock[s] \in 0..CounterModulus - 1 /\ resets \in Nat
           /\ image[s].num \in Nat /\ image[s].epoch \in Nat
<1>1. SeqMax \in Nat /\ SeqMax >= 2 /\ MaxFrames \in Nat /\ MaxResets \in Nat
  BY StreamStoreAssumption, L2StreamAssumption
<1>2. Sending(s) \in 0..SeqMax \cup {Absent} /\ Window(s) \in 0..SeqMax \cup {Absent}
  BY DEF TypeOK, Tables, Sending, Window, Producer, Consumer
<1>3. Sending(s) \in Int /\ Window(s) \in Int
  BY <1>1, <1>2 DEF Absent
<1> QED
  BY <1>1, <1>2, <1>3 DEF TypeOK

\* The types of a frame.
LEMMA FrameTypes ==
    ASSUME TypeOK, NEW f \in net
    PROVE  /\ f \in Frames /\ f.stream \in Streams
           /\ f.num \in Nat /\ f.num >= 1 /\ f.num <= MaxFrames
           /\ f.seq \in Nat /\ f.seq <= SeqMax
           /\ f.counter \in 0..CounterModulus - 1 /\ f.counter \in Int
           /\ f.ok \in BOOLEAN
<1>1. f \in Frames
  BY DEF TypeOK
<1> QED
  BY <1>1, Moduli, StreamStoreAssumption, L2StreamAssumption DEF Frames

\* A cycle of a sender: a frame with the number of the producer, or none.
LEMMA SendEffect ==
    ASSUME TypeOK, NEW s \in Streams, MasterSend(s) \/ SlaveSend(s)
    PROVE  \E now \in CycleStarts(s), ok \in BOOLEAN :
              /\ Cycle(s, now)
              /\ mstore' \in Tables /\ sstore' \in Tables
              /\ \A t \in Streams : Window(t)' = Window(t) /\ (t # s => Sending(t)' = Sending(t))
              /\ \/ net' = net /\ Sending(s)' = Sending(s)
                 \/ /\ Sending(s) # Absent
                    /\ net' = net \cup {[stream |-> s, num |-> sent[s] + 1, seq |-> Sending(s),
                                         counter |-> now, ok |-> ok]}
                    /\ Sending(s)' = IF Sending(s) < SeqMax THEN Sending(s) + 1 ELSE Sending(s)
<1> USE StreamStoreAssumption
<1>1. ASSUME NEW table \in Tables, Has(table, s)
      PROVE  /\ GenerateStreamTag(table, s) \in Tables
             /\ GenerateStreamTag(table, s)[s] = IF table[s] < SeqMax THEN table[s] + 1 ELSE table[s]
             /\ \A t \in Streams \ {s} : GenerateStreamTag(table, s)[t] = table[t]
  <2>1. table[s] \in 0..SeqMax
    BY <1>1 DEF Has, Tables
  <2>2. (IF table[s] < SeqMax THEN table[s] + 1 ELSE table[s]) \in 0..SeqMax
    BY <2>1
  <2> QED
    BY <1>1, <2>2 DEF GenerateStreamTag, Tables
<1>2. CASE MasterSend(s)
  <2>1. PICK now \in CycleStarts(s), ok \in BOOLEAN :
           /\ Cycle(s, now)
           /\ \/ /\ Has(mstore, s)
                 /\ net' = net \cup {FrameOf(mstore, s, now, ok)}
                 /\ mstore' = GenerateStreamTag(mstore, s)
              \/ UNCHANGED <<net, mstore>>
    BY <1>2 DEF MasterSend
  <2>2. s \in Streams \ Sensors /\ sstore' = sstore
    BY <1>2 DEF MasterSend
  <2>3. mstore \in Tables /\ sstore \in Tables
    BY DEF TypeOK
  <2>4. CASE UNCHANGED <<net, mstore>>
    BY <2>1, <2>2, <2>3, <2>4 DEF Sending, Window, Producer, Consumer
  <2>5. CASE /\ Has(mstore, s)
             /\ net' = net \cup {FrameOf(mstore, s, now, ok)}
             /\ mstore' = GenerateStreamTag(mstore, s)
    <3>1. /\ mstore' \in Tables
          /\ mstore'[s] = IF mstore[s] < SeqMax THEN mstore[s] + 1 ELSE mstore[s]
          /\ \A t \in Streams \ {s} : mstore'[t] = mstore[t]
      BY <1>1, <2>3, <2>5
    <3>2. /\ \A t \in Streams : Window(t)' = Window(t) /\ (t # s => Sending(t)' = Sending(t))
          /\ Sending(s) = mstore[s]
          /\ Sending(s)' = IF Sending(s) < SeqMax THEN Sending(s) + 1 ELSE Sending(s)
      BY <2>2, <3>1 DEF Sending, Window, Producer, Consumer
    <3>3. /\ Sending(s) # Absent
          /\ net' = net \cup {[stream |-> s, num |-> sent[s] + 1, seq |-> Sending(s),
                               counter |-> now, ok |-> ok]}
      BY <2>5, <3>2 DEF FrameOf, Has
    <3> QED
      BY <2>1, <2>2, <2>3, <3>1, <3>2, <3>3
  <2> QED
    BY <2>1, <2>4, <2>5
<1>3. CASE SlaveSend(s)
  <2>1. PICK now \in CycleStarts(s), ok \in BOOLEAN :
           /\ Cycle(s, now)
           /\ \/ /\ Has(sstore, s)
                 /\ net' = net \cup {FrameOf(sstore, s, now, ok)}
                 /\ sstore' = GenerateStreamTag(sstore, s)
              \/ UNCHANGED <<net, sstore>>
    BY <1>3 DEF SlaveSend
  <2>2. s \in Sensors /\ mstore' = mstore
    BY <1>3 DEF SlaveSend
  <2>3. mstore \in Tables /\ sstore \in Tables
    BY DEF TypeOK
  <2>4. CASE UNCHANGED <<net, sstore>>
    BY <2>1, <2>2, <2>3, <2>4 DEF Sending, Window, Producer, Consumer
  <2>5. CASE /\ Has(sstore, s)
             /\ net' = net \cup {FrameOf(sstore, s, now, ok)}
             /\ sstore' = GenerateStreamTag(sstore, s)
    <3>1. /\ sstore' \in Tables
          /\ sstore'[s] = IF sstore[s] < SeqMax THEN sstore[s] + 1 ELSE sstore[s]
          /\ \A t \in Streams \ {s} : sstore'[t] = sstore[t]
      BY <1>1, <2>3, <2>5
    <3>2. /\ \A t \in Streams : Window(t)' = Window(t) /\ (t # s => Sending(t)' = Sending(t))
          /\ Sending(s) = sstore[s]
          /\ Sending(s)' = IF Sending(s) < SeqMax THEN Sending(s) + 1 ELSE Sending(s)
      BY <2>2, <3>1 DEF Sending, Window, Producer, Consumer
    <3>3. /\ Sending(s) # Absent
          /\ net' = net \cup {[stream |-> s, num |-> sent[s] + 1, seq |-> Sending(s),
                               counter |-> now, ok |-> ok]}
      BY <2>5, <3>2 DEF FrameOf, Has
    <3> QED
      BY <2>1, <2>2, <2>3, <3>1, <3>2, <3>3
  <2> QED
    BY <2>1, <2>4, <2>5
<1> QED
  BY <1>2, <1>3

\* A receive loop accepts a frame beyond the window, which moves to it.
LEMMA ReceiveEffect ==
    ASSUME TypeOK, NEW f \in net, MasterReceive(f) \/ SlaveReceive(f)
    PROVE  /\ Window(f.stream) # Absent
           /\ f.seq > Window(f.stream)
           /\ Window(f.stream)' = f.seq
           /\ \A t \in Streams : Sending(t)' = Sending(t) /\ (t # f.stream => Window(t)' = Window(t))
           /\ mstore' \in Tables /\ sstore' \in Tables
           /\ Apply(f)
<1> DEFINE s == f.stream
<1>1. s \in Streams /\ f.seq \in 0..SeqMax /\ mstore \in Tables /\ sstore \in Tables
  BY DEF TypeOK, Frames
<1>2. ASSUME NEW table \in Tables
      PROVE  /\ AcceptStreamTag(table, s, f.seq) \in Tables
             /\ AcceptStreamTag(table, s, f.seq)[s] = f.seq
             /\ \A t \in Streams \ {s} : AcceptStreamTag(table, s, f.seq)[t] = table[t]
  BY <1>1 DEF AcceptStreamTag, Tables
<1> HIDE DEF s
<1>3. CASE MasterReceive(f)
  <2>1. /\ s \in Sensors /\ ValidateStreamTag(mstore, s, f.seq)
        /\ mstore' = AcceptStreamTag(mstore, s, f.seq) /\ sstore' = sstore /\ Apply(f)
    BY <1>3 DEF MasterReceive, s
  <2> QED
    BY <1>1, <1>2, <2>1 DEF Sending, Window, Producer, Consumer, ValidateStreamTag, Has, s
<1>4. CASE SlaveReceive(f)
  <2>1. /\ s \in Streams \ Sensors /\ ValidateStreamTag(sstore, s, f.seq)
        /\ sstore' = AcceptStreamTag(sstore, s, f.seq) /\ mstore' = mstore /\ Apply(f)
    BY <1>4 DEF SlaveReceive, s
  <2> QED
    BY <1>1, <1>2, <2>1 DEF Sending, Window, Producer, Consumer, ValidateStreamTag, Has, s
<1> QED
  BY <1>3, <1>4

\* A counter is no cycle after itself, and one cycle more after another cycle.
LEMMA DriftSteps ==
    ASSUME NEW a \in Int, NEW b \in Int, NEW k \in Nat, NEW j \in -MaxJitter..MaxJitter
    PROVE  /\ Drift(a, a, 0)
           /\ Drift(a, b, k) => Drift(a, (b + Ticks + j) % CounterModulus, k + 1)
<1>0. Ticks \in Nat /\ CounterModulus \in Nat \ {0} /\ j \in Int /\ MaxJitter \in Nat
  BY CycleBounds, Moduli, L2StreamAssumption
<1>1. Drift(a, a, 0)
  <2>1. 0 \in -(0 * MaxJitter)..0 * MaxJitter /\ 0 \in Int /\ a = a + 0 * Ticks + 0 - 0 * CounterModulus
    BY <1>0
  <2> QED
    BY <2>1 DEF Drift
<1>2. ASSUME Drift(a, b, k) PROVE Drift(a, (b + Ticks + j) % CounterModulus, k + 1)
  <2>1. PICK d \in -(k * MaxJitter)..k * MaxJitter, w \in Int : b = a + k * Ticks + d - w * CounterModulus
    BY <1>2 DEF Drift
  <2> DEFINE v == (b + Ticks + j) \div CounterModulus
             c == (b + Ticks + j) % CounterModulus
  <2>2. v \in Int /\ c \in Int /\ b + Ticks + j = CounterModulus * v + c
    BY <1>0
  <2> HIDE DEF v, c
  <2>4. /\ (k + 1) * Ticks = k * Ticks + Ticks /\ d \in Int
        /\ (k + 1) * MaxJitter = k * MaxJitter + MaxJitter /\ k * MaxJitter \in Nat
    BY <1>0
  <2>3. d + j \in -((k + 1) * MaxJitter)..(k + 1) * MaxJitter /\ w + v \in Int
    BY <1>0, <2>2, <2>4
  <2>5. c = a + (k + 1) * Ticks + (d + j) - (w + v) * CounterModulus
    BY <1>0, <2>1, <2>2, <2>4
  <2>6. Drift(a, c, k + 1)
    BY <2>3, <2>5 DEF Drift
  <2> QED
    BY <2>6 DEF c
<1> QED
  BY <1>1, <1>2
------------------------------------------------------------------------------
(***************************************************************************)
(* The invariant is preserved.                                             *)
(***************************************************************************)

\* Nothing has been sent.
LEMMA InitInv == Init => IInv
<1> SUFFICES ASSUME Init PROVE IInv
  OBVIOUS
<1> USE StreamStoreAssumption, L2StreamAssumption
<1>1. /\ mstore = [s \in Streams |-> IF s \in Sensors THEN 0 ELSE 1]
      /\ sstore = [s \in Streams |-> IF s \in Sensors THEN 1 ELSE 0]
  BY DEF Init, AddStreamConfigs, InitialSequenceNumber, MasterDirection, SlaveDirection
<1>2. \A s \in Streams : Sending(s) = 1 /\ Window(s) = 0
  BY <1>1 DEF Sending, Window, Producer, Consumer
<1>3. TypeOK
  <2>1. mstore \in Tables /\ sstore \in Tables
    BY <1>1 DEF Tables
  <2>2. 0 \in 0..CounterModulus - 1 /\ clock \in [Streams -> 0..CounterModulus - 1]
    <3>1. clock \in [Streams -> StartTicks] /\ StartTicks \subseteq 0..CounterModulus - 1
      BY DEF Init
    <3>2. 0 \in 0..CounterModulus - 1
      BY Moduli
    <3> HIDE DEF CounterModulus
    <3> QED
      BY <3>1, <3>2
  <2>3. 0 \in 0..MaxFrames /\ 0 \in 0..MaxResets /\ 0 \in -MaxFrames..MaxFrames
    OBVIOUS
  <2> QED
    BY <2>1, <2>2, <2>3 DEF Init, TypeOK, NoFrame, NoCheck
<1>4. CounterInv /\ LastInv
  BY DEF Init, CounterInv, LastInv
<1>5. CheckInv
  BY DEF Init, CheckInv, NoFalseAlarm, GapReported, NoCheck
<1>6. OrderInv
  BY <1>2 DEF Init, OrderInv
<1>7. ImageInv
  <2>1. resets = 0 /\ \A s \in Streams : image[s].num = 0 /\ image[s].epoch = 0
    BY DEF Init
  <2>2. ASSUME NEW s \in Streams PROVE image[s].epoch <= resets /\ ~(image[s].num > 0)
    BY <2>1
  <2> QED
    BY <2>2 DEF ImageInv
<1> QED
  BY <1>3, <1>4, <1>5, <1>6, <1>7 DEF IInv

\* A cycle of a sender.
LEMMA SendInv ==
    ASSUME IInv, NEW s \in Streams, MasterSend(s) \/ SlaveSend(s)
    PROVE  IInv'
<1>1. PICK now \in CycleStarts(s), ok \in BOOLEAN :
              /\ Cycle(s, now)
              /\ mstore' \in Tables /\ sstore' \in Tables
              /\ \A t \in Streams : Window(t)' = Window(t) /\ (t # s => Sending(t)' = Sending(t))
              /\ \/ net' = net /\ Sending(s)' = Sending(s)
                 \/ /\ Sending(s) # Absent
                    /\ net' = net \cup {[stream |-> s, num |-> sent[s] + 1, seq |-> Sending(s),
                                         counter |-> now, ok |-> ok]}
                    /\ Sending(s)' = IF Sending(s) < SeqMax THEN Sending(s) + 1 ELSE Sending(s)
  BY SendEffect DEF IInv
<1> DEFINE g == [stream |-> s, num |-> sent[s] + 1, seq |-> Sending(s), counter |-> now, ok |-> ok]
<1>2. /\ sent[s] < MaxFrames
      /\ sent' = [sent EXCEPT ![s] = sent[s] + 1]
      /\ clock' = [clock EXCEPT ![s] = now]
      /\ UNCHANGED <<last, image, check, resets>>
  BY <1>1 DEF Cycle
<1>3. PICK j \in Jitter : now = (clock[s] + Ticks + j) % CounterModulus
  BY DEF CycleStarts, Ticks
<1>4. /\ TypeOK /\ j \in -MaxJitter..MaxJitter /\ sent[s] \in Nat /\ clock[s] \in Int /\ MaxFrames \in Nat
      /\ SeqMax \in Nat /\ now \in 0..CounterModulus - 1 /\ now \in Int
      /\ sent \in [Streams -> 0..MaxFrames] /\ clock \in [Streams -> 0..CounterModulus - 1]
  <2>1. TypeOK /\ j \in -MaxJitter..MaxJitter /\ MaxJitter \in Nat
    BY L2StreamAssumption DEF IInv
  <2>2. /\ sent[s] \in Nat /\ clock[s] \in 0..CounterModulus - 1 /\ MaxFrames \in Nat /\ SeqMax \in Nat
    BY <2>1, Types
  <2>3. now \in 0..CounterModulus - 1 /\ clock[s] \in Int
    BY <1>3, <2>1, <2>2, CycleBounds, Moduli
  <2> QED
    BY <2>1, <2>2, <2>3, Moduli DEF TypeOK
<1>5. /\ sent'[s] = sent[s] + 1 /\ clock'[s] = now
      /\ \A t \in Streams \ {s} : sent'[t] = sent[t] /\ clock'[t] = clock[t]
  BY <1>2, <1>4
<1>6. \A f \in net' : f \in net \/ (f = g /\ g \in net')
  BY <1>1
<1>7. net \subseteq net'
  BY <1>1
<1>8. TypeOK'
  <2>1. g \in net' => g \in Frames
    <3>1. ASSUME g \in net', g \notin net PROVE Sending(s) \in 0..SeqMax
      BY <1>1, <1>4, <3>1, Types
    <3>2. sent[s] + 1 \in 1..MaxFrames
      BY <1>2, <1>4
    <3> QED
      BY <1>4, <3>1, <3>2 DEF Frames, TypeOK
  <2>2. sent' \in [Streams -> 0..MaxFrames]
    BY <1>2, <1>4
  <2>3. net' \subseteq Frames
    BY <1>4, <1>6, <2>1 DEF TypeOK
  <2> QED
    BY <1>1, <1>2, <1>4, <2>2, <2>3 DEF TypeOK
<1>9. ASSUME NEW f \in net, f.stream = s
      PROVE  /\ f.num <= sent[s] /\ f.num \in Nat
             /\ Drift(f.counter, now, sent[s] + 1 - f.num)
  <2>1. f.num \in Nat /\ f.counter \in Int
    BY <1>4, FrameTypes
  <2>2. f.num <= sent[s] /\ Drift(f.counter, clock[s], sent[s] - f.num)
    BY <1>9 DEF IInv, CounterInv
  <2>3. sent[s] - f.num \in Nat /\ (sent[s] - f.num) + 1 = sent[s] + 1 - f.num
    BY <1>4, <2>1, <2>2
  <2> QED
    BY <1>3, <1>4, <2>1, <2>2, <2>3, DriftSteps
<1>10. g.stream = s /\ g.num = sent[s] + 1 /\ g.counter = now /\ g.seq = Sending(s)
  OBVIOUS
<1> HIDE DEF g
<1>11. CounterInv'
  <2> SUFFICES ASSUME NEW f \in net'
               PROVE  /\ f.num <= sent'[f.stream]
                      /\ Drift(f.counter, clock'[f.stream], sent'[f.stream] - f.num)
                      /\ \A h \in net' : h.stream = f.stream /\ h.num > f.num
                            => Drift(f.counter, h.counter, h.num - f.num)
    BY DEF CounterInv, Drift
  <2>1. CASE f = g
    <3>1. Drift(now, now, 0)
      BY <1>4, DriftSteps
    <3>2. f.num = sent'[s] /\ sent'[s] - f.num = 0 /\ f.stream = s
      BY <1>4, <1>5, <1>10, <2>1
    <3>3. ASSUME NEW h \in net', h.stream = f.stream PROVE ~(h.num > f.num)
      BY <1>4, <1>6, <1>9, <1>10, <2>1, <3>3
    <3> QED
      BY <1>4, <1>5, <1>10, <2>1, <3>1, <3>2, <3>3
  <2>2. CASE f \in net /\ f.stream = s
    <3>1. ASSUME NEW h \in net', h.stream = f.stream, h.num > f.num
          PROVE  Drift(f.counter, h.counter, h.num - f.num)
      <4>1. CASE h \in net
        BY <2>2, <3>1, <4>1 DEF IInv, CounterInv
      <4>2. CASE h = g
        <5>1. Drift(f.counter, now, sent[s] + 1 - f.num)
          BY <1>9, <2>2
        <5>2. h.counter = now /\ h.num - f.num = sent[s] + 1 - f.num
          BY <1>4, <1>9, <1>10, <2>2, <4>2
        <5> QED
          BY <5>1, <5>2, Zenon
      <4> QED
        BY <1>6, <4>1, <4>2
    <3>2. f.num <= sent'[f.stream] /\ Drift(f.counter, clock'[f.stream], sent'[f.stream] - f.num)
      BY <1>4, <1>5, <1>9, <2>2
    <3> QED
      BY <3>1, <3>2
  <2>3. CASE f \in net /\ f.stream # s
    <3>1. f.stream \in Streams
      BY <1>4, <2>3, FrameTypes
    <3>2. f.num <= sent'[f.stream] /\ Drift(f.counter, clock'[f.stream], sent'[f.stream] - f.num)
      BY <1>5, <2>3, <3>1 DEF IInv, CounterInv
    <3>3. ASSUME NEW h \in net', h.stream = f.stream, h.num > f.num
          PROVE  Drift(f.counter, h.counter, h.num - f.num)
      BY <1>6, <1>10, <2>3, <3>3 DEF IInv, CounterInv
    <3> QED
      BY <3>2, <3>3
  <2> QED
    BY <1>6, <2>1, <2>2, <2>3
<1>12. LastInv' /\ CheckInv'
  BY <1>2, <1>7 DEF IInv, LastInv, CheckInv, NoFalseAlarm, GapReported
<1>13. OrderInv'
  <2> SUFFICES ASSUME NEW t \in Streams, SameNumbering(t)
               PROVE  /\ Sending(t)' \in 1..SeqMax
                      /\ \A f \in net' : f.stream = t =>
                            /\ f.seq <= Sending(t)'
                            /\ f.seq < Sending(t)' \/ Sending(t)' = SeqMax
                            /\ \A h \in net' : h.stream = t /\ f.num <= h.num => f.seq <= h.seq
                      /\ Window(t)' < Sending(t)' \/ Sending(t)' = SeqMax
    BY <1>2 DEF OrderInv, SameNumbering
  <2>1. /\ Sending(t) \in 1..SeqMax
        /\ \A f \in net : f.stream = t =>
              /\ f.seq <= Sending(t)
              /\ f.seq < Sending(t) \/ Sending(t) = SeqMax
              /\ \A h \in net : h.stream = t /\ f.num <= h.num => f.seq <= h.seq
        /\ Window(t) < Sending(t) \/ Sending(t) = SeqMax
    BY DEF IInv, OrderInv
  <2>2. \A f \in net : f.num \in Nat /\ f.seq \in Nat
    BY <1>4, FrameTypes
  <2>3. CASE t # s
    BY <1>1, <1>6, <1>10, <2>1, <2>3
  <2>4. CASE t = s /\ net' = net /\ Sending(s)' = Sending(s)
    BY <1>1, <2>1, <2>4
  <2>5. CASE /\ t = s
             /\ Sending(s)' = IF Sending(s) < SeqMax THEN Sending(s) + 1 ELSE Sending(s)
    <3>1. /\ Sending(s)' \in 1..SeqMax /\ Sending(s) <= Sending(s)'
          /\ Sending(s) < Sending(s)' \/ Sending(s)' = SeqMax
          /\ Sending(s) = SeqMax => Sending(s)' = SeqMax
          /\ Sending(s) \in Int /\ Sending(s)' \in Int /\ Window(s) \in Int
      BY <1>4, <2>1, <2>5, Types
    <3>2. Window(t)' < Sending(t)' \/ Sending(t)' = SeqMax
      BY <1>1, <2>1, <2>5, <3>1
    <3>3. ASSUME NEW f \in net', f.stream = t
          PROVE  /\ f.seq <= Sending(t)' /\ (f.seq < Sending(t)' \/ Sending(t)' = SeqMax)
                 /\ f.seq <= Sending(s)
      BY <1>6, <1>10, <2>1, <2>2, <2>5, <3>1, <3>3
    <3>4. ASSUME NEW f \in net', f.stream = t, NEW h \in net', h.stream = t, f.num <= h.num
          PROVE  f.seq <= h.seq
      <4>1. CASE h = g
        BY <1>10, <3>3, <3>4, <4>1
      <4>2. CASE f = g /\ h \in net
        BY <1>4, <1>9, <1>10, <2>5, <3>4, <4>2
      <4>3. CASE f \in net /\ h \in net
        BY <2>1, <3>4, <4>3
      <4> QED
        BY <1>6, <4>1, <4>2, <4>3
    <3> QED
      BY <2>5, <3>1, <3>2, <3>3, <3>4
  <2> QED
    BY <1>1, <2>3, <2>4, <2>5
<1>14. ImageInv'
  BY <1>1, <1>2, <1>7 DEF IInv, ImageInv, SameNumbering
<1> QED
  BY <1>8, <1>11, <1>12, <1>13, <1>14 DEF IInv

\* What a consumer finds when it compares a frame with an earlier one.
LEMMA CheckResult ==
    ASSUME TypeOK, CounterInv, NEW f \in net, NEW g \in net, g.stream = f.stream
    PROVE  LET n == f.num - g.num - 1
               missed == MissedCycles(g.counter, f.counter, CycleTimeNano)
           IN  /\ Steady /\ n = 0 => missed = 0
               /\ SteadyGap(n) => missed \in n..n + 1
<1> DEFINE n == f.num - g.num - 1
           missed == MissedCycles(g.counter, f.counter, CycleTimeNano)
<1>1. /\ f.num \in Nat /\ g.num \in Nat
      /\ f.counter \in 0..CounterModulus - 1 /\ g.counter \in 0..CounterModulus - 1
  BY FrameTypes
<1>2. f.num > g.num => Drift(g.counter, f.counter, f.num - g.num)
  BY DEF CounterInv
<1>3. ASSUME Steady, n = 0 PROVE missed = 0
  <2>1. f.num > g.num /\ f.num - g.num = 1
    BY <1>1, <1>3
  <2>2. Drift(g.counter, f.counter, 1)
    BY <1>2, <2>1
  <2> QED
    BY <1>1, <1>3, <2>2, ConsecutiveCycles
<1>4. ASSUME SteadyGap(n) PROVE missed \in n..n + 1
  <2>0. n >= 2
    BY <1>4 DEF SteadyGap
  <2>1. f.num > g.num /\ f.num - g.num = n + 1 /\ n \in Nat
    BY <1>1, <2>0
  <2> HIDE DEF n
  <2>2. Drift(g.counter, f.counter, n + 1)
    BY <1>2, <2>1
  <2> QED
    BY <1>1, <1>4, <2>1, <2>2, LostCycles
<1> QED
  BY <1>3, <1>4

\* The number of missed cycles is a number, whatever the two counters are.
LEMMA MissedType ==
    ASSUME NEW a \in Int, NEW b \in Int
    PROVE  MissedCycles(a, b, CycleTimeNano) \in Nat
<1> DEFINE expected == (a + Ticks) % U16
           forward == WrappingSub(b, expected)
           backward == WrappingSub(expected, b)
<1>1. U16 \in Nat \ {0} /\ Ticks \in Nat \ {0}
  BY Moduli, CycleBounds
<1>2. expected \in Int
  BY <1>1
<1> HIDE DEF expected
<1>3. forward \in Nat
  BY <1>1, <1>2 DEF WrappingSub
<1> HIDE DEF forward, backward
<1>4. CeilDiv(forward, Ticks) \in Nat
  BY <1>1, <1>3, CeilDivBounds
<1>5. MissedCycles(a, b, CycleTimeNano) =
         IF forward <= Tolerance \/ backward <= Tolerance THEN 0
         ELSE IF forward <= backward THEN CeilDiv(forward, Ticks) ELSE 1
  BY DEF MissedCycles, expected, forward, backward, Ticks, Tolerance
<1> QED
  BY <1>4, <1>5

\* A frame is received.
LEMMA ReceiveInv ==
    ASSUME IInv, NEW f \in net, MasterReceive(f) \/ SlaveReceive(f)
    PROVE  IInv'
<1> DEFINE s == f.stream
           found == IF last[s] = NoFrame THEN NoCheck
                    ELSE [lost |-> f.num - last[s].num - 1,
                          missed |-> MissedCycles(last[s].counter, f.counter, CycleTimeNano)]
<1>1. TypeOK /\ s \in Streams /\ f \in net
  BY FrameTypes DEF IInv
<1>2. /\ Window(s) # Absent /\ f.seq > Window(s) /\ Window(s)' = f.seq
      /\ \A t \in Streams : Sending(t)' = Sending(t) /\ (t # s => Window(t)' = Window(t))
      /\ mstore' \in Tables /\ sstore' \in Tables
      /\ Apply(f)
  BY <1>1, ReceiveEffect
<1>3. net' = net /\ UNCHANGED <<sent, clock, resets>>
  BY <1>2 DEF Apply
<1>4. \/ UNCHANGED <<check, last, image>>
      \/ /\ check' = [check EXCEPT ![s] = found]
         /\ last' = [last EXCEPT ![s] = [num |-> f.num, counter |-> f.counter]]
         /\ \/ image' = [image EXCEPT ![s] = [num |-> f.num, epoch |-> resets]]
            \/ image' = image
  BY <1>2 DEF Apply
<1>5. /\ f.num \in 0..MaxFrames /\ f.num >= 1 /\ f.num \in Int /\ f.counter \in 0..CounterModulus - 1
      /\ f.counter \in Int /\ f.seq \in Nat /\ resets \in 0..MaxResets /\ MaxFrames \in Nat
  <2>1. f \in Frames
    BY <1>1 DEF TypeOK
  <2> QED
    BY <1>1, <2>1, FrameTypes, L2StreamAssumption DEF TypeOK
<1>6. /\ last[s] \in [num: 0..MaxFrames, counter: 0..CounterModulus - 1]
      /\ last[s].num \in 0..MaxFrames /\ last[s].counter \in Int
  BY <1>1, Moduli DEF TypeOK
<1>7. found \in [lost: -MaxFrames..MaxFrames, missed: Nat]
  <2>1. CASE last[s] = NoFrame
    BY <1>5, <2>1 DEF NoCheck
  <2>2. CASE last[s] # NoFrame
    <3>1. f.num - last[s].num - 1 \in -MaxFrames..MaxFrames
      BY <1>5, <1>6
    <3>2. MissedCycles(last[s].counter, f.counter, CycleTimeNano) \in Nat
      BY <1>5, <1>6, MissedType
    <3> QED
      BY <2>2, <3>1, <3>2
  <2> QED
    BY <2>1, <2>2
<1>8. /\ Steady /\ found.lost = 0 => found.missed = 0
      /\ SteadyGap(found.lost) => found.missed \in found.lost..found.lost + 1
  <2>1. CASE last[s] = NoFrame
    BY <2>1 DEF NoCheck, SteadyGap
  <2>2. CASE last[s] # NoFrame
    <3>1. PICK g \in net : g.stream = s /\ g.num = last[s].num /\ g.counter = last[s].counter
      BY <1>1, <2>2 DEF IInv, LastInv
    <3>2. /\ found.lost = f.num - g.num - 1
          /\ found.missed = MissedCycles(g.counter, f.counter, CycleTimeNano)
      BY <2>2, <3>1
    <3> HIDE DEF found
    <3> QED
      BY <1>1, <3>1, <3>2, CheckResult DEF IInv
  <2> QED
    BY <2>1, <2>2
<1> HIDE DEF found, s
<1>9. TypeOK'
  <2>1. check' \in [Streams -> [lost: -MaxFrames..MaxFrames, missed: Nat]]
    BY <1>1, <1>4, <1>7 DEF TypeOK
  <2>2. last' \in [Streams -> [num: 0..MaxFrames, counter: 0..CounterModulus - 1]]
    <3>1. [num |-> f.num, counter |-> f.counter] \in [num: 0..MaxFrames, counter: 0..CounterModulus - 1]
      BY <1>5
    <3> QED
      BY <1>1, <1>4, <3>1 DEF TypeOK
  <2>3. image' \in [Streams -> [num: 0..MaxFrames, epoch: 0..MaxResets]]
    <3>1. [num |-> f.num, epoch |-> resets] \in [num: 0..MaxFrames, epoch: 0..MaxResets]
      BY <1>5
    <3> QED
      BY <1>1, <1>4, <3>1 DEF TypeOK
  <2> QED
    BY <1>1, <1>2, <1>3, <2>1, <2>2, <2>3 DEF TypeOK
<1>10. CounterInv'
  BY <1>3 DEF IInv, CounterInv, Drift
<1>11. LastInv'
  <2> SUFFICES ASSUME NEW t \in Streams, last'[t] # NoFrame
               PROVE  \E g \in net : g.stream = t /\ g.num = last'[t].num /\ g.counter = last'[t].counter
    BY <1>3 DEF LastInv
  <2>1. CASE last'[t] = last[t]
    BY <2>1 DEF IInv, LastInv
  <2>2. CASE t = s /\ last'[t] = [num |-> f.num, counter |-> f.counter]
    BY <2>2 DEF s
  <2> QED
    BY <1>1, <1>4, <2>1, <2>2 DEF TypeOK
<1>12. CheckInv'
  <2>1. \A t \in Streams : check'[t] = check[t] \/ check'[t] = found
    BY <1>1, <1>4 DEF TypeOK
  <2>2. NoFalseAlarm'
    BY <1>8, <2>1 DEF IInv, CheckInv, NoFalseAlarm, Steady, Ticks
  <2>3. GapReported'
    BY <1>8, <2>1 DEF IInv, CheckInv, GapReported, SteadyGap, Ticks
  <2> QED
    BY <2>2, <2>3 DEF CheckInv
<1>13. OrderInv'
  <2> SUFFICES ASSUME NEW t \in Streams, SameNumbering(t)
               PROVE  /\ Sending(t)' \in 1..SeqMax
                      /\ \A g \in net : g.stream = t =>
                            /\ g.seq <= Sending(t)'
                            /\ g.seq < Sending(t)' \/ Sending(t)' = SeqMax
                            /\ \A h \in net : h.stream = t /\ g.num <= h.num => g.seq <= h.seq
                      /\ Window(t)' < Sending(t)' \/ Sending(t)' = SeqMax
    BY <1>3 DEF OrderInv, SameNumbering
  <2>1. /\ Sending(t) \in 1..SeqMax
        /\ \A g \in net : g.stream = t =>
              /\ g.seq <= Sending(t)
              /\ g.seq < Sending(t) \/ Sending(t) = SeqMax
              /\ \A h \in net : h.stream = t /\ g.num <= h.num => g.seq <= h.seq
        /\ Window(t) < Sending(t) \/ Sending(t) = SeqMax
    BY DEF IInv, OrderInv
  <2>2. Window(t)' < Sending(t)' \/ Sending(t)' = SeqMax
    <3>1. CASE t = s
      BY <1>1, <1>2, <2>1, <3>1 DEF s
    <3>2. CASE t # s
      BY <1>2, <2>1, <3>2
    <3> QED
      BY <3>1, <3>2
  <2> QED
    BY <1>2, <2>1, <2>2
<1>14. ImageInv'
  <2> SUFFICES ASSUME NEW t \in Streams
               PROVE  /\ image'[t].epoch <= resets
                      /\ SameNumbering(t) /\ image'[t].epoch = resets /\ image'[t].num > 0 =>
                            /\ Window(t)' # Absent
                            /\ \E g \in net : g.stream = t /\ g.num = image'[t].num /\ g.seq <= Window(t)'
    BY <1>3 DEF ImageInv, SameNumbering
  <2>1. CASE image'[t] = image[t]
    <3>1. image'[t].epoch <= resets
      BY <2>1 DEF IInv, ImageInv
    <3>2. ASSUME SameNumbering(t), image'[t].epoch = resets, image'[t].num > 0
          PROVE  /\ Window(t)' # Absent
                 /\ \E g \in net : g.stream = t /\ g.num = image'[t].num /\ g.seq <= Window(t)'
      <4>1. Window(t) # Absent
        BY <2>1, <3>2 DEF IInv, ImageInv
      <4>2. PICK g \in net : g.stream = t /\ g.num = image[t].num /\ g.seq <= Window(t)
        BY <2>1, <3>2 DEF IInv, ImageInv
      <4>3. Window(t)' = Window(t) \/ (Window(t)' = f.seq /\ f.seq > Window(t))
        BY <1>2
      <4>4. Window(t) \in Int /\ g.seq \in Nat
        BY <1>1, Types, FrameTypes
      <4>5. g.seq <= Window(t)' /\ Window(t)' # Absent
        BY <1>5, <4>1, <4>2, <4>3, <4>4 DEF Absent
      <4> QED
        BY <2>1, <4>2, <4>5
    <3> QED
      BY <3>1, <3>2
  <2>2. CASE t = s /\ image'[t] = [num |-> f.num, epoch |-> resets]
    <3>1. image'[t].num = f.num /\ image'[t].epoch = resets /\ resets <= resets
      BY <1>5, <2>2
    <3>2. Window(t)' = f.seq /\ f.seq <= f.seq /\ f.seq # Absent
      BY <1>2, <1>5, <2>2 DEF Absent
    <3> QED
      BY <2>2, <3>1, <3>2 DEF s
  <2> QED
    BY <1>1, <1>4, <2>1, <2>2 DEF TypeOK
<1> QED
  BY <1>9, <1>10, <1>11, <1>12, <1>13, <1>14 DEF IInv

\* A receive loop forgets its last frames.
LEMMA ForgetInv ==
    ASSUME IInv, NEW streams, Forget(streams)
    PROVE  IInv'
<1>1. /\ last' = [s \in Streams |-> IF s \in streams THEN NoFrame ELSE last[s]]
      /\ UNCHANGED <<mstore, sstore, sent, clock, net, image, check, resets>>
  BY DEF Forget
<1>2. TypeOK'
  <2>1. NoFrame \in [num: 0..MaxFrames, counter: 0..CounterModulus - 1]
    BY Moduli, L2StreamAssumption DEF NoFrame
  <2> QED
    BY <1>1, <2>1 DEF IInv, TypeOK
<1>3. CounterInv' /\ CheckInv'
  BY <1>1 DEF IInv, CounterInv, CheckInv, NoFalseAlarm, GapReported
<1>4. LastInv'
  <2>1. \A s \in Streams : last'[s] = NoFrame \/ last'[s] = last[s]
    BY <1>1
  <2> QED
    BY <1>1, <2>1 DEF IInv, LastInv
<1>5. OrderInv' /\ ImageInv'
  BY <1>1 DEF IInv, OrderInv, ImageInv, SameNumbering, Sending, Window, Producer, Consumer
<1> QED
  BY <1>2, <1>3, <1>4, <1>5 DEF IInv

\* The slave is configured anew.  Its own streams lose their numbering; on the
\* others its window begins again, behind the master.
LEMMA ConfigureInv ==
    ASSUME IInv, NEW ids \in SUBSET Streams, ConfigureStreams(ids)
    PROVE  IInv'
<1>1. /\ resets < MaxResets /\ resets' = resets + 1
      /\ UNCHANGED <<mstore, sent, clock, net, last, image, check>>
      /\ sstore' = [s \in Streams |-> IF s \in ids THEN InitialSequenceNumber(SlaveDirection[s])
                                      ELSE Absent]
  BY DEF ConfigureStreams, AddStreamConfigs, Reset
<1>2. TypeOK /\ resets \in 0..MaxResets /\ MaxResets \in Nat /\ SeqMax \in Nat /\ SeqMax >= 2
  BY StreamStoreAssumption, L2StreamAssumption DEF IInv, TypeOK
<1>3. TypeOK'
  <2>1. sstore' \in Tables
    BY <1>1, <1>2 DEF Tables, InitialSequenceNumber
  <2>2. resets' \in 0..MaxResets
    BY <1>1, <1>2
  <2> QED
    BY <1>1, <1>2, <2>1, <2>2 DEF TypeOK
<1>4. CounterInv' /\ LastInv' /\ CheckInv'
  BY <1>1 DEF IInv, CounterInv, LastInv, CheckInv, NoFalseAlarm, GapReported
<1>5. ASSUME NEW s \in Streams, SameNumbering(s)'
      PROVE  /\ SameNumbering(s) /\ Sending(s)' = Sending(s)
             /\ Window(s)' = 0 \/ Window(s)' = Absent
  <2>1. s \notin Sensors
    BY <1>1, <1>2, <1>5 DEF SameNumbering
  <2> QED
    BY <1>1, <2>1 DEF SameNumbering, Sending, Window, Producer, Consumer, SlaveDirection,
       InitialSequenceNumber
<1>6. OrderInv'
  <2> SUFFICES ASSUME NEW s \in Streams, SameNumbering(s)'
               PROVE  /\ Sending(s)' \in 1..SeqMax
                      /\ \A f \in net : f.stream = s =>
                            /\ f.seq <= Sending(s)'
                            /\ f.seq < Sending(s)' \/ Sending(s)' = SeqMax
                            /\ \A g \in net : g.stream = s /\ f.num <= g.num => f.seq <= g.seq
                      /\ Window(s)' < Sending(s)' \/ Sending(s)' = SeqMax
    BY <1>1 DEF OrderInv
  <2>1. /\ Sending(s) \in 1..SeqMax
        /\ \A f \in net : f.stream = s =>
              /\ f.seq <= Sending(s)
              /\ f.seq < Sending(s) \/ Sending(s) = SeqMax
              /\ \A g \in net : g.stream = s /\ f.num <= g.num => f.seq <= g.seq
    BY <1>5 DEF IInv, OrderInv
  <2>2. Window(s)' < Sending(s)
    BY <1>2, <1>5, <2>1 DEF Absent
  <2> QED
    BY <1>5, <2>1, <2>2
<1>7. ImageInv'
  <2>1. ASSUME NEW s \in Streams PROVE image'[s].epoch < resets'
    <3>1. image[s].epoch \in Nat /\ resets \in Nat /\ image[s].epoch <= resets
      BY <1>2, Types DEF IInv, ImageInv
    <3> QED
      BY <1>1, <3>1
  <2>2. ASSUME NEW s \in Streams PROVE image'[s].epoch <= resets' /\ image'[s].epoch # resets'
    <3>1. image[s].epoch \in Nat /\ resets' \in Nat /\ image' = image
      BY <1>1, <1>2, Types
    <3> QED
      BY <2>1, <3>1
  <2> QED
    BY <2>2 DEF ImageInv
<1> QED
  BY <1>3, <1>4, <1>6, <1>7 DEF IInv

\* Every step preserves the invariant.
LEMMA NextInv ==
    ASSUME IInv, [Next]_vars
    PROVE  IInv'
<1>1. ASSUME NEW s \in Streams, MasterSend(s) \/ SlaveSend(s) PROVE IInv'
  BY <1>1, SendInv
<1>2. ASSUME NEW f \in net, MasterReceive(f) \/ SlaveReceive(f) PROVE IInv'
  BY <1>2, ReceiveInv
<1>3. CASE MasterStateChange \/ SlaveStateChange
  BY <1>3, ForgetInv DEF MasterStateChange, SlaveStateChange
<1>4. ASSUME NEW ids \in SUBSET Streams, ConfigureStreams(ids) PROVE IInv'
  BY <1>4, ConfigureInv
<1>5. CASE UNCHANGED vars
  BY <1>5 DEF vars, IInv, TypeOK, CounterInv, LastInv, CheckInv, NoFalseAlarm, GapReported,
     OrderInv, ImageInv, SameNumbering, Sending, Window, Producer, Consumer
<1> QED
  BY <1>1, <1>2, <1>3, <1>4, <1>5 DEF Next
------------------------------------------------------------------------------
(***************************************************************************)
(* Theorems.                                                               *)
(***************************************************************************)

\* The inductive invariant holds in every reachable state.
THEOREM StreamInvariance == Spec => []IInv
<1>1. Init => IInv
  BY InitInv
<1>2. IInv /\ [Next]_vars => IInv'
  BY NextInv
<1> QED
  BY <1>1, <1>2, PTL DEF Spec

\* Every variable keeps its type, and a sequence number its width.
THEOREM StreamTypeCorrect == Spec => []TypeOK
<1>1. IInv => TypeOK
  BY DEF IInv
<1> QED
  BY <1>1, StreamInvariance, PTL

\* The window of validate_stream_tag stays behind the number generate_stream_tag
\* uses next, also after the consuming slave was configured anew: the next
\* frame of a stream is not refused.
THEOREM WindowStaysBehind == Spec => []WindowBehindProducer
<1>1. IInv => WindowBehindProducer
  <2> SUFFICES ASSUME IInv, NEW s \in Streams, SameNumbering(s), Producer(s)[s] < SeqMax
               PROVE  Consumer(s)[s] < Producer(s)[s]
    BY DEF WindowBehindProducer
  <2>1. Sending(s) < SeqMax /\ Sending(s) \in Int /\ SeqMax \in Nat
    BY Types DEF IInv, Sending
  <2>2. Window(s) < Sending(s) \/ Sending(s) = SeqMax
    BY DEF IInv, OrderInv
  <2> QED
    BY <2>1, <2>2 DEF Sending, Window
<1> QED
  BY <1>1, StreamInvariance, PTL

\* Frames of consecutive cycles never count as a missed cycle, wherever the
\* cycle counter wraps, for every cycle time that validate_streams accepts and
\* every jitter that is not larger than it.
THEOREM NoFalseAlarms == Spec => []NoFalseAlarm
<1>1. IInv => NoFalseAlarm
  BY DEF IInv, CheckInv
<1> QED
  BY <1>1, StreamInvariance, PTL

\* A longer gap is reported with at most one cycle too many.
THEOREM GapsReported == Spec => []GapReported
<1>1. IInv => GapReported
  BY DEF IInv, CheckInv
<1> QED
  BY <1>1, StreamInvariance, PTL

\* The step a receive loop makes when it writes the process image: the frame is
\* younger than the one the image came from.
LEMMA YoungerFrame ==
    ASSUME IInv, NEW f \in net, MasterReceive(f) \/ SlaveReceive(f),
           NEW s \in Streams, SameNumbering(s), SameWindow(s), image'[s] # image[s]
    PROVE  image'[s].num > image[s].num
<1>1. TypeOK /\ f.stream \in Streams /\ f.num \in Nat /\ f.num >= 1 /\ f.seq \in Nat
  BY FrameTypes DEF IInv
<1>2. Window(f.stream) # Absent /\ f.seq > Window(f.stream) /\ Apply(f)
  BY <1>1, ReceiveEffect
<1>3. image' = image \/ image' = [image EXCEPT ![f.stream] = [num |-> f.num, epoch |-> resets]]
  BY <1>2 DEF Apply
<1>4. s = f.stream /\ image'[s].num = f.num /\ image'[s].epoch = resets
  BY <1>1, <1>3 DEF TypeOK
<1>5. image[s].num \in Nat /\ Window(s) \in Int
  BY <1>1, Types
<1>6. CASE image[s].num = 0
  BY <1>1, <1>4, <1>6
<1>7. CASE image[s].num > 0
  <2>1. PICK g \in net : g.stream = s /\ g.num = image[s].num /\ g.seq <= Window(s)
    BY <1>4, <1>7 DEF IInv, ImageInv, SameWindow
  <2>2. f.num <= g.num => f.seq <= g.seq
    BY <1>4, <2>1 DEF IInv, OrderInv
  <2>3. g.num \in Nat /\ g.seq \in Nat
    BY <1>1, FrameTypes
  <2> QED
    BY <1>1, <1>2, <1>4, <1>5, <2>1, <2>2, <2>3
<1> QED
  BY <1>5, <1>6, <1>7

\* As long as the numbering is the same and the slave is not configured anew,
\* process data are applied in the order in which they were produced: a duplicate
\* or a frame that was overtaken never replaces younger data in the process
\* image.  After a new configuration the order begins again.
THEOREM AppliedInOrder == Spec => InOrder
<1>1. ASSUME IInv, [Next]_vars
      PROVE  [\A s \in Streams :
                 SameNumbering(s) /\ SameWindow(s) /\ image'[s] # image[s]
                     => image'[s].num > image[s].num]_vars
  <2>1. CASE \E f \in net : MasterReceive(f) \/ SlaveReceive(f)
    BY <1>1, <2>1, YoungerFrame
  <2>2. CASE image' = image
    BY <2>2
  <2>3. CASE \E s \in Streams : MasterSend(s) \/ SlaveSend(s)
    BY <2>2, <2>3 DEF MasterSend, SlaveSend, Cycle
  <2>4. CASE MasterStateChange \/ SlaveStateChange
    BY <2>2, <2>4 DEF MasterStateChange, SlaveStateChange, Forget
  <2>5. CASE \E ids \in SUBSET Streams : ConfigureStreams(ids)
    BY <2>2, <2>5 DEF ConfigureStreams
  <2>6. CASE UNCHANGED vars
    BY <2>6
  <2> QED
    BY <1>1, <2>1, <2>3, <2>4, <2>5, <2>6 DEF Next
<1> QED
  BY <1>1, StreamInvariance, PTL DEF Spec, InOrder

==============================================================================
