---------------------------- MODULE CycleCounter -----------------------------
(***************************************************************************)
(* The arithmetic of the cycle counter: common/src/l2_utils.rs and the     *)
(* check in the receive loops of both L2 handlers.                         *)
(***************************************************************************)
EXTENDS Integers

\* The counter is a u16 in the header ...
U16 == 65536

\* ... and cycle_counter() takes the ticks since the epoch modulo 0xFFFF.
CounterModulus == 65535

TickNs == 31250

CeilDiv(a, b) == (a + b - 1) \div b

\* ticks_per_cycle
TicksPerCycle(ns) == CeilDiv(ns, TickNs)

\* tolerance_ticks: one and a half cycles, rounded up.
ToleranceTicks(ns) == CeilDiv(3 * ns, 2 * TickNs)

\* u16::wrapping_sub
WrappingSub(a, b) == (a - b) % U16

\* A mutant: the distances are compared the wrong way round.
MissedCycles_Swapped(last, received, ns) ==
    LET expected == (last + TicksPerCycle(ns)) % U16
        forward  == WrappingSub(received, expected)
        backward == WrappingSub(expected, received)
    IN  IF forward <= ToleranceTicks(ns) \/ backward <= ToleranceTicks(ns) THEN 0
        ELSE IF forward > backward THEN CeilDiv(forward, TicksPerCycle(ns)) ELSE 1

\* A mutant: the counter is compared without wrap-around.
MissedCycles_NoWrap(last, received, ns) ==
    LET expected == last + TicksPerCycle(ns)
    IN  IF received > expected + ToleranceTicks(ns) \/ received < expected - ToleranceTicks(ns)
        THEN 1 ELSE 0

\* The missed cycles a receive loop makes of the counter of the last frame and
\* the counter of the next one; 0 when it is within the tolerance.
MissedCycles(last, received, ns) ==
    LET expected == (last + TicksPerCycle(ns)) % U16
        forward  == WrappingSub(received, expected)
        backward == WrappingSub(expected, received)
    IN  IF forward <= ToleranceTicks(ns) \/ backward <= ToleranceTicks(ns) THEN 0
        ELSE IF forward <= backward THEN CeilDiv(forward, TicksPerCycle(ns)) ELSE 1
==============================================================================
