------------------------------ MODULE L2Stream -------------------------------
(***************************************************************************)
(* The cyclic exchange of process data between the master and one slave:   *)
(* the send and receive loops of master/src/l2_handler.rs and              *)
(* slave/src/l2_handler.rs, their StreamStores, and a network that loses,  *)
(* duplicates, delays and reorders frames.                                 *)
(*                                                                         *)
(* A frame is sent in a device state in which its producer sends and read  *)
(* in one in which its consumer receives; SlaveRuntime has those states.   *)
(* Process data are the number of the frame that carries them.             *)
(***************************************************************************)
EXTENDS StreamStore, CycleCounter

CONSTANTS
    Sensors,        \* the streams the slave produces; the master produces the rest
    CycleTimeNano,  \* the cycle time of the streams
    Jitter,         \* by how many ticks a cycle may be longer or shorter
    MaxJitter,      \* bound on them; the timers of the runtime have 1 ms, 32 ticks
    StartTicks,     \* where the cycle counter may stand at the start
    MaxFrames,      \* bound on the frames of a stream
    MaxResets       \* bound on the configure_streams calls after the first

\* MIN_CYCLE_TIME_NS: validate_streams takes no stream with a shorter cycle.
MinCycleTime == 250000

ASSUME L2StreamAssumption ==
    /\ Sensors \subseteq Streams
    /\ CycleTimeNano \in Nat
    /\ CycleTimeNano >= MinCycleTime
    /\ MaxJitter \in Nat
    /\ Jitter \subseteq -MaxJitter..MaxJitter
    /\ StartTicks \subseteq 0..CounterModulus - 1
    /\ MaxFrames \in Nat
    /\ MaxResets \in Nat

VARIABLES
    mstore,         \* the master's StreamStore
    sstore,         \* the slave's StreamStore
    sent,           \* how many cycles the producer of a stream has run
    clock,          \* the cycle counter at the last cycle of a stream
    net,            \* every frame ever sent
    last,           \* last_cycle_counter: the last good frame of a stream, if any
    image,          \* the process data the consumer of a stream has
    check,          \* history: what the last check of the cycle counter found
    resets          \* how often the slave's StreamStore was configured anew

vars == <<mstore, sstore, sent, clock, net, last, image, check, resets>>

Frames == [stream: Streams, num: 1..MaxFrames, seq: 0..SeqMax,
           counter: 0..CounterModulus - 1, ok: BOOLEAN]

NoFrame == [num |-> 0, counter |-> 0]
NoCheck == [lost |-> 0, missed |-> 0]

MasterDirection == [s \in Streams |-> IF s \in Sensors THEN "Input" ELSE "Output"]
SlaveDirection == [s \in Streams |-> IF s \in Sensors THEN "Output" ELSE "Input"]
------------------------------------------------------------------------------
\* The streams are configured on both sides and the L2 threads started.
Init ==
    /\ mstore = AddStreamConfigs([s \in Streams |-> Absent], Streams, MasterDirection)
    /\ sstore = AddStreamConfigs([s \in Streams |-> Absent], Streams, SlaveDirection)
    /\ sent = [s \in Streams |-> 0]
    /\ clock \in [Streams -> StartTicks]
    /\ net = {}
    /\ last = [s \in Streams |-> NoFrame]
    /\ image = [s \in Streams |-> [num |-> 0, epoch |-> 0]]
    /\ check = [s \in Streams |-> NoCheck]
    /\ resets = 0

\* The StreamStores at the two ends of a stream.
Producer(s) == IF s \in Sensors THEN sstore ELSE mstore
Consumer(s) == IF s \in Sensors THEN mstore ELSE sstore
------------------------------------------------------------------------------
(***************************************************************************)
(* The send loops.                                                         *)
(***************************************************************************)

\* One interval of a send loop for the stream s; now is cycle_counter() at it.
Cycle(s, now) ==
    /\ sent[s] < MaxFrames
    /\ sent' = [sent EXCEPT ![s] = @ + 1]
    /\ clock' = [clock EXCEPT ![s] = now]
    /\ UNCHANGED <<last, image, check, resets>>

\* Header and footer of the frame of this interval.
FrameOf(table, s, now, ok) ==
    [stream |-> s, num |-> sent[s] + 1, seq |-> table[s], counter |-> now, ok |-> ok]

CycleStarts(s) == { (clock[s] + TicksPerCycle(CycleTimeNano) + j) % CounterModulus : j \in Jitter }

\* A process image that cannot be read makes a frame with an error status and
\* no payload.  No frame is made of a stream that is not due, because the last
\* interval began late, or that the StreamStore does not know.
MasterSend(s) ==
    /\ s \in Streams \ Sensors
    /\ \E now \in CycleStarts(s), ok \in BOOLEAN :
          /\ Cycle(s, now)
          /\ \/ /\ Has(mstore, s)
                /\ net' = net \cup {FrameOf(mstore, s, now, ok)}
                /\ mstore' = GenerateStreamTag(mstore, s)
             \/ UNCHANGED <<net, mstore>>
    /\ UNCHANGED sstore

SlaveSend(s) ==
    /\ s \in Sensors
    /\ \E now \in CycleStarts(s), ok \in BOOLEAN :
          /\ Cycle(s, now)
          /\ \/ /\ Has(sstore, s)
                /\ net' = net \cup {FrameOf(sstore, s, now, ok)}
                /\ sstore' = GenerateStreamTag(sstore, s)
             \/ UNCHANGED <<net, sstore>>
    /\ UNCHANGED mstore
------------------------------------------------------------------------------
(***************************************************************************)
(* The receive loops.                                                      *)
(***************************************************************************)

\* What a receive loop does with a frame whose tag it has accepted: one with a
\* good status is compared with the last one and written to the process image,
\* also when it is out of tolerance; the write may fail.
Apply(f) ==
    LET s == f.stream
    IN  /\ IF f.ok
           THEN /\ check' = [check EXCEPT ![s] =
                       IF last[s] = NoFrame THEN NoCheck
                       ELSE [lost |-> f.num - last[s].num - 1,
                             missed |-> MissedCycles(last[s].counter, f.counter, CycleTimeNano)]]
                /\ last' = [last EXCEPT ![s] = [num |-> f.num, counter |-> f.counter]]
                /\ \/ image' = [image EXCEPT ![s] = [num |-> f.num, epoch |-> resets]]
                   \/ UNCHANGED image
           ELSE UNCHANGED <<check, last, image>>
        /\ UNCHANGED <<sent, clock, net, resets>>

\* A frame of a stream the loop knows.  A refused tag leaves no trace; an
\* accepted one moves the window whatever the rest of the frame is.
MasterReceive(f) ==
    /\ f.stream \in Sensors
    /\ ValidateStreamTag(mstore, f.stream, f.seq)
    /\ mstore' = AcceptStreamTag(mstore, f.stream, f.seq)
    /\ Apply(f)
    /\ UNCHANGED sstore

SlaveReceive(f) ==
    /\ f.stream \in Streams \ Sensors
    /\ ValidateStreamTag(sstore, f.stream, f.seq)
    /\ sstore' = AcceptStreamTag(sstore, f.stream, f.seq)
    /\ Apply(f)
    /\ UNCHANGED mstore

\* A receive loop notices a change of the device state: last_cycle_counter.clear().
Forget(streams) ==
    /\ last' = [s \in Streams |-> IF s \in streams THEN NoFrame ELSE last[s]]
    /\ UNCHANGED <<mstore, sstore, sent, clock, net, image, check, resets>>

MasterStateChange == Forget(Sensors)
SlaveStateChange == Forget(Streams \ Sensors)
------------------------------------------------------------------------------
\* configure_streams on the slave, with all or only some of the streams.
ConfigureStreams(ids) ==
    /\ resets < MaxResets
    /\ resets' = resets + 1
    /\ sstore' = AddStreamConfigs(Reset(sstore), ids, SlaveDirection)
    /\ UNCHANGED <<mstore, sent, clock, net, last, image, check>>

Next ==
    \/ \E s \in Streams : MasterSend(s) \/ SlaveSend(s)
    \/ \E f \in net : MasterReceive(f) \/ SlaveReceive(f)
    \/ MasterStateChange
    \/ SlaveStateChange
    \/ \E ids \in SUBSET Streams : ConfigureStreams(ids)

Spec == Init /\ [][Next]_vars
------------------------------------------------------------------------------
(***************************************************************************)
(* Properties.                                                             *)
(***************************************************************************)

\* Every variable has its type; a sequence number never leaves its width.
TypeOK ==
    /\ mstore \in Tables
    /\ sstore \in Tables
    /\ sent \in [Streams -> 0..MaxFrames]
    /\ clock \in [Streams -> 0..CounterModulus - 1]
    /\ net \subseteq Frames
    /\ last \in [Streams -> [num: 0..MaxFrames, counter: 0..CounterModulus - 1]]
    /\ image \in [Streams -> [num: 0..MaxFrames, epoch: 0..MaxResets]]
    /\ check \in [Streams -> [lost: -MaxFrames..MaxFrames, missed: Nat]]
    /\ resets \in 0..MaxResets

\* The numbering of a stream is the one it began with: the slave, when it is
\* the producer, was not configured anew.
SameNumbering(s) == s \in Sensors => resets = 0

\* The consumer was not configured anew since it applied the data it has.
SameWindow(s) == image[s].epoch = resets

\* From one configuration of the slave to the next, the process data of a stream
\* are applied in the order in which they were produced: a duplicate or a frame
\* that was overtaken never replaces younger data.  The exception is the first
\* frame after configure_streams, when the window is 0 again and the order
\* begins anew (InOrderThroughout); and the numbering must be the same.
InOrder ==
    [][\A s \in Streams :
        SameNumbering(s) /\ SameWindow(s) /\ image'[s] # image[s]
            => image'[s].num > image[s].num]_vars

\* As long as the numbering is the same, the consumer's window stays behind
\* the producer: the next frame is not refused, also after the consuming slave
\* was configured anew.
WindowBehindProducer ==
    \A s \in Streams :
        SameNumbering(s) /\ Has(Producer(s), s) /\ Has(Consumer(s), s) /\ Producer(s)[s] < SeqMax
            => Consumer(s)[s] < Producer(s)[s]

\* Two frames of consecutive cycles never count as a missed cycle, wherever
\* the counter wraps and although it wraps at 0xFFFF and is compared as a u16, as
\* long as a cycle is off by no more than a cycle time: timers of 1 ms are good
\* for cycles of 1 ms or more, and not for the 250 us that the API accepts.
NoFalseAlarm ==
    MaxJitter <= TicksPerCycle(CycleTimeNano)
        => \A s \in Streams : check[s].lost = 0 => check[s].missed = 0

\* A gap of two cycles or more, in less than half the range of the counter, is
\* reported, with at most one cycle too many, as long as the jitter that its
\* cycles add up to is less than half a cycle.
GapReported ==
    \A s \in Streams :
        LET n == check[s].lost
            ticks == TicksPerCycle(CycleTimeNano)
            jitter == (n + 1) * MaxJitter
        IN  n >= 2 /\ 2 * (jitter + 1) <= ticks /\ (n + 1) * ticks + jitter < U16 \div 2
                => check[s].missed \in n..n + 1

\* The process data of a stream the slave consumes are applied in the order in
\* which they were produced, also after the slave was configured anew.
InOrderThroughout ==
    [][\A s \in Streams \ Sensors :
        image'[s] # image[s] => image'[s].num > image[s].num]_vars

\* A frame whose cycle counter is out of tolerance is not written to the
\* process image: the last frame compared is not the one the image shows.
AppliedInTolerance ==
    \A s \in Streams : check[s].missed > 0 /\ last[s] # NoFrame => image[s].num # last[s].num
==============================================================================
