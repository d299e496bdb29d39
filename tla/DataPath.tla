------------------------------ MODULE DataPath -------------------------------
(***************************************************************************)
(* The way of a process variable from the output image of one device to    *)
(* the input image of another: read_outputs and write_inputs of the slave  *)
(* (slave/src/hardware_mock.rs) and of the master                          *)
(* (master/src/hardware_mock.rs), the frame (common/src/l2_types.rs,       *)
(* common/src/security/auth_footer.rs) and the checks of the receivers     *)
(* (common/src/l2_utils.rs).  Losses, order and replay are in L2Stream.    *)
(*                                                                         *)
(* An image is a function on its bits, bit b of byte o being o * ByteBits  *)
(* + b, and a byte of payload a function on its own.  A frame is the       *)
(* sequence of what stands behind the Ethernet header.                     *)
(***************************************************************************)
EXTENDS Integers, Sequences

CONSTANTS
    ByteBits,       \* bits of a byte
    ImageBytes,     \* bytes of an image
    FooterSize,     \* SECURITY_FOOTER_SIZE
    MinLen,         \* the link pads frames to this length; 0 if it pads none
    Layouts         \* the configurations an application asks for: who sends to whom, the
                    \* positions, and the variables of the hardware at the two ends

VARIABLES
    layout,         \* the configuration of this run
    out,            \* the output image of the producer
    in,             \* the input image of the consumer
    wire,           \* the frames on their way, at most one
    applied,        \* history: the value of the last frame applied, per stream
    refused         \* history: a frame without an error status was not applied

vars == <<layout, out, in, wire, applied, refused>>

ImageBits == 0..ImageBytes * ByteBits - 1
StreamIds == DOMAIN layout.streams

NoError == 0
ErrInvalidLen == 5
------------------------------------------------------------------------------
(***************************************************************************)
(* The process images.  A position is a byte offset, a bit offset and a    *)
(* number of bits.                                                         *)
(***************************************************************************)

\* bit_len_to_byte_len
ByteLen(bits) == (bits + ByteBits - 1) \div ByteBits

Start(p) == p.byte * ByteBits + p.bit
Field(p) == Start(p)..Start(p) + p.len - 1
WholeBytes(p) == p.byte * ByteBits..(p.byte + ByteLen(p.len)) * ByteBits - 1

\* The value of a variable: the bits of its field, the first one first.
Value(image, p) == [i \in 0..p.len - 1 |-> image[Start(p) + i]]

\* validate_streams, as far as positions go: a stream has bits, and it is one of
\* the variables that the layout of the hardware has for its direction.
ValidateStreams(positions, variables) ==
    \A p \in positions : p.len > 0 /\ p \in variables

\* configure_streams, which only a slave has: the stream store of the master
\* takes every position.
ConfigureStreams(l) ==
    /\ l.from = "slave" =>
          ValidateStreams({l.streams[s].out : s \in DOMAIN l.streams}, l.outputs)
    /\ l.to = "slave" =>
          ValidateStreams({l.streams[s].in : s \in DOMAIN l.streams}, l.inputs)

Devices == {"slave", "master"}
Positions == [byte: Nat, bit: Nat, len: Nat]

ASSUME DataPathAssumption ==
    /\ {ByteBits, ImageBytes, FooterSize} \subseteq Nat \ {0}
    /\ MinLen \in Nat
    /\ \A l \in Layouts :
          /\ {l.from, l.to} \subseteq Devices
          /\ \A s \in DOMAIN l.streams : {l.streams[s].out, l.streams[s].in} \subseteq Positions

\* The range checks: the span of bits on the slave, whole bytes on the master.
InRange(device, p) ==
    IF device = "slave" THEN p.byte + ByteLen(p.bit + p.len) <= ImageBytes
    ELSE p.byte + ByteLen(p.len) <= ImageBytes

\* The bytes of a run of bits, the lowest bit first, and a bit of such bytes.
ToBytes(bits, n) ==
    [k \in 1..n |-> [i \in 0..ByteBits - 1 |-> bits[(k - 1) * ByteBits + i]]]
BitOf(bytes, i) == bytes[i \div ByteBits + 1][i % ByteBits]

\* A mutant: the slave, too, starts at the first bit of the byte.
ReadOutputs_NoBitOffset(device, image, p) ==
    LET n == ByteLen(p.len)
    IN  ToBytes([i \in 0..n * ByteBits - 1 |-> image[p.byte * ByteBits + i]], n)

\* read_outputs: the slave collects the bits of the field and fills up with
\* zeros, the master returns whole bytes and has no use for the bit offset.
ReadOutputs(device, image, p) ==
    LET n == ByteLen(p.len)
        bits == IF device = "slave"
                THEN [i \in 0..n * ByteBits - 1 |->
                        IF i < p.len THEN image[Start(p) + i] ELSE 0]
                ELSE [i \in 0..n * ByteBits - 1 |-> image[p.byte * ByteBits + i]]
    IN  ToBytes(bits, n)

\* A mutant: the slave, too, copies whole bytes.
WriteInputs_WholeBytes(device, image, data, p) ==
    [b \in ImageBits |-> IF b \in WholeBytes(p) THEN BitOf(data, b - p.byte * ByteBits)
                         ELSE image[b]]

\* write_inputs: the slave sets the bits of the field, the master copies bytes.
WriteInputs(device, image, data, p) ==
    IF device = "slave"
    THEN [b \in ImageBits |-> IF b \in Field(p) THEN BitOf(data, b - Start(p)) ELSE image[b]]
    ELSE [b \in ImageBits |-> IF b \in WholeBytes(p) THEN BitOf(data, b - p.byte * ByteBits)
                              ELSE image[b]]
------------------------------------------------------------------------------
(***************************************************************************)
(* Frames.                                                                 *)
(***************************************************************************)

\* Byte k of the footer, which the tag makes one that no other header and
\* payload have, and none of a payload: a bit beyond those of a byte is set.
Tag(bytes, k) == [b \in {ByteBits} |-> <<bytes, k>>]
Footer(bytes) == [k \in 1..FooterSize |-> Tag(bytes, k)]

HeaderSize == 2
Header(s, status) == <<s, status>>

\* build_l2_frame
BuildFrame(header, payload) == header \o payload \o Footer(header \o payload)

\* The link fills a short frame with zeros at its end.
Padded(frame) ==
    IF Len(frame) >= MinLen THEN frame
    ELSE frame \o [k \in 1..MinLen - Len(frame) |-> [i \in 0..ByteBits - 1 |-> 0]]

\* A mutant: the footer is taken to be one byte longer.
FooterStart_OffByOne(frame) == Len(frame) - FooterSize

\* split_payload_and_footer: the footer is what stands at the end.
FooterStart(frame) == Len(frame) - FooterSize + 1

\* parse_l2_frame and validate_stream_tag accept the frame.
Authentic(frame) ==
    /\ Len(frame) >= HeaderSize + FooterSize
    /\ SubSeq(frame, FooterStart(frame), Len(frame))
          = Footer(SubSeq(frame, 1, FooterStart(frame) - 1))
Payload(frame) == SubSeq(frame, HeaderSize + 1, FooterStart(frame) - 1)
------------------------------------------------------------------------------
Init ==
    /\ layout \in Layouts /\ ConfigureStreams(layout)
    /\ out = [b \in ImageBits |-> 0]
    /\ \E bit \in {0, 1} : in = [b \in ImageBits |-> bit]
    /\ wire = <<>>
    /\ applied = [s \in StreamIds |-> <<>>]
    /\ refused = FALSE

\* The application of the producer changes its outputs.
ChangeOutput(b) ==
    /\ out' = [out EXCEPT ![b] = 1 - @]
    /\ UNCHANGED <<layout, in, wire, applied, refused>>

\* A cycle of a sender: an image that cannot be read gives an empty payload
\* with an error status.
Send(s) ==
    /\ wire = <<>>
    /\ LET p == layout.streams[s].out
           frame == IF InRange(layout.from, p)
                    THEN BuildFrame(Header(s, NoError), ReadOutputs(layout.from, out, p))
                    ELSE BuildFrame(Header(s, ErrInvalidLen), <<>>)
       IN  wire' = <<[bytes |-> Padded(frame),
                      value |-> IF InRange(layout.from, p) THEN Value(out, p) ELSE <<>>]>>
    /\ UNCHANGED <<layout, out, in, applied, refused>>

\* handle_input_packet: bytes behind the ones expected are left alone.
HandleInputPacket(payload, p) ==
    /\ Len(payload) >= ByteLen(p.len)
    /\ InRange(layout.to, p)
    /\ in' = WriteInputs(layout.to, in, SubSeq(payload, 1, ByteLen(p.len)), p)

\* The receiver: a frame that is not authentic, has an error status or does
\* not fit the image is dropped.
Receive ==
    /\ wire # <<>>
    /\ LET frame == Head(wire).bytes
           s == frame[1]
           accepts == /\ Authentic(frame)
                      /\ frame[2] = NoError
                      /\ Len(Payload(frame)) >= ByteLen(layout.streams[s].in.len)
                      /\ InRange(layout.to, layout.streams[s].in)
       IN  IF accepts
           THEN /\ HandleInputPacket(Payload(frame), layout.streams[s].in)
                /\ applied' = [applied EXCEPT ![s] = Head(wire).value]
                /\ UNCHANGED refused
           ELSE /\ refused' = (refused \/ Head(wire).value # <<>>)
                /\ UNCHANGED <<in, applied>>
    /\ wire' = <<>>
    /\ UNCHANGED <<layout, out>>

Next ==
    \/ \E b \in ImageBits : ChangeOutput(b)
    \/ \E s \in StreamIds : Send(s)
    \/ Receive

Spec == Init /\ [][Next]_vars
------------------------------------------------------------------------------
(***************************************************************************)
(* What the application owes that configures the two ends of a stream one  *)
(* by one, and what the hardware owes: no code checks any of it.           *)
(***************************************************************************)

\* A variable has one length.
SameLength ==
    \A l \in Layouts : \A s \in DOMAIN l.streams : l.streams[s].out.len = l.streams[s].in.len

\* No two streams are given the same input: validate_streams lets it pass.
OneProducer ==
    \A l \in Layouts : \A s, t \in DOMAIN l.streams :
        s # t => l.streams[s].in # l.streams[t].in

\* The input variables of a slave share no bit.
VariablesApart ==
    \A l \in Layouts : \A p, q \in l.inputs : p # q => Field(p) \cap Field(q) = {}

\* On the master a variable begins where a byte does, which is where the master
\* looks for it: Position has a bit offset and the master does not read it.
MasterAtBytes ==
    \A l \in Layouts : \A s \in DOMAIN l.streams :
        /\ l.from = "master" => l.streams[s].out.bit = 0
        /\ l.to = "master" => l.streams[s].in.bit = 0

\* The inputs of the master share no byte.
MasterBytesApart ==
    \A l \in Layouts : l.to = "master" =>
        \A s, t \in DOMAIN l.streams :
            s # t => WholeBytes(l.streams[s].in) \cap WholeBytes(l.streams[t].in) = {}

\* What can be read at one end can be written at the other.
InputsFit ==
    \A l \in Layouts : \A s \in DOMAIN l.streams :
        InRange(l.from, l.streams[s].out) => InRange(l.to, l.streams[s].in)

\* Every frame is as long as the link wants it.
NoPadding ==
    \A l \in Layouts : \A s \in DOMAIN l.streams :
        HeaderSize + ByteLen(l.streams[s].out.len) + FooterSize >= MinLen
------------------------------------------------------------------------------
(***************************************************************************)
(* Properties.                                                             *)
(***************************************************************************)

\* A variable keeps its value on the way, across byte boundaries and offsets
\* that differ at the two ends, and keeps it in the image of the consumer
\* whatever other streams bring.
ValueIntact ==
    \A s \in StreamIds : applied[s] # <<>> => Value(in, layout.streams[s].in) = applied[s]

\* A frame changes no bit outside the field of its stream on a slave, none
\* outside the bytes of its stream on the master.
Untouched ==
    [][\A b \in ImageBits : in'[b] # in[b] =>
            /\ wire # <<>>
            /\ LET q == layout.streams[Head(wire).bytes[1]].in
               IN  b \in IF layout.to = "slave" THEN Field(q) ELSE WholeBytes(q)]_vars

\* A frame that was sent without an error is accepted, short ones as well.
FramesAccepted == ~refused
==============================================================================
