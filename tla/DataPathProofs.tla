--------------------------- MODULE DataPathProofs ----------------------------
(***************************************************************************)
(* Proofs about DataPath for every width of a byte, every size of image    *)
(* and footer and every set of layouts.                                    *)
(***************************************************************************)
EXTENDS DataPath, SequenceTheorems, TLAPS

(***************************************************************************)
(* Arithmetic of bits and bytes.                                           *)
(***************************************************************************)

\* The constants are numbers.
LEMMA Constants ==
    /\ ByteBits \in Nat \ {0} /\ ImageBytes \in Nat \ {0} /\ FooterSize \in Nat \ {0}
    /\ MinLen \in Nat
BY DataPathAssumption

\* Multiplication with the width of a byte keeps the order.
LEMMA Times ==
    ASSUME NEW a \in Nat, NEW b \in Nat, NEW c \in Nat, a <= b
    PROVE  a * c <= b * c
OBVIOUS

LEMMA Distributes ==
    ASSUME NEW a \in Nat, NEW b \in Nat, NEW c \in Nat
    PROVE  (a + b) * c = a * c + b * c /\ a * c \in Nat /\ b * c \in Nat
OBVIOUS

\* Bit i of n bytes is in one of them, at its place.
LEMMA ByteOfBit ==
    ASSUME NEW n \in Nat, NEW c \in Nat \ {0}, NEW i \in 0..n * c - 1
    PROVE  /\ i \div c + 1 \in 1..n
           /\ i % c \in 0..c - 1
           /\ (i \div c) * c + (i % c) = i
<1>1. n * c \in Nat
  OBVIOUS
<1>2. i \in Nat /\ i < n * c
  BY <1>1
<1>3. i \div c \in Nat /\ i % c \in 0..c - 1 /\ i = c * (i \div c) + (i % c)
  BY <1>2
<1>4. i \div c < n
  BY <1>2
<1>5. c * (i \div c) = (i \div c) * c
  BY <1>3
<1>. QED  BY <1>3, <1>4, <1>5

\* Whole bytes have room for the bits.
LEMMA ByteLenCovers ==
    ASSUME NEW n \in Nat
    PROVE  ByteLen(n) \in Nat /\ n <= ByteLen(n) * ByteBits
<1>1. ASSUME NEW c \in Nat \ {0}
      PROVE  (n + c - 1) \div c \in Nat /\ n <= ((n + c - 1) \div c) * c
  OBVIOUS
<1>. QED  BY <1>1, Constants DEF ByteLen

\* The bytes of a run of bits have its bits.
LEMMA BytesOfBits ==
    ASSUME NEW bits, NEW n \in Nat, NEW i \in 0..n * ByteBits - 1
    PROVE  BitOf(ToBytes(bits, n), i) = bits[i]
<1>. DEFINE k == i \div ByteBits + 1
            j == i % ByteBits
<1>1. k \in 1..n /\ j \in 0..ByteBits - 1 /\ (i \div ByteBits) * ByteBits + j = i
  <2>1. ByteBits \in Nat \ {0}
    BY Constants
  <2>. QED  BY <2>1, ByteOfBit
<1>2. i \div ByteBits \in Int
  BY Constants
<1>3. k - 1 = i \div ByteBits
  BY <1>2
<1>. HIDE DEF j
<1>4. ToBytes(bits, n)[k][j] = bits[(k - 1) * ByteBits + j]
  BY <1>1 DEF ToBytes
<1>. QED  BY <1>1, <1>3, <1>4 DEF BitOf, j
------------------------------------------------------------------------------
(***************************************************************************)
(* The images.                                                             *)
(***************************************************************************)

\* The bits of the variable at p on a device: those a frame for it may change.
Touched(device, p) == IF device = "slave" THEN Field(p) ELSE WholeBytes(p)

\* A position that the device can look up: inside its image, and on the master
\* at the beginning of a byte.
Valid(device, p) ==
    /\ device \in Devices /\ p \in Positions
    /\ device = "master" => p.bit = 0
    /\ InRange(device, p)

\* The bits of a variable are in the image, and among those a frame may change.
LEMMA FieldInImage ==
    ASSUME NEW device, NEW p, Valid(device, p), NEW i \in 0..p.len - 1
    PROVE  /\ Start(p) + i \in ImageBits /\ Start(p) + i \in Touched(device, p)
           /\ Start(p) \in Nat
<1>1. /\ device = "slave" \/ device = "master"
      /\ p.byte \in Nat /\ p.bit \in Nat /\ p.len \in Nat /\ i \in Nat /\ i < p.len
      /\ ByteBits \in Nat /\ ImageBytes \in Nat
  BY Constants DEF Valid, Devices, Positions
<1>2. CASE device = "slave"
  <2>. DEFINE n == ByteLen(p.bit + p.len)
  <2>1. n \in Nat /\ p.bit + p.len <= n * ByteBits
    BY <1>1, ByteLenCovers
  <2>2. p.byte + n <= ImageBytes
    BY <1>2 DEF Valid, InRange
  <2>. HIDE DEF n
  <2>3. (p.byte + n) * ByteBits <= ImageBytes * ByteBits
    BY <1>1, <2>1, <2>2, Times
  <2>4. (p.byte + n) * ByteBits = p.byte * ByteBits + n * ByteBits
        /\ p.byte * ByteBits \in Nat /\ n * ByteBits \in Nat
    BY <1>1, <2>1, Distributes
  <2>5. ImageBytes * ByteBits \in Nat
    BY <1>1, Distributes
  <2>6. Start(p) \in Nat /\ Start(p) + i <= ImageBytes * ByteBits - 1
    BY <1>1, <2>1, <2>3, <2>4, <2>5 DEF Start
  <2>. QED  BY <1>1, <1>2, <2>5, <2>6 DEF ImageBits, Touched, Field
<1>3. CASE device = "master"
  <2>. DEFINE n == ByteLen(p.len)
  <2>1. n \in Nat /\ p.len <= n * ByteBits
    BY <1>1, ByteLenCovers
  <2>2. p.byte + n <= ImageBytes /\ p.bit = 0
    BY <1>3 DEF Valid, InRange
  <2>3. WholeBytes(p) = p.byte * ByteBits..(p.byte + n) * ByteBits - 1
    BY DEF WholeBytes
  <2>. HIDE DEF n
  <2>4. (p.byte + n) * ByteBits <= ImageBytes * ByteBits
    BY <1>1, <2>1, <2>2, Times
  <2>5. (p.byte + n) * ByteBits = p.byte * ByteBits + n * ByteBits
        /\ p.byte * ByteBits \in Nat /\ n * ByteBits \in Nat
    BY <1>1, <2>1, Distributes
  <2>6. ImageBytes * ByteBits \in Nat
    BY <1>1, Distributes
  <2>7. Start(p) = p.byte * ByteBits
    BY <2>2, <2>5 DEF Start
  <2>8. Start(p) + i <= (p.byte + n) * ByteBits - 1 /\ Start(p) + i >= p.byte * ByteBits
    BY <1>1, <2>1, <2>5, <2>7
  <2>9. Start(p) + i \in WholeBytes(p)
    BY <1>1, <2>3, <2>5, <2>7, <2>8
  <2>10. Start(p) + i \in ImageBits
    BY <1>1, <2>4, <2>5, <2>6, <2>7, <2>8 DEF ImageBits
  <2>. QED  BY <1>3, <2>5, <2>7, <2>9, <2>10 DEF Touched
<1>. QED  BY <1>1, <1>2, <1>3

\* read_outputs puts the bits of the variable at the front of its bytes.
LEMMA ReadOutputsBits ==
    ASSUME NEW device, NEW p, Valid(device, p), NEW image, NEW i \in 0..p.len - 1
    PROVE  BitOf(ReadOutputs(device, image, p), i) = image[Start(p) + i]
<1>. DEFINE n == ByteLen(p.len)
            collected == [b \in 0..n * ByteBits - 1 |-> IF b < p.len THEN image[Start(p) + b] ELSE 0]
            copied == [b \in 0..n * ByteBits - 1 |-> image[p.byte * ByteBits + b]]
<1>1. /\ device = "slave" \/ device = "master"
      /\ p.byte \in Nat /\ p.len \in Nat /\ i \in Nat /\ i < p.len /\ ByteBits \in Nat
      /\ device = "master" => p.bit = 0
  BY Constants DEF Valid, Devices, Positions
<1>2. n \in Nat /\ p.len <= n * ByteBits
  BY <1>1, ByteLenCovers
<1>3. i \in 0..n * ByteBits - 1
  <2>1. n * ByteBits \in Nat
    BY <1>1, <1>2, Distributes
  <2>. QED  BY <1>1, <1>2, <2>1
<1>4. ReadOutputs(device, image, p) = ToBytes(IF device = "slave" THEN collected ELSE copied, n)
  BY DEF ReadOutputs
<1>. HIDE DEF n
<1>5. CASE device = "slave"
  <2>1. collected[i] = image[Start(p) + i]
    BY <1>1, <1>3
  <2>. QED  BY <1>2, <1>3, <1>4, <1>5, <2>1, BytesOfBits
<1>6. CASE device = "master"
  <2>1. Start(p) = p.byte * ByteBits
    BY <1>1, <1>6, Distributes DEF Start
  <2>2. copied[i] = image[Start(p) + i]
    BY <1>3, <2>1
  <2>. QED  BY <1>2, <1>3, <1>4, <1>6, <2>2, BytesOfBits
<1>. QED  BY <1>1, <1>5, <1>6

\* write_inputs sets the bits of the variable to the first ones of the data.
LEMMA WriteInputsBits ==
    ASSUME NEW device, NEW p, Valid(device, p), NEW image, NEW data, NEW i \in 0..p.len - 1
    PROVE  WriteInputs(device, image, data, p)[Start(p) + i] = BitOf(data, i)
<1>1. /\ Start(p) + i \in ImageBits /\ Start(p) + i \in Touched(device, p) /\ Start(p) \in Nat
  BY FieldInImage
<1>2. /\ device = "slave" \/ device = "master"
      /\ p.byte \in Nat /\ p.len \in Nat /\ i \in Nat /\ ByteBits \in Nat
      /\ device = "master" => p.bit = 0
  BY Constants DEF Valid, Devices, Positions
<1>3. CASE device = "slave"
  <2>1. WriteInputs(device, image, data, p)[Start(p) + i] = BitOf(data, (Start(p) + i) - Start(p))
    BY <1>1, <1>3 DEF WriteInputs, Touched
  <2>2. (Start(p) + i) - Start(p) = i
    BY <1>1, <1>2
  <2>. QED  BY <2>1, <2>2
<1>4. CASE device = "master"
  <2>1. WriteInputs(device, image, data, p)[Start(p) + i]
            = BitOf(data, (Start(p) + i) - p.byte * ByteBits)
    BY <1>1, <1>4 DEF WriteInputs, Touched
  <2>2. Start(p) = p.byte * ByteBits
    BY <1>2, <1>4, Distributes DEF Start
  <2>3. (Start(p) + i) - p.byte * ByteBits = i
    BY <1>1, <1>2, <2>2
  <2>. QED  BY <2>1, <2>3
<1>. QED  BY <1>2, <1>3, <1>4

\* write_inputs leaves all other bits alone.
LEMMA WriteInputsFrame ==
    ASSUME NEW device \in Devices, NEW p, NEW image, NEW data,
           NEW b \in ImageBits, b \notin Touched(device, p)
    PROVE  WriteInputs(device, image, data, p)[b] = image[b]
BY DEF WriteInputs, Touched, Devices
------------------------------------------------------------------------------
(***************************************************************************)
(* Frames.                                                                 *)
(***************************************************************************)

\* A function on 1..n is a sequence of length n.
LEMMA FunctionIsSeq ==
    ASSUME NEW A, NEW n \in Nat, NEW F \in [1..n -> A]
    PROVE  F \in Seq(A) /\ Len(F) = n
OBVIOUS

\* A stretch of a sequence, element by element.
LEMMA Stretch ==
    ASSUME NEW A, NEW q \in Seq(A), NEW a \in Nat, NEW r \in Seq(A), a + Len(r) <= Len(q),
           \A i \in 1..Len(r) : q[a + i] = r[i]
    PROVE  SubSeq(q, a + 1, a + Len(r)) = r
<1>. DEFINE L == Len(r)
            sub == SubSeq(q, a + 1, a + L)
<1>1. L \in Nat /\ Len(q) \in Nat
  OBVIOUS
<1>2. \A i \in a + 1..a + L : q[i] \in A
  BY <1>1
<1>. HIDE DEF L
<1>3. /\ sub \in Seq(A)
      /\ Len(sub) = IF a + 1 <= a + L THEN (a + L) - (a + 1) + 1 ELSE 0
      /\ \A i \in 1..(a + L) - (a + 1) + 1 : sub[i] = q[(a + 1) + i - 1]
  <2>1. a + 1 \in Int /\ a + L \in Int
    BY <1>1
  <2>. QED  BY <1>2, <2>1, SubSeqProperties
<1>4. (a + L) - (a + 1) + 1 = L /\ (a + 1 <= a + L <=> L >= 1)
  BY <1>1
<1>5. Len(sub) = L
  BY <1>1, <1>3, <1>4
<1>. HIDE DEF sub
<1>6. ASSUME NEW i \in 1..L  PROVE sub[i] = r[i]
  <2>1. (a + 1) + i - 1 = a + i
    BY <1>1
  <2>2. sub[i] = q[a + i]
    BY <1>3, <1>4, <2>1
  <2>. QED  BY <2>2 DEF L
<1>7. sub = r
  BY <1>3, <1>5, <1>6 DEF L
<1>. QED  BY <1>7 DEF sub, L

\* f consists of h, p and t, and hp of the first two, of length n.
Joined(A, h, p, t, hp, f, n) ==
    /\ h \in Seq(A) /\ p \in Seq(A) /\ t \in Seq(A)
    /\ hp = h \o p /\ f = hp \o t /\ n = Len(h) + Len(p)

\* The parts can be told from f again.
Splits(A, h, p, t, hp, f, n) ==
    /\ f \in Seq(A) /\ Len(f) = n + Len(t)
    /\ \A i \in 1..Len(h) : f[i] = h[i]
    /\ SubSeq(f, 1, n) = hp
    /\ SubSeq(f, Len(h) + 1, n) = p
    /\ SubSeq(f, n + 1, n + Len(t)) = t

\* A frame of three parts gives them back.
LEMMA ThreeParts ==
    ASSUME NEW A, NEW h, NEW p, NEW t, NEW hp, NEW f, NEW n, Joined(A, h, p, t, hp, f, n)
    PROVE  Splits(A, h, p, t, hp, f, n)
<1>. h \in Seq(A) /\ p \in Seq(A) /\ t \in Seq(A) /\ hp = h \o p /\ f = hp \o t /\ n = Len(h) + Len(p)
  BY DEF Joined
<1>1. Len(h) \in Nat /\ Len(p) \in Nat /\ Len(t) \in Nat /\ n \in Nat
  OBVIOUS
<1>2. /\ hp \in Seq(A) /\ Len(hp) = n
      /\ \A i \in 1..n : hp[i] = IF i <= Len(h) THEN h[i] ELSE p[i - Len(h)]
  BY ConcatProperties
<1>3. /\ f \in Seq(A) /\ Len(f) = n + Len(t)
      /\ \A i \in 1..n + Len(t) : f[i] = IF i <= n THEN hp[i] ELSE t[i - n]
  <2>1. /\ f \in Seq(A) /\ Len(f) = Len(hp) + Len(t)
        /\ \A i \in 1..Len(hp) + Len(t) : f[i] = IF i <= Len(hp) THEN hp[i] ELSE t[i - Len(hp)]
    BY <1>2, ConcatProperties
  <2>. QED  BY <1>2, <2>1
<1>4. Len(h) <= n /\ n = Len(h) + Len(p) /\ n <= Len(f)
  BY <1>1, <1>3
<1>5. \A i \in 1..n : f[i] = hp[i]
  BY <1>1, <1>3
<1>6. \A i \in 1..Len(h) : f[i] = h[i]
  BY <1>1, <1>2, <1>4, <1>5
<1>7. SubSeq(f, 1, n) = hp
  <2>1. 0 \in Nat /\ 0 + Len(hp) <= Len(f) /\ \A i \in 1..Len(hp) : f[0 + i] = hp[i]
    BY <1>1, <1>2, <1>4, <1>5
  <2>2. SubSeq(f, 0 + 1, 0 + Len(hp)) = hp
    BY <1>2, <1>3, <2>1, Stretch
  <2>3. 0 + 1 = 1 /\ 0 + Len(hp) = n
    BY <1>1, <1>2
  <2>. QED  BY <2>2, <2>3
<1>8. SubSeq(f, Len(h) + 1, n) = p
  <2>1. ASSUME NEW i \in 1..Len(p)  PROVE f[Len(h) + i] = p[i]
    <3>1. Len(h) + i \in 1..n /\ ~(Len(h) + i <= Len(h)) /\ (Len(h) + i) - Len(h) = i
      BY <1>1, <1>4
    <3>. QED  BY <1>2, <1>5, <3>1
  <2>2. SubSeq(f, Len(h) + 1, Len(h) + Len(p)) = p
    BY <1>1, <1>3, <1>4, <2>1, Stretch
  <2>. QED  BY <1>4, <2>2
<1>9. SubSeq(f, n + 1, n + Len(t)) = t
  <2>1. ASSUME NEW i \in 1..Len(t)  PROVE f[n + i] = t[i]
    <3>1. n + i \in 1..n + Len(t) /\ ~(n + i <= n) /\ (n + i) - n = i
      BY <1>1
    <3>. QED  BY <1>3, <3>1
  <2>2. n + Len(t) <= Len(f)
    BY <1>1, <1>3
  <2>. QED  BY <1>1, <1>3, <2>1, <2>2, Stretch
<1>. QED  BY <1>2, <1>3, <1>6, <1>7, <1>8, <1>9 DEF Splits

\* A frame of stream s with a payload P of n bytes.
WellBuilt(frame, s, status, n, P) ==
    /\ \E A : frame \in Seq(A)
    /\ Len(frame) = HeaderSize + n + FooterSize
    /\ frame[1] = s /\ frame[2] = status
    /\ Authentic(frame)
    /\ Payload(frame) = P

\* A frame as it is built is authentic, and its parts are what it was built of.
LEMMA BuiltFrame ==
    ASSUME NEW s, NEW status, NEW n \in Nat, NEW B, NEW P \in [1..n -> B],
           NEW frame, frame = BuildFrame(Header(s, status), P)
    PROVE  WellBuilt(frame, s, status, n, P)
<1>. DEFINE H == Header(s, status)
            T == Footer(H \o P)
            Symbols == {s, status} \cup {P[k] : k \in 1..n} \cup {Tag(H \o P, k) : k \in 1..FooterSize}
<1>1. FooterSize \in Nat /\ FooterSize > 0 /\ HeaderSize = 2
  BY Constants DEF HeaderSize
<1>2. H \in Seq(Symbols) /\ Len(H) = 2 /\ H[1] = s /\ H[2] = status
  BY DEF Header
<1>3. P \in Seq(Symbols) /\ Len(P) = n
  <2>1. P \in [1..n -> Symbols]
    OBVIOUS
  <2>. HIDE DEF Symbols
  <2>. QED  BY <2>1, FunctionIsSeq
<1>4. T \in Seq(Symbols) /\ Len(T) = FooterSize
  <2>1. T = [k \in 1..FooterSize |-> Tag(H \o P, k)]
    BY DEF Footer
  <2>. HIDE DEF T, H
  <2>2. T \in [1..FooterSize -> Symbols]
    BY <2>1
  <2>. HIDE DEF Symbols
  <2>. QED  BY <1>1, <2>2, FunctionIsSeq
<1>. HIDE DEF Symbols, H, T
<1>5. frame = (H \o P) \o T
  BY DEF BuildFrame, H, T
<1>6. /\ frame \in Seq(Symbols) /\ Len(frame) = (2 + n) + FooterSize
      /\ \A i \in 1..2 : frame[i] = H[i]
      /\ SubSeq(frame, 1, 2 + n) = H \o P
      /\ SubSeq(frame, 2 + 1, 2 + n) = P
      /\ SubSeq(frame, (2 + n) + 1, (2 + n) + FooterSize) = T
  <2>. DEFINE HP == H \o P
              m == 2 + n
  <2>1. Joined(Symbols, H, P, T, HP, frame, m)
    BY <1>2, <1>3, <1>4, <1>5 DEF Joined
  <2>. HIDE DEF HP, m
  <2>2. Splits(Symbols, H, P, T, HP, frame, m)
    BY <2>1, ThreeParts
  <2>3. Len(H) = 2 /\ Len(T) = FooterSize
    BY <1>2, <1>4
  <2>. QED  BY <2>2, <2>3 DEF Splits, HP, m
<1>7. FooterStart(frame) = (2 + n) + 1 /\ FooterStart(frame) - 1 = 2 + n
  <2>1. Len(frame) = (2 + n) + FooterSize
    BY <1>6
  <2>2. FooterStart(frame) = ((2 + n) + FooterSize) - FooterSize + 1
    BY <2>1 DEF FooterStart
  <2>3. ((2 + n) + FooterSize) - FooterSize + 1 = (2 + n) + 1 /\ (2 + n) + 1 - 1 = 2 + n
    BY <1>1
  <2>. QED  BY <2>2, <2>3
<1>8. Authentic(frame)
  <2>1. Len(frame) >= HeaderSize + FooterSize
    BY <1>1, <1>6
  <2>2. SubSeq(frame, FooterStart(frame), Len(frame)) = Footer(SubSeq(frame, 1, FooterStart(frame) - 1))
    BY <1>6, <1>7 DEF T
  <2>. QED  BY <2>1, <2>2 DEF Authentic
<1>9. Payload(frame) = P
  BY <1>1, <1>6, <1>7 DEF Payload
<1>10. frame[1] = s /\ frame[2] = status
  BY <1>2, <1>6
<1>. QED  BY <1>1, <1>6, <1>8, <1>9, <1>10 DEF WellBuilt

\* The frame of an error has no payload.
LEMMA EmptyFrame ==
    ASSUME NEW s, NEW status, NEW frame, frame = BuildFrame(Header(s, status), <<>>)
    PROVE  /\ \E A : frame \in Seq(A)
           /\ Len(frame) = HeaderSize + 0 + FooterSize /\ frame[1] = s /\ frame[2] = status
<1>1. ASSUME NEW P, P = <<>>, frame = BuildFrame(Header(s, status), P), NEW n, n = 0
      PROVE  WellBuilt(frame, s, status, n, P)
  <2>1. n \in Nat
    BY <1>1
  <2>2. P \in [1..n -> {}]
    BY <1>1
  <2>3. frame = BuildFrame(Header(s, status), P)
    BY <1>1
  <2>. QED  BY <2>1, <2>2, <2>3, BuiltFrame
<1>. QED  BY <1>1 DEF WellBuilt

\* A padded frame is not authentic: its last byte is no byte of a footer.
LEMMA PaddedFrame ==
    ASSUME NEW A, NEW f \in Seq(A), Len(f) >= 2, Len(f) < MinLen
    PROVE  /\ Padded(f)[1] = f[1] /\ Padded(f)[2] = f[2]
           /\ ~Authentic(Padded(f))
<1>. DEFINE zero == [i \in 0..ByteBits - 1 |-> 0]
            m == MinLen - Len(f)
            fill == [k \in 1..m |-> zero]
            B == A \cup {zero}
            g == f \o fill
<1>1. /\ Len(f) \in Nat /\ MinLen \in Nat /\ m \in Nat /\ m > 0
      /\ ByteBits \in Nat /\ ByteBits > 0 /\ FooterSize \in Nat /\ FooterSize > 0
  BY Constants
<1>2. Padded(f) = g
  BY <1>1 DEF Padded
<1>. HIDE DEF zero, m
<1>3. f \in Seq(B) /\ fill \in Seq(B) /\ Len(fill) = m /\ \A k \in 1..m : fill[k] = zero
  <2>1. f \in Seq(B)
    OBVIOUS
  <2>2. fill \in [1..m -> B]
    OBVIOUS
  <2>. QED  BY <1>1, <2>1, <2>2
<1>. HIDE DEF B, fill
<1>4. /\ g \in Seq(B) /\ Len(g) = Len(f) + m
      /\ \A i \in 1..Len(f) + m : g[i] = IF i <= Len(f) THEN f[i] ELSE fill[i - Len(f)]
  BY <1>1, <1>3, ConcatProperties
<1>. HIDE DEF g
<1>5. g[1] = f[1] /\ g[2] = f[2]
  BY <1>1, <1>4
<1>6. g[Len(g)] = zero
  <2>1. Len(g) \in 1..Len(f) + m /\ ~(Len(g) <= Len(f)) /\ Len(g) - Len(f) = m /\ m \in 1..m
    BY <1>1, <1>4
  <2>. QED  BY <1>3, <1>4, <2>1
<1>7. ASSUME Authentic(g)  PROVE FALSE
  <2>. DEFINE hp == SubSeq(g, 1, FooterStart(g) - 1)
              tail == SubSeq(g, FooterStart(g), Len(g))
  <2>1. tail = Footer(hp) /\ Len(g) >= 2 + FooterSize /\ Len(g) \in Nat
    BY <1>1, <1>4, <1>7 DEF Authentic, HeaderSize
  <2>2. FooterStart(g) \in Nat /\ FooterStart(g) >= 1 /\ Len(g) - FooterStart(g) + 1 = FooterSize
    BY <1>1, <2>1 DEF FooterStart
  <2>3. tail[FooterSize] = g[Len(g)]
    <3>1. \A i \in FooterStart(g)..Len(g) : g[i] \in B
      BY <1>4, <2>1, <2>2
    <3>2. \A i \in 1..Len(g) - FooterStart(g) + 1 : tail[i] = g[FooterStart(g) + i - 1]
      <4>1. FooterStart(g) \in Int /\ Len(g) \in Int
        BY <2>1, <2>2
      <4>. QED  BY <3>1, <4>1, SubSeqProperties
    <3>3. FooterSize \in 1..Len(g) - FooterStart(g) + 1 /\ FooterStart(g) + FooterSize - 1 = Len(g)
      BY <1>1, <2>1, <2>2
    <3>. QED  BY <3>2, <3>3
  <2>. HIDE DEF hp, tail
  <2>4. tail[FooterSize] = Tag(hp, FooterSize)
    BY <1>1, <2>1 DEF Footer
  <2>5. zero = Tag(hp, FooterSize)
    BY <1>6, <2>3, <2>4
  <2>6. DOMAIN zero = 0..ByteBits - 1 /\ DOMAIN Tag(hp, FooterSize) = {ByteBits}
    BY DEF zero, Tag
  <2>7. ByteBits \notin 0..ByteBits - 1
    BY <1>1
  <2>. QED  BY <2>5, <2>6, <2>7
<1>. QED  BY <1>2, <1>5, <1>7

\* The bytes of read_outputs are a sequence of the length of the variable.
LEMMA ReadOutputsBytes ==
    ASSUME NEW device, NEW image, NEW p
    PROVE  \E B : ReadOutputs(device, image, p) \in [1..ByteLen(p.len) -> B]
<1>. DEFINE n == ByteLen(p.len)
            R == ReadOutputs(device, image, p)
            B == {R[k] : k \in 1..n}
<1>1. R = [k \in 1..n |-> R[k]]
  BY DEF ReadOutputs, ToBytes
<1>. HIDE DEF R
<1>2. R \in [1..n -> B]
  BY <1>1
<1>. QED  BY <1>2 DEF R

\* All of a sequence.
LEMMA Whole ==
    ASSUME NEW B, NEW n \in Nat, NEW P \in [1..n -> B]
    PROVE  Len(P) = n /\ SubSeq(P, 1, n) = P
<1>1. P \in Seq(B) /\ Len(P) = n
  BY FunctionIsSeq
<1>2. 0 \in Nat /\ 0 + Len(P) <= Len(P) /\ \A i \in 1..Len(P) : P[0 + i] = P[i]
  BY <1>1
<1>3. SubSeq(P, 0 + 1, 0 + Len(P)) = P
  BY <1>1, <1>2, Stretch
<1>. QED  BY <1>1, <1>3

\* What a sender puts on the wire for a stream.
SentFrame(l, s, image) ==
    LET p == l.streams[s].out
        frame == IF InRange(l.from, p)
                 THEN BuildFrame(Header(s, NoError), ReadOutputs(l.from, image, p))
                 ELSE BuildFrame(Header(s, ErrInvalidLen), <<>>)
    IN  [bytes |-> Padded(frame), value |-> IF InRange(l.from, p) THEN Value(image, p) ELSE <<>>]

\* A stream of a layout has its positions.
LEMMA Positioned ==
    ASSUME NEW l \in Layouts, NEW s \in DOMAIN l.streams
    PROVE  LET p == l.streams[s].out
               q == l.streams[s].in
           IN  /\ l.from \in Devices /\ l.to \in Devices
               /\ p \in Positions /\ q \in Positions
               /\ p.len \in Nat /\ q.len \in Nat
               /\ ByteLen(p.len) \in Nat
               /\ MasterAtBytes /\ InRange(l.from, p) => Valid(l.from, p)
               /\ MasterAtBytes /\ InRange(l.to, q) => Valid(l.to, q)
<1>. DEFINE p == l.streams[s].out
            q == l.streams[s].in
<1>1. /\ l.from \in Devices /\ l.to \in Devices /\ p \in Positions /\ q \in Positions
  BY DataPathAssumption
<1>2. MasterAtBytes => /\ l.from = "master" => p.bit = 0
                       /\ l.to = "master" => q.bit = 0
  BY DEF MasterAtBytes
<1>. HIDE DEF p, q
<1>3. p.len \in Nat /\ q.len \in Nat
  BY <1>1 DEF Positions
<1>4. ByteLen(p.len) \in Nat
  BY <1>3, ByteLenCovers
<1>5. /\ MasterAtBytes /\ InRange(l.from, p) => Valid(l.from, p)
      /\ MasterAtBytes /\ InRange(l.to, q) => Valid(l.to, q)
  BY <1>1, <1>2 DEF Valid
<1>. QED  BY <1>1, <1>3, <1>4, <1>5 DEF p, q

\* What the receiver makes of a frame that was sent.  With the right length it
\* is authentic and gives back the payload; padded it is dropped.
LEMMA Received ==
    ASSUME NEW l \in Layouts, NEW s \in DOMAIN l.streams, NEW image
    PROVE  LET p == l.streams[s].out
               fr == SentFrame(l, s, image)
           IN  /\ fr.bytes[1] = s
               /\ InRange(l.from, p) => fr.bytes[2] = NoError /\ fr.value = Value(image, p)
               /\ ~InRange(l.from, p) => fr.bytes[2] # NoError /\ fr.value = <<>>
               /\ InRange(l.from, p) /\ Authentic(fr.bytes) =>
                     Payload(fr.bytes) = ReadOutputs(l.from, image, p)
               /\ /\ InRange(l.from, p)
                  /\ HeaderSize + ByteLen(p.len) + FooterSize >= MinLen
                  => Authentic(fr.bytes)
<1>. DEFINE p == l.streams[s].out
            fr == SentFrame(l, s, image)
            n == ByteLen(p.len)
            R == ReadOutputs(l.from, image, p)
            good == BuildFrame(Header(s, NoError), R)
            bad == BuildFrame(Header(s, ErrInvalidLen), <<>>)
<1>1. n \in Nat /\ FooterSize \in Nat /\ MinLen \in Nat /\ HeaderSize = 2
  BY Constants, Positioned DEF HeaderSize
<1>2. PICK B : R \in [1..n -> B]
  BY ReadOutputsBytes
<1>4. /\ fr.bytes = Padded(IF InRange(l.from, p) THEN good ELSE bad)
      /\ fr.value = IF InRange(l.from, p) THEN Value(image, p) ELSE <<>>
  BY DEF SentFrame
<1>. HIDE DEF p, n, R
<1>5. /\ \E A : good \in Seq(A)
      /\ Len(good) = HeaderSize + n + FooterSize /\ good[1] = s /\ good[2] = NoError
      /\ Authentic(good) /\ Payload(good) = R
  <2>. HIDE DEF good
  <2>1. good = BuildFrame(Header(s, NoError), R)
    BY DEF good
  <2>2. WellBuilt(good, s, NoError, n, R)
    BY <1>1, <1>2, <2>1, BuiltFrame
  <2>. QED  BY <2>2 DEF WellBuilt
<1>6. /\ \E A : bad \in Seq(A)
      /\ Len(bad) = HeaderSize + 0 + FooterSize /\ bad[1] = s /\ bad[2] = ErrInvalidLen
  <2>1. bad = BuildFrame(Header(s, ErrInvalidLen), <<>>)
    OBVIOUS
  <2>. HIDE DEF bad
  <2>. QED  BY <2>1, EmptyFrame
<1>. HIDE DEF fr, good, bad
<1>7. CASE InRange(l.from, p)
  <2>1. fr.bytes = Padded(good) /\ fr.value = Value(image, p)
    BY <1>4, <1>7
  <2>2. CASE Len(good) >= MinLen
    <3>1. fr.bytes = good
      BY <2>1, <2>2 DEF Padded
    <3>. QED  BY <1>5, <1>7, <2>1, <3>1 DEF fr, p, n, R
  <2>3. CASE Len(good) < MinLen
    <3>1. /\ Padded(good)[1] = good[1] /\ Padded(good)[2] = good[2] /\ ~Authentic(Padded(good))
      BY <1>1, <1>5, <2>3, PaddedFrame
    <3>2. ~(HeaderSize + n + FooterSize >= MinLen)
      BY <1>1, <1>5, <2>3
    <3>. QED  BY <1>5, <1>7, <2>1, <3>1, <3>2 DEF fr, p, n, R
  <2>. QED  BY <1>1, <1>5, <2>2, <2>3
<1>8. CASE ~InRange(l.from, p)
  <2>1. fr.bytes = Padded(bad) /\ fr.value = <<>>
    BY <1>4, <1>8
  <2>2. Padded(bad)[1] = bad[1] /\ Padded(bad)[2] = bad[2]
    <3>1. CASE Len(bad) >= MinLen
      BY <3>1 DEF Padded
    <3>2. CASE Len(bad) < MinLen
      BY <1>1, <1>6, <3>2, PaddedFrame
    <3>. QED  BY <1>1, <1>6, <3>1, <3>2
  <2>3. fr.bytes[1] = s /\ fr.bytes[2] # NoError
    BY <1>6, <2>1, <2>2 DEF NoError, ErrInvalidLen
  <2>. QED  BY <1>8, <2>1, <2>3 DEF fr, p, n, R
<1>. QED  BY <1>7, <1>8
------------------------------------------------------------------------------
(***************************************************************************)
(* The path: what is on the wire is what a sender builds.                  *)
(***************************************************************************)

\* The bits of an image that has only bits.
Images == [ImageBits -> {0, 1}]

\* The frame on the wire was built for a stream from an image.
WireInv ==
    wire # <<>> =>
        \E s \in StreamIds, image \in Images : wire = <<SentFrame(layout, s, image)>>

PathInv ==
    /\ layout \in Layouts /\ ConfigureStreams(layout)
    /\ out \in Images
    /\ DOMAIN applied = StreamIds
    /\ WireInv

\* A value that was applied is in the image, and its variable fits there.
AppliedInv ==
    \A s \in StreamIds : applied[s] # <<>> =>
        /\ InRange(layout.to, layout.streams[s].in)
        /\ Value(in, layout.streams[s].in) = applied[s]

\* The receiver applies a frame for stream s that was built from an image, or
\* drops one.
Applied(s, image) ==
    LET p == layout.streams[s].out
        q == layout.streams[s].in
    IN  /\ InRange(layout.from, p) /\ InRange(layout.to, q)
        /\ Len(ReadOutputs(layout.from, image, p)) >= ByteLen(q.len)
        /\ in' = WriteInputs(layout.to, in,
                             SubSeq(ReadOutputs(layout.from, image, p), 1, ByteLen(q.len)), q)
        /\ applied' = [applied EXCEPT ![s] = Value(image, p)]
        /\ UNCHANGED refused

Dropped(s, image) ==
    LET p == layout.streams[s].out
        q == layout.streams[s].in
    IN  /\ \/ ~InRange(layout.from, p)
           \/ HeaderSize + ByteLen(p.len) + FooterSize < MinLen
           \/ Len(ReadOutputs(layout.from, image, p)) < ByteLen(q.len)
           \/ ~InRange(layout.to, q)
        /\ refused' => refused \/ InRange(layout.from, p)
        /\ UNCHANGED <<in, applied>>

LEMMA ReceiveKinds ==
    ASSUME PathInv, Receive
    PROVE  /\ wire # <<>> /\ wire' = <<>> /\ UNCHANGED <<layout, out>>
           /\ \E s \in StreamIds, image \in Images :
                /\ Head(wire).bytes[1] = s
                /\ Applied(s, image) \/ Dropped(s, image)
<1>1. wire # <<>> /\ wire' = <<>> /\ UNCHANGED <<layout, out>> /\ layout \in Layouts
  BY DEF PathInv, Receive
<1>2. PICK s \in StreamIds, image \in Images : wire = <<SentFrame(layout, s, image)>>
  BY DEF PathInv, WireInv, Receive
<1>. DEFINE p == layout.streams[s].out
            q == layout.streams[s].in
            fr == SentFrame(layout, s, image)
            R == ReadOutputs(layout.from, image, p)
<1>3. Head(wire) = fr
  BY <1>2
<1>4. /\ fr.bytes[1] = s
      /\ InRange(layout.from, p) => fr.bytes[2] = NoError /\ fr.value = Value(image, p)
      /\ ~InRange(layout.from, p) => fr.bytes[2] # NoError /\ fr.value = <<>>
      /\ InRange(layout.from, p) /\ Authentic(fr.bytes) => Payload(fr.bytes) = R
      /\ /\ InRange(layout.from, p)
         /\ HeaderSize + ByteLen(p.len) + FooterSize >= MinLen
         => Authentic(fr.bytes)
  BY <1>1, <1>2, Received DEF StreamIds
<1>5. p.len \in Nat /\ ByteLen(p.len) \in Nat /\ q.len \in Nat
  BY <1>1, <1>2, Positioned DEF StreamIds
<1>. DEFINE accepts == /\ Authentic(fr.bytes)
                       /\ fr.bytes[2] = NoError
                       /\ Len(Payload(fr.bytes)) >= ByteLen(q.len)
                       /\ InRange(layout.to, q)
<1>6. IF accepts
      THEN /\ HandleInputPacket(Payload(fr.bytes), q)
           /\ applied' = [applied EXCEPT ![s] = fr.value]
           /\ UNCHANGED refused
      ELSE /\ refused' = (refused \/ fr.value # <<>>)
           /\ UNCHANGED <<in, applied>>
  BY <1>3, <1>4 DEF Receive
<1>7. Head(wire).bytes[1] = s
  BY <1>3, <1>4
<1>. HIDE DEF fr
<1>8. CASE accepts
  <2>1. InRange(layout.from, p) /\ fr.value = Value(image, p) /\ Payload(fr.bytes) = R
    BY <1>4, <1>8
  <2>2. Applied(s, image)
    BY <1>6, <1>8, <2>1 DEF Applied, HandleInputPacket
  <2>. QED  BY <1>1, <1>2, <1>7, <2>2
<1>9. CASE ~accepts
  <2>1. refused' = (refused \/ fr.value # <<>>) /\ UNCHANGED <<in, applied>>
    BY <1>6, <1>9
  <2>2. fr.value # <<>> => InRange(layout.from, p)
    BY <1>4
  <2>3. \/ ~InRange(layout.from, p)
        \/ HeaderSize + ByteLen(p.len) + FooterSize < MinLen
        \/ Len(R) < ByteLen(q.len)
        \/ ~InRange(layout.to, q)
    <3>1. HeaderSize + ByteLen(p.len) + FooterSize \in Nat /\ MinLen \in Nat
      BY <1>5, Constants DEF HeaderSize
    <3>2. Len(R) \in Nat /\ ByteLen(q.len) \in Nat
      <4>1. PICK B : R \in [1..ByteLen(p.len) -> B]
        BY ReadOutputsBytes
      <4>. HIDE DEF R
      <4>2. Len(R) = ByteLen(p.len)
        BY <1>5, <4>1, Whole
      <4>. QED  BY <1>5, <4>2, ByteLenCovers
    <3>. QED  BY <1>4, <1>9, <3>1, <3>2
  <2>4. Dropped(s, image)
    BY <2>1, <2>2, <2>3 DEF Dropped
  <2>. QED  BY <1>1, <1>2, <1>7, <2>4
<1>. QED  BY <1>8, <1>9
------------------------------------------------------------------------------
\* A write of what was read gives the variable the value it had.
LEMMA Written ==
    ASSUME NEW l \in Layouts, NEW s \in DOMAIN l.streams, NEW image, NEW old,
           SameLength, MasterAtBytes,
           InRange(l.from, l.streams[s].out), InRange(l.to, l.streams[s].in)
    PROVE  LET p == l.streams[s].out
               q == l.streams[s].in
               data == SubSeq(ReadOutputs(l.from, image, p), 1, ByteLen(q.len))
           IN  Value(WriteInputs(l.to, old, data, q), q) = Value(image, p)
<1>. DEFINE p == l.streams[s].out
            q == l.streams[s].in
            R == ReadOutputs(l.from, image, p)
            data == SubSeq(R, 1, ByteLen(q.len))
            new == WriteInputs(l.to, old, data, q)
<1>1. Valid(l.from, p) /\ Valid(l.to, q) /\ ByteLen(p.len) \in Nat
  BY Positioned
<1>2. p.len = q.len
  BY DEF SameLength
<1>. HIDE DEF p, q
<1>3. data = R
  <2>1. PICK B : R \in [1..ByteLen(p.len) -> B]
    BY ReadOutputsBytes
  <2>. HIDE DEF R
  <2>. QED  BY <1>1, <1>2, <2>1, Whole
<1>4. ASSUME NEW i \in 0..q.len - 1  PROVE new[Start(q) + i] = image[Start(p) + i]
  <2>1. new[Start(q) + i] = BitOf(data, i)
    BY <1>1, WriteInputsBits
  <2>2. i \in 0..p.len - 1
    BY <1>2
  <2>3. BitOf(R, i) = image[Start(p) + i]
    BY <1>1, <2>2, ReadOutputsBits
  <2>. QED  BY <1>3, <2>1, <2>3
<1>. HIDE DEF new
<1>5. Value(new, q) = Value(image, p)
  BY <1>2, <1>4 DEF Value
<1>. QED  BY <1>5 DEF new, p, q

\* A write for one stream leaves the variables of the others alone.
LEMMA Kept ==
    ASSUME NEW l \in Layouts, NEW s \in DOMAIN l.streams, NEW t \in DOMAIN l.streams, s # t,
           ConfigureStreams(l), OneProducer, VariablesApart, MasterAtBytes, MasterBytesApart,
           NEW old, NEW data, InRange(l.to, l.streams[t].in)
    PROVE  Value(WriteInputs(l.to, old, data, l.streams[s].in), l.streams[t].in)
              = Value(old, l.streams[t].in)
<1>. DEFINE q == l.streams[s].in
            r == l.streams[t].in
            new == WriteInputs(l.to, old, data, q)
            ins == {l.streams[u].in : u \in DOMAIN l.streams}
<1>1. l.to \in Devices /\ Valid(l.to, r)
  BY Positioned
<1>2. q # r
  BY DEF OneProducer
<1>3. l.to = "slave" => q \in l.inputs /\ r \in l.inputs
  <2>1. l.to = "slave" => ValidateStreams(ins, l.inputs)
    BY DEF ConfigureStreams
  <2>2. q \in ins /\ r \in ins
    OBVIOUS
  <2>. HIDE DEF q, r, ins
  <2>. QED  BY <2>1, <2>2 DEF ValidateStreams
<1>4. Touched(l.to, q) \cap Touched(l.to, r) = {}
  <2>1. CASE l.to = "slave"
    <3>1. q \in l.inputs /\ r \in l.inputs
      BY <1>3, <2>1
    <3>. HIDE DEF q, r
    <3>. QED  BY <1>2, <2>1, <3>1 DEF VariablesApart, Touched
  <2>2. CASE l.to = "master"
    <3>1. WholeBytes(q) \cap WholeBytes(r) = {}
      BY <2>2 DEF MasterBytesApart
    <3>. HIDE DEF q, r
    <3>. QED  BY <2>2, <3>1 DEF Touched
  <2>. QED  BY <1>1, <2>1, <2>2 DEF Devices
<1>. HIDE DEF q, r, ins
<1>5. ASSUME NEW i \in 0..r.len - 1  PROVE new[Start(r) + i] = old[Start(r) + i]
  <2>1. Start(r) + i \in ImageBits /\ Start(r) + i \in Touched(l.to, r)
    BY <1>1, FieldInImage
  <2>2. Start(r) + i \notin Touched(l.to, q)
    BY <1>4, <2>1
  <2>. QED  BY <1>1, <2>1, <2>2, WriteInputsFrame
<1>. HIDE DEF new
<1>6. Value(new, r) = Value(old, r)
  BY <1>5 DEF Value
<1>. QED  BY <1>6 DEF new, q, r

\* Every frame on the wire is one a sender built.
LEMMA PathStep == PathInv /\ [Next]_vars => PathInv'
<1>. SUFFICES ASSUME PathInv, [Next]_vars  PROVE PathInv'
  OBVIOUS
<1>. USE DEF PathInv
<1>1. ASSUME NEW b \in ImageBits, ChangeOutput(b)  PROVE PathInv'
  <2>1. out' \in Images /\ UNCHANGED <<layout, wire, applied>>
    BY <1>1 DEF ChangeOutput, Images
  <2>. QED  BY <2>1 DEF WireInv, StreamIds
<1>2. ASSUME NEW s \in StreamIds, Send(s)  PROVE PathInv'
  <2>1. UNCHANGED <<layout, out, applied>>
    BY <1>2 DEF Send
  <2>2. wire' = <<SentFrame(layout, s, out)>>
    BY <1>2 DEF Send, SentFrame
  <2>. QED  BY <2>1, <2>2 DEF WireInv, StreamIds
<1>3. ASSUME Receive  PROVE PathInv'
  <2>1. wire' = <<>> /\ UNCHANGED <<layout, out>>
    BY <1>3, ReceiveKinds
  <2>2. DOMAIN applied' = DOMAIN applied
    <3>1. PICK s \in StreamIds, image \in Images : Applied(s, image) \/ Dropped(s, image)
      BY <1>3, ReceiveKinds
    <3>2. applied' = [applied EXCEPT ![s] = Value(image, layout.streams[s].out)] \/ applied' = applied
      BY <3>1 DEF Applied, Dropped
    <3>. QED  BY <3>2
  <2>. QED  BY <2>1, <2>2 DEF WireInv, StreamIds
<1>4. CASE UNCHANGED vars
  BY <1>4 DEF vars, WireInv, StreamIds
<1>. QED  BY <1>1, <1>2, <1>3, <1>4 DEF Next

\* What is on the wire is what a sender built for a stream of the layout from
\* an output image, padding included.
THEOREM PathInvariance == Spec => []PathInv
<1>1. Init => PathInv
  BY DEF Init, PathInv, WireInv, Images
<1>. QED  BY <1>1, PathStep, PTL DEF Spec

\* read_outputs, the frame and write_inputs keep the value of a variable, at
\* every width and offset, if its two ends have one length, no two streams
\* share an input, the variables of the slave share no bit, and those of the
\* master start at a byte and share none.  configure_streams gives the rest:
\* the inputs of a slave are variables of its hardware.
THEOREM ValuesIntact ==
    ASSUME SameLength, OneProducer, VariablesApart, MasterAtBytes, MasterBytesApart
    PROVE  Spec => []ValueIntact
<1>1. Init => AppliedInv
  BY DEF Init, AppliedInv
<1>2. PathInv /\ AppliedInv /\ [Next]_vars => AppliedInv'
  <2>. SUFFICES ASSUME PathInv, AppliedInv, [Next]_vars  PROVE AppliedInv'
    OBVIOUS
  <2>1. ASSUME UNCHANGED <<layout, in, applied>>  PROVE AppliedInv'
    BY <2>1 DEF AppliedInv, StreamIds
  <2>2. ASSUME NEW s \in StreamIds, NEW image \in Images, Applied(s, image), UNCHANGED layout
        PROVE  AppliedInv'
    <3>. DEFINE p == layout.streams[s].out
                q == layout.streams[s].in
                data == SubSeq(ReadOutputs(layout.from, image, p), 1, ByteLen(q.len))
    <3>1. /\ InRange(layout.from, p) /\ InRange(layout.to, q)
          /\ in' = WriteInputs(layout.to, in, data, q)
          /\ applied' = [applied EXCEPT ![s] = Value(image, p)]
      BY <2>2 DEF Applied
    <3>2. /\ layout \in Layouts /\ ConfigureStreams(layout)
          /\ s \in DOMAIN layout.streams /\ DOMAIN applied = StreamIds
      BY DEF PathInv, StreamIds
    <3>3. Value(in', q) = Value(image, p) /\ applied'[s] = Value(image, p)
      <4>1. Value(WriteInputs(layout.to, in, data, q), q) = Value(image, p)
        BY <3>1, <3>2, Written
      <4>. QED  BY <3>1, <3>2, <4>1
    <3>. HIDE DEF data
    <3>4. ASSUME NEW t \in StreamIds, t # s, applied'[t] # <<>>
          PROVE  /\ InRange(layout.to, layout.streams[t].in)
                 /\ Value(in', layout.streams[t].in) = applied'[t]
      <4>1. applied'[t] = applied[t]
        BY <3>1, <3>2, <3>4
      <4>2. InRange(layout.to, layout.streams[t].in)
            /\ Value(in, layout.streams[t].in) = applied[t]
        BY <3>4, <4>1 DEF AppliedInv
      <4>3. Value(WriteInputs(layout.to, in, data, q), layout.streams[t].in)
               = Value(in, layout.streams[t].in)
        BY <3>2, <3>4, <4>2, Kept DEF StreamIds
      <4>. QED  BY <3>1, <4>1, <4>2, <4>3
    <3>. QED  BY <2>2, <3>1, <3>3, <3>4 DEF AppliedInv, StreamIds
  <2>3. ASSUME Receive  PROVE AppliedInv'
    <3>1. PICK s \in StreamIds, image \in Images : Applied(s, image) \/ Dropped(s, image)
      BY <2>3, ReceiveKinds
    <3>2. UNCHANGED layout
      BY <2>3, ReceiveKinds
    <3>. QED  BY <2>1, <2>2, <3>1, <3>2 DEF Dropped
  <2>. QED  BY <2>1, <2>3 DEF Next, vars, ChangeOutput, Send
<1>3. AppliedInv => ValueIntact
  BY DEF AppliedInv, ValueIntact
<1>. QED  BY <1>1, <1>2, <1>3, PathInvariance, PTL DEF Spec

\* A frame changes no bit outside the field of its stream on a slave, none
\* outside the bytes of its stream on the master.
THEOREM NeighboursUntouched == Spec => Untouched
<1>1. PathInv /\ [Next]_vars =>
        [\A b \in ImageBits : in'[b] # in[b] =>
            /\ wire # <<>>
            /\ LET q == layout.streams[Head(wire).bytes[1]].in
               IN  b \in IF layout.to = "slave" THEN Field(q) ELSE WholeBytes(q)]_vars
  <2>. SUFFICES ASSUME PathInv, [Next]_vars, NEW b \in ImageBits, in'[b] # in[b]
                PROVE  /\ wire # <<>>
                       /\ b \in Touched(layout.to, layout.streams[Head(wire).bytes[1]].in)
    BY DEF Touched
  <2>1. Receive
    BY DEF Next, vars, ChangeOutput, Send
  <2>2. PICK s \in StreamIds, image \in Images :
            /\ Head(wire).bytes[1] = s
            /\ Applied(s, image) \/ Dropped(s, image)
    BY <2>1, ReceiveKinds
  <2>3. Applied(s, image)
    BY <2>2 DEF Dropped
  <2>4. layout.to \in Devices
    BY <2>2, Positioned DEF PathInv, StreamIds
  <2>5. b \in Touched(layout.to, layout.streams[s].in)
    BY <2>3, <2>4, WriteInputsFrame DEF Applied
  <2>. QED  BY <2>1, <2>2, <2>5, ReceiveKinds
<1>. QED  BY <1>1, PathInvariance, PTL DEF Spec, Untouched

\* A frame sent without an error is accepted, if its two ends have one length,
\* the input fits where the output does, and the link need not pad the frame.
THEOREM Accepted ==
    ASSUME SameLength, InputsFit, NoPadding
    PROVE  Spec => []FramesAccepted
<1>1. Init => FramesAccepted
  BY DEF Init, FramesAccepted
<1>2. PathInv /\ FramesAccepted /\ [Next]_vars => FramesAccepted'
  <2>. SUFFICES ASSUME PathInv, FramesAccepted, [Next]_vars  PROVE FramesAccepted'
    OBVIOUS
  <2>1. ASSUME NEW s \in StreamIds, NEW image \in Images, Dropped(s, image),
               InRange(layout.from, layout.streams[s].out)
        PROVE  FALSE
    <3>. DEFINE p == layout.streams[s].out
                q == layout.streams[s].in
                R == ReadOutputs(layout.from, image, p)
    <3>1. layout \in Layouts /\ s \in DOMAIN layout.streams
      BY DEF PathInv, StreamIds
    <3>2. p.len = q.len /\ InRange(layout.to, q) /\ HeaderSize + ByteLen(p.len) + FooterSize >= MinLen
      BY <2>1, <3>1 DEF SameLength, InputsFit, NoPadding
    <3>3. ByteLen(p.len) \in Nat
      BY <3>1, Positioned
    <3>4. /\ HeaderSize + ByteLen(p.len) + FooterSize < MinLen \/ Len(R) < ByteLen(q.len)
      BY <2>1, <3>2 DEF Dropped
    <3>5. PICK B : R \in [1..ByteLen(p.len) -> B]
      BY ReadOutputsBytes
    <3>. HIDE DEF R, p, q
    <3>6. Len(R) = ByteLen(q.len)
      BY <3>2, <3>3, <3>5, Whole
    <3>7. ~(Len(R) < ByteLen(q.len))
      BY <3>2, <3>3, <3>6
    <3>8. ~(HeaderSize + ByteLen(p.len) + FooterSize < MinLen)
      BY <3>2, <3>3, Constants DEF HeaderSize
    <3>. QED  BY <3>4, <3>7, <3>8
  <2>2. ASSUME Receive  PROVE FramesAccepted'
    <3>1. PICK s \in StreamIds, image \in Images : Applied(s, image) \/ Dropped(s, image)
      BY <2>2, ReceiveKinds
    <3>2. CASE Applied(s, image)
      BY <3>2 DEF Applied, FramesAccepted
    <3>3. CASE Dropped(s, image)
      BY <2>1, <3>3 DEF Dropped, FramesAccepted
    <3>. QED  BY <3>1, <3>2, <3>3
  <2>. QED  BY <2>2 DEF Next, vars, ChangeOutput, Send, FramesAccepted
<1>. QED  BY <1>1, <1>2, PathInvariance, PTL DEF Spec
==============================================================================
