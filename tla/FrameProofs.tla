------------------------------ MODULE FrameProofs ------------------------------
(***************************************************************************)
(* Proofs about Wire and FramePath, for every radix of a byte (256 is the  *)
(* code's), every payload bound below 2^32 and all payloads, kinds,        *)
(* correlations and frames of the host.                                    *)
(*                                                                         *)
(* The codec first: a number is the sum of the digits that are taken from  *)
(* it, the flags come back bit by bit, no two fields share a byte, so that *)
(* decoding gives back what was encoded.  Then the path: the invariant     *)
(* says what the bytes of a committed slot mean.                           *)
(***************************************************************************)
EXTENDS FramePath, FiniteSetTheorems, TLAPS

(* A slot holds frame f, with the payload behind the header. *)
Holds(slot, f, payload) ==
  /\ config.slotSize >= HdrLen
  /\ Len(payload) <= config.slotSize - HdrLen
  /\ Parsed(slot) = f
  /\ \A i \in 1 .. Len(payload) : slot[HdrLen + i - 1] = payload[i]

(* A committed outbound slot holds what the operation asked for. *)
OutInv ==
  outFull => /\ asked \in Messages /\ Len(asked.payload) <= MaxPayload
             /\ Holds(out, EmitFrame(asked), asked.payload)

(* A committed inbound slot holds an operation, stamped, or a frame of the *)
(* host.                                                                   *)
InInv ==
  inFull =>
    \/ /\ meant.op \in Messages /\ Len(meant.op.payload) <= MaxPayload
       /\ Holds(in, Stamped(EmitFrame(meant.op)), meant.op.payload)
    \/ /\ meant.op = None /\ IsFrame(meant.frame.frame)
       /\ Holds(in, meant.frame.frame, <<>>)

(* An event that is still being read is what Poll makes of the slot. *)
EventInv ==
  /\ pendingRead => inFull
  /\ Polled =>
       LET f == Parsed(in)
       IN  /\ event.frame = f
           /\ Validate(f) = "OK"
           /\ event.type = IF InSlot(f) /\ ~Sliceable(f) THEN "panic" ELSE "event"
           /\ event.payload = IF InSlot(f) /\ Sliceable(f)
                              THEN [i \in 1 .. f.field.PayloadLen |-> in[f.field.PayloadRef + i - 1]]
                              ELSE <<>>

PathInv ==
  /\ config \in Configs
  /\ DOMAIN out = Slot /\ DOMAIN in = Slot
  /\ OutInv /\ InInv /\ EventInv
  /\ EmitEncodes

(* The weights of the bytes of a number: each is Radix times the one       *)
(* before.                                                                 *)
LEMMA PlaceFacts ==
  /\ \A i \in 0 .. 8 : Place(i) \in Nat /\ Place(i) > 0
  /\ \A i \in 0 .. 7 : Place(i + 1) = Place(i) * Radix
  /\ Place(0) = 1
  /\ Place(2) \in Nat /\ Place(4) \in Nat /\ Place(8) \in Nat
  /\ Place(2) >= 16 /\ Place(4) >= 256 /\ Place(8) >= 65536
  /\ Place(8) >= 256 * Place(4)
<1> DEFINE R2 == Radix * Radix
           R3 == R2 * Radix
           R4 == R2 * R2
           R5 == R4 * Radix
           R6 == R4 * R2
           R7 == R4 * R2 * Radix
           R8 == R4 * R4
<1>0. Radix \in Nat /\ Radix >= 4
  BY WireAssumption
<1>1. /\ Place(0) = 1 /\ Place(1) = Radix /\ Place(2) = R2 /\ Place(3) = R3 /\ Place(4) = R4
      /\ Place(5) = R5 /\ Place(6) = R6 /\ Place(7) = R7 /\ Place(8) = R8
  BY DEF Place
<1>2. R2 \in Nat /\ R2 >= 16
  BY <1>0
<1>3. R4 \in Nat /\ R4 >= 256 /\ R4 = R3 * Radix
  <2>1. R4 = R3 * Radix
    BY <1>0, <1>2
  <2>2. R4 \in Nat /\ R4 >= 256
    <3>1. \A x \in Nat : x >= 16 => x * x \in Nat /\ x * x >= 256
      OBVIOUS
    <3> HIDE DEF R2
    <3> QED
      BY <3>1, <1>2
  <2> QED
    BY <2>1, <2>2
<1>4. R3 \in Nat /\ R3 > 0
  <2> HIDE DEF R2
  <2> QED
    BY <1>0, <1>2
<1>5. R5 \in Nat /\ R5 > 0 /\ R6 = R5 * Radix
  <2> HIDE DEF R4
  <2> QED
    BY <1>0, <1>3
<1>6. R6 \in Nat /\ R6 > 0 /\ R7 = R6 * Radix
  <2> HIDE DEF R4, R2
  <2> QED
    BY <1>0, <1>2, <1>3
<1>7. R7 \in Nat /\ R7 > 0
  <2>1. \A x, y \in Nat : x > 0 /\ y > 0 => x * y \in Nat /\ x * y > 0
    OBVIOUS
  <2> HIDE DEF R6, R7
  <2> QED
    BY <2>1, <1>0, <1>6
<1>8. R8 = R7 * Radix
  <2>1. \A a, b, c \in Nat : a * (b * c) = (a * b) * c
    OBVIOUS
  <2>2. R3 * Radix = R2 * Radix * Radix /\ R7 = R4 * (R2 * Radix)
    <3> HIDE DEF R4, R2
    <3> QED
      BY <2>1, <1>0, <1>2, <1>3 DEF R3, R7
  <2>3. R4 * (R3 * Radix) = (R4 * R3) * Radix
    <3> HIDE DEF R4, R3
    <3> QED
      BY <2>1, <1>0, <1>3, <1>4
  <2> HIDE DEF R4, R3, R7
  <2> QED
    BY <2>2, <2>3, <1>3 DEF R8, R3
<1>9. R8 \in Nat /\ R8 >= 65536 /\ R8 >= 256 * R4
  <2>1. \A x \in Nat : x >= 256 => x * x \in Nat /\ x * x >= 256 * x
    OBVIOUS
  <2> HIDE DEF R4
  <2> QED
    BY <2>1, <1>3
<1> HIDE DEF R2, R3, R4, R5, R6, R7, R8
<1>10. \A i \in 0 .. 8 : Place(i) \in Nat /\ Place(i) > 0
  BY <1>0, <1>1, <1>2, <1>3, <1>4, <1>5, <1>6, <1>7, <1>9
<1>11. \A i \in 0 .. 7 : Place(i + 1) = Place(i) * Radix
  <2>1. R2 = Radix * Radix /\ R3 = R2 * Radix /\ R5 = R4 * Radix
    BY DEF R2, R3, R5
  <2> QED
    BY <2>1, <1>0, <1>1, <1>3, <1>5, <1>6, <1>8
<1> QED
  BY <1>1, <1>2, <1>3, <1>9, <1>10, <1>11

(* Numbers of 64 bits, payload lengths among them. *)
LEMMA WrapType ==
  /\ Wrap \in Nat /\ Wrap > 0
  /\ \A len \in Nat : len <= MaxPayload => HdrLen + len < Wrap
<1>1. Place(4) \in Nat /\ Place(8) \in Nat /\ Place(8) >= 256 * Place(4) /\ Place(4) >= 256
  BY PlaceFacts
<1>2. MaxPayload \in Nat /\ MaxPayload < Place(4)
  BY WireAssumption
<1> QED
  BY <1>1, <1>2 DEF Wrap, HdrLen

(* Dividing twice: the digit at weight p is what p and p * r leave.        *)
LEMMA DivisionStep ==
  ASSUME NEW p \in Nat, NEW r \in Nat, NEW v \in Nat, p > 0, r > 0
  PROVE  /\ v \div p \in Nat
         /\ p * (v \div p) = (p * r) * (v \div (p * r)) + ((v \div p) % r) * p
<1> DEFINE a == v \div p
           x == v % p
           b == a \div r
           s == a % r
           q == v \div (p * r)
           y == v % (p * r)
<1>1. a \in Nat /\ x \in Nat /\ x < p /\ v = p * a + x
  OBVIOUS
<1> HIDE DEF a, x
<1>2. b \in Nat /\ s \in Nat /\ s < r /\ a = r * b + s
  BY <1>1
<1>3. p * r \in Nat /\ p * r > 0
  OBVIOUS
<1>4. q \in Nat /\ y \in Nat /\ y < p * r /\ v = (p * r) * q + y
  BY <1>3
<1> HIDE DEF b, s, q, y
<1>5. v = (p * r) * b + (p * s + x)
  BY <1>1, <1>2
<1>6. p * s + x \in Nat /\ p * s + x < p * r
  <2>1. p * s + p <= p * r
    <3>1. s + 1 <= r
      BY <1>2
    <3>2. \A k \in Nat : s + 1 <= k => p * (s + 1) <= p * k
      BY <1>2
    <3> QED
      BY <3>1, <3>2, <1>2
  <2> QED
    BY <2>1, <1>1, <1>2
<1>7. q = b
  <2>1. \A d, m, n, e, g \in Nat : d > 0 /\ e < d /\ g < d /\ d * m + e = d * n + g => ~(m < n)
    <3> TAKE d, m, n, e, g \in Nat
    <3> HAVE d > 0 /\ e < d /\ g < d /\ d * m + e = d * n + g
    <3> SUFFICES ASSUME m < n PROVE FALSE
      OBVIOUS
    <3>1. PICK k \in Nat : n = m + 1 + k
      <4> WITNESS n - m - 1 \in Nat
      <4> QED
        OBVIOUS
    <3>2. d * n = d * m + d + d * k /\ d * k \in Nat
      BY <3>1
    <3> QED
      BY <3>2
  <2>2. ~(q < b)
    BY <2>1, <1>2, <1>3, <1>4, <1>5, <1>6
  <2>3. ~(b < q)
    BY <2>1, <1>2, <1>3, <1>4, <1>5, <1>6
  <2> QED
    BY <2>2, <2>3, <1>2, <1>4
<1>8. p * a = (p * r) * b + s * p
  BY <1>1, <1>2
<1> QED
  BY <1>1, <1>7, <1>8 DEF a, s, q

(* A number is the sum of the digits NumByte takes from it.                *)
LEMMA NumberRoundTrip ==
  ASSUME NEW v \in Nat, NEW name \in Field, v < Place(Width[name]), NEW bytes,
         \A i \in 0 .. Width[name] - 1 : bytes[Offset[name] + i] = NumByte(v, i)
  PROVE  Number(bytes, name) = v
<1> DEFINE t(i) == Place(i) * (v \div Place(i))
           d(i) == NumByte(v, i) * Place(i)
           digit(i) == IF i < Width[name] THEN bytes[Offset[name] + i] * Place(i) ELSE 0
<1>0. Radix \in Nat /\ Radix > 0
  BY WireAssumption
<1>1. \A i \in 0 .. 7 : t(i) = t(i + 1) + d(i) /\ d(i) \in Int /\ t(i) \in Int
  <2> TAKE i \in 0 .. 7
  <2>1. Place(i) \in Nat /\ Place(i) > 0 /\ Place(i + 1) = Place(i) * Radix
    BY PlaceFacts
  <2>2. /\ v \div Place(i) \in Nat
        /\ Place(i) * (v \div Place(i)) =
             Place(i + 1) * (v \div Place(i + 1)) + ((v \div Place(i)) % Radix) * Place(i)
    <3> DEFINE p == Place(i)
    <3>1. p \in Nat /\ p > 0 /\ Place(i + 1) = p * Radix
      BY <2>1
    <3> HIDE DEF p
    <3>2. /\ v \div p \in Nat
          /\ p * (v \div p) = (p * Radix) * (v \div (p * Radix)) + ((v \div p) % Radix) * p
      BY <1>0, <3>1, DivisionStep
    <3> QED
      BY <3>1, <3>2 DEF p
  <2>3. NumByte(v, i) \in Nat
    BY <2>2, <1>0 DEF NumByte
  <2> QED
    BY <2>1, <2>2, <2>3 DEF NumByte
<1>2. t(0) = v
  BY PlaceFacts
<1>3. t(8) \in Int
  <2>1. Place(8) \in Nat /\ Place(8) > 0
    BY PlaceFacts
  <2> QED
    BY <2>1
<1>4. t(Width[name]) = 0
  <2>1. Width[name] \in 0 .. 8
    BY DEF Field, Offset, Width
  <2>2. Place(Width[name]) \in Nat /\ Place(Width[name]) > 0
    BY <2>1, PlaceFacts
  <2>3. v \div Place(Width[name]) = 0
    BY <2>2
  <2> QED
    BY <2>2, <2>3
<1>5. Width[name] \in {2, 4, 8}
  BY DEF Field, Offset, Width
<1>6. \A i \in 0 .. 7 : digit(i) = IF i < Width[name] THEN d(i) ELSE 0
  BY <1>5
<1>7. Number(bytes, name) = digit(0) + digit(1) + digit(2) + digit(3) + digit(4) + digit(5)
                              + digit(6) + digit(7)
  BY DEF Number
<1> HIDE DEF t, d, digit
<1>8. CASE Width[name] = 2
  BY <1>1, <1>2, <1>4, <1>6, <1>7, <1>8
<1>9. CASE Width[name] = 4
  BY <1>1, <1>2, <1>4, <1>6, <1>7, <1>9
<1>10. CASE Width[name] = 8
  BY <1>1, <1>2, <1>3, <1>4, <1>6, <1>7, <1>10
<1> QED
  BY <1>5, <1>8, <1>9, <1>10

(* A flag byte gives back its bits. *)
LEMMA FlagByteBits ==
  ASSUME NEW flags, NEW i \in 0 .. 1, NEW b \in 0 .. 7
  PROVE  ((FlagByte(flags, i) \div Bit(b)) % 2 = 1) <=> (b + 8 * i \in flags)
<1> DEFINE bit(k) == IF k + 8 * i \in flags THEN 1 ELSE 0
<1>1. FlagByte(flags, i) = bit(0) + 2 * bit(1) + 4 * bit(2) + 8 * bit(3) + 16 * bit(4)
                             + 32 * bit(5) + 64 * bit(6) + 128 * bit(7)
  BY DEF FlagByte, Bit
<1>2. \A k \in 0 .. 7 : bit(k) \in 0 .. 1 /\ (bit(k) = 1 <=> k + 8 * i \in flags)
  OBVIOUS
<1> HIDE DEF bit
<1>3. (FlagByte(flags, i) \div Bit(b)) % 2 = bit(b)
  <2>1. \A c0, c1, c2, c3, c4, c5, c6, c7 \in 0 .. 1 :
          LET n == c0 + 2 * c1 + 4 * c2 + 8 * c3 + 16 * c4 + 32 * c5 + 64 * c6 + 128 * c7
          IN  /\ (n \div 1) % 2 = c0 /\ (n \div 2) % 2 = c1 /\ (n \div 4) % 2 = c2
              /\ (n \div 8) % 2 = c3 /\ (n \div 16) % 2 = c4 /\ (n \div 32) % 2 = c5
              /\ (n \div 64) % 2 = c6 /\ (n \div 128) % 2 = c7
    BY SMTT(60)
  <2> DEFINE n == FlagByte(flags, i)
  <2>2. /\ (n \div 1) % 2 = bit(0) /\ (n \div 2) % 2 = bit(1) /\ (n \div 4) % 2 = bit(2)
        /\ (n \div 8) % 2 = bit(3) /\ (n \div 16) % 2 = bit(4) /\ (n \div 32) % 2 = bit(5)
        /\ (n \div 64) % 2 = bit(6) /\ (n \div 128) % 2 = bit(7)
    BY <1>1, <1>2, <2>1
  <2>3. /\ Bit(0) = 1 /\ Bit(1) = 2 /\ Bit(2) = 4 /\ Bit(3) = 8
        /\ Bit(4) = 16 /\ Bit(5) = 32 /\ Bit(6) = 64 /\ Bit(7) = 128
    BY DEF Bit
  <2>4. b \in {0, 1, 2, 3, 4, 5, 6, 7}
    OBVIOUS
  <2> HIDE DEF n
  <2>5. (n \div Bit(b)) % 2 = bit(b)
    BY <2>2, <2>3, <2>4
  <2> QED
    BY <2>5 DEF n
<1> QED
  BY <1>2, <1>3

(* The two flag bytes of a header give back the flags. *)
LEMMA FlagsRoundTrip ==
  ASSUME NEW flags \in SUBSET (0 .. 15), NEW bytes,
         bytes[4] = FlagByte(flags, 0), bytes[5] = FlagByte(flags, 1)
  PROVE  Flags(bytes) = flags
<1>1. ASSUME NEW b \in 0 .. 15
      PROVE  ((bytes[4 + b \div 8] \div Bit(b % 8)) % 2 = 1) <=> b \in flags
  <2>1. CASE b < 8
    <3>1. b \div 8 = 0 /\ b % 8 = b /\ b \in 0 .. 7
      BY <2>1
    <3>2. ((FlagByte(flags, 0) \div Bit(b)) % 2 = 1) <=> (b + 8 * 0 \in flags)
      BY <3>1, FlagByteBits
    <3> QED
      BY <3>1, <3>2
  <2>2. CASE b >= 8
    <3>1. b \div 8 = 1 /\ b % 8 = b - 8 /\ b - 8 \in 0 .. 7 /\ (b - 8) + 8 * 1 = b
      BY <2>2
    <3>2. ((FlagByte(flags, 1) \div Bit(b - 8)) % 2 = 1) <=> ((b - 8) + 8 * 1 \in flags)
      BY <3>1, FlagByteBits
    <3> QED
      BY <3>1, <3>2
  <2> QED
    BY <2>1, <2>2
<1> QED
  BY <1>1 DEF Flags

(* Every byte of a field belongs to that field alone. *)
LEMMA ByteOfField ==
  ASSUME NEW f, NEW name \in Field, NEW k \in 0 .. Width[name] - 1
  PROVE  /\ Offset[name] + k \in 6 .. 63
         /\ HeaderByte(f, Offset[name] + k) = NumByte(f.field[name], k)
<1> DEFINE i == Offset[name] + k
           holds(n) == i \in Offset[n] .. Offset[n] + Width[n] - 1
<1>1. \A n \in Field : Offset[n] \in 6 .. 60 /\ Width[n] \in {2, 4, 8}
  BY DEF Field, Offset, Width
<1>2. holds(name) /\ i \in 6 .. 63
  BY DEF Field, Offset, Width
<1>3. \A n \in Field : holds(n) => n = name
  BY DEF Field, Offset, Width
<1>4. (CHOOSE n \in Field : holds(n)) = name
  BY <1>2, <1>3
<1>5. i - Offset[name] = k
  BY <1>1
<1>6. HeaderByte(f, i) = NumByte(f.field[CHOOSE n \in Field : holds(n)],
                                 i - Offset[CHOOSE n \in Field : holds(n)])
  BY <1>2, ~(i < 4) DEF HeaderByte
<1> HIDE DEF i, holds
<1> QED
  BY <1>2, <1>4, <1>5, <1>6 DEF i

(* Decoding the header Encode leaves gives the frame back. *)
LEMMA RoundTrip ==
  ASSUME NEW f, IsFrame(f), NEW bytes, \A i \in 4 .. 63 : bytes[i] = HeaderByte(f, i)
  PROVE  Parsed(bytes) = f
<1>1. Flags(bytes) = f.HdrFlags
  <2>1. bytes[4] = FlagByte(f.HdrFlags, 0) /\ bytes[5] = FlagByte(f.HdrFlags, 1)
    <3>1. ASSUME NEW i, i \in 4 .. 5
          PROVE  HeaderByte(f, i) = FlagByte(f.HdrFlags, i - 4)
      <4>1. ~(i < 4) /\ i < 6
        BY <3>1
      <4> QED
        BY <4>1, Zenon DEF HeaderByte
    <3>2. HeaderByte(f, 4) = FlagByte(f.HdrFlags, 0) /\ HeaderByte(f, 5) = FlagByte(f.HdrFlags, 1)
      BY <3>1, 4 - 4 = 0, 5 - 4 = 1
    <3> QED
      BY <3>2
  <2> QED
    BY <2>1, FlagsRoundTrip DEF IsFrame
<1>2. \A name \in Field : Number(bytes, name) = f.field[name]
  <2> TAKE name \in Field
  <2>1. \A i \in 0 .. Width[name] - 1 : bytes[Offset[name] + i] = NumByte(f.field[name], i)
    BY ByteOfField
  <2>2. f.field[name] \in Nat /\ f.field[name] < Place(Width[name])
    BY DEF IsFrame
  <2> QED
    BY <2>1, <2>2, NumberRoundTrip
<1>3. [name \in Field |-> Number(bytes, name)] = f.field
  BY <1>2 DEF IsFrame
<1> QED
  BY <1>1, <1>3 DEF Parsed, Frame, IsFrame
(* A slot holds the frame and the payload that were written into it, *)
(* whatever it held before.                                          *)
LEMMA Written ==
  ASSUME NEW f, IsFrame(f), NEW size \in Nat, size >= HdrLen,
         NEW bytes, DOMAIN bytes = 0 .. size - 1,
         NEW payload \in Seq(Nat), Len(payload) <= size - HdrLen
  PROVE  LET slot == WithPayload(Encode(f, bytes), payload)
         IN  /\ DOMAIN slot = 0 .. size - 1
             /\ Parsed(slot) = f
             /\ \A i \in 1 .. Len(payload) : slot[HdrLen + i - 1] = payload[i]
<1> DEFINE header == Encode(f, bytes)
           slot == WithPayload(header, payload)
<1>1. /\ DOMAIN header = 0 .. size - 1
      /\ \A i \in 0 .. 63 : header[i] = HeaderByte(f, i)
  BY DEF Encode, HdrLen
<1> HIDE DEF header
<1>2. /\ DOMAIN slot = 0 .. size - 1
      /\ \A i \in 0 .. size - 1 : slot[i] = IF i >= 64 /\ i < 64 + Len(payload)
                                            THEN payload[i - 64 + 1] ELSE header[i]
  BY <1>1 DEF WithPayload, HdrLen
<1> HIDE DEF slot
<1>3. \A i \in 4 .. 63 : slot[i] = HeaderByte(f, i)
  <2> TAKE i \in 4 .. 63
  <2>1. i \in 0 .. size - 1 /\ i \in 0 .. 63 /\ ~(i >= 64)
    BY DEF HdrLen
  <2> QED
    BY <2>1, <1>1, <1>2
<1>4. Parsed(slot) = f
  BY <1>3, RoundTrip
<1>5. \A i \in 1 .. Len(payload) : slot[HdrLen + i - 1] = payload[i]
  <2> TAKE i \in 1 .. Len(payload)
  <2>1. 64 + i - 1 \in 0 .. size - 1 /\ 64 + i - 1 >= 64 /\ 64 + i - 1 < 64 + Len(payload)
    BY DEF HdrLen
  <2>2. (64 + i - 1) - 64 + 1 = i
    OBVIOUS
  <2> QED
    BY <2>1, <2>2, <1>2 DEF HdrLen
<1> QED
  BY <1>2, <1>4, <1>5 DEF slot, header

(* What encoding writes, decoding reads: no field is cut off, moved or   *)
(* shared, and the decoder refuses nothing the encoder accepts (wire.go     *)
(* 162-218).                                                                *)
THEOREM CodecRoundTrip ==
  ASSUME NEW f, IsFrame(f), NEW size \in Nat, Encodes(f, size),
         NEW bytes, DOMAIN bytes = 0 .. size - 1
  PROVE  Decode(Encode(f, bytes), size) = "OK" /\ Parsed(Encode(f, bytes)) = f
<1>1. size >= HdrLen /\ Validate(f) = "OK"
  BY DEF Encodes, HdrLen
<1>2. \A i \in 0 .. 63 : Encode(f, bytes)[i] = HeaderByte(f, i)
  BY <1>1 DEF Encode, HdrLen
<1>3. Parsed(Encode(f, bytes)) = f
  <2>1. \A i \in 4 .. 63 : Encode(f, bytes)[i] = HeaderByte(f, i)
    <3> TAKE i \in 4 .. 63
    <3>1. i \in 0 .. 63
      OBVIOUS
    <3> QED
      BY <3>1, <1>2
  <2> QED
    BY <2>1, RoundTrip
<1>4. \A i \in 0 .. 3 : Encode(f, bytes)[i] = WireMagic[i + 1]
  <2> TAKE i \in 0 .. 3
  <2>1. i \in 0 .. 63 /\ i < 4
    OBVIOUS
  <2>2. HeaderByte(f, i) = WireMagic[i + 1]
    BY <2>1 DEF HeaderByte
  <2> QED
    BY <2>1, <2>2, <1>2
<1> QED
  BY <1>1, <1>3, <1>4 DEF Decode, HdrLen
-------------------------------------------------------------------------------
(* The types of what an operation asks for. *)
LEMMA MessageTypes ==
  ASSUME NEW m \in Messages
  PROVE  /\ m.pattern \in PatternMask
         /\ m.kind \in Nat /\ m.kind < Place(4)
         /\ m.corr \in Nat /\ m.corr < Place(8)
         /\ m.payload \in Seq(Nat) /\ Len(m.payload) \in Nat
         /\ m.more \in BOOLEAN
         /\ (m.pattern = FNotification) = (m.corr = 0)
         /\ m.more => m.pattern \in {FRequest, FReply} /\ m.payload # <<>>
<1>1. m.payload \in Seq(Nat)
  <2>1. m.payload \in Payload \/ m.payload = <<>>
    BY DEF Messages
  <2>2. <<>> \in Seq(Nat)
    OBVIOUS
  <2>3. \A payload \in Payload : payload \in Seq(Nat)
    BY PathAssumption
  <2> QED
    BY <2>1, <2>2, <2>3
<1> QED
  BY <1>1, PathAssumption DEF Messages

(* A frame that emit builds fits its fields once its payload fits MaxPayload. *)
LEMMA EmitFrameFits ==
  ASSUME NEW m \in Messages, Len(m.payload) <= MaxPayload
  PROVE  IsFrame(EmitFrame(m))
<1> DEFINE n == EmitFrame(m).field
<1>1. EmitFrame(m).HdrFlags \in SUBSET (0 .. 15)
  BY MessageTypes DEF EmitFrame, Frame, PatternMask, FNotification, FRequest, FReply, FCancel,
                      FMore, FInline
<1>2. n = Fields(m.kind, m.corr, Len(m.payload))
  BY DEF EmitFrame, Frame
<1>3. /\ 1 < Place(4) /\ 0 < Place(4) /\ 0 < Place(8) /\ 64 < Place(8) /\ 3 < Place(2)
      /\ Len(m.payload) < Place(4)
  <2>1. /\ Place(2) \in Nat /\ Place(4) \in Nat /\ Place(8) \in Nat
        /\ Place(2) >= 16 /\ Place(4) >= 256 /\ Place(8) >= 65536
    BY PlaceFacts
  <2>2. Len(m.payload) \in Nat /\ MaxPayload \in Nat /\ MaxPayload < Place(4)
    BY WireAssumption, MessageTypes
  <2> QED
    BY <2>1, <2>2
<1>4. n \in [Field -> Nat]
  BY <1>2, MessageTypes DEF Fields, Field, Offset, WireVersion, HdrLen
<1>5. \A name \in Field : n[name] < Place(Width[name])
  BY <1>2, <1>3, MessageTypes DEF Fields, Field, Offset, Width, WireVersion, HdrLen
<1>6. EmitFrame(m) = [HdrFlags |-> EmitFrame(m).HdrFlags, field |-> n]
  BY DEF EmitFrame, Frame
<1> HIDE DEF n
<1> QED
  BY <1>1, <1>4, <1>5, <1>6 DEF IsFrame, n

(* The encoder accepts what the checks in front of it let through. *)
LEMMA EmitFrameValid ==
  ASSUME NEW m \in Messages, Len(m.payload) <= MaxPayload
  PROVE  Validate(EmitFrame(m)) = "OK"
<1> DEFINE f == EmitFrame(m)
           pattern == f.HdrFlags \cap PatternMask
           placement == f.HdrFlags \cap PlacementMask
<1>1. f.HdrFlags = {m.pattern} \cup (IF m.more THEN {FMore} ELSE {})
                               \cup (IF m.payload # <<>> THEN {FInline} ELSE {})
  BY DEF EmitFrame, Frame
<1>2. /\ f.field.WireVersion = WireVersion /\ f.field.CorrelationID = m.corr
      /\ f.field.PayloadLen = Len(m.payload) /\ f.field.Generation = 0
      /\ f.field.PayloadRef = IF Len(m.payload) > 0 THEN HdrLen ELSE 0
  BY DEF EmitFrame, Frame, Fields
<1> HIDE DEF f
<1>3. m.payload = <<>> <=> Len(m.payload) = 0
  BY MessageTypes
<1>4. pattern = {m.pattern}
  BY <1>1, MessageTypes DEF PatternMask, FNotification, FRequest, FReply, FCancel, FMore, FInline
<1>5. placement = IF m.payload # <<>> THEN {FInline} ELSE {}
  BY <1>1, MessageTypes DEF PatternMask, PlacementMask, FNotification, FRequest, FReply, FCancel,
                            FMore, FInline, FArena
<1>6. f.HdrFlags \subseteq KnownMask
  BY <1>1, MessageTypes DEF KnownMask, PatternMask, PlacementMask, FNotification, FRequest, FReply,
                            FCancel, FMore, FInline, FArena, FControl
<1>7. exactlyOne(pattern) /\ (m.payload # <<>> => exactlyOne(placement))
  BY <1>4, <1>5, FS_Singleton DEF exactlyOne
<1>8. (FMore \in f.HdrFlags) = m.more /\ FArena \notin f.HdrFlags
      /\ (FNotification \in f.HdrFlags) = (m.pattern = FNotification)
  BY <1>1, MessageTypes DEF PatternMask, FNotification, FRequest, FReply, FCancel,
                            FMore, FInline, FArena
<1> HIDE DEF pattern, placement
<1>9. FMore \in f.HdrFlags => pattern \in {{FRequest}, {FReply}} /\ placement = {FInline}
  BY <1>4, <1>5, <1>8, MessageTypes
<1>10. (FNotification \in f.HdrFlags) = (f.field.CorrelationID = 0)
  BY <1>2, <1>8, MessageTypes
<1>11. f.field.PayloadLen = 0 => placement = {} /\ f.field.PayloadRef = 0
  BY <1>2, <1>3, <1>5
<1>12. f.field.PayloadLen > 0 => exactlyOne(placement)
  BY <1>2, <1>3, <1>7
<1>13. f.field.PayloadLen \in Nat /\ f.field.PayloadLen <= MaxPayload /\ MaxPayload \in Nat
  BY <1>2, MessageTypes, WireAssumption
<1> QED
  BY <1>2, <1>6, <1>7, <1>8, <1>9, <1>10, <1>11, <1>12, <1>13 DEF Validate, pattern, placement, f

(* The frame the host stamps still fits, and differs in what it stamps. *)
LEMMA StampedFits ==
  ASSUME NEW f, IsFrame(f)
  PROVE  /\ IsFrame(Stamped(f))
         /\ Stamped(f).HdrFlags = f.HdrFlags
         /\ \A name \in {"EventKind", "CorrelationID", "PayloadRef", "PayloadLen"} :
              Stamped(f).field[name] = f.field[name]
<1> DEFINE n == [f.field EXCEPT !.Seq = 9, !.LogicalTS = 17, !.DstHandle = 2, !.PrincipalRef = 5]
<1>1. Stamped(f) = [HdrFlags |-> f.HdrFlags, field |-> n]
  BY DEF Stamped, IsFrame
<1>2. n \in [Field -> Nat]
  BY DEF IsFrame
<1>3. 9 < Place(8) /\ 17 < Place(8) /\ 2 < Place(4) /\ 5 < Place(4)
  BY PlaceFacts
<1>4. /\ "Seq" \in Field /\ "LogicalTS" \in Field /\ "DstHandle" \in Field /\ "PrincipalRef" \in Field
      /\ Width["Seq"] = 8 /\ Width["LogicalTS"] = 8 /\ Width["DstHandle"] = 4
      /\ Width["PrincipalRef"] = 4
  BY DEF Field, Offset, Width
<1>5. \A name \in Field : n[name] < Place(Width[name])
  BY <1>3, <1>4 DEF IsFrame
<1>6. \A name \in {"EventKind", "CorrelationID", "PayloadRef", "PayloadLen"} :
        n[name] = f.field[name]
  BY DEF IsFrame, Field, Offset
<1> HIDE DEF n
<1> QED
  BY <1>1, <1>2, <1>5, <1>6 DEF IsFrame
-------------------------------------------------------------------------------
(* An operation with legal arguments leaves the inbound side alone and, if *)
(* it succeeds, the frame it asked for in the outbound slot.               *)
LEMMA EmitStep ==
  ASSUME PathInv, Operation, NEW m \in Messages, emit(m)
  PROVE  PathInv'
<1>1. /\ UNCHANGED <<config, epochChanged, in, inFull, pendingRead, event, meant>>
      /\ UNCHANGED Slot
  BY DEF Operation, Slot
<1>2. config \in Configs /\ config.slotSize \in Nat
  BY PathAssumption DEF PathInv
<1>3. InInv' /\ EventInv'
  BY <1>1 DEF PathInv, InInv, EventInv, Holds, Polled, InSlot, Sliceable
<1>4. CASE UNCHANGED <<out, outFull, asked>> /\ result' # "Refused"
  <2>1. OutInv' /\ EmitEncodes'
    BY <1>1, <1>4 DEF PathInv, OutInv, Holds, EmitEncodes
  <2> QED
    BY <1>1, <1>3, <1>4, <2>1 DEF PathInv
<1>5. CASE /\ result' = "Refused" /\ asked' = m /\ UNCHANGED <<out, outFull>> /\ ~outFull
           /\ ~Encodes(EmitFrame(m), config.slotSize)
  <2>1. config.slotSize < HdrLen \/ Len(m.payload) > MaxPayload
    <3>1. Len(m.payload) \in Nat /\ MaxPayload \in Nat
      BY MessageTypes, WireAssumption
    <3> QED
      BY <1>5, <3>1, EmitFrameValid DEF Encodes
  <2>2. OutInv' /\ EmitEncodes'
    BY <1>1, <1>5, <2>1 DEF OutInv, EmitEncodes
  <2> QED
    BY <1>1, <1>3, <1>5, <2>2 DEF PathInv
<1>6. CASE /\ result' = "OK" /\ asked' = m /\ ~TooLarge(m)
           /\ Encodes(EmitFrame(m), config.slotSize)
           /\ out' = WithPayload(Encode(EmitFrame(m), out), m.payload)
  <2>1. m.payload \in Seq(Nat) /\ Len(m.payload) \in Nat
    BY MessageTypes
  <2>2. config.slotSize >= HdrLen /\ Validate(EmitFrame(m)) = "OK"
    BY <1>2, <1>6 DEF Encodes, HdrLen
  <2>3. Len(m.payload) <= MaxPayload
    <3>1. EmitFrame(m).field.PayloadLen = Len(m.payload)
      BY DEF EmitFrame, Frame, Fields
    <3>2. MaxPayload \in Nat
      BY WireAssumption
    <3> QED
      BY <2>1, <2>2, <3>1, <3>2 DEF Validate
  <2>4. Len(m.payload) <= config.slotSize - HdrLen
    BY <1>2, <1>6, <2>1, <2>2 DEF TooLarge, HdrLen
  <2>5. IsFrame(EmitFrame(m))
    BY <2>3, EmitFrameFits
  <2>6. /\ DOMAIN out' = 0 .. config.slotSize - 1
        /\ Parsed(out') = EmitFrame(m)
        /\ \A i \in 1 .. Len(m.payload) : out'[HdrLen + i - 1] = m.payload[i]
    BY <1>2, <1>6, <2>1, <2>2, <2>4, <2>5, Written DEF PathInv, Slot
  <2>7. OutInv'
    BY <1>1, <1>6, <2>2, <2>3, <2>4, <2>6 DEF OutInv, Holds
  <2>8. EmitEncodes'
    BY <1>6 DEF EmitEncodes
  <2> QED
    BY <1>1, <1>3, <2>6, <2>7, <2>8 DEF PathInv, Slot
<1> QED
  BY <1>4, <1>5, <1>6 DEF emit

(* What the operations pass to emit is legal. *)
LEMMA ClientStep ==
  ASSUME PathInv, Client
  PROVE  PathInv'
<1>1. ASSUME NEW kind \in Kind, NEW payload \in Payload, Publish(kind, payload)
      PROVE  PathInv'
  <2> DEFINE m == Message(FNotification, kind, 0, payload, FALSE)
  <2>1. m \in Messages
    BY PathAssumption DEF Message, Messages, PatternMask
  <2> HIDE DEF m
  <2> QED
    BY <1>1, <2>1, EmitStep DEF Publish, m
<1>2. ASSUME NEW pattern, NEW kind \in Kind, NEW corr \in Corr, NEW payload, NEW more \in BOOLEAN,
             pattern \in {FRequest, FReply, FCancel}, payload \in Payload \cup {<<>>},
             corr # 0, more => pattern # FCancel /\ payload # <<>>,
             Operation, emit(Message(pattern, kind, corr, payload, more))
      PROVE  PathInv'
  <2> DEFINE m == Message(pattern, kind, corr, payload, more)
  <2>1. m \in Messages
    BY <1>2 DEF Message, Messages, PatternMask, FNotification, FRequest, FReply, FCancel
  <2> HIDE DEF m
  <2> QED
    BY <1>2, <2>1, EmitStep DEF m
<1>3. ASSUME Operation, result' = "ErrProtocol", UNCHANGED <<out, outFull, asked>>
      PROVE  PathInv'
  BY <1>3 DEF Operation, PathInv, OutInv, InInv, EventInv, Holds, Polled, InSlot, Sliceable,
              EmitEncodes, Slot
<1>4. ASSUME NEW kind \in Kind, NEW payload \in Payload, NEW pattern \in {FRequest, FReply},
             NEW corr \in Corr, NEW more \in BOOLEAN, SendFragment(pattern, kind, corr, payload, more)
      PROVE  PathInv'
  <2>1. CASE BadFragment(corr, payload, more)
    BY <1>3, <1>4, <2>1 DEF SendFragment
  <2>2. CASE ~BadFragment(corr, payload, more)
    <3>1. corr # 0 /\ (more => payload # <<>> /\ pattern # FCancel)
      BY <2>2 DEF BadFragment, FRequest, FReply, FCancel
    <3> QED
      BY <1>2, <1>4, <2>2, <3>1 DEF SendFragment
  <2> QED
    BY <2>1, <2>2
<1>5. ASSUME NEW kind \in Kind, NEW corr \in Corr, Cancel(kind, corr)
      PROVE  PathInv'
  <2>1. CASE corr = 0
    BY <1>3, <1>5, <2>1 DEF Cancel
  <2>2. CASE corr # 0
    BY <1>2, <1>5, <2>2 DEF Cancel
  <2> QED
    BY <2>1, <2>2
<1> QED
  BY <1>1, <1>4, <1>5 DEF Client
(* A copy of the bytes of a payload is the payload. *)
LEMMA SamePayload ==
  ASSUME NEW p \in Seq(Nat), NEW n, n = Len(p), NEW slot, NEW first,
         \A i \in 1 .. Len(p) : slot[first + i - 1] = p[i]
  PROVE  [i \in 1 .. n |-> slot[first + i - 1]] = p
<1> DEFINE q == [i \in 1 .. n |-> slot[first + i - 1]]
<1>1. p = [i \in 1 .. Len(p) |-> p[i]]
  OBVIOUS
<1>2. q = [i \in 1 .. Len(p) |-> p[i]]
  OBVIOUS
<1> QED
  BY <1>1, <1>2, Zenon

(* The host routes what the client wrote, stamped, with its payload. *)
LEMMA RouteStep ==
  ASSUME PathInv, HostRoute
  PROVE  PathInv'
<1>1. /\ outFull /\ ~inFull /\ inFull' = TRUE /\ outFull' = FALSE
      /\ meant' = [op |-> asked, frame |-> None]
      /\ UNCHANGED <<config, out, pendingRead, result, event, asked>> /\ UNCHANGED Slot
  BY DEF HostRoute, clientVars, Slot
<1> DEFINE f == EmitFrame(asked)
           payload == [i \in 1 .. f.field.PayloadLen |-> out[HdrLen + i - 1]]
<1>2. /\ asked \in Messages /\ Len(asked.payload) <= MaxPayload
      /\ config.slotSize >= HdrLen /\ Len(asked.payload) <= config.slotSize - HdrLen
      /\ Parsed(out) = f
      /\ \A i \in 1 .. Len(asked.payload) : out[HdrLen + i - 1] = asked.payload[i]
  BY <1>1 DEF PathInv, OutInv, Holds
<1>3. in' = WithPayload(Encode(Stamped(f), in), payload)
  BY <1>2 DEF HostRoute
<1>4. asked.payload \in Seq(Nat) /\ f.field.PayloadLen = Len(asked.payload)
  BY <1>2, MessageTypes DEF EmitFrame, Frame, Fields
<1>5. payload = asked.payload
  <2> DEFINE n == f.field.PayloadLen
             p == asked.payload
  <2>1. p \in Seq(Nat) /\ n = Len(p) /\ \A i \in 1 .. Len(p) : out[HdrLen + i - 1] = p[i]
    BY <1>2, <1>4
  <2> HIDE DEF n, p
  <2>2. [i \in 1 .. n |-> out[HdrLen + i - 1]] = p
    BY <2>1, SamePayload
  <2> QED
    BY <2>2 DEF n, p
<1>6. IsFrame(Stamped(f))
  BY <1>2, EmitFrameFits, StampedFits
<1>7. config \in Configs /\ config.slotSize \in Nat
  BY PathAssumption DEF PathInv
<1> HIDE DEF f, payload
<1>8. /\ DOMAIN in' = 0 .. config.slotSize - 1
      /\ Parsed(in') = Stamped(f)
      /\ \A i \in 1 .. Len(asked.payload) : in'[HdrLen + i - 1] = asked.payload[i]
  BY <1>2, <1>3, <1>4, <1>5, <1>6, <1>7, Written DEF PathInv, Slot
<1>9. InInv'
  BY <1>1, <1>2, <1>8 DEF InInv, Holds, f
<1>10. EventInv' /\ OutInv' /\ EmitEncodes'
  BY <1>1 DEF PathInv, EventInv, OutInv, Polled, EmitEncodes
<1> QED
  BY <1>1, <1>7, <1>8, <1>9, <1>10 DEF PathInv, Slot

(* The host sends a frame of its own. *)
LEMMA SendStep ==
  ASSUME PathInv, NEW h \in HostFrames, HostSend(h)
  PROVE  PathInv'
<1>1. /\ ~inFull /\ config.slotSize >= HdrLen
      /\ in' = [Encode(h.frame, in) EXCEPT ![0] = IF h.magicOK THEN @ ELSE @ + 1]
      /\ inFull' = TRUE /\ meant' = [op |-> None, frame |-> h]
      /\ UNCHANGED <<config, out, outFull, pendingRead, result, event, asked>> /\ UNCHANGED Slot
  BY DEF HostSend, clientVars, Slot
<1>2. config \in Configs /\ config.slotSize \in Nat /\ IsFrame(h.frame)
  BY PathAssumption DEF PathInv
<1>3. /\ DOMAIN Encode(h.frame, in) = 0 .. config.slotSize - 1
      /\ \A i \in 4 .. 63 : Encode(h.frame, in)[i] = HeaderByte(h.frame, i)
  <2>1. DOMAIN in = 0 .. config.slotSize - 1
    BY DEF PathInv, Slot
  <2>2. \A i \in 4 .. 63 : i \in 0 .. config.slotSize - 1 /\ i < HdrLen
    BY <1>1, <1>2 DEF HdrLen
  <2> QED
    BY <2>1, <2>2 DEF Encode
<1>4. /\ DOMAIN in' = 0 .. config.slotSize - 1
      /\ \A i \in 4 .. 63 : in'[i] = HeaderByte(h.frame, i)
  BY <1>1, <1>3
<1>5. Parsed(in') = h.frame
  BY <1>2, <1>4, RoundTrip
<1>6. Holds(in, h.frame, <<>>)'
  BY <1>1, <1>2, <1>5 DEF Holds, HdrLen
<1>7. InInv'
  BY <1>1, <1>2, <1>6 DEF InInv
<1>8. EventInv' /\ OutInv' /\ EmitEncodes'
  BY <1>1 DEF PathInv, EventInv, OutInv, Holds, Polled, EmitEncodes
<1> QED
  BY <1>1, <1>2, <1>4, <1>7, <1>8 DEF PathInv, Slot

(* Polling leaves both slots' bytes alone. *)
LEMMA PollStep ==
  ASSUME PathInv, Poll
  PROVE  PathInv'
<1>1. /\ UNCHANGED <<config, out, outFull, in, result, asked, meant>> /\ UNCHANGED Slot
      /\ inFull' => inFull
  BY DEF Poll, PollEpoch, PollEmpty, PollDrop, PollEvent, Slot
<1>2. OutInv' /\ InInv' /\ EmitEncodes'
  BY <1>1 DEF PathInv, OutInv, InInv, Holds, EmitEncodes
<1>3. EventInv'
  <2>1. CASE PollEpoch
    BY <2>1 DEF PollEpoch, PathInv, EventInv, Polled, NoEvent
  <2>2. CASE PollEmpty
    BY <2>2 DEF PollEmpty, EventInv, Polled
  <2>3. CASE PollDrop
    BY <2>3 DEF PollDrop, Readable, EventInv, Polled, NoEvent
  <2>4. CASE PollEvent
    <3> DEFINE f == Parsed(in)
    <3>1. Validate(f) = "OK"
      BY <2>4 DEF PollEvent, Decode
    <3>2. /\ inFull' /\ in' = in /\ config' = config
          /\ event'.frame = f
          /\ event'.type = IF InSlot(f) /\ ~Sliceable(f) THEN "panic" ELSE "event"
          /\ event'.payload = IF InSlot(f) /\ Sliceable(f)
                              THEN [i \in 1 .. f.field.PayloadLen |-> in[f.field.PayloadRef + i - 1]]
                              ELSE <<>>
      BY <2>4 DEF PollEvent, Readable
    <3> HIDE DEF f
    <3>3. f' = f /\ InSlot(f)' = InSlot(f) /\ Sliceable(f)' = Sliceable(f)
      BY <3>2 DEF f, InSlot, Sliceable
    <3> QED
      BY <3>1, <3>2, <3>3 DEF EventInv, f
  <2> QED
    BY <2>1, <2>2, <2>3, <2>4 DEF Poll
<1> QED
  BY <1>1, <1>2, <1>3 DEF PathInv

(* Both slots hold what was meant, along every step. *)
LEMMA PathInvStep == PathInv /\ [Next]_vars => PathInv'
<1> SUFFICES ASSUME PathInv, [Next]_vars PROVE PathInv'
  OBVIOUS
<1>1. CASE HostRestart
  BY <1>1 DEF HostRestart, clientVars, PathInv, OutInv, InInv, EventInv, Holds, Polled, InSlot,
              Sliceable, EmitEncodes, Slot
<1>2. CASE UNCHANGED vars
  BY <1>2 DEF vars, clientVars, PathInv, OutInv, InInv, EventInv, Holds, Polled, InSlot,
              Sliceable, EmitEncodes, Slot
<1> QED
  BY <1>1, <1>2, ClientStep, PollStep, RouteStep, SendStep DEF Next

(* The inductive invariant: a committed slot holds the frame and the       *)
(* payload that were meant, and an event is what Poll makes of its slot    *)
(* (client.go 188-220 and 277-305).                                        *)
THEOREM PathInvariant == Spec => []PathInv
<1>1. Init => PathInv
  BY DEF Init, PathInv, OutInv, InInv, EventInv, Polled, NoEvent, EmitEncodes, Slot
<1> QED
  BY <1>1, PathInvStep, PTL DEF Spec

(* The encoder refuses a frame only for a geometry without room for a      *)
(* header or with a budget above MaxPayload: the checks in front of emit   *)
(* leave it nothing else (client.go 188-215 and 222-272, wire.go 112-170). *)
THEOREM EncoderRefusesNothingElse == Spec => []EmitEncodes
<1>1. PathInv => EmitEncodes
  BY DEF PathInv
<1> QED
  BY <1>1, PathInvariant, PTL

(* What is polled is what was sent, for every width of a byte, every       *)
(* payload, and whatever bytes the slots held before (client.go 188-220    *)
(* and 277-305, wire.go 162-218).                                          *)
THEOREM FramesReadAsMeant == Spec => []ReadAsMeant
<1>1. PathInv => ReadAsMeant
  <2> SUFFICES ASSUME PathInv, Polled PROVE ReadAsMeant
    BY DEF ReadAsMeant
  <2> DEFINE f == Parsed(in)
  <2>1. inFull /\ event.frame = f
    BY DEF PathInv, EventInv, Polled
  <2>2. CASE meant.op = None
    <3>1. f = meant.frame.frame
      BY <2>1, <2>2, PathAssumption DEF PathInv, InInv, Holds
    <3> QED
      BY <2>1, <2>2, <3>1 DEF ReadAsMeant
  <2>3. CASE meant.op # None
    <3> DEFINE m == meant.op
               p == m.payload
               r == f.field.PayloadRef
               n == f.field.PayloadLen
    <3>1. /\ m \in Messages /\ Len(p) <= MaxPayload /\ f = Stamped(EmitFrame(m))
          /\ config.slotSize >= HdrLen /\ Len(p) <= config.slotSize - HdrLen
          /\ \A i \in 1 .. Len(p) : in[HdrLen + i - 1] = p[i]
      BY <2>1, <2>3 DEF PathInv, InInv, Holds
    <3>2. /\ f.HdrFlags = EmitFrame(m).HdrFlags
          /\ f.field.EventKind = EmitFrame(m).field.EventKind
          /\ f.field.CorrelationID = EmitFrame(m).field.CorrelationID
          /\ r = EmitFrame(m).field.PayloadRef /\ n = EmitFrame(m).field.PayloadLen
      <4> HIDE DEF f, m, p
      <4> QED
        BY <3>1, EmitFrameFits, StampedFits DEF p
    <3> HIDE DEF f, m
    <3>3. /\ f.HdrFlags = {m.pattern} \cup (IF m.more THEN {FMore} ELSE {})
                                      \cup (IF p # <<>> THEN {FInline} ELSE {})
          /\ f.field.EventKind = m.kind /\ f.field.CorrelationID = m.corr
          /\ n = Len(p) /\ r = IF Len(p) > 0 THEN HdrLen ELSE 0
      BY <3>2 DEF EmitFrame, Frame, Fields
    <3>4. f.HdrFlags \cap PatternMask = {m.pattern} /\ (FMore \in f.HdrFlags) = m.more
      BY <3>1, <3>3, MessageTypes DEF PatternMask, FNotification, FRequest, FReply, FCancel,
                                      FMore, FInline
    <3>5. p \in Seq(Nat) /\ Len(p) \in Nat
      BY <3>1, MessageTypes
    <3>6. event.payload = p
      <4>1. event.payload = IF InSlot(f) /\ Sliceable(f)
                            THEN [i \in 1 .. n |-> in[r + i - 1]] ELSE <<>>
        BY DEF PathInv, EventInv, f
      <4>2. CASE p = <<>>
        BY <3>3, <3>5, <4>1, <4>2 DEF InSlot
      <4>3. CASE p # <<>>
        <5>1. Len(p) > 0 /\ n = Len(p) /\ r = HdrLen /\ FInline \in f.HdrFlags
          BY <3>3, <3>5, <4>3
        <5>2. Len(p) <= MaxPayload
          BY <3>1
        <5>3. HdrLen + Len(p) < Wrap /\ Wrap \in Nat /\ HdrLen + Len(p) \in Nat
          <6> HIDE DEF p
          <6> QED
            BY <3>5, <5>2, WrapType DEF HdrLen
        <5>4. (r + n) % Wrap = HdrLen + Len(p)
          <6>1. \A a, w \in Nat : a < w => a % w = a
            OBVIOUS
          <6>2. (HdrLen + Len(p)) % Wrap = HdrLen + Len(p)
            <7> DEFINE a == HdrLen + Len(p)
                       w == Wrap
            <7>1. a \in Nat /\ w \in Nat /\ a < w
              BY <5>3
            <7> HIDE DEF a, w
            <7>2. a % w = a
              BY <6>1, <7>1
            <7> QED
              BY <7>2 DEF a, w
          <6> HIDE DEF r, n, p
          <6> QED
            BY <5>1, <6>2
        <5>5. config.slotSize \in Nat
          BY PathAssumption DEF PathInv
        <5>6. InSlot(f) /\ Sliceable(f)
          BY <3>1, <3>5, <5>1, <5>4, <5>5 DEF InSlot, Sliceable, HdrLen
        <5>7. [i \in 1 .. n |-> in[r + i - 1]] = p
          <6>1. \A i \in 1 .. Len(p) : in[r + i - 1] = p[i]
            BY <3>1, <5>1
          <6> HIDE DEF r, n, p
          <6> QED
            BY <3>5, <5>1, <6>1, SamePayload
        <5> QED
          BY <4>1, <5>6, <5>7
      <4> QED
        BY <4>2, <4>3
    <3> QED
      BY <2>1, <2>3, <3>3, <3>4, <3>6 DEF ReadAsMeant, m
  <2> QED
    BY <2>2, <2>3
<1> QED
  BY <1>1, PathInvariant, PTL

(* Poll's bounds test and CheckPlacement agree up to the header, and a     *)
(* slice fails only where reference and length wrap, for every width of a  *)
(* number (client.go 299-302, wire.go 223-246).                            *)
THEOREM PollBoundsAlwaysAgree == Spec => []PollBoundsAgree
<1>1. PathInv => PollBoundsAgree
  <2> SUFFICES ASSUME PathInv, Polled, FInline \in event.frame.HdrFlags PROVE PollBoundsAgree
    BY DEF PollBoundsAgree
  <2> DEFINE f == Parsed(in)
             r == f.field.PayloadRef
             n == f.field.PayloadLen
             end == (r + n) % Wrap
  <2>1. /\ inFull /\ event.frame = f /\ Validate(f) = "OK"
        /\ event.type = IF InSlot(f) /\ ~Sliceable(f) THEN "panic" ELSE "event"
        /\ event.payload = IF InSlot(f) /\ Sliceable(f)
                           THEN [i \in 1 .. n |-> in[r + i - 1]] ELSE <<>>
    BY DEF PathInv, EventInv, Polled
  <2>2. IsFrame(f)
    BY <2>1, EmitFrameFits, StampedFits DEF PathInv, InInv, Holds
  <2> HIDE DEF f
  <2>3. r \in Nat /\ n \in Nat
    BY <2>2 DEF IsFrame, Field, Offset
  <2>4. Wrap \in Nat /\ Wrap > 0
    BY WrapType
  <2>5. /\ InSlot(f) <=> n > 0 /\ end <= config.slotSize
        /\ Sliceable(f) <=> r <= end
    BY <2>1 DEF InSlot, Sliceable
  <2>6. CheckPlacement(f, config.slotSize, 0) = "OK" <=>
          n = 0 \/ (~(end < r) /\ ~(r < HdrLen) /\ ~(end > config.slotSize))
    BY <2>1 DEF CheckPlacement
  <2>7. end \in Nat /\ (r + n < Wrap => end = r + n)
    <3> HIDE DEF r, n
    <3> QED
      BY <2>3, <2>4
  <2>8. config.slotSize \in Nat
    BY PathAssumption DEF PathInv
  <2>9. Len([i \in 1 .. n |-> in[r + i - 1]]) = n /\ Len(<<>>) = 0
    BY <2>3
  <2> HIDE DEF r, n, end
  <2>10. CheckPlacement(f, config.slotSize, 0) = "OK" =>
           event.type = "event" /\ Len(event.payload) = n
    BY <2>1, <2>3, <2>5, <2>6, <2>7, <2>8, <2>9
  <2>11. event.type = "panic" => r + n >= Wrap
    BY <2>1, <2>3, <2>4, <2>5, <2>7
  <2>12. event.payload # <<>> => CheckPlacement(f, config.slotSize, 0) = "OK" \/ r < HdrLen
    BY <2>1, <2>3, <2>5, <2>6, <2>7, <2>8
  <2> QED
    BY <2>1, <2>10, <2>11, <2>12 DEF PollBoundsAgree, r, n
<1> QED
  BY <1>1, PathInvariant, PTL
===============================================================================
