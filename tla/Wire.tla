---------------------------------- MODULE Wire ----------------------------------
(***************************************************************************)
(* The frame codec (server-go/bus/wire.go): the 64 bytes of a header with  *)
(* the offsets and widths of the code, little endian.                      *)
(*                                                                         *)
(* Numbers keep their widths in bytes, but a byte of a number has only     *)
(* Radix values, so that a number of eight bytes wraps within reach of     *)
(* TLC.  The two flag bytes keep their eight bits.  Flags are a set of bit *)
(* positions.                                                              *)
(***************************************************************************)
EXTENDS Integers, FiniteSets, Sequences

CONSTANTS Radix, MaxPayload

(* The weight of byte i of a number, and of bit b of a byte. *)
Place(i) ==
  LET R2 == Radix * Radix
      R4 == R2 * R2
  IN  <<1, Radix, R2, R2 * Radix, R4, R4 * Radix, R4 * R2, R4 * R2 * Radix, R4 * R4>>[i + 1]
Bit(b) == <<1, 2, 4, 8, 16, 32, 64, 128>>[b + 1]

ASSUME WireAssumption ==
  /\ Radix \in Nat /\ Radix >= 4
  /\ MaxPayload \in Nat /\ MaxPayload < Place(4)    \* it is compared with a uint32

HdrLen == 64
WireVersion == 3
WireMagic == <<2, 1, 3, 0>>     \* "BUS0", one digit for each letter
Wrap == Place(8)                \* numbers of 64 bits

(* Header flags, by bit. *)
FInline == 0
FArena == 1
FNotification == 2
FRequest == 3
FReply == 4
FCancel == 5
FControl == 6
FMore == 7
PlacementMask == {FInline, FArena}
PatternMask == {FNotification, FRequest, FReply, FCancel}
KnownMask == PlacementMask \cup PatternMask \cup {FControl, FMore}

(* The numeric fields of a header and where they are. *)
Offset ==
  [WireVersion |-> 6, EventKind |-> 8, PrincipalRef |-> 12, CorrelationID |-> 16,
   Seq |-> 24, LogicalTS |-> 32, PayloadRef |-> 40, PayloadLen |-> 48, SrcHandle |-> 52,
   DstHandle |-> 56, Generation |-> 60]
Width ==
  [WireVersion |-> 2, EventKind |-> 4, PrincipalRef |-> 4, CorrelationID |-> 8,
   Seq |-> 8, LogicalTS |-> 8, PayloadRef |-> 8, PayloadLen |-> 4, SrcHandle |-> 4,
   DstHandle |-> 4, Generation |-> 4]
Field == DOMAIN Offset

(* Frame: the flags and the fields. *)
Frame(flags, fields) == [HdrFlags |-> flags, field |-> fields]

(* What the types of the struct hold. *)
IsFrame(f) ==
  /\ f \in [HdrFlags : SUBSET (0 .. 15), field : [Field -> Nat]]
  /\ \A name \in Field : f.field[name] < Place(Width[name])

-------------------------------------------------------------------------------
(* exactlyOne bit of a mask is set. *)
exactlyOne(S) == Cardinality(S) = 1

(* Frame.Validate: the first rule that is broken names the result. *)
Validate(f) ==
  LET n         == f.field
      pattern   == f.HdrFlags \cap PatternMask
      placement == f.HdrFlags \cap PlacementMask
      more      == FMore \in f.HdrFlags
  IN  IF n.WireVersion # WireVersion THEN "ErrVersion"
      ELSE IF ~(f.HdrFlags \subseteq KnownMask) \/ ~exactlyOne(pattern) THEN "ErrFlags"
      ELSE IF n.PayloadLen > 0 /\ ~exactlyOne(placement) THEN "ErrFlags"
      ELSE IF n.PayloadLen > MaxPayload THEN "ErrPayloadLen"
      ELSE IF n.PayloadLen = 0 /\ placement # {} THEN "ErrFlags"
      ELSE IF n.PayloadLen = 0 /\ n.PayloadRef # 0 THEN "ErrPayloadLen"
      ELSE IF more /\ (pattern \notin {{FRequest}, {FReply}} \/ placement # {FInline}) THEN "ErrFlags"
      ELSE IF FArena \notin f.HdrFlags /\ n.Generation # 0 THEN "ErrFlags"
      ELSE IF (FNotification \in f.HdrFlags) # (n.CorrelationID = 0) THEN "ErrCorrelation"
      ELSE "OK"

-------------------------------------------------------------------------------
(* One byte of the flags, and of the number v.  Bytes count from 0; sums   *)
(* over a byte or a number are written out.                                *)
FlagByte(flags, i) ==
  LET bit(b) == IF b + 8 * i \in flags THEN Bit(b) ELSE 0
  IN  bit(0) + bit(1) + bit(2) + bit(3) + bit(4) + bit(5) + bit(6) + bit(7)
NumByte(v, i) == (v \div Place(i)) % Radix

(* Mutant of HeaderByte: the payload length written over the reference. *)
HeaderByteOverlap(f, i) ==
  IF i < 4 THEN WireMagic[i + 1]
  ELSE IF i < 6 THEN FlagByte(f.HdrFlags, i - 4)
  ELSE IF i \in 44 .. 47 THEN NumByte(f.field.PayloadLen, i - 44)
  ELSE LET name == CHOOSE n \in Field : i \in Offset[n] .. Offset[n] + Width[n] - 1
       IN  NumByte(f.field[name], i - Offset[name])

(* The header as Encode leaves it: each byte belongs to one field. *)
HeaderByte(f, i) ==
  IF i < 4 THEN WireMagic[i + 1]
  ELSE IF i < 6 THEN FlagByte(f.HdrFlags, i - 4)
  ELSE LET name == CHOOSE n \in Field : i \in Offset[n] .. Offset[n] + Width[n] - 1
       IN  NumByte(f.field[name], i - Offset[name])

(* Frame.Encode writes nothing, and returns 0, into a slot that is too     *)
(* small and for a frame that does not validate.                           *)
Encodes(f, slotSize) == ~(slotSize < HdrLen) /\ Validate(f) = "OK"

Encode(f, bytes) == [i \in DOMAIN bytes |-> IF i < HdrLen THEN HeaderByte(f, i) ELSE bytes[i]]

-------------------------------------------------------------------------------
Flags(bytes) == {b \in 0 .. 15 : (bytes[4 + b \div 8] \div Bit(b % 8)) % 2 = 1}

Number(bytes, name) ==
  LET digit(i) == IF i < Width[name] THEN bytes[Offset[name] + i] * Place(i) ELSE 0
  IN  digit(0) + digit(1) + digit(2) + digit(3) + digit(4) + digit(5) + digit(6) + digit(7)

(* Decode: the result, and the frame that is only looked at when it is OK. *)
Parsed(bytes) == Frame(Flags(bytes), [name \in Field |-> Number(bytes, name)])

Decode(bytes, slotSize) ==
  IF slotSize < HdrLen THEN "ErrShort"
  ELSE IF \E i \in 0 .. 3 : bytes[i] # WireMagic[i + 1] THEN "ErrMagic"
  ELSE Validate(Parsed(bytes))

(* Frame.CheckPlacement: where an inline payload may lie; an arena payload *)
(* is bounded by its length only.                                          *)
CheckPlacement(f, slotSize, arenaSize) ==
  LET n      == f.field
      end    == (n.PayloadRef + n.PayloadLen) % Wrap
      inside == IF FInline \in f.HdrFlags
                THEN ~(end < n.PayloadRef) /\ ~(n.PayloadRef < HdrLen) /\ ~(end > slotSize)
                ELSE ~(n.PayloadLen > arenaSize)
  IN  IF Validate(f) # "OK" THEN Validate(f)
      ELSE IF n.PayloadLen = 0 \/ inside THEN "OK" ELSE "ErrPayloadLen"
===============================================================================
