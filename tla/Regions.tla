-------------------------------- MODULE Regions --------------------------------
(***************************************************************************)
(* What a client checks of the mapped regions before it uses them          *)
(* (server-go/bus/region.go, AttachRing of ring.go), in bytes.             *)
(*                                                                         *)
(* A control header is [magicOK, versionOK, slot, inline, arena].  A ring  *)
(* header is [magicOK, slot, cap, mask, slotsOff, head, tail].  A queue    *)
(* pair is [magicOK, inOff, outOff, rings], where rings gives the header   *)
(* found at an offset, for the offsets at which there is one.              *)
(***************************************************************************)
EXTENDS Integers

CONSTANT IndexMod   \* modulus of the ring counters, 2^64 in the code

ctlBytes == 96
qpBytes == 96
ringHdrBytes == 192

-------------------------------------------------------------------------------
(* The layout a host gives a queue pair, and the bytes a client maps. *)
align64(n) == ((n + 63) \div 64) * 64

ringBytes(slot, cap) == ringHdrBytes + slot * cap

inboundOff == align64(qpBytes)
outboundOff(slot, cap) == align64(inboundOff + ringBytes(slot, cap))

qpairBytes(slot, cap) == outboundOff(slot, cap) + ringBytes(slot, cap)

-------------------------------------------------------------------------------
AttachControl(ctl) ==
  /\ ctl.magicOK
  /\ ctl.versionOK
  /\ ctl.slot # 0
  /\ ~(ctl.inline > ctl.slot)
  /\ ctl.arena # 0

(* capv & (capv - 1) == 0, for a capacity of at least 2. *)
PowerOfTwo(n) == \A d \in 2 .. n : n % d = 0 => d % 2 = 0

(* Mutant of AttachRing: the slots are not compared with the bytes mapped. *)
AttachRingUnbounded(r, bytes) ==
  /\ bytes >= ringHdrBytes
  /\ r.magicOK
  /\ r.cap >= 2 /\ PowerOfTwo(r.cap)
  /\ r.slot # 0
  /\ r.mask = r.cap - 1
  /\ r.slotsOff = ringHdrBytes
  /\ (r.head - r.tail) % IndexMod <= r.cap

(* A ring whose region has the given number of bytes from its base on. *)
AttachRing(r, bytes) ==
  /\ bytes >= ringHdrBytes
  /\ r.magicOK
  /\ r.cap >= 2 /\ PowerOfTwo(r.cap)
  /\ r.slot # 0
  /\ r.mask = r.cap - 1
  /\ r.slotsOff = ringHdrBytes
  /\ ~(bytes < r.slotsOff + r.slot * r.cap)
  /\ ~((r.head - r.tail) % IndexMod > r.cap)

AttachQueuePair(qp, bytes) ==
  /\ bytes >= qpBytes
  /\ qp.magicOK
  /\ qp.inOff < bytes /\ qp.outOff < bytes
  /\ qp.inOff # qp.outOff
  /\ \A off \in {qp.inOff, qp.outOff} :
        off \in DOMAIN qp.rings /\ AttachRing(qp.rings[off], bytes - off)

(* The bytes of the slots of the ring at off, as Ring.slot computes them,  *)
(* the mask being capacity - 1.                                            *)
SlotFirst(qp, off, index) ==
  off + qp.rings[off].slotsOff + (index % (qp.rings[off].mask + 1)) * qp.rings[off].slot

SlotEnd(qp, off, index) == SlotFirst(qp, off, index) + qp.rings[off].slot
===============================================================================
