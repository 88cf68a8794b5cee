--------------------------------- MODULE Ring ---------------------------------
(***************************************************************************)
(* The single-producer single-consumer ring of server-go/bus/ring.go, in   *)
(* memory that two processes share.                                        *)
(*                                                                         *)
(* head and tail are free-running unsigned counters that wrap at IndexMod  *)
(* (2^64 in the code); a slot is found by masking the counter with the     *)
(* capacity.  Filling a slot takes several steps during which its bytes    *)
(* are Torn.  The producer (Client.emit) writes only between ProduceBegin  *)
(* and ProduceCommit; the consumer (Client.Poll) reads the slot at any     *)
(* time between ConsumeBegin and ConsumeCommit, without copying it.        *)
(***************************************************************************)
EXTENDS Integers, Sequences

CONSTANTS
  Cap,        \* slots, a power of two >= 2 in the code
  IndexMod,   \* modulus of the counters, 2^64 in the code
  Msg,        \* whole messages
  Torn,       \* the bytes of a slot that is half written
  NoView      \* the consumer holds no slot

(* Cap is a uint32 power of two, so it divides 2^64 and is smaller. *)
ASSUME RingAssumption ==
  /\ Cap \in Nat /\ Cap >= 2
  /\ IndexMod \in Nat
  /\ \E k \in 2 .. IndexMod : IndexMod = k * Cap
  /\ Torn \notin Msg
  /\ NoView \notin Msg

VARIABLES
  head,       \* index of the next slot to fill; only the producer writes it
  tail,       \* index of the oldest unread slot; only the consumer writes it
  slots,      \* the shared slots
  producer,   \* "idle", "granted" (slot returned by ProduceBegin), "writing", "written"
  consumer    \* "idle" or "holding"

vars == <<head, tail, slots, producer, consumer>>

Index == 0 .. IndexMod - 1

(* Unsigned subtraction of two counters. *)
Sub(a, b) == (a - b) % IndexMod

(* Ring.slot: index & mask, the mask being capacity - 1. *)
slot(index) == index % Cap

(* Type correctness: both counters keep their width, across the commits of *)
(* ring.go 106-109 and 123-126, and every slot is a message or torn.       *)
TypeOK ==
  /\ head \in Index
  /\ tail \in Index
  /\ slots \in [0 .. Cap - 1 -> Msg \cup {Torn}]
  /\ producer \in {"idle", "granted", "writing", "written"}
  /\ consumer \in {"idle", "holding"}

-------------------------------------------------------------------------------
(* AttachRing adopts whatever counters it finds, provided their distance   *)
(* does not exceed the capacity; occupied slots were committed by an       *)
(* earlier producer, the other slots hold anything.                        *)
AttachRing ==
  /\ head \in Index
  /\ tail \in Index
  /\ Sub(head, tail) <= Cap
  /\ slots \in [0 .. Cap - 1 -> Msg \cup {Torn}]
  /\ \A i \in 0 .. Cap - 1 :
        i < Sub(head, tail) => slots[slot(tail + i)] \in Msg

Init ==
  /\ AttachRing
  /\ producer = "idle"
  /\ consumer = "idle"

(* Mutant of ProduceBegin: the full ring is recognised one slot too late. *)
ProduceBeginOffByOne ==
  /\ producer = "idle"
  /\ ~(Sub(head, tail) > Cap)
  /\ producer' = "granted"
  /\ UNCHANGED <<head, tail, slots, consumer>>

(* ProduceBegin on a ring that is not full (on a full one it returns nil   *)
(* and nothing changes).                                                   *)
ProduceBegin ==
  /\ producer = "idle"
  /\ ~(Sub(head, tail) >= Cap)
  /\ producer' = "granted"
  /\ UNCHANGED <<head, tail, slots, consumer>>

(* Client.emit starts to encode the frame into the slot it was given ...   *)
WriteSlot ==
  /\ producer = "granted"
  /\ slots' = [slots EXCEPT ![slot(head)] = Torn]
  /\ producer' = "writing"
  /\ UNCHANGED <<head, tail, consumer>>

(* ... and has copied the payload behind it. *)
FillSlot(m) ==
  /\ producer = "writing"
  /\ slots' = [slots EXCEPT ![slot(head)] = m]
  /\ producer' = "written"
  /\ UNCHANGED <<head, tail, consumer>>

(* The encoder refused the frame: emit returns without a commit and the    *)
(* slot, whatever it holds, is offered again by the next ProduceBegin.     *)
AbandonSlot ==
  /\ producer = "granted"
  /\ producer' = "idle"
  /\ UNCHANGED <<head, tail, slots, consumer>>

ProduceCommit ==
  /\ producer = "written"
  /\ head' = (head + 1) % IndexMod
  /\ producer' = "idle"
  /\ UNCHANGED <<tail, slots, consumer>>

(* Mutant of ConsumeBegin: the empty ring is not recognised. *)
ConsumeBeginUnchecked ==
  /\ consumer = "idle"
  /\ consumer' = "holding"
  /\ UNCHANGED <<head, tail, slots, producer>>

(* ConsumeBegin on a ring that is not empty. *)
ConsumeBegin ==
  /\ consumer = "idle"
  /\ head # tail
  /\ consumer' = "holding"
  /\ UNCHANGED <<head, tail, slots, producer>>

(* Mutant of ConsumeCommit: every published slot is released at once. *)
ConsumeCommitToHead ==
  /\ consumer = "holding"
  /\ tail' = head
  /\ consumer' = "idle"
  /\ UNCHANGED <<head, slots, producer>>

ConsumeCommit ==
  /\ consumer = "holding"
  /\ tail' = (tail + 1) % IndexMod
  /\ consumer' = "idle"
  /\ UNCHANGED <<head, slots, producer>>

Produce == \/ ProduceBegin
           \/ WriteSlot
           \/ \E m \in Msg : FillSlot(m)
           \/ AbandonSlot
           \/ ProduceCommit

Consume == ConsumeBegin \/ ConsumeCommit

Next == Produce \/ Consume

Spec == Init /\ [][Next]_vars
-------------------------------------------------------------------------------
(* The slots the consumer may be shown, oldest first. *)
Occupied == [i \in 1 .. Sub(head, tail) |-> slots[slot(tail + i - 1)]]

(* The bytes the consumer sees now. *)
View == IF consumer = "holding" THEN slots[slot(tail)] ELSE NoView

(* The inductive core.  Counters never drift further apart than the        *)
(* capacity, a producer past ProduceBegin owns a free slot, a consumer past *)
(* ConsumeBegin an occupied one, and what is occupied is whole.            *)
RingInv ==
  /\ Sub(head, tail) <= Cap
  /\ producer # "idle" => Sub(head, tail) < Cap
  /\ producer = "written" => slots[slot(head)] \in Msg
  /\ consumer = "holding" => Sub(head, tail) > 0
  /\ \A i \in 0 .. Cap - 1 :
        i < Sub(head, tail) => slots[slot(tail + i)] \in Msg

(* No reader sees a half-written frame: the payload view Client.Poll hands *)
(* out (client.go 279-305) is a whole message for as long as it is held,   *)
(* although the producer keeps filling slots of the same array.            *)
ViewIsWhole == consumer = "holding" => View \in Msg

(* A view that is held is never overwritten (Poll promises the payload     *)
(* stays valid until the next Poll).                                       *)
HeldViewIsStable ==
  [][consumer = "holding" /\ consumer' = "holding" => View' = View]_vars

(* The two wrapping counters over shared slots implement a bounded FIFO of *)
(* whole messages: nothing is lost, duplicated, reordered or torn, across  *)
(* every wrap of the counters.                                             *)
Queue == INSTANCE BoundedQueue WITH q <- Occupied, view <- View
RefinesQueue == Queue!Spec
===============================================================================
