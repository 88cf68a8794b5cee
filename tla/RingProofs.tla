------------------------------ MODULE RingProofs ------------------------------
(***************************************************************************)
(* For every capacity, every counter modulus it divides and every set of   *)
(* messages: the ring never shows its consumer a half-written slot, and    *)
(* implements the bounded queue.                                           *)
(***************************************************************************)
EXTENDS Ring, SequenceTheorems, TLAPS

(* Division with remainder by a positive divisor. *)
LEMMA DivMod ==
  ASSUME NEW a \in Int, NEW c \in Nat, c > 0
  PROVE  /\ a % c \in 0 .. c - 1
         /\ a \div c \in Int
         /\ a = c * (a \div c) + (a % c)
BY SMT

(* A nonzero multiple of c is at least c away from zero. *)
LEMMA MultipleIsFar ==
  ASSUME NEW c \in Nat, NEW k \in Int, k >= 1
  PROVE  c * k >= c
BY SMT

(* The remainder is unique. *)
LEMMA ModUnique ==
  ASSUME NEW c \in Nat, c > 0, NEW k \in Int, NEW r \in 0 .. c - 1
  PROVE  (c * k + r) % c = r
<1> DEFINE a == c * k + r
<1>1. a \in Int
  BY SMT
<1>2. /\ a % c \in 0 .. c - 1
      /\ a \div c \in Int
      /\ a = c * (a \div c) + (a % c)
  BY <1>1, DivMod
<1>3. c * (k - (a \div c)) = (a % c) - r
  BY <1>1, <1>2, SMT
<1>4. ~(k - (a \div c) >= 1)
  BY <1>2, <1>3, MultipleIsFar, SMT
<1>5. c * ((a \div c) - k) = r - (a % c)
  BY <1>1, <1>2, SMT
<1>6. ~((a \div c) - k >= 1)
  BY <1>2, <1>5, MultipleIsFar, SMT
<1>7. k = a \div c
  BY <1>2, <1>4, <1>6, SMT
<1> QED
  BY <1>2, <1>7, SMT
(* Adding a multiple of the divisor does not change the remainder. *)
LEMMA ModPeriod ==
  ASSUME NEW c \in Nat, c > 0, NEW k \in Int, NEW x \in Int
  PROVE  (x + c * k) % c = x % c
<1>1. /\ x % c \in 0 .. c - 1
      /\ x \div c \in Int
      /\ x = c * (x \div c) + (x % c)
  BY DivMod
<1>2. /\ (x \div c) + k \in Int
      /\ x + c * k = c * ((x \div c) + k) + (x % c)
  BY <1>1, SMT
<1>3. (c * ((x \div c) + k) + (x % c)) % c = x % c
  BY <1>1, <1>2, ModUnique
<1> QED
  BY <1>2, <1>3

(* Fewer than c steps from the same start never reach the same remainder. *)
LEMMA ModDistinct ==
  ASSUME NEW c \in Nat, c > 0, NEW t \in Int,
         NEW i \in 0 .. c - 1, NEW j \in 0 .. c - 1,
         (t + i) % c = (t + j) % c
  PROVE  i = j
<1>1. /\ (t + i) % c \in 0 .. c - 1
      /\ (t + i) \div c \in Int
      /\ t + i = c * ((t + i) \div c) + ((t + i) % c)
  BY DivMod
<1>2. /\ (t + j) \div c \in Int
      /\ t + j = c * ((t + j) \div c) + ((t + j) % c)
  BY DivMod
<1> DEFINE k == ((t + i) \div c) - ((t + j) \div c)
<1>3. k \in Int /\ -k \in Int /\ c * k = i - j /\ c * (-k) = j - i
  BY <1>1, <1>2, SMT
<1>4. ~(k >= 1)
  BY <1>3, MultipleIsFar, SMT
<1>5. ~(-k >= 1)
  BY <1>3, MultipleIsFar, SMT
<1>6. k = 0
  BY <1>3, <1>4, <1>5, SMT
<1> QED
  BY <1>3, <1>6, SMT

-------------------------------------------------------------------------------
(* The wrapping operations of the counters, without a modulus. *)
LEMMA SubCases ==
  ASSUME NEW a \in Index, NEW b \in Index
  PROVE  Sub(a, b) = IF a >= b THEN a - b ELSE (a - b) + IndexMod
<1>1. IndexMod \in Nat /\ IndexMod > 0
  BY RingAssumption, SMT
<1>2. CASE a >= b
  <2>1. a - b \in 0 .. IndexMod - 1 /\ IndexMod * 0 + (a - b) = a - b
    BY <1>1, <1>2, SMT DEF Index
  <2>2. (IndexMod * 0 + (a - b)) % IndexMod = a - b
    BY <1>1, <2>1, ModUnique, 0 \in Int
  <2> QED
    BY <1>2, <2>1, <2>2 DEF Sub
<1>3. CASE ~(a >= b)
  <2>1. /\ (a - b) + IndexMod \in 0 .. IndexMod - 1
        /\ -1 \in Int
        /\ IndexMod * (-1) + ((a - b) + IndexMod) = a - b
    BY <1>1, <1>3, SMT DEF Index
  <2>2. (IndexMod * (-1) + ((a - b) + IndexMod)) % IndexMod = (a - b) + IndexMod
    BY <1>1, <2>1, ModUnique
  <2> QED
    BY <1>3, <2>1, <2>2 DEF Sub
<1> QED
  BY <1>2, <1>3

(* Incrementing an index wraps at the width of the counter only. *)
LEMMA IncCases ==
  ASSUME NEW a \in Index
  PROVE  (a + 1) % IndexMod = IF a + 1 = IndexMod THEN 0 ELSE a + 1
<1>1. IndexMod \in Nat /\ IndexMod > 0
  BY RingAssumption, SMT
<1>2. CASE a + 1 = IndexMod
  <2>1. 0 \in 0 .. IndexMod - 1 /\ 1 \in Int /\ IndexMod * 1 + 0 = a + 1
    BY <1>1, <1>2, SMT DEF Index
  <2> QED
    BY <1>1, <1>2, <2>1, ModUnique
<1>3. CASE a + 1 # IndexMod
  <2>1. a + 1 \in 0 .. IndexMod - 1 /\ 0 \in Int /\ IndexMod * 0 + (a + 1) = a + 1
    BY <1>1, <1>3, SMT DEF Index
  <2> QED
    BY <1>1, <1>3, <2>1, ModUnique
<1> QED
  BY <1>2, <1>3

(* Masking an index is blind to the wrap of the counters. *)
LEMMA SlotPeriod ==
  ASSUME NEW x \in Int
  PROVE  /\ slot(x + IndexMod) = slot(x)
         /\ slot(x) \in 0 .. Cap - 1
<1>1. Cap \in Nat /\ Cap > 0 /\ IndexMod \in Nat
  BY RingAssumption, SMT
<1>2. PICK k \in 2 .. IndexMod : IndexMod = k * Cap
  BY RingAssumption
<1>3. k \in Int /\ IndexMod = Cap * k
  BY <1>1, <1>2, SMT
<1>4. (x + Cap * k) % Cap = x % Cap
  BY <1>1, <1>3, ModPeriod
<1> QED
  BY <1>1, <1>3, <1>4, DivMod DEF slot

(* Different offsets below the capacity use different slots. *)
LEMMA SlotDistinct ==
  ASSUME NEW t \in Int, NEW i \in 0 .. Cap - 1, NEW j \in 0 .. Cap - 1, i # j
  PROVE  slot(t + i) # slot(t + j)
<1>1. Cap \in Nat /\ Cap > 0
  BY RingAssumption, SMT
<1>2. (t + i) % Cap # (t + j) % Cap
  BY <1>1, ModDistinct
<1> QED
  BY <1>2 DEF slot

(* The slot after the occupied ones is the one head points at. *)
LEMMA HeadSlot ==
  ASSUME NEW a \in Index, NEW b \in Index
  PROVE  slot(b + Sub(a, b)) = slot(a)
<1>1. CASE a >= b
  <2>1. b + Sub(a, b) = a
    BY <1>1, SubCases, SMT DEF Index
  <2> QED
    BY <2>1
<1>2. CASE ~(a >= b)
  <2>1. b + Sub(a, b) = a + IndexMod /\ a \in Int
    BY <1>2, SubCases, RingAssumption, SMT DEF Index
  <2> QED
    BY <2>1, SlotPeriod
<1> QED
  BY <1>1, <1>2

(* Moving the tail shifts the window by one slot. *)
LEMMA TailSlot ==
  ASSUME NEW b \in Index, NEW i \in Int
  PROVE  slot(((b + 1) % IndexMod) + i) = slot(b + (i + 1))
<1>1. CASE b + 1 = IndexMod
  <2>1. /\ ((b + 1) % IndexMod) + i = i
        /\ b + (i + 1) = i + IndexMod
    BY <1>1, IncCases, RingAssumption, SMT DEF Index
  <2> QED
    BY <2>1, SlotPeriod
<1>2. CASE b + 1 # IndexMod
  <2>1. ((b + 1) % IndexMod) + i = b + (i + 1)
    BY <1>2, IncCases, RingAssumption, SMT DEF Index
  <2> QED
    BY <2>1
<1> QED
  BY <1>1, <1>2

(* A commit changes the distance of the counters by one, across a wrap too. *)
LEMMA DistanceSteps ==
  ASSUME NEW a \in Index, NEW b \in Index
  PROVE  /\ Sub(a, b) \in Nat
         /\ Sub(a, b) = 0 <=> a = b
         /\ (a + 1) % IndexMod \in Index
         /\ Sub(a, b) < Cap => Sub((a + 1) % IndexMod, b) = Sub(a, b) + 1
         /\ Sub(a, b) > 0 => Sub(a, (b + 1) % IndexMod) = Sub(a, b) - 1
<1>0. IndexMod \in Nat /\ Cap \in Nat /\ Cap >= 2 /\ Cap < IndexMod
  <2>1. PICK k \in 2 .. IndexMod : IndexMod = k * Cap
    BY RingAssumption
  <2> QED
    BY <2>1, RingAssumption, SMT
<1>1. (a + 1) % IndexMod \in Index /\ (b + 1) % IndexMod \in Index
  BY <1>0, IncCases, SMT DEF Index
<1>2. Sub(a, b) \in Nat /\ (Sub(a, b) = 0 <=> a = b)
  BY <1>0, SubCases, SMT DEF Index
<1>3. ASSUME Sub(a, b) < Cap
      PROVE  Sub((a + 1) % IndexMod, b) = Sub(a, b) + 1
  <2> DEFINE h == (a + 1) % IndexMod
  <2>1. h \in Index /\ h = IF a + 1 = IndexMod THEN 0 ELSE a + 1
    BY <1>1, IncCases
  <2>2. /\ Sub(a, b) = IF a >= b THEN a - b ELSE (a - b) + IndexMod
        /\ Sub(h, b) = IF h >= b THEN h - b ELSE (h - b) + IndexMod
    BY <2>1, SubCases
  <2> HIDE DEF h
  <2>3. Sub(h, b) = Sub(a, b) + 1
    BY <1>0, <1>3, <2>1, <2>2, SMT DEF Index
  <2> QED
    BY <2>3 DEF h
<1>4. ASSUME Sub(a, b) > 0
      PROVE  Sub(a, (b + 1) % IndexMod) = Sub(a, b) - 1
  BY <1>0, <1>1, <1>4, SubCases, IncCases, SMT DEF Index
<1> QED
  BY <1>1, <1>2, <1>3, <1>4
-------------------------------------------------------------------------------
IInv == TypeOK /\ RingInv

(* The slot being filled is none of the occupied ones. *)
LEMMA WindowIntact ==
  ASSUME TypeOK, Sub(head, tail) < Cap, NEW v,
         NEW i \in 0 .. Cap - 1, i < Sub(head, tail)
  PROVE  [slots EXCEPT ![slot(head)] = v][slot(tail + i)] = slots[slot(tail + i)]
<1>1. /\ head \in Index /\ tail \in Index /\ tail \in Int
      /\ i \in Int /\ tail + i \in Int
      /\ Cap \in Nat
      /\ Sub(head, tail) \in Nat
  BY DistanceSteps, RingAssumption, SMT DEF TypeOK, Index
<1>2. Sub(head, tail) \in 0 .. Cap - 1 /\ i # Sub(head, tail)
  BY <1>1, SMT
<1>3. slot(tail + i) # slot(tail + Sub(head, tail))
  BY <1>1, <1>2, SlotDistinct
<1>4. slot(tail + Sub(head, tail)) = slot(head)
  BY <1>1, HeadSlot
<1>5. slot(tail + i) \in 0 .. Cap - 1
  BY <1>1, SlotPeriod
<1> QED
  BY <1>3, <1>4, <1>5 DEF TypeOK

(* Every step keeps the inductive invariant, one step of the proof for     *)
(* each of the ring's operations.                                          *)
LEMMA IInvInductive == IInv /\ [Next]_vars => IInv'
<1> SUFFICES ASSUME IInv, [Next]_vars
             PROVE  IInv'
  OBVIOUS
<1>0. /\ head \in Index /\ tail \in Index
      /\ head \in Int /\ tail \in Int
      /\ Cap \in Nat /\ Cap >= 2
      /\ Sub(head, tail) \in Nat
      /\ slot(head) \in 0 .. Cap - 1
  <2>1. head \in Index /\ tail \in Index
    BY DEF IInv, TypeOK
  <2>2. head \in Int /\ tail \in Int /\ Cap \in Nat /\ Cap >= 2
    BY <2>1, RingAssumption, SMT DEF Index
  <2> QED
    BY <2>1, <2>2, DistanceSteps, SlotPeriod
<1>1. CASE ProduceBegin
  BY <1>0, <1>1, SMT DEF IInv, TypeOK, RingInv, ProduceBegin
<1>2. CASE WriteSlot
  <2>1. TypeOK'
    BY <1>0, <1>2 DEF IInv, TypeOK, WriteSlot
  <2>2. Sub(head, tail) < Cap
    BY <1>2 DEF IInv, RingInv, WriteSlot
  <2>3. ASSUME NEW i \in 0 .. Cap - 1, i < Sub(head, tail)
        PROVE  slots'[slot(tail + i)] \in Msg
    <3>1. slots'[slot(tail + i)] = slots[slot(tail + i)]
      BY <1>2, <2>2, <2>3, WindowIntact DEF IInv, WriteSlot
    <3> QED
      BY <2>3, <3>1 DEF IInv, RingInv
  <2> QED
    BY <1>2, <2>1, <2>2, <2>3 DEF IInv, RingInv, WriteSlot
<1>3. ASSUME NEW m \in Msg, FillSlot(m)
      PROVE  IInv'
  <2>1. TypeOK'
    BY <1>0, <1>3 DEF IInv, TypeOK, FillSlot
  <2>2. Sub(head, tail) < Cap
    BY <1>3 DEF IInv, RingInv, FillSlot
  <2>3. ASSUME NEW i \in 0 .. Cap - 1, i < Sub(head, tail)
        PROVE  slots'[slot(tail + i)] \in Msg
    <3>1. slots'[slot(tail + i)] = slots[slot(tail + i)]
      BY <1>3, <2>2, <2>3, WindowIntact DEF IInv, FillSlot
    <3> QED
      BY <2>3, <3>1 DEF IInv, RingInv
  <2>4. slots'[slot(head)] = m
    BY <1>0, <1>3 DEF IInv, TypeOK, FillSlot
  <2> QED
    BY <1>3, <2>1, <2>2, <2>3, <2>4 DEF IInv, RingInv, FillSlot
<1>4. CASE AbandonSlot
  BY <1>0, <1>4, SMT DEF IInv, TypeOK, RingInv, AbandonSlot
<1>5. CASE ProduceCommit
  <2>1. /\ head' \in Index
        /\ Sub(head, tail) < Cap
        /\ Sub(head', tail) = Sub(head, tail) + 1
    BY <1>0, <1>5, DistanceSteps DEF IInv, RingInv, ProduceCommit
  <2>2. TypeOK'
    BY <1>5, <2>1 DEF IInv, TypeOK, ProduceCommit
  <2>3. ASSUME NEW i \in 0 .. Cap - 1, i < Sub(head, tail) + 1
        PROVE  slots[slot(tail + i)] \in Msg
    <3>1. CASE i = Sub(head, tail)
      BY <1>0, <1>5, <3>1, HeadSlot DEF IInv, RingInv, ProduceCommit
    <3>2. CASE i < Sub(head, tail)
      BY <3>2 DEF IInv, RingInv
    <3> QED
      BY <1>0, <2>3, <3>1, <3>2, SMT
  <2>4. Sub(head', tail) <= Cap /\ Sub(head', tail) > 0
    BY <1>0, <2>1, SMT
  <2> QED
    BY <1>5, <2>1, <2>2, <2>3, <2>4 DEF IInv, RingInv, ProduceCommit
<1>6. CASE ConsumeBegin
  <2>1. Sub(head, tail) > 0
    BY <1>0, <1>6, DistanceSteps, SMT DEF ConsumeBegin
  <2> QED
    BY <1>6, <2>1 DEF IInv, TypeOK, RingInv, ConsumeBegin
<1>7. CASE ConsumeCommit
  <2>1. /\ tail' \in Index
        /\ Sub(head, tail) > 0
        /\ Sub(head, tail') = Sub(head, tail) - 1
    BY <1>0, <1>7, DistanceSteps DEF IInv, RingInv, ConsumeCommit
  <2>2. TypeOK'
    BY <1>7, <2>1 DEF IInv, TypeOK, ConsumeCommit
  <2>3. ASSUME NEW i \in 0 .. Cap - 1, i < Sub(head, tail) - 1
        PROVE  slots[slot(tail' + i)] \in Msg
    <3>1. slot(tail' + i) = slot(tail + (i + 1))
      BY <1>0, <1>7, TailSlot, i \in Int DEF ConsumeCommit
    <3>2. i + 1 \in 0 .. Cap - 1 /\ i + 1 < Sub(head, tail)
      BY <1>0, <2>3, SMT DEF IInv, RingInv
    <3> QED
      BY <3>1, <3>2 DEF IInv, RingInv
  <2>4. /\ Sub(head, tail') <= Cap
        /\ Sub(head, tail) <= Cap
        /\ Sub(head, tail') < Cap
    BY <1>0, <2>1, SMT DEF IInv, RingInv
  <2> QED
    BY <1>7, <2>1, <2>2, <2>3, <2>4 DEF IInv, RingInv, ConsumeCommit
<1>8. CASE UNCHANGED vars
  BY <1>8 DEF IInv, TypeOK, RingInv, vars
<1> QED
  BY <1>1, <1>2, <1>3, <1>4, <1>5, <1>6, <1>7, <1>8 DEF Next, Produce, Consume

(* An initialised ring satisfies the invariant. *)
LEMMA InitIInv == Init => IInv
BY DEF Init, AttachRing, IInv, TypeOK, RingInv

(* The ring keeps its type and its index discipline: the counters are      *)
(* never further apart than the capacity, and every slot between them      *)
(* holds a whole message, whatever the counters AttachRing adopted and     *)
(* however often they wrap (ring.go 96-126).                               *)
THEOREM RingInvariant == Spec => [](TypeOK /\ RingInv)
<1>1. Init => IInv
  BY InitIInv
<1>2. IInv /\ [Next]_vars => IInv'
  BY IInvInductive
<1> QED
  BY <1>1, <1>2, PTL DEF Spec, IInv

(* The slot a consumer holds is a whole message at every moment it is held, *)
(* although the producer writes to the same array (client.go 279-305).     *)
THEOREM ConsumerNeverSeesTornSlot == Spec => []ViewIsWhole
<1>1. IInv => ViewIsWhole
  <2> SUFFICES ASSUME IInv, consumer = "holding"
               PROVE  slots[slot(tail)] \in Msg
    BY DEF ViewIsWhole, View
  <2>1. 0 \in 0 .. Cap - 1 /\ 0 < Sub(head, tail) /\ tail + 0 = tail
    BY RingAssumption, SMT DEF IInv, TypeOK, RingInv, Index
  <2> QED
    BY <2>1 DEF IInv, RingInv
<1>2. Spec => []IInv
  BY RingInvariant, PTL DEF IInv
<1> QED
  BY <1>1, <1>2, PTL

(* A held view never changes under its reader (client.go 276-278).         *)
THEOREM HeldViewStays == Spec => HeldViewIsStable
<1>1. IInv /\ [Next]_vars
        => [consumer = "holding" /\ consumer' = "holding" => View' = View]_vars
  <2> SUFFICES ASSUME IInv, Next, consumer = "holding", consumer' = "holding"
               PROVE  View' = View
    BY DEF vars
  <2>1. 0 \in 0 .. Cap - 1 /\ 0 < Sub(head, tail) /\ tail + 0 = tail
    BY RingAssumption, SMT DEF IInv, TypeOK, RingInv, Index
  <2>2. TypeOK
    BY DEF IInv
  <2>3. CASE WriteSlot
    <3>1. Sub(head, tail) < Cap
      BY <2>3 DEF IInv, RingInv, WriteSlot
    <3>2. slots'[slot(tail + 0)] = slots[slot(tail + 0)]
      BY <2>1, <2>2, <2>3, <3>1, WindowIntact DEF WriteSlot
    <3> QED
      BY <2>1, <2>3, <3>2 DEF WriteSlot, View
  <2>4. ASSUME NEW m \in Msg, FillSlot(m)
        PROVE  View' = View
    <3>1. Sub(head, tail) < Cap
      BY <2>4 DEF IInv, RingInv, FillSlot
    <3>2. slots'[slot(tail + 0)] = slots[slot(tail + 0)]
      BY <2>1, <2>2, <2>4, <3>1, WindowIntact DEF FillSlot
    <3> QED
      BY <2>1, <2>4, <3>2 DEF FillSlot, View
  <2>5. CASE ProduceBegin \/ AbandonSlot \/ ProduceCommit \/ Consume
    BY <2>5 DEF ProduceBegin, AbandonSlot, ProduceCommit, Consume,
                ConsumeBegin, ConsumeCommit, View
  <2> QED
    BY <2>3, <2>4, <2>5 DEF Next, Produce
<1>2. Spec => []IInv
  BY RingInvariant, PTL DEF IInv
<1> QED
  BY <1>1, <1>2, PTL DEF Spec, HeldViewIsStable
-------------------------------------------------------------------------------
(* The abstract queue as a sequence. *)
LEMMA FunctionIsSeq ==
  ASSUME NEW S, NEW n \in Nat, NEW f \in [1 .. n -> S]
  PROVE  f \in Seq(S) /\ Len(f) = n
<1>1. f \in Seq(S)
  BY SeqDef
<1>2. Len(f) \in Nat /\ 1 .. Len(f) = 1 .. n
  BY <1>1, LenProperties
<1> QED
  BY <1>1, <1>2, SMT

(* The occupied slots, in order, are a sequence of messages. *)
LEMMA OccupiedIsSeq ==
  ASSUME IInv
  PROVE  /\ Sub(head, tail) \in Nat
         /\ Occupied \in [1 .. Sub(head, tail) -> Msg]
         /\ Occupied \in Seq(Msg)
         /\ Len(Occupied) = Sub(head, tail)
         /\ \A i \in 1 .. Sub(head, tail) : Occupied[i] = slots[slot(tail + (i - 1))]
<1>1. /\ Sub(head, tail) \in Nat /\ tail \in Int /\ Cap \in Nat
      /\ Sub(head, tail) <= Cap
  <2>1. head \in Index /\ tail \in Index
    BY DEF IInv, TypeOK
  <2> QED
    BY <2>1, DistanceSteps, RingAssumption, SMT DEF IInv, RingInv, Index
<1>2. ASSUME NEW i \in 1 .. Sub(head, tail)
      PROVE  /\ slots[slot(tail + i - 1)] \in Msg
             /\ tail + i - 1 = tail + (i - 1)
  <2>1. /\ i - 1 \in 0 .. Cap - 1 /\ i - 1 < Sub(head, tail)
        /\ tail + i - 1 = tail + (i - 1)
    BY <1>1, <1>2, SMT
  <2> QED
    BY <2>1 DEF IInv, RingInv
<1>3. Occupied \in [1 .. Sub(head, tail) -> Msg]
  BY <1>2 DEF Occupied
<1>4. Occupied \in Seq(Msg) /\ Len(Occupied) = Sub(head, tail)
  BY <1>1, <1>3, FunctionIsSeq
<1>5. \A i \in 1 .. Sub(head, tail) : Occupied[i] = slots[slot(tail + (i - 1))]
  BY <1>2 DEF Occupied
<1> QED
  BY <1>1, <1>3, <1>4, <1>5

(* The same as a state predicate, so that it can be used of a successor. *)
OccupiedFacts ==
  /\ Occupied \in Seq(Msg)
  /\ Len(Occupied) = Sub(head, tail)
  /\ \A i \in 1 .. Sub(head, tail) : Occupied[i] = slots[slot(tail + (i - 1))]

(* The facts about the occupied slots that the refinement needs. *)
LEMMA OccupiedFactsHold == IInv => OccupiedFacts
BY OccupiedIsSeq DEF OccupiedFacts

(* Steps that leave every occupied slot alone leave the queue alone. *)
LEMMA OccupiedUnchanged ==
  ASSUME IInv, IInv', UNCHANGED <<head, tail>>,
         \A i \in 0 .. Cap - 1 : i < Sub(head, tail)
            => slots'[slot(tail + i)] = slots[slot(tail + i)]
  PROVE  Occupied' = Occupied
<1>1. /\ Sub(head, tail) \in Nat /\ Cap \in Nat /\ Sub(head, tail) <= Cap
      /\ tail \in Int
  BY OccupiedIsSeq, RingAssumption, SMT DEF IInv, TypeOK, RingInv, Index
<1>2. ASSUME NEW i \in 1 .. Sub(head, tail)
      PROVE  slots'[slot(tail + i - 1)] = slots[slot(tail + i - 1)]
  <2>1. /\ i - 1 \in 0 .. Cap - 1 /\ i - 1 < Sub(head, tail)
        /\ tail + i - 1 = tail + (i - 1)
    BY <1>1, <1>2, SMT
  <2> QED
    BY <2>1
<1> QED
  BY <1>2 DEF Occupied

(* A commit of the producer publishes its message at the end of the queue. *)
LEMMA CommitPublishes ==
  ASSUME IInv, IInv', ProduceCommit
  PROVE  \E m \in Msg : Queue!Publish(m)
<1> DEFINE d == Sub(head, tail)
           m == slots[slot(head)]
<1>1. /\ head \in Index /\ tail \in Index /\ d < Cap /\ m \in Msg
      /\ d \in Nat /\ Cap \in Nat /\ Sub(head', tail') = d + 1
  <2>1. head \in Index /\ tail \in Index
    BY DEF IInv, TypeOK
  <2>2. d < Cap /\ m \in Msg
    BY DEF IInv, RingInv, ProduceCommit
  <2> QED
    BY <2>1, <2>2, DistanceSteps, RingAssumption DEF ProduceCommit
<1>2. /\ Occupied \in Seq(Msg) /\ Len(Occupied) = d
      /\ \A i \in 1 .. d : Occupied[i] = slots[slot(tail + (i - 1))]
  BY OccupiedIsSeq
<1>3. /\ Occupied' \in Seq(Msg) /\ Len(Occupied') = d + 1
      /\ \A i \in 1 .. d + 1 : Occupied'[i] = slots[slot(tail + (i - 1))]
  <2>1. /\ Occupied' \in Seq(Msg) /\ Len(Occupied') = Sub(head', tail')
        /\ \A i \in 1 .. Sub(head', tail') :
              Occupied'[i] = slots'[slot(tail' + (i - 1))]
    <3>1. OccupiedFacts'
      BY OccupiedFactsHold, PTL
    <3> QED
      BY <3>1 DEF OccupiedFacts
  <2> QED
    BY <1>1, <2>1 DEF ProduceCommit
<1>4. slot(tail + ((d + 1) - 1)) = slot(head)
  <2>1. (d + 1) - 1 = d
    BY <1>1, SMT
  <2> QED
    BY <1>1, <2>1, HeadSlot
<1> HIDE DEF d, m
<1>5. /\ Append(Occupied, m) \in Seq(Msg)
      /\ Len(Append(Occupied, m)) = d + 1
      /\ \A i \in 1 .. d : Append(Occupied, m)[i] = Occupied[i]
      /\ Append(Occupied, m)[d + 1] = m
  BY <1>1, <1>2, AppendProperties
<1>6. ASSUME NEW i \in 1 .. d + 1
      PROVE  Occupied'[i] = Append(Occupied, m)[i]
  <2>1. CASE i = d + 1
    BY <1>3, <1>4, <1>5, <1>6, <2>1 DEF m
  <2>2. CASE i # d + 1
    <3>1. i \in 1 .. d
      BY <1>1, <1>6, <2>2, SMT
    <3> QED
      BY <1>2, <1>3, <1>5, <3>1
  <2> QED
    BY <2>1, <2>2
<1>7. Occupied' = Append(Occupied, m)
  BY <1>3, <1>5, <1>6, SeqEqual
<1>8. View' = View
  BY DEF ProduceCommit, View
<1> QED
  BY <1>1, <1>2, <1>7, <1>8 DEF Queue!Publish

(* A begin of the consumer takes the first message of the queue. *)
LEMMA BeginTakes ==
  ASSUME IInv, IInv', ConsumeBegin
  PROVE  Queue!Take
<1>1. Occupied' = Occupied
  BY DEF ConsumeBegin, Occupied
<1>2. Sub(head, tail) > 0 /\ tail \in Int
  BY SMT DEF ConsumeBegin, IInv, RingInv, TypeOK, Index
<1>3. /\ Sub(head, tail) \in Nat
      /\ Occupied \in Seq(Msg) /\ Len(Occupied) = Sub(head, tail)
      /\ \A i \in 1 .. Sub(head, tail) : Occupied[i] = slots[slot(tail + (i - 1))]
  BY OccupiedIsSeq
<1>4. Occupied # <<>> /\ Head(Occupied) = Occupied[1]
  BY <1>2, <1>3, SMT
<1>5. 1 \in 1 .. Sub(head, tail) /\ tail + (1 - 1) = tail
  BY <1>2, <1>3, SMT
<1>6. Head(Occupied) = slots[slot(tail)]
  BY <1>3, <1>4, <1>5
<1>7. View = NoView /\ View' = slots[slot(tail)]
  BY DEF ConsumeBegin, View
<1> QED
  BY <1>1, <1>4, <1>6, <1>7 DEF Queue!Take

(* A commit of the consumer removes the message it took. *)
LEMMA CommitReleases ==
  ASSUME IInv, IInv', ConsumeCommit
  PROVE  Queue!Release
<1> DEFINE d == Sub(head, tail)
<1>1. /\ head \in Index /\ tail \in Index /\ d > 0
      /\ d \in Nat /\ Sub(head', tail') = d - 1
  <2>1. head \in Index /\ tail \in Index
    BY DEF IInv, TypeOK
  <2>2. d > 0
    BY DEF IInv, RingInv, ConsumeCommit
  <2> QED
    BY <2>1, <2>2, DistanceSteps DEF ConsumeCommit
<1>2. /\ Occupied \in Seq(Msg) /\ Len(Occupied) = d
      /\ \A i \in 1 .. d : Occupied[i] = slots[slot(tail + (i - 1))]
  BY OccupiedIsSeq
<1>3. /\ Occupied' \in Seq(Msg) /\ Len(Occupied') = d - 1
      /\ \A i \in 1 .. d - 1 : Occupied'[i] = slots[slot(tail' + (i - 1))]
  <2>1. /\ Occupied' \in Seq(Msg) /\ Len(Occupied') = Sub(head', tail')
        /\ \A i \in 1 .. Sub(head', tail') :
              Occupied'[i] = slots'[slot(tail' + (i - 1))]
    <3>1. OccupiedFacts'
      BY OccupiedFactsHold, PTL
    <3> QED
      BY <3>1 DEF OccupiedFacts
  <2> QED
    BY <1>1, <2>1 DEF ConsumeCommit
<1>4. Occupied # <<>>
  BY <1>1, <1>2, EmptySeq, SMT
<1>5. /\ Tail(Occupied) \in Seq(Msg) /\ Len(Tail(Occupied)) = d - 1
      /\ \A i \in 1 .. d - 1 : Tail(Occupied)[i] = Occupied[i + 1]
  BY <1>2, <1>4, HeadTailProperties
<1>6. ASSUME NEW i \in 1 .. d - 1
      PROVE  Occupied'[i] = Tail(Occupied)[i]
  <2>1. i + 1 \in 1 .. d /\ i - 1 \in Int /\ (i - 1) + 1 = (i + 1) - 1
    BY <1>1, <1>6, SMT
  <2>2. slot(tail' + (i - 1)) = slot(tail + ((i - 1) + 1))
    BY <1>1, <2>1, TailSlot DEF ConsumeCommit
  <2> QED
    BY <1>2, <1>3, <1>5, <2>1, <2>2
<1>7. Occupied' = Tail(Occupied)
  BY <1>3, <1>5, <1>6, SeqEqual
<1>8. View # NoView /\ View' = NoView
  <2>1. 0 \in 0 .. Cap - 1 /\ 0 < Sub(head, tail) /\ tail + 0 = tail
    BY <1>1, RingAssumption, SMT DEF Index
  <2>2. slots[slot(tail)] \in Msg
    BY <2>1 DEF IInv, RingInv
  <2> QED
    BY <2>2, RingAssumption DEF ConsumeCommit, View
<1> QED
  BY <1>7, <1>8 DEF Queue!Release

(* The ring implements the bounded queue: commits publish and release      *)
(* whole messages in FIFO order and every other step is invisible, for     *)
(* every capacity, across every wrap of the counters (ring.go 46-126).     *)
THEOREM RingRefinesQueue == Spec => RefinesQueue
<1>1. Init => Queue!Init
  <2> SUFFICES ASSUME Init
               PROVE  Queue!Init
    OBVIOUS
  <2>1. IInv
    BY InitIInv
  <2>2. Occupied \in [1 .. Sub(head, tail) -> Msg] /\ Sub(head, tail) \in Nat
    BY <2>1, OccupiedIsSeq
  <2>3. Sub(head, tail) \in 0 .. Cap
    BY <2>1, <2>2, RingAssumption, SMT DEF IInv, RingInv
  <2>4. View = NoView
    BY DEF Init, View
  <2> QED
    BY <2>2, <2>3, <2>4 DEF Queue!Init
<1>2. IInv /\ IInv' /\ [Next]_vars => [Queue!Next]_(Queue!vars)
  <2> SUFFICES ASSUME IInv, IInv', [Next]_vars
               PROVE  [Queue!Next]_(Queue!vars)
    OBVIOUS
  <2>0. TypeOK
    BY DEF IInv
  <2>1. CASE ProduceBegin \/ AbandonSlot
    BY <2>1 DEF ProduceBegin, AbandonSlot, Occupied, View, Queue!vars
  <2>2. CASE WriteSlot
    <3>1. Sub(head, tail) < Cap
      BY <2>2 DEF IInv, RingInv, WriteSlot
    <3>2. \A i \in 0 .. Cap - 1 : i < Sub(head, tail)
             => slots'[slot(tail + i)] = slots[slot(tail + i)]
      BY <2>0, <2>2, <3>1, WindowIntact DEF WriteSlot
    <3>3. Occupied' = Occupied
      BY <2>2, <3>2, OccupiedUnchanged DEF WriteSlot
    <3>4. View' = View
      <4>1. CASE consumer = "holding"
        <5>1. 0 \in 0 .. Cap - 1 /\ 0 < Sub(head, tail) /\ tail + 0 = tail
          BY <4>1, RingAssumption, SMT DEF IInv, TypeOK, RingInv, Index
        <5> QED
          BY <2>2, <3>2, <5>1 DEF WriteSlot, View
      <4> QED
        BY <2>2, <4>1 DEF WriteSlot, View
    <3> QED
      BY <3>3, <3>4 DEF Queue!vars
  <2>3. ASSUME NEW m \in Msg, FillSlot(m)
        PROVE  [Queue!Next]_(Queue!vars)
    <3>1. Sub(head, tail) < Cap
      BY <2>3 DEF IInv, RingInv, FillSlot
    <3>2. \A i \in 0 .. Cap - 1 : i < Sub(head, tail)
             => slots'[slot(tail + i)] = slots[slot(tail + i)]
      BY <2>0, <2>3, <3>1, WindowIntact DEF FillSlot
    <3>3. Occupied' = Occupied
      BY <2>3, <3>2, OccupiedUnchanged DEF FillSlot
    <3>4. View' = View
      <4>1. CASE consumer = "holding"
        <5>1. 0 \in 0 .. Cap - 1 /\ 0 < Sub(head, tail) /\ tail + 0 = tail
          BY <4>1, RingAssumption, SMT DEF IInv, TypeOK, RingInv, Index
        <5> QED
          BY <2>3, <3>2, <5>1 DEF FillSlot, View
      <4> QED
        BY <2>3, <4>1 DEF FillSlot, View
    <3> QED
      BY <3>3, <3>4 DEF Queue!vars
  <2>4. CASE ProduceCommit
    BY <2>4, CommitPublishes DEF Queue!Next
  <2>5. CASE ConsumeBegin
    BY <2>5, BeginTakes DEF Queue!Next
  <2>6. CASE ConsumeCommit
    BY <2>6, CommitReleases DEF Queue!Next
  <2>7. CASE UNCHANGED vars
    BY <2>7 DEF vars, Occupied, View, Queue!vars
  <2> QED
    BY <2>1, <2>2, <2>3, <2>4, <2>5, <2>6, <2>7 DEF Next, Produce, Consume
<1>3. Spec => []IInv
  BY RingInvariant, PTL DEF IInv
<1> QED
  BY <1>1, <1>2, <1>3, PTL DEF Spec, RefinesQueue, Queue!Spec
===============================================================================
