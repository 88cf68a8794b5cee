----------------------------- MODULE SelectorProofs ----------------------------
(***************************************************************************)
(* Proofs about Selector, for any number of concurrent invocations, any    *)
(* width of the cursor and any scrambling function.                        *)
(*                                                                         *)
(* The inductive invariant says what the cursor counts: pick i was served  *)
(* with ticket i - 1 modulo the width of the cursor, whoever made it.      *)
(***************************************************************************)
EXTENDS Selector, TLAPS

(* Pick i had ticket i - 1; the cursor is the next ticket. *)
PickInv ==
  /\ cursor = Len(picks) % CursorMod
  /\ \A i \in 1 .. Len(picks) :
       /\ picks[i].count # 0
       /\ picks[i].selected = ((i - 1) % CursorMod) % picks[i].count

(* What an invocation has established at each point of Handle. *)
CallInv ==
  \A c \in Calls :
    /\ call[c].pc # "returned" => call[c].status = "none"
    /\ call[c].pc \in {"picked", "passed"} => call[c].selected < call[c].req.count

SelectorInv == TypeOK /\ PickInv /\ CallInv /\ SelectedInRange

-------------------------------------------------------------------------------
(* A natural number is its quotient times the divisor plus its remainder. *)
LEMMA DivMod ==
  ASSUME NEW a \in Nat, NEW n \in Nat \ {0}
  PROVE  /\ a % n \in 0 .. n - 1
         /\ a \div n \in Nat
         /\ a = n * (a \div n) + (a % n)
  BY Z3

(* Numbers less than n apart have different remainders modulo n. *)
LEMMA ModDistinct ==
  ASSUME NEW a \in Nat, NEW b \in Nat, NEW n \in Nat \ {0}, a < b, b - a < n
  PROVE  a % n # b % n
<1>1. SUFFICES ASSUME a % n = b % n PROVE FALSE
  OBVIOUS
<1> DEFINE q == a \div n
           p == b \div n
<1>2. a = n * q + (a % n) /\ b = n * p + (a % n) /\ q \in Nat /\ p \in Nat
  BY <1>1, DivMod
<1>3. n * (p - q) = b - a
  BY <1>2, DivMod
<1>4. p - q >= 1 \/ p - q <= 0
  BY <1>2
<1>5. CASE p - q >= 1
  <2>1. n * (p - q) >= n BY <1>5, <1>2
  <2> QED BY <1>3, <2>1
<1>6. CASE p - q <= 0
  <2>1. n * (p - q) <= 0 BY <1>6, <1>2
  <2> QED BY <1>3, <2>1
<1> QED BY <1>4, <1>5, <1>6

(* Adding a multiple of n does not change the remainder modulo n. *)
LEMMA AddMultiple ==
  ASSUME NEW x \in Nat, NEW q \in Nat, NEW n \in Nat \ {0}
  PROVE  (n * q + x) % n = x % n
<1> DEFINE y == n * q + x
           p == x \div n
           s == x % n
           u == y \div n
           v == y % n
           w == q + p
<1>1. y \in Nat
  OBVIOUS
<1>2. x = n * p + s /\ s \in 0 .. n - 1 /\ p \in Nat
  BY DivMod
<1>3. y = n * u + v /\ v \in 0 .. n - 1 /\ u \in Nat
  <2> HIDE DEF y
  <2> QED BY <1>1, DivMod
<1>4. y = n * q + x
  OBVIOUS
<1> HIDE DEF p, s, u, v, y
<1>5. n * w = n * q + n * p /\ w \in Nat
  BY <1>2
<1>6. n * w + s = n * u + v
  BY <1>2, <1>3, <1>4, <1>5
<1> HIDE DEF w
<1>7. n * (w - u) = v - s /\ n * (u - w) = s - v
  BY <1>2, <1>3, <1>5, <1>6
<1>8. ~(w - u >= 1)
  <2>1. SUFFICES ASSUME w - u >= 1 PROVE FALSE
    OBVIOUS
  <2>2. n * (w - u) >= n
    BY <2>1, <1>3, <1>5
  <2> QED BY <2>2, <1>2, <1>3, <1>7
<1>9. ~(u - w >= 1)
  <2>1. SUFFICES ASSUME u - w >= 1 PROVE FALSE
    OBVIOUS
  <2>2. n * (u - w) >= n
    BY <2>1, <1>3, <1>5
  <2> QED BY <2>2, <1>2, <1>3, <1>7
<1>10. s = v
  BY <1>2, <1>3, <1>5, <1>7, <1>8, <1>9
<1> QED BY <1>10 DEF s, v, y

(* Wrapping at a multiple of n does not change remainders modulo n. *)
LEMMA ModOfMod ==
  ASSUME NEW x \in Nat, NEW m \in Nat \ {0}, NEW n \in Nat \ {0}, m % n = 0
  PROVE  (x % m) % n = x % n
<1> DEFINE k == m \div n
           q == x \div m
           r == x % m
           h == k * q
<1>1. m = n * k /\ k \in Nat
  BY DivMod
<1>2. x = m * q + r /\ q \in Nat /\ r \in Nat
  BY DivMod
<1> HIDE DEF k, q, r
<1>3. h \in Nat /\ m * q = n * h
  BY <1>1, <1>2
<1> HIDE DEF h
<1>4. (n * h + r) % n = r % n
  BY <1>2, <1>3, AddMultiple
<1>5. x = n * h + r
  BY <1>2, <1>3
<1> QED BY <1>4, <1>5 DEF r

(* The remainder counts up with its argument and wraps. *)
LEMMA SuccMod ==
  ASSUME NEW a \in Nat, NEW m \in Nat \ {0}
  PROVE  (a + 1) % m = ((a % m) + 1) % m
<1> DEFINE q == a \div m
           r == a % m
<1>1. a = m * q + r /\ q \in Nat /\ r \in 0 .. m - 1
  BY DivMod
<1> HIDE DEF q, r
<1>2. (m * q + (r + 1)) % m = (r + 1) % m
  <2>1. r + 1 \in Nat
    BY <1>1
  <2> DEFINE x == r + 1
  <2>2. x \in Nat
    BY <2>1
  <2> HIDE DEF x
  <2>3. (m * q + x) % m = x % m
    BY <1>1, <2>2, AddMultiple
  <2> QED BY <2>3 DEF x
<1> QED BY <1>1, <1>2 DEF r

-------------------------------------------------------------------------------
(* The invariant holds initially. *)
LEMMA InitInv == Init => SelectorInv
<1> SUFFICES ASSUME Init PROVE SelectorInv
  OBVIOUS
<1> USE SelectorAssumption
<1>1. TypeOK
  <2>1. PICK r \in Request, t \in Trace :
          call = [c \in Calls |-> [Invocation(r, TRUE, t) EXCEPT !.pc = "idle"]]
    BY DEF Init
  <2>2. [Invocation(r, TRUE, t) EXCEPT !.pc = "idle"] \in Call
    BY DEF Call, Invocation, Pc, Status
  <2>3. call \in [Calls -> Call]
    BY <2>1, <2>2
  <2>4. picks \in Seq([count : Nat, selected : Nat])
    BY DEF Init
  <2>5. cursor \in 0 .. CursorMod - 1
    BY DEF Init
  <2> QED BY <2>3, <2>4, <2>5 DEF TypeOK
<1>2. PickInv
  BY DEF Init, PickInv
<1>3. CallInv /\ SelectedInRange
  BY SMTT(20) DEF Init, CallInv, SelectedInRange, Invocation
<1> QED BY <1>1, <1>2, <1>3 DEF SelectorInv

(* A step that gives one invocation a new state is type correct. *)
LEMMA CallStep ==
  ASSUME TypeOK, NEW c \in Calls, NEW k \in Call, call' = [call EXCEPT ![c] = k],
         cursor' \in 0 .. CursorMod - 1, picks' \in Seq([count : Nat, selected : Nat])
  PROVE  TypeOK'
  BY DEF TypeOK

(* A balanced pick extends the history by the ticket the cursor shows. *)
LEMMA PickStep ==
  ASSUME TypeOK, PickInv, NEW n \in Nat \ {0}, AdvanceCursor,
         picks' = Append(picks, [count |-> n, selected |-> cursor % n])
  PROVE  /\ cursor' \in 0 .. CursorMod - 1
         /\ picks' \in Seq([count : Nat, selected : Nat])
         /\ cursor % n \in 0 .. n - 1
         /\ PickInv'
<1> USE SelectorAssumption DEF TypeOK
<1>1. cursor \in Nat /\ Len(picks) \in Nat
  OBVIOUS
<1>2. cursor % n \in 0 .. n - 1
  BY <1>1, DivMod
<1>3. cursor' \in 0 .. CursorMod - 1
  <2>1. cursor + 1 \in Nat
    BY <1>1
  <2> QED BY <2>1, DivMod DEF AdvanceCursor
<1>4. picks' \in Seq([count : Nat, selected : Nat]) /\ Len(picks') = Len(picks) + 1
  BY <1>2
<1>5. cursor' = Len(picks') % CursorMod
  BY <1>1, <1>4, SuccMod DEF PickInv, AdvanceCursor
<1>6. ASSUME NEW i \in 1 .. Len(picks')
      PROVE  /\ picks'[i].count # 0
             /\ picks'[i].selected = ((i - 1) % CursorMod) % picks'[i].count
  <2>1. CASE i \in 1 .. Len(picks)
    BY <2>1, <1>1, <1>2 DEF PickInv
  <2>2. CASE i = Len(picks) + 1
    <3>1. picks'[i] = [count |-> n, selected |-> cursor % n] /\ i - 1 = Len(picks)
      BY <2>2, <1>1, <1>2
    <3>2. picks'[i].count = n /\ picks'[i].selected = cursor % n
      BY <3>1
    <3>3. cursor = (i - 1) % CursorMod
      BY <3>1 DEF PickInv
    <3> QED BY <3>2, <3>3
  <2> QED BY <2>1, <2>2, <1>1, <1>4
<1> QED BY <1>2, <1>3, <1>4, <1>5, <1>6 DEF PickInv

(* Every step of every invocation keeps the invariant. *)
LEMMA StepInv == SelectorInv /\ [Next]_vars => SelectorInv'
<1> SUFFICES ASSUME SelectorInv, [Next]_vars PROVE SelectorInv'
  OBVIOUS
<1> USE SelectorAssumption DEF SelectorInv
<1>1. CASE UNCHANGED vars
  BY <1>1 DEF vars, TypeOK, PickInv, CallInv, SelectedInRange
<1>2. ASSUME NEW c \in Calls, NEW r \in Request, NEW stageOK \in BOOLEAN, NEW t \in Trace,
             Invoke(c, r, stageOK, t)
      PROVE  SelectorInv'
  <2>1. TypeOK'
    BY <1>2 DEF Invoke, Invocation, TypeOK, Call, Pc, Status
  <2>2. PickInv'
    BY <1>2 DEF Invoke, PickInv
  <2>3. CallInv' /\ SelectedInRange'
    BY <1>2 DEF Invoke, Invocation, TypeOK, CallInv, SelectedInRange
  <2> QED BY <2>1, <2>2, <2>3
<1>3. ASSUME NEW c \in Calls, NEW status \in Status \ {"none", "OK"},
             Finish(c, status), UNCHANGED <<cursor, picks>>
      PROVE  SelectorInv'
  <2>1. TypeOK'
    <3> DEFINE k == [call[c] EXCEPT !.pc = "returned", !.status = status]
    <3>1. k \in Call /\ call' = [call EXCEPT ![c] = k]
      BY <1>3 DEF Finish, TypeOK, Call, Pc
    <3> HIDE DEF k
    <3> QED BY <3>1, <1>3, CallStep DEF TypeOK
  <2>2. PickInv'
    BY <1>3 DEF PickInv
  <2>3. CallInv' /\ SelectedInRange'
    BY <1>3 DEF Finish, TypeOK, Call, CallInv, SelectedInRange, Status
  <2> QED BY <2>1, <2>2, <2>3
<1>4. ASSUME NEW c \in Calls, RejectStage(c) \/ CancelledOnEntry(c) \/ RejectBody(c)
                               \/ CancelledAfterPick(c)
      PROVE  SelectorInv'
  <2>1. CASE RejectStage(c)
    BY <2>1, <1>3 DEF RejectStage, Status
  <2>2. CASE CancelledOnEntry(c)
    BY <2>2, <1>3 DEF CancelledOnEntry, Status
  <2>3. CASE RejectBody(c)
    BY <2>3, <1>3 DEF RejectBody, Status
  <2>4. CASE CancelledAfterPick(c)
    BY <2>4, <1>3 DEF CancelledAfterPick, Status
  <2> QED BY <1>4, <2>1, <2>2, <2>3, <2>4
<1>5. ASSUME NEW c \in Calls, Enter(c) \/ PassFlag(c)
      PROVE  SelectorInv'
  <2>1. PICK p \in {"entered", "passed"} :
          /\ call' = [call EXCEPT ![c].pc = p]
          /\ p = "passed" => call[c].pc = "picked"
          /\ call[c].pc # "returned"
          /\ UNCHANGED <<cursor, picks>>
    BY <1>5 DEF Enter, PassFlag
  <2>2. TypeOK'
    <3> DEFINE k == [call[c] EXCEPT !.pc = p]
    <3>1. k \in Call /\ call' = [call EXCEPT ![c] = k]
      BY <2>1 DEF TypeOK, Call, Pc
    <3> HIDE DEF k
    <3> QED BY <3>1, <2>1, CallStep DEF TypeOK
  <2>3. PickInv'
    BY <2>1 DEF PickInv
  <2>4. CallInv' /\ SelectedInRange'
    BY <2>1 DEF TypeOK, Call, CallInv, SelectedInRange
  <2> QED BY <2>2, <2>3, <2>4
<1>6. ASSUME NEW c \in Calls, PickBalanced(c)
      PROVE  SelectorInv'
  <2> DEFINE n == call[c].req.count
  <2>1. n \in Nat \ {0}
    BY <1>6 DEF PickBalanced, Decodes, TypeOK, Call
  <2>2. AdvanceCursor /\ picks' = Append(picks, [count |-> n, selected |-> cursor % n])
    BY <1>6 DEF PickBalanced, BalancedPick
  <2>3. call' = [call EXCEPT ![c].pc = "picked", ![c].selected = cursor % n]
    BY <1>6 DEF PickBalanced, BalancedPick
  <2>4. /\ cursor' \in 0 .. CursorMod - 1
        /\ picks' \in Seq([count : Nat, selected : Nat])
        /\ cursor % n \in 0 .. n - 1
        /\ PickInv'
    BY <2>1, <2>2, PickStep
  <2>5. TypeOK'
    <3> DEFINE k == [call[c] EXCEPT !.pc = "picked", !.selected = cursor % n]
    <3>1. k \in Call
      <4>1. call[c] \in Call /\ cursor % n \in Nat
        BY <2>1, <2>4 DEF TypeOK
      <4> HIDE DEF n
      <4> QED BY <4>1 DEF Call, Pc
    <3>2. call' = [call EXCEPT ![c] = k]
      BY <2>3 DEF TypeOK
    <3> HIDE DEF k
    <3> QED BY <3>1, <3>2, <2>4, CallStep
  <2>6. CallInv' /\ SelectedInRange'
    <3>1. cursor % n < n /\ cursor % n \in Nat
      BY <2>1, <2>4
    <3>2. call[c].pc = "entered"
      BY <1>6 DEF PickBalanced
    <3> DEFINE x == cursor % n
    <3>3. x < n /\ x \in Nat /\ call' = [call EXCEPT ![c].pc = "picked", ![c].selected = x]
      BY <2>3, <3>1
    <3> HIDE DEF x
    <3> QED BY <3>2, <3>3, SMTT(20) DEF TypeOK, Call, CallInv, SelectedInRange
  <2> QED BY <2>4, <2>5, <2>6
<1>7. ASSUME NEW c \in Calls, PickRandomized(c)
      PROVE  SelectorInv'
  <2> DEFINE n == call[c].req.count
             m == mix64[call[c].trace]
  <2>1. n \in Nat \ {0} /\ m \in Nat
    BY <1>7 DEF PickRandomized, Decodes, TypeOK, Call
  <2>2. m % n \in 0 .. n - 1
    BY <2>1, DivMod
  <2>3. call' = [call EXCEPT ![c].pc = "picked", ![c].selected = m % n]
    BY <1>7 DEF PickRandomized, RandomizedPick
  <2>4. PickInv'
    BY <1>7 DEF PickRandomized, PickInv
  <2>5. TypeOK'
    <3> DEFINE k == [call[c] EXCEPT !.pc = "picked", !.selected = m % n]
    <3>1. k \in Call
      <4>1. call[c] \in Call /\ m % n \in Nat
        BY <2>1, <2>2 DEF TypeOK
      <4> HIDE DEF n, m
      <4> QED BY <4>1 DEF Call, Pc
    <3>2. call' = [call EXCEPT ![c] = k]
      BY <2>3 DEF TypeOK
    <3> HIDE DEF k
    <3> QED BY <3>1, <3>2, <1>7, CallStep DEF PickRandomized, TypeOK
  <2>6. CallInv' /\ SelectedInRange'
    <3>1. m % n < n /\ m % n \in Nat
      BY <2>1, <2>2
    <3>2. call[c].pc = "entered"
      BY <1>7 DEF PickRandomized
    <3> DEFINE x == m % n
    <3>3. x < n /\ x \in Nat /\ call' = [call EXCEPT ![c].pc = "picked", ![c].selected = x]
      BY <2>3, <3>1
    <3> HIDE DEF x, m
    <3> QED BY <3>2, <3>3, SMTT(20) DEF TypeOK, Call, CallInv, SelectedInRange
  <2> QED BY <2>4, <2>5, <2>6
<1>8. ASSUME NEW c \in Calls, Respond(c)
      PROVE  SelectorInv'
  <2>1. TypeOK'
    <3> DEFINE k == [call[c] EXCEPT !.pc = "returned", !.status = "OK"]
    <3>1. k \in Call /\ call' = [call EXCEPT ![c] = k]
      BY <1>8 DEF Respond, Finish, TypeOK, Call, Pc, Status
    <3> HIDE DEF k
    <3> QED BY <3>1, <1>8, CallStep DEF Respond, TypeOK
  <2>2. PickInv'
    BY <1>8 DEF Respond, PickInv
  <2>3. CallInv' /\ SelectedInRange'
    BY <1>8 DEF Respond, Finish, TypeOK, Call, CallInv, SelectedInRange
  <2> QED BY <2>1, <2>2, <2>3
<1>9. ASSUME NEW c \in Calls, Cancel(c)
      PROVE  SelectorInv'
  <2>1. TypeOK'
    <3> DEFINE k == [call[c] EXCEPT !.cancelled = TRUE]
    <3>1. k \in Call /\ call' = [call EXCEPT ![c] = k]
      BY <1>9 DEF Cancel, TypeOK, Call, Pc
    <3> HIDE DEF k
    <3> QED BY <3>1, <1>9, CallStep DEF Cancel, TypeOK
  <2>2. PickInv'
    BY <1>9 DEF Cancel, PickInv
  <2>3. CallInv' /\ SelectedInRange'
    BY <1>9 DEF Cancel, TypeOK, Call, CallInv, SelectedInRange
  <2> QED BY <2>1, <2>2, <2>3
<1> QED
  BY <1>1, <1>2, <1>4, <1>5, <1>6, <1>7, <1>8, <1>9 DEF Next, Handle

(* An element of a sequence belongs to the set it is a sequence over. *)
LEMMA ElementOfSeq ==
  ASSUME NEW S, NEW seq \in Seq(S), NEW i \in 1 .. Len(seq)
  PROVE  seq[i] \in S
  OBVIOUS

(* The picks of the invariant obey round robin. *)
LEMMA PicksAreFair == TypeOK /\ PickInv => RoundRobin
<1> SUFFICES ASSUME TypeOK, PickInv,
                    NEW i \in 1 .. Len(picks), NEW j \in 1 .. Len(picks),
                    i < j, picks[i].count = picks[j].count, j - i < picks[i].count,
                    SameLap(i, j) \/ CursorMod % picks[i].count = 0
             PROVE  picks[i].selected # picks[j].selected
  BY DEF RoundRobin
<1> USE SelectorAssumption
<1> DEFINE n == picks[i].count
           a == i - 1
           b == j - 1
<1>1. a \in Nat /\ b \in Nat /\ n \in Nat \ {0} /\ a < b /\ b - a < n
  <2>1. Len(picks) \in Nat /\ i \in Nat /\ j \in Nat /\ i >= 1 /\ j >= 1
    BY DEF TypeOK
  <2>2. picks[i] \in [count : Nat, selected : Nat]
    <3>1. picks \in Seq([count : Nat, selected : Nat])
      BY DEF TypeOK
    <3> QED BY <3>1, ElementOfSeq
  <2>3. n \in Nat /\ n # 0
    BY <2>2 DEF PickInv
  <2> QED BY <2>1, <2>3
<1>2. picks[i].selected = (a % CursorMod) % n /\ picks[j].selected = (b % CursorMod) % n
  BY DEF PickInv
<1> SUFFICES (a % CursorMod) % n # (b % CursorMod) % n
  BY <1>2
<1>5. SameLap(i, j) \/ CursorMod % n = 0
  OBVIOUS
<1>6. SameLap(i, j) => a \div CursorMod = b \div CursorMod
  BY DEF SameLap
<1> HIDE DEF a, b, n
<1>3. CASE SameLap(i, j)
  <2>0. /\ a = CursorMod * (a \div CursorMod) + (a % CursorMod)
        /\ a % CursorMod \in 0 .. CursorMod - 1
        /\ a \div CursorMod \in Nat
    BY <1>1, DivMod
  <2>1. /\ b = CursorMod * (b \div CursorMod) + (b % CursorMod)
        /\ b % CursorMod \in 0 .. CursorMod - 1
    BY <1>1, DivMod
  <2>2. a \div CursorMod = b \div CursorMod
    BY <1>3, <1>6
  <2>3. (b % CursorMod) - (a % CursorMod) = b - a
    BY <2>0, <2>1, <2>2, <1>1
  <2>4. a % CursorMod < b % CursorMod /\ (b % CursorMod) - (a % CursorMod) < n
    BY <2>0, <2>1, <2>3, <1>1
  <2>5. a % CursorMod \in Nat /\ b % CursorMod \in Nat
    BY <2>0, <2>1
  <2> QED BY <2>4, <2>5, <1>1, ModDistinct
<1>4. CASE CursorMod % n = 0
  <2>1. (a % CursorMod) % n = a % n /\ (b % CursorMod) % n = b % n
    BY <1>1, <1>4, ModOfMod
  <2>2. a % n # b % n
    BY <1>1, ModDistinct
  <2> QED BY <2>1, <2>2
<1> QED BY <1>3, <1>4, <1>5

-------------------------------------------------------------------------------
(* Handle keeps its cursor and its calls consistent in every interleaving  *)
(* of any number of invocations (routing.go 44-76).                        *)
THEOREM SelectorInvariant == Spec => []SelectorInv
  BY InitInv, StepInv, PTL DEF Spec

(* An OK answer is always within the caller's candidates. *)
THEOREM SelectionsAreInRange == Spec => []SelectedInRange
<1>1. SelectorInv => SelectedInRange
  BY DEF SelectorInv
<1> QED BY <1>1, SelectorInvariant, PTL

(* Balanced picks go round the candidates, for every width of the cursor. *)
THEOREM BalancedPicksRotate == Spec => []RoundRobin
<1>1. SelectorInv => RoundRobin
  BY PicksAreFair DEF SelectorInv
<1> QED BY <1>1, SelectorInvariant, PTL
===============================================================================
