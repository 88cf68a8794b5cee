--------------------------- MODULE CallSystemProofs ----------------------------
(***************************************************************************)
(* Proofs about CallSystem: a caller and a module on one bus, for any      *)
(* number of calls, lengths of requests, sizes of the rings and of the     *)
(* tables, handler outcomes, and any interleaving of the two with the host *)
(* and the clock.                                                          *)
(*                                                                         *)
(* The two parts are proved about together, since what each relies on is   *)
(* what the other has done.  First every step is reduced to one of a few   *)
(* moves (Moves); then the invariant is carried through the moves, part by *)
(* part: the request on its way (RequestInv, CountInv), the tables of the  *)
(* module (ModuleInv) and the answer on its way (AnswerInv).               *)
(***************************************************************************)
EXTENDS CallSystem, FiniteSetTheorems, TLAPS

Event == [type : {"result", "absent"}, corr : Calls, ans : Nat, i : Nat, n : Nat,
          status : {"OK", "Failure"}]

Request == [len : Nat, deadline : {0, Expiry}]

CallType == [len : Nat, stageOK : BOOLEAN, offset : Nat, deadline : BOOLEAN,
             expired : BOOLEAN, ctxDone : BOOLEAN]

TypeInv ==
  /\ callerPc \in {"idle", "send", "await", "empty", "cancel"}
  /\ correlation \in 0 .. MaxCalls
  /\ call \in CallType
  /\ results \in [Calls -> Caller!Result]
  /\ callerOut \in Seq(Caller!Frame) /\ toModule \in Seq(Caller!Frame)
  /\ fromModule \in Seq(Event) /\ callerIn \in Seq(Event)
  /\ request \in [Calls -> Request]
  /\ runs \in [Calls -> {0, 1}]
  /\ assemblies \in [Calls -> Module!Assembly \cup {None}]
  /\ jobs \in [Calls -> Module!Job \cup {None}]
  /\ done \in Seq(Calls)
  /\ reply \in Module!Reply \cup {None}
  /\ streams \in [Calls -> Module!Stream]
  /\ answers \in [Calls -> Seq([status : Module!ModuleStatus, whole : BOOLEAN])]

(* The frames of the ring s, and of both rings of the request path.        *)
Has(s, c, type) == \E i \in 1 .. Len(s) : s[i].corr = c /\ s[i].type = type
Sent(c, type) == Has(toModule, c, type) \/ Has(callerOut, c, type)
NothingSent(c) == ~Sent(c, "more") /\ ~Sent(c, "final") /\ ~Sent(c, "cancel")

(* A frame may precede another: a call's last fragment follows the others  *)
(* and a cancel follows the last fragment.                                 *)
Before(f, g) ==
  f.corr = g.corr => f.type = "more" \/ (f.type = "final" /\ g.type = "cancel")

(* The frames of s are ahead of those of t, and all are in order. *)
Sorted(s, t) ==
  /\ \A i, j \in 1 .. Len(s) : i < j => Before(s[i], s[j])
  /\ \A i, j \in 1 .. Len(t) : i < j => Before(t[i], t[j])
  /\ \A i \in 1 .. Len(s), j \in 1 .. Len(t) : Before(s[i], t[j])

(* The fragments of call c in the ring s, and on their way. *)
Parts(s, c) == Cardinality({i \in 1 .. Len(s) : s[i].corr = c /\ s[i].type # "cancel"})
Coming(c) == Parts(toModule, c) + Parts(callerOut, c)
-------------------------------------------------------------------------------
(* Sequences, by their elements. *)
LEMMA AppendAt ==
  ASSUME NEW S, NEW s \in Seq(S), NEW e \in S
  PROVE  /\ Append(s, e) \in Seq(S)
         /\ Len(Append(s, e)) = Len(s) + 1 /\ Len(s) \in Nat
         /\ Append(s, e)[Len(s) + 1] = e
         /\ \A k \in 1 .. Len(s) : Append(s, e)[k] = s[k]
  OBVIOUS

LEMMA TailAt ==
  ASSUME NEW S, NEW s \in Seq(S), s # <<>>
  PROVE  /\ Tail(s) \in Seq(S) /\ Head(s) = s[1] /\ s[1] \in S
         /\ Len(s) \in Nat /\ Len(s) >= 1 /\ Len(Tail(s)) = Len(s) - 1
         /\ \A k \in 1 .. Len(s) - 1 : Tail(s)[k] = s[k + 1] /\ k + 1 \in 1 .. Len(s)
  OBVIOUS

(* What a ring has after a frame was added or taken. *)
LEMMA HasAppend ==
  ASSUME NEW S, NEW s \in Seq(S), NEW f \in S, NEW c, NEW type
  PROVE  Has(Append(s, f), c, type) <=> Has(s, c, type) \/ (f.corr = c /\ f.type = type)
<1> DEFINE r == Append(s, f)
<1>1. /\ Len(r) = Len(s) + 1 /\ Len(s) \in Nat /\ r[Len(s) + 1] = f
      /\ \A k \in 1 .. Len(s) : r[k] = s[k]
  BY AppendAt
<1> HIDE DEF r
<1> QED BY <1>1 DEF Has, r

LEMMA HasTail ==
  ASSUME NEW S, NEW s \in Seq(S), s # <<>>, NEW c, NEW type
  PROVE  /\ Has(s, c, type) <=>
              Has(Tail(s), c, type) \/ (Head(s).corr = c /\ Head(s).type = type)
         /\ Head(s) \in S
<1> DEFINE r == Tail(s)
           h == Head(s)
<1>1. /\ Len(s) \in Nat /\ Len(s) >= 1 /\ Len(r) = Len(s) - 1 /\ h = s[1] /\ s[1] \in S
      /\ \A k \in 1 .. Len(s) - 1 : r[k] = s[k + 1] /\ k + 1 \in 1 .. Len(s)
  BY TailAt
<1> HIDE DEF r, h
<1>2. ASSUME Has(s, c, type) PROVE Has(r, c, type) \/ (h.corr = c /\ h.type = type)
  <2>1. PICK i \in 1 .. Len(s) : s[i].corr = c /\ s[i].type = type
    BY <1>2 DEF Has
  <2>2. CASE i = 1
    BY <1>1, <2>1, <2>2
  <2>3. CASE i # 1
    <3>1. i - 1 \in 1 .. Len(s) - 1 /\ (i - 1) + 1 = i
      BY <1>1, <2>3
    <3>2. r[i - 1] = s[i]
      BY <1>1, <3>1
    <3> QED BY <1>1, <2>1, <3>1, <3>2 DEF Has
  <2> QED BY <2>2, <2>3
<1>3. ASSUME Has(r, c, type) \/ (h.corr = c /\ h.type = type) PROVE Has(s, c, type)
  <2>1. CASE Has(r, c, type)
    BY <1>1, <2>1 DEF Has
  <2>2. CASE h.corr = c /\ h.type = type
    BY <1>1, <2>2 DEF Has
  <2> QED BY <1>3, <2>1, <2>2
<1> QED BY <1>1, <1>2, <1>3 DEF r, h

(* The order survives every move of a frame. *)
LEMMA SortedTail ==
  ASSUME NEW S, NEW s \in Seq(S), NEW t \in Seq(S), Sorted(s, t)
  PROVE  /\ s # <<>> => Sorted(Tail(s), t)
         /\ t # <<>> => Sorted(s, Tail(t))
<1>1. Len(s) \in Nat /\ Len(t) \in Nat
  OBVIOUS
<1>2. ASSUME s # <<>> PROVE Sorted(Tail(s), t)
  <2> DEFINE r == Tail(s)
  <2>1. /\ Len(r) = Len(s) - 1
        /\ \A k \in 1 .. Len(s) - 1 : r[k] = s[k + 1] /\ k + 1 \in 1 .. Len(s)
    BY <1>2, TailAt
  <2> HIDE DEF r
  <2>2. \A i, j \in 1 .. Len(r) : i < j => Before(r[i], r[j])
    BY <1>1, <2>1 DEF Sorted
  <2>3. \A i \in 1 .. Len(r), j \in 1 .. Len(t) : Before(r[i], t[j])
    BY <1>1, <2>1 DEF Sorted
  <2> QED BY <2>2, <2>3 DEF Sorted, r
<1>3. ASSUME t # <<>> PROVE Sorted(s, Tail(t))
  <2> DEFINE r == Tail(t)
  <2>1. /\ Len(r) = Len(t) - 1
        /\ \A k \in 1 .. Len(t) - 1 : r[k] = t[k + 1] /\ k + 1 \in 1 .. Len(t)
    BY <1>3, TailAt
  <2> HIDE DEF r
  <2>2. \A i, j \in 1 .. Len(r) : i < j => Before(r[i], r[j])
    BY <1>1, <2>1 DEF Sorted
  <2>3. \A i \in 1 .. Len(s), j \in 1 .. Len(r) : Before(s[i], r[j])
    BY <1>1, <2>1 DEF Sorted
  <2> QED BY <2>2, <2>3 DEF Sorted, r
<1> QED BY <1>2, <1>3

LEMMA SortedMove ==
  ASSUME NEW S, NEW s \in Seq(S), NEW t \in Seq(S), Sorted(s, t), t # <<>>
  PROVE  Sorted(Append(s, Head(t)), Tail(t))
<1> DEFINE h == Head(t)
           p == Append(s, h)
           q == Tail(t)
<1>1. /\ Len(t) \in Nat /\ Len(t) >= 1 /\ Len(q) = Len(t) - 1 /\ h = t[1] /\ h \in S
      /\ \A k \in 1 .. Len(t) - 1 : q[k] = t[k + 1] /\ k + 1 \in 1 .. Len(t)
  BY TailAt
<1>2. /\ Len(p) = Len(s) + 1 /\ Len(s) \in Nat /\ p[Len(s) + 1] = h
      /\ \A k \in 1 .. Len(s) : p[k] = s[k]
  BY <1>1, AppendAt
<1> HIDE DEF h, p, q
<1>3. \A i, j \in 1 .. Len(p) : i < j => Before(p[i], p[j])
  <2> SUFFICES ASSUME NEW i \in 1 .. Len(p), NEW j \in 1 .. Len(p), i < j
               PROVE  Before(p[i], p[j])
    OBVIOUS
  <2>1. i \in 1 .. Len(s) /\ p[i] = s[i]
    BY <1>2
  <2>2. CASE j \in 1 .. Len(s)
    BY <1>2, <2>1, <2>2 DEF Sorted
  <2>3. CASE j = Len(s) + 1
    BY <1>1, <1>2, <2>1, <2>3 DEF Sorted
  <2> QED BY <1>2, <2>2, <2>3
<1>4. \A i, j \in 1 .. Len(q) : i < j => Before(q[i], q[j])
  BY <1>1 DEF Sorted
<1>5. \A i \in 1 .. Len(p), j \in 1 .. Len(q) : Before(p[i], q[j])
  <2> SUFFICES ASSUME NEW i \in 1 .. Len(p), NEW j \in 1 .. Len(q)
               PROVE  Before(p[i], q[j])
    OBVIOUS
  <2>1. j + 1 \in 1 .. Len(t) /\ q[j] = t[j + 1] /\ 1 < j + 1 /\ 1 \in 1 .. Len(t)
    BY <1>1
  <2>2. CASE i \in 1 .. Len(s)
    BY <1>2, <2>1, <2>2 DEF Sorted
  <2>3. CASE i = Len(s) + 1
    BY <1>1, <1>2, <2>1, <2>3 DEF Sorted
  <2> QED BY <1>2, <2>2, <2>3
<1> QED BY <1>3, <1>4, <1>5 DEF Sorted, h, p, q

LEMMA SortedSend ==
  ASSUME NEW S, NEW s \in Seq(S), NEW t \in Seq(S), Sorted(s, t), NEW f \in S,
         \A type : Has(s, f.corr, type) \/ Has(t, f.corr, type) =>
            type = "more" \/ (type = "final" /\ f.type = "cancel")
  PROVE  Sorted(s, Append(t, f))
<1> DEFINE p == Append(t, f)
<1>1. /\ Len(p) = Len(t) + 1 /\ Len(t) \in Nat /\ p[Len(t) + 1] = f
      /\ \A k \in 1 .. Len(t) : p[k] = t[k]
  BY AppendAt
<1> HIDE DEF p
<1>2. \A i \in 1 .. Len(s) : Before(s[i], f)
  <2> SUFFICES ASSUME NEW i \in 1 .. Len(s), s[i].corr = f.corr
               PROVE  s[i].type = "more" \/ (s[i].type = "final" /\ f.type = "cancel")
    BY DEF Before
  <2>1. Has(s, f.corr, s[i].type)
    BY DEF Has
  <2> QED BY <2>1
<1>3. \A i \in 1 .. Len(t) : Before(t[i], f)
  <2> SUFFICES ASSUME NEW i \in 1 .. Len(t), t[i].corr = f.corr
               PROVE  t[i].type = "more" \/ (t[i].type = "final" /\ f.type = "cancel")
    BY DEF Before
  <2>1. Has(t, f.corr, t[i].type)
    BY DEF Has
  <2> QED BY <2>1
<1>4. \A i, j \in 1 .. Len(p) : i < j => Before(p[i], p[j])
  <2> SUFFICES ASSUME NEW i \in 1 .. Len(p), NEW j \in 1 .. Len(p), i < j
               PROVE  Before(p[i], p[j])
    OBVIOUS
  <2>1. i \in 1 .. Len(t) /\ p[i] = t[i]
    BY <1>1
  <2>2. CASE j \in 1 .. Len(t)
    BY <1>1, <2>1, <2>2 DEF Sorted
  <2>3. CASE j = Len(t) + 1
    BY <1>1, <1>3, <2>1, <2>3
  <2> QED BY <1>1, <2>2, <2>3
<1>5. \A i \in 1 .. Len(s), j \in 1 .. Len(p) : Before(s[i], p[j])
  <2> SUFFICES ASSUME NEW i \in 1 .. Len(s), NEW j \in 1 .. Len(p)
               PROVE  Before(s[i], p[j])
    OBVIOUS
  <2>1. CASE j \in 1 .. Len(t)
    BY <1>1, <2>1 DEF Sorted
  <2>2. CASE j = Len(t) + 1
    BY <1>1, <1>2, <2>2
  <2> QED BY <1>1, <2>1, <2>2
<1> QED BY <1>4, <1>5 DEF Sorted, p

(* What may follow the first frame of a ring. *)
LEMMA SortedHead ==
  ASSUME NEW S, NEW s \in Seq(S), NEW t \in Seq(S), Sorted(s, t), NEW type
  PROVE  /\ s # <<>> /\ (Has(Tail(s), Head(s).corr, type) \/ Has(t, Head(s).corr, type)) =>
              Head(s).type = "more" \/ (Head(s).type = "final" /\ type = "cancel")
         /\ t # <<>> /\ Has(Tail(t), Head(t).corr, type) =>
              Head(t).type = "more" \/ (Head(t).type = "final" /\ type = "cancel")
<1>1. ASSUME s # <<>>, Has(Tail(s), Head(s).corr, type)
      PROVE  Head(s).type = "more" \/ (Head(s).type = "final" /\ type = "cancel")
  <2>1. /\ Len(s) \in Nat /\ Len(s) >= 1 /\ Len(Tail(s)) = Len(s) - 1 /\ Head(s) = s[1]
        /\ \A k \in 1 .. Len(s) - 1 : Tail(s)[k] = s[k + 1] /\ k + 1 \in 1 .. Len(s)
    BY <1>1, TailAt
  <2>2. PICK k \in 1 .. Len(Tail(s)) : Tail(s)[k].corr = Head(s).corr /\ Tail(s)[k].type = type
    BY <1>1 DEF Has
  <2>3. Tail(s)[k] = s[k + 1] /\ k + 1 \in 1 .. Len(s) /\ 1 < k + 1 /\ 1 \in 1 .. Len(s)
    BY <2>1
  <2>4. Before(s[1], s[k + 1])
    BY <2>3 DEF Sorted
  <2> QED BY <2>1, <2>2, <2>3, <2>4 DEF Before
<1>2. ASSUME s # <<>>, Has(t, Head(s).corr, type)
      PROVE  Head(s).type = "more" \/ (Head(s).type = "final" /\ type = "cancel")
  <2>1. Len(s) \in Nat /\ Len(s) >= 1 /\ Head(s) = s[1]
    BY <1>2, TailAt
  <2>2. PICK k \in 1 .. Len(t) : t[k].corr = Head(s).corr /\ t[k].type = type
    BY <1>2 DEF Has
  <2>3. Before(s[1], t[k])
    BY <2>1 DEF Sorted
  <2> QED BY <2>1, <2>2, <2>3 DEF Before
<1>3. ASSUME t # <<>>, Has(Tail(t), Head(t).corr, type)
      PROVE  Head(t).type = "more" \/ (Head(t).type = "final" /\ type = "cancel")
  <2>1. /\ Len(t) \in Nat /\ Len(t) >= 1 /\ Len(Tail(t)) = Len(t) - 1 /\ Head(t) = t[1]
        /\ \A k \in 1 .. Len(t) - 1 : Tail(t)[k] = t[k + 1] /\ k + 1 \in 1 .. Len(t)
    BY <1>3, TailAt
  <2>2. PICK k \in 1 .. Len(Tail(t)) : Tail(t)[k].corr = Head(t).corr /\ Tail(t)[k].type = type
    BY <1>3 DEF Has
  <2>3. Tail(t)[k] = t[k + 1] /\ k + 1 \in 1 .. Len(t) /\ 1 < k + 1 /\ 1 \in 1 .. Len(t)
    BY <2>1
  <2>4. Before(t[1], t[k + 1])
    BY <2>3 DEF Sorted
  <2> QED BY <2>1, <2>2, <2>3, <2>4 DEF Before
<1> QED BY <1>1, <1>2, <1>3

(* The number of fragments, when a frame is added or taken. *)
LEMMA PartsType ==
  ASSUME NEW S, NEW s \in Seq(S), NEW c
  PROVE  Parts(s, c) \in Nat
<1> DEFINE A == {i \in 1 .. Len(s) : s[i].corr = c /\ s[i].type # "cancel"}
<1>1. Len(s) \in Nat
  OBVIOUS
<1>2. IsFiniteSet(1 .. Len(s))
  BY <1>1, FS_Interval
<1>3. A \subseteq 1 .. Len(s)
  OBVIOUS
<1>4. Parts(s, c) = Cardinality(A)
  BY DEF Parts
<1> HIDE DEF A
<1> QED BY <1>2, <1>3, <1>4, FS_Subset, FS_CardinalityType

LEMMA PartsAppend ==
  ASSUME NEW S, NEW s \in Seq(S), NEW f \in S, NEW c
  PROVE  /\ Parts(s, c) \in Nat
         /\ Parts(Append(s, f), c) =
              IF f.corr = c /\ f.type # "cancel" THEN Parts(s, c) + 1 ELSE Parts(s, c)
<1> DEFINE r == Append(s, f)
           A == {i \in 1 .. Len(s) : s[i].corr = c /\ s[i].type # "cancel"}
           B == {i \in 1 .. Len(r) : r[i].corr = c /\ r[i].type # "cancel"}
<1>1. /\ Len(r) = Len(s) + 1 /\ Len(s) \in Nat /\ r[Len(s) + 1] = f
      /\ \A k \in 1 .. Len(s) : r[k] = s[k]
  BY AppendAt
<1>2. IsFiniteSet(A) /\ Cardinality(A) \in Nat
  <2>1. IsFiniteSet(1 .. Len(s))
    BY <1>1, FS_Interval
  <2>2. A \subseteq 1 .. Len(s)
    OBVIOUS
  <2> HIDE DEF A
  <2> QED BY <2>1, <2>2, FS_Subset, FS_CardinalityType
<1> HIDE DEF r
<1>3. B = IF f.corr = c /\ f.type # "cancel" THEN A \cup {Len(s) + 1} ELSE A
  BY <1>1
<1>4. Len(s) + 1 \notin A
  BY <1>1
<1>5. Parts(s, c) = Cardinality(A) /\ Parts(r, c) = Cardinality(B)
  BY DEF Parts
<1> HIDE DEF A, B
<1>6. Cardinality(A \cup {Len(s) + 1}) = Cardinality(A) + 1
  BY <1>2, <1>4, FS_AddElement
<1> QED BY <1>2, <1>3, <1>5, <1>6 DEF r

LEMMA PartsTail ==
  ASSUME NEW S, NEW s \in Seq(S), s # <<>>, NEW c
  PROVE  /\ Parts(Tail(s), c) \in Nat
         /\ Parts(s, c) = IF Head(s).corr = c /\ Head(s).type # "cancel"
                          THEN Parts(Tail(s), c) + 1 ELSE Parts(Tail(s), c)
<1> DEFINE r == Tail(s)
           h == Head(s)
           A == {i \in 1 .. Len(s) : s[i].corr = c /\ s[i].type # "cancel"}
           B == {i \in 1 .. Len(r) : r[i].corr = c /\ r[i].type # "cancel"}
           g == [i \in B |-> i + 1]
<1>1. /\ Len(s) \in Nat /\ Len(s) >= 1 /\ Len(r) = Len(s) - 1 /\ h = s[1]
      /\ \A k \in 1 .. Len(s) - 1 : r[k] = s[k + 1] /\ k + 1 \in 1 .. Len(s)
  BY TailAt
<1> HIDE DEF r, h
<1>2. IsFiniteSet(B) /\ Cardinality(B) \in Nat
  <2>1. IsFiniteSet(1 .. Len(r))
    BY <1>1, FS_Interval
  <2>2. B \subseteq 1 .. Len(r)
    OBVIOUS
  <2> HIDE DEF B
  <2> QED BY <2>1, <2>2, FS_Subset, FS_CardinalityType
<1>3. IsFiniteSet(A \ {1}) /\ Cardinality(A \ {1}) = Cardinality(B)
  <2>1. \A i \in B : i + 1 \in A \ {1}
    BY <1>1
  <2>2. \A j \in A \ {1} : j - 1 \in B /\ (j - 1) + 1 = j
    BY <1>1
  <2>3. \A i, j \in B : i + 1 = j + 1 => i = j
    BY <1>1
  <2>4. g \in Bijection(B, A \ {1})
    <3> HIDE DEF A, B
    <3>1. g \in [B -> A \ {1}]
      BY <2>1
    <3>2. \A j \in A \ {1} : \E i \in B : g[i] = j
      BY <2>2
    <3>3. \A i, j \in B : g[i] = g[j] => i = j
      BY <2>3
    <3> HIDE DEF g
    <3> QED BY <3>1, <3>2, <3>3 DEF Bijection, Injection, Surjection, IsInjective
  <2>5. ExistsBijection(B, A \ {1})
    BY <2>4 DEF ExistsBijection
  <2> HIDE DEF A, B
  <2> QED BY <1>2, <2>5, FS_Bijection
<1>4. 1 \in A <=> h.corr = c /\ h.type # "cancel"
  BY <1>1
<1>5. Parts(s, c) = Cardinality(A) /\ Parts(r, c) = Cardinality(B)
  BY DEF Parts
<1> HIDE DEF A, B
<1>6. CASE 1 \in A
  <2>1. A = (A \ {1}) \cup {1} /\ 1 \notin A \ {1}
    BY <1>6
  <2>2. Cardinality((A \ {1}) \cup {1}) = Cardinality(A \ {1}) + 1
    BY <1>3, <2>1, FS_AddElement
  <2> QED BY <1>2, <1>3, <1>4, <1>5, <1>6, <2>1, <2>2 DEF r, h
<1>7. CASE 1 \notin A
  <2>1. A = A \ {1}
    BY <1>7
  <2> QED BY <1>2, <1>3, <1>4, <1>5, <1>7, <2>1 DEF r, h
<1> QED BY <1>6, <1>7

LEMMA PartsNone ==
  ASSUME NEW s \in Seq(Caller!Frame), NEW c, ~Has(s, c, "more"), ~Has(s, c, "final")
  PROVE  Parts(s, c) = 0
<1>1. {i \in 1 .. Len(s) : s[i].corr = c /\ s[i].type # "cancel"} = {}
  <2> SUFFICES ASSUME NEW i \in 1 .. Len(s), s[i].corr = c, s[i].type # "cancel"
               PROVE  FALSE
    OBVIOUS
  <2>1. s[i] \in Caller!Frame
    OBVIOUS
  <2>2. s[i].type \in {"more", "final"}
    BY <2>1 DEF Caller!Frame
  <2> QED BY <2>2 DEF Has
<1> QED BY <1>1, FS_EmptySet DEF Parts

State(c) == streams[c].state
AwaitErrors == Caller!AwaitErrors
SendErrors == {"WouldBlock", "PartlySent", "SendEpoch"}

(* All of the request of call c was sent. *)
Asked(c) ==
  \/ results[c] \in AwaitErrors \cup {"OK"}
  \/ c = correlation /\ callerPc \in {"await", "empty", "cancel"}

(* The caller makes one call after the other. *)
CallInv ==
  /\ callerPc # "idle" => correlation # 0
  /\ callerPc = "cancel" => why \in AwaitErrors
  /\ callerPc = "send" =>
       call.stageOK /\ call.offset < call.len /\ call.len = request[correlation].len
  /\ \A c \in Calls :
       /\ c < correlation => results[c] # "none"
       /\ c > correlation => results[c] = "none"
       /\ c = correlation => (results[c] = "none" <=> callerPc # "idle")
       /\ results[c] \in AwaitErrors \cup SendErrors \cup {"none", "OK"}

(* What the module has seen of a request fits what is still on its way. *)
StreamFits(c) ==
  /\ State(c) = "cancelled" => NothingSent(c)
  /\ State(c) = "final" => ~Sent(c, "more") /\ ~Sent(c, "final")
  /\ Has(toModule, c, "cancel") => State(c) = "final" \/ Has(toModule, c, "final")
  /\ State(c) = "open" =>
       streams[c].kind = kind /\ streams[c].payload = Invoke(request[c].deadline)

(* What was sent fits what the caller has done, as long as the module is   *)
(* there to be sent to.                                                    *)
RequestFits(c) ==
  /\ c > correlation => State(c) = "fresh" /\ NothingSent(c)
  /\ \/ results[c] = "WouldBlock"
     \/ c = correlation /\ callerPc = "send" /\ call.offset = 0
     => State(c) = "fresh" /\ NothingSent(c)
  /\ Sent(c, "final") \/ State(c) \in {"final", "cancelled"} => Asked(c)
  /\ exit = "none" /\ Asked(c) => Sent(c, "final") \/ State(c) \in {"final", "cancelled"}

CancelFits(c) ==
  /\ Sent(c, "cancel") \/ State(c) = "cancelled" => results[c] \in AwaitErrors
  /\ results[c] \in AwaitErrors =>
       c \in lost \/ exit # "none" \/ Sent(c, "cancel") \/ State(c) = "cancelled"

RequestInv ==
  /\ Sorted(toModule, callerOut)
  /\ \A c \in Calls : StreamFits(c) /\ RequestFits(c) /\ CancelFits(c)

(* No fragment is lost on its way. *)
CountInv ==
  exit = "none" =>
    /\ callerPc = "send" =>
         Module!SentSoFar(correlation) + Coming(correlation) = call.offset
    /\ \A c \in Calls : Sent(c, "final") =>
         Module!SentSoFar(c) + Coming(c) = request[c].len

(* The tables of the module fit what it has seen of the requests. *)
TablesFit(c) ==
  /\ assemblies[c] # None => State(c) = "open"
  /\ jobs[c] # None => State(c) \in {"final", "cancelled"}
  /\ jobs[c] # None /\ State(c) = "cancelled" => jobs[c].cancelled
  /\ runs[c] = 1 => State(c) \in {"final", "cancelled"}

ModuleInv ==
  /\ modulePc # "exited" => exit = "none"
  /\ modulePc \in {"drain", "top", "poll", "shutdown"} => reply = None
  /\ reply # None /\ reply.status # "OK" => reply.len = 0 /\ reply.offset = 0
  /\ \A i \in 1 .. Len(done) : jobs[done[i]] # None /\ jobs[done[i]].phase = "done"
  /\ \A i, j \in 1 .. Len(done) : done[i] = done[j] => i = j
  /\ \A c \in Calls : TablesFit(c)

(* Events that end call c, and what the caller still has to read of them.  *)
Fails(e, c) == e.corr = c /\ (e.type = "absent" \/ e.status # "OK")
Succeeds(e, c) == e.corr = c /\ e.type = "result" /\ e.status = "OK"
HasFail(s, c) == \E i \in 1 .. Len(s) : Fails(s[i], c)
Guarded(s, c) ==
  \A i \in 1 .. Len(s) : Succeeds(s[i], c) => \E j \in 1 .. i - 1 : Fails(s[j], c)

(* The same of two rings, s read first: there is a failure, and there is   *)
(* one ahead of every success.                                             *)
Warned(s, t, c) == HasFail(s, c) \/ HasFail(t, c)
Honest(s, t, c) == Guarded(s, c) /\ (HasFail(s, c) \/ Guarded(t, c))

(* Call c has failed, or the caller will read a failure first. *)
Over(c) == c < correlation \/ (c = correlation /\ callerPc \in {"cancel", "idle"})
Failing(c) == reply # None /\ reply.corr = c /\ reply.status # "OK"
Succeeding(c) == reply # None /\ reply.corr = c /\ reply.status = "OK"
Failed(c) == Over(c) \/ Warned(callerIn, fromModule, c) \/ Failing(c)

Truthful(c) == Over(c) \/ runs[c] = 1 \/ Honest(callerIn, fromModule, c)

AnswerFits(c) ==
  /\ State(c) = "open" => Module!Held(c) = streams[c].sent \/ Failed(c)
  /\ jobs[c] # None \/ Succeeding(c) => runs[c] = 1 \/ Failed(c)
  /\ Truthful(c)

(* A success is the outcome of a run on the whole request, unless the call *)
(* has failed or will do so first.                                         *)
AnswerInv ==
  /\ \A i \in 1 .. Len(callerIn) : callerIn[i].corr <= correlation
  /\ \A i \in 1 .. Len(fromModule) : fromModule[i].corr <= correlation
  /\ reply # None => reply.corr <= correlation
  /\ \A c \in Calls : AnswerFits(c)

IInv == TypeInv /\ CallInv /\ RequestInv /\ CountInv /\ ModuleInv /\ AnswerInv
-------------------------------------------------------------------------------
(* What the steps of the caller do. *)
callState == <<callerPc, correlation, call, why, results, lost>>
moduleState == <<modulePc, assemblies, jobs, done, reply, exit, streams, answers, runs>>

(* The module sees nothing of a step of the caller, nor the caller of one  *)
(* of the module, but for the rings.                                       *)
CallerOnly == UNCHANGED <<moduleState, toModule, fromModule, request>>
ModuleOnly == UNCHANGED <<callState, callerOut, callerIn, request>>

Asks(len, deadline) ==
  /\ callerPc = "idle" /\ callerPc' = "send"
  /\ correlation < MaxCalls /\ correlation' = correlation + 1
  /\ call' = Caller!NewCall(len, TRUE, deadline)
  /\ request' = [request EXCEPT ![correlation + 1] =
                   [len |-> len, deadline |-> IF deadline THEN Expiry ELSE 0]]
  /\ UNCHANGED <<results, lost, moduleState, rings>>

Flags ==
  /\ \/ call' = [call EXCEPT !.expired = TRUE]
     \/ call' = [call EXCEPT !.ctxDone = TRUE]
  /\ UNCHANGED <<callerPc, correlation, why, results, lost, callerOut, callerIn>>
  /\ CallerOnly

SendEnds(r) ==
  /\ callerPc = "send" /\ callerPc' = "idle"
  /\ r = "WouldBlock" => call.offset = 0
  /\ results' = [results EXCEPT ![correlation] = r]
  /\ call' = Caller!NoCall
  /\ UNCHANGED <<correlation, lost, callerOut, callerIn>>
  /\ CallerOnly

Last == ~(call.offset + 1 < call.len)

Sends ==
  /\ callerPc = "send" /\ callerPc' = IF Last THEN "await" ELSE "send"
  /\ callerOut' = Append(callerOut, [corr |-> correlation, type |-> IF Last THEN "final" ELSE "more"])
  /\ call' = [call EXCEPT !.offset = @ + 1]
  /\ UNCHANGED <<correlation, results, lost, callerIn>>
  /\ CallerOnly

Waits ==
  /\ callerPc \in {"await", "empty"} /\ callerPc' \in {"await", "empty"}
  /\ \/ UNCHANGED callerIn
     \/ /\ callerIn # <<>> /\ callerIn' = Tail(callerIn)
        /\ ~Fails(Head(callerIn), correlation)
  /\ UNCHANGED <<correlation, call, results, lost, callerOut>>
  /\ CallerOnly

GivesUp ==
  /\ callerPc \in {"await", "empty"} /\ callerPc' = "cancel"
  /\ why' \in AwaitErrors
  /\ UNCHANGED callerIn \/ (callerIn # <<>> /\ callerIn' = Tail(callerIn))
  /\ UNCHANGED <<correlation, call, results, lost, callerOut>>
  /\ CallerOnly

Answered ==
  /\ callerPc = "await" /\ callerPc' = "idle"
  /\ callerIn # <<>> /\ callerIn' = Tail(callerIn)
  /\ Succeeds(Head(callerIn), correlation)
  /\ results' = [results EXCEPT ![correlation] = "OK"]
  /\ call' = Caller!NoCall
  /\ UNCHANGED <<correlation, lost, callerOut>>
  /\ CallerOnly

Cancels ==
  /\ callerPc = "cancel" /\ callerPc' = "idle"
  /\ \/ callerOut' = Append(callerOut, [corr |-> correlation, type |-> "cancel"]) /\ lost' = lost
     \/ callerOut' = callerOut /\ lost' = lost \cup {correlation}
  /\ results' = [results EXCEPT ![correlation] = why]
  /\ call' = Caller!NoCall
  /\ UNCHANGED <<correlation, callerIn>>
  /\ CallerOnly

LEMMA CallerMoves ==
  ASSUME TypeInv, CallInv, CallerSteps
  PROVE  \/ \E r \in SendErrors : SendEnds(r)
         \/ Sends \/ Waits \/ GivesUp \/ Answered \/ Cancels
<1>1. CallerOnly
  BY DEF CallerSteps, CallerOnly, moduleVars, moduleState
<1>2. call.offset \in Nat /\ call.len \in Nat
  BY DEF TypeInv, CallType
<1>3. callerPc = "send" => Caller!Part = 1 /\ (Caller!More <=> ~Last) /\ Caller!FitsSlot /\ call.stageOK
  BY <1>2 DEF CallInv, Caller!Part, Caller!More, Caller!chunk, Caller!FitsSlot, Last
<1>4. callerIn # <<>> => Head(callerIn) \in Event
  BY DEF TypeInv
<1>5. ~Caller!SendRefused
  BY <1>3 DEF Caller!SendRefused
<1>6. ASSUME Caller!SendError PROVE \E r \in SendErrors : SendEnds(r)
  <2>1. callerPc = "send"
    BY <1>6 DEF Caller!SendError, Caller!MaySend
  <2>2. \/ Caller!Return("SendEpoch")
        \/ call.offset = 0 /\ Caller!Return("WouldBlock")
        \/ Caller!Return("PartlySent")
    BY <1>3, <1>6, <2>1 DEF Caller!SendError
  <2> QED BY <1>1, <1>6, <2>1, <2>2 DEF Caller!SendError, Caller!Return, SendEnds, SendErrors
<1>7. ASSUME Caller!SendFragment PROVE Sends
  <2>1. callerPc = "send"
    BY <1>7 DEF Caller!SendFragment, Caller!MaySend
  <2> QED BY <1>1, <1>3, <1>7, <2>1 DEF Caller!SendFragment, Sends
<1>8. ASSUME Caller!AwaitReply PROVE Waits \/ GivesUp \/ Answered
  <2>1. CASE Caller!PollEpoch \/ Caller!EmptyGiveUp
    BY <1>1, <2>1 DEF Caller!PollEpoch, Caller!EmptyGiveUp, Caller!Fail, GivesUp, AwaitErrors, Caller!AwaitErrors
  <2>0. CASE Caller!PollRelease
    BY <1>1, <2>0 DEF Caller!PollRelease, Caller!callerVars, Waits
  <2>2. CASE Caller!PollNothing \/ Caller!EmptySleep
    BY <1>1, <1>4, <2>2 DEF Caller!PollNothing, Caller!EmptySleep, Waits, Event
  <2>3. ASSUME NEW e \in IF callerIn = <<>> THEN {} ELSE {Head(callerIn)},
               \/ Caller!PollControl(e) \/ Caller!PollSkip(e) \/ Caller!PollStatus(e)
               \/ Caller!PollTooLong(e) \/ Caller!PollFragment(e) \/ Caller!PollFinal(e)
        PROVE  Waits \/ GivesUp \/ Answered
    <3>1. callerIn # <<>> /\ e = Head(callerIn) /\ e \in Event /\ Caller!PollEvent(e)
      BY <1>4, <2>3 DEF Caller!PollControl, Caller!PollSkip, Caller!PollStatus, Caller!PollTooLong,
        Caller!PollFragment, Caller!PollFinal, Caller!PollResult
    <3>2. /\ callerPc = "await" /\ callerIn' = Tail(callerIn) /\ e.type \in {"result", "absent"}
          /\ UNCHANGED <<callerOut, lost>>
      BY <3>1 DEF Caller!PollEvent, Event
    <3>3. CASE Caller!PollControl(e)
      BY <1>1, <3>1, <3>2, <3>3 DEF Caller!PollControl, Caller!Fail, GivesUp, AwaitErrors, Caller!AwaitErrors
    <3>4. CASE Caller!PollSkip(e)
      BY <1>1, <3>1, <3>2, <3>4 DEF Caller!PollSkip, Caller!ForThisCall, Caller!callerVars, Waits, Fails
    <3>5. CASE Caller!PollStatus(e)
      BY <1>1, <3>1, <3>2, <3>5 DEF Caller!PollStatus, Caller!Fail, GivesUp, AwaitErrors, Caller!AwaitErrors
    <3>6. CASE Caller!PollTooLong(e)
      BY <1>1, <3>1, <3>2, <3>6 DEF Caller!PollTooLong, Caller!Fail, GivesUp, AwaitErrors, Caller!AwaitErrors
    <3>7. CASE Caller!PollFragment(e)
      BY <1>1, <3>1, <3>2, <3>7 DEF Caller!PollFragment, Caller!PollResult, Waits, Fails
    <3>8. CASE Caller!PollFinal(e)
      BY <1>1, <3>1, <3>2, <3>8 DEF Caller!PollFinal, Caller!PollResult, Caller!ForThisCall, Answered, Succeeds
    <3> QED BY <2>3, <3>3, <3>4, <3>5, <3>6, <3>7, <3>8
  <2> QED BY <1>8, <2>0, <2>1, <2>2, <2>3 DEF Caller!AwaitReply
<1>9. ASSUME Caller!Cancel PROVE Cancels
  BY <1>1, <1>9 DEF Caller!Cancel, Caller!Return, Cancels
<1> QED BY <1>5, <1>6, <1>7, <1>8, <1>9 DEF CallerSteps, Caller!InCall

LEMMA FlagMoves ==
  ASSUME CallerExpires \/ CallerGivesUp
  PROVE  Flags
<1>1. CASE CallerExpires
  BY <1>1 DEF CallerExpires, Caller!Expire, Flags, CallerOnly, moduleVars, moduleState
<1>2. CASE CallerGivesUp
  BY <1>2 DEF CallerGivesUp, Caller!CtxCancel, Flags, CallerOnly, moduleVars, moduleState
<1> QED BY <1>1, <1>2

LEMMA AskMoves ==
  ASSUME NEW len \in RequestLen, NEW deadline \in BOOLEAN, MakeCall(len, deadline)
  PROVE  Asks(len, deadline)
BY DEF MakeCall, Caller!Call, Asks, moduleVars, moduleState, rings
-------------------------------------------------------------------------------
(* What the steps of the module do. *)
InLoop == {"drain", "top", "poll", "shutdown"}

Rests ==
  /\ modulePc # "exited" /\ modulePc' # "exited"
  /\ modulePc' \in InLoop => modulePc \in InLoop
  /\ UNCHANGED <<assemblies, jobs, done, reply, exit, streams, answers, runs>>
  /\ UNCHANGED <<toModule, fromModule>> /\ ModuleOnly

Exits ==
  /\ modulePc # "exited" /\ modulePc' = "exited"
  /\ UNCHANGED <<assemblies, jobs, done, reply, streams, answers, runs>>
  /\ UNCHANGED <<toModule, fromModule>> /\ ModuleOnly

(* A job is forgotten when its result is received: answered or dropped. *)
Receives ==
  /\ done # <<>> /\ done' = Tail(done)
  /\ jobs' = [jobs EXCEPT ![Head(done)] = None]
  /\ \/ modulePc = "drain" /\ Module!replyModuleResult(Head(done), jobs[Head(done)].stage,
                                                        jobs[Head(done)].status, jobs[Head(done)].len)
     \/ modulePc = "shutdown" /\ UNCHANGED <<modulePc, reply>>
  /\ UNCHANGED <<assemblies, exit, streams, answers, runs>>
  /\ UNCHANGED <<toModule, fromModule>> /\ ModuleOnly

(* What is never undone of a job but by forgetting it. *)
JobKept(c) ==
  /\ jobs'[c] = None <=> jobs[c] = None
  /\ jobs[c] # None =>
       /\ jobs[c].cancelled => jobs'[c].cancelled
       /\ jobs[c].phase = "done" => jobs'[c].phase = "done"

Marks ==
  /\ jobs' \in [Calls -> Module!Job \cup {None}]
  /\ \A c \in Calls : JobKept(c)
  /\ \/ done' = done
     \/ \E c \in Calls :
          /\ done' = Append(done, c)
          /\ jobs[c] # None /\ jobs[c].phase # "done" /\ jobs'[c].phase = "done"
  /\ UNCHANGED modulePc \/ (modulePc = "top" /\ modulePc' = "shutdown")
  /\ UNCHANGED <<assemblies, reply, exit, streams, answers, runs>>
  /\ UNCHANGED <<toModule, fromModule>> /\ ModuleOnly

(* The first frame of the ring, of call c, is taken. *)
Takes(c, type) ==
  /\ modulePc = "poll"
  /\ toModule # <<>> /\ toModule' = Tail(toModule)
  /\ Head(toModule).corr = c /\ Head(toModule).type = type
  /\ UNCHANGED <<fromModule, done, exit, answers>>
  /\ ModuleOnly

TakesCancel(c) ==
  /\ Takes(c, "cancel")
  /\ State(c) \in {"open", "final"}
  /\ streams' = [streams EXCEPT ![c] = Module!Closed("cancelled")]
  /\ assemblies' = [assemblies EXCEPT ![c] = None]
  /\ jobs' \in [Calls -> Module!Job \cup {None}]
  /\ \A b \in Calls : JobKept(b)
  /\ jobs[c] # None => jobs'[c].cancelled
  /\ modulePc' = "drain"
  /\ UNCHANGED <<reply, runs>>

TakesPart(c, type) ==
  /\ Takes(c, type)
  /\ State(c) \in {"fresh", "open"}
  /\ \/ /\ type = "more"
        /\ streams' = [streams EXCEPT ![c] =
             [state |-> "open", sent |-> Module!SentSoFar(c) + 1, kind |-> kind,
              payload |-> Invoke(request[c].deadline)]]
     \/ /\ type = "final"
        /\ streams' = [streams EXCEPT ![c] = Module!Closed("final")]

Refuses(c, type) ==
  /\ TakesPart(c, type)
  /\ assemblies' = [assemblies EXCEPT ![c] = None]
  /\ \E status \in Module!ModuleStatus \ {"OK"} :
       reply' = [corr |-> c, stage |-> 7, status |-> status, len |-> 0, offset |-> 0, emitted |-> 0]
  /\ modulePc' = "reply"
  /\ UNCHANGED <<jobs, runs>>

Extends(c) ==
  /\ TakesPart(c, "more")
  /\ assemblies' = [assemblies EXCEPT ![c] =
       [kind |-> kind, deadline |-> request[c].deadline, trace |-> 1,
        len |-> Module!Held(c) + 1]]
  /\ modulePc' = "drain"
  /\ UNCHANGED <<jobs, reply, runs>>

Starts(c) ==
  /\ TakesPart(c, "final")
  /\ assemblies' = [assemblies EXCEPT ![c] = None]
  /\ jobs[c] = None
  /\ \E job \in Module!Job : jobs' = [jobs EXCEPT ![c] = job]
  /\ runs' = IF Module!Held(c) + 1 = request[c].len THEN [runs EXCEPT ![c] = @ + 1] ELSE runs
  /\ modulePc' = "drain"
  /\ UNCHANGED reply

Replies ==
  /\ modulePc = "reply" /\ reply # None
  /\ \E e \in Event :
       /\ fromModule' = Append(fromModule, e)
       /\ e.type = "result" /\ e.corr = reply.corr
       /\ e.status = "OK" <=> reply.status = "OK"
  /\ \/ /\ modulePc' = "reply" /\ reply.status = "OK"
        /\ reply' \in Module!Reply /\ reply'.corr = reply.corr /\ reply'.status = "OK"
        /\ UNCHANGED answers
     \/ /\ modulePc' = "drain" /\ reply' = None
        /\ answers' \in [Calls -> Seq([status : Module!ModuleStatus, whole : BOOLEAN])]
  /\ UNCHANGED <<assemblies, jobs, done, exit, streams, runs, toModule>>
  /\ ModuleOnly

Polls ==
  \E c \in Calls :
    \/ TakesCancel(c)
    \/ \E type \in {"more", "final"} : Refuses(c, type)
    \/ Extends(c) \/ Starts(c)

LEMMA SentType ==
  ASSUME TypeInv, NEW c \in Calls
  PROVE  Module!SentSoFar(c) \in Nat /\ Module!Held(c) \in Nat
<1>1. streams[c] \in Module!Stream /\ assemblies[c] \in Module!Assembly \cup {None}
  BY DEF TypeInv
<1> QED BY <1>1 DEF Module!SentSoFar, Module!Held, Module!Stream, Module!Assembly

LEMMA ReplyAdvances ==
  ASSUME NEW r \in Module!Reply
  PROVE  LET q == [r EXCEPT !.offset = @ + 1, !.emitted = @ + 1]
         IN  q \in Module!Reply /\ q.corr = r.corr /\ q.status = r.status
<1>1. PICK o \in Nat, e \in Nat : o = r.offset + 1 /\ e = r.emitted + 1
  BY DEF Module!Reply
<1>2. LET q == [r EXCEPT !.offset = o, !.emitted = e]
      IN  q \in Module!Reply /\ q.corr = r.corr /\ q.status = r.status
  BY DEF Module!Reply
<1> QED BY <1>1, <1>2

(* The fragments of a module's answer are events of the caller. *)
LEMMA ReplyMoves ==
  ASSUME TypeInv, ModuleInv, ModuleReplies, ModuleSteps
  PROVE  Replies
<1>1. /\ reply \in Module!Reply /\ reply # None /\ reply.corr \in Calls
      /\ reply.len \in Nat /\ reply.offset \in Nat /\ reply.emitted \in Nat
      /\ reply.status \in Module!ModuleStatus
  BY DEF TypeInv, ModuleReplies, Module!Reply
<1>2. answers[reply.corr] \in Seq([status : Module!ModuleStatus, whole : BOOLEAN])
  BY <1>1 DEF TypeInv
<1>3. /\ ReplyEvent \in Event /\ ReplyEvent.type = "result" /\ ReplyEvent.corr = reply.corr
      /\ ReplyEvent.status = "OK" <=> reply.status = "OK"
  <2>1. Len(answers[reply.corr]) \in Nat
    BY <1>2
  <2> DEFINE k == Len(answers[reply.corr])
  <2> HIDE DEF k
  <2> QED BY <1>1, <2>1 DEF ReplyEvent, Caller!Fragment, Event, k
<1>4. /\ fromModule' = Append(fromModule, ReplyEvent) /\ modulePc = "reply"
      /\ UNCHANGED <<assemblies, jobs, done, exit, streams, runs, toModule>>
      /\ ModuleOnly
  BY DEF ModuleReplies, Module!ReplyFragment, Module!MayEmit, ModuleSteps, ModuleOnly,
    callerVars, callState, Module!envVars
<1>5. CASE Module!More
  <2>1. reply.len # 0 /\ reply.status = "OK" /\ Module!Part = 1
    BY <1>1, <1>5 DEF Module!More, Module!Part, Module!chunkCapacity, ModuleInv
  <2>2. /\ reply' = [reply EXCEPT !.offset = @ + 1, !.emitted = @ + 1]
        /\ modulePc' = "reply" /\ UNCHANGED answers
    BY <1>4, <1>5, <2>1 DEF ModuleReplies, Module!ReplyFragment
  <2>3. reply' \in Module!Reply /\ reply'.corr = reply.corr /\ reply'.status = "OK"
    BY <1>1, <2>1, <2>2, ReplyAdvances
  <2> QED BY <1>1, <1>3, <1>4, <2>1, <2>2, <2>3 DEF Replies
<1>6. CASE ~Module!More
  <2>1. /\ reply' = None /\ modulePc' = "drain"
        /\ answers' = [answers EXCEPT ![reply.corr] = Append(@, [status |-> reply.status,
                           whole |-> reply.emitted + Module!Part = reply.len])]
    BY <1>6 DEF ModuleReplies, Module!ReplyFragment
  <2>2. answers' \in [Calls -> Seq([status : Module!ModuleStatus, whole : BOOLEAN])]
    <3> DEFINE w == (reply.emitted + Module!Part = reply.len)
               a == [status |-> reply.status, whole |-> w]
    <3>1. w \in BOOLEAN
      BY Zenon
    <3> HIDE DEF w
    <3>2. a \in [status : Module!ModuleStatus, whole : BOOLEAN]
      BY <1>1, <3>1
    <3>3. answers' = [answers EXCEPT ![reply.corr] = Append(@, a)]
      BY <2>1 DEF w
    <3> HIDE DEF a
    <3>4. Append(answers[reply.corr], a) \in Seq([status : Module!ModuleStatus, whole : BOOLEAN])
      BY <1>2, <3>2
    <3> QED BY <1>1, <3>3, <3>4 DEF TypeInv
  <2> QED BY <1>1, <1>3, <1>4, <2>1, <2>2 DEF Replies
<1> QED BY <1>5, <1>6

(* An outcome of a handler, normalised. *)
LEMMA NormalType ==
  ASSUME NEW status, NEW len \in Nat
  PROVE  /\ Module!NormalStatus(status, len) \in Module!ModuleStatus
         /\ Module!NormalLen(status, len) \in Nat
         /\ Module!NormalStatus(status, len) # "OK" => Module!NormalLen(status, len) = 0
         /\ Module!NormalStatus(status, len) = "OK" => status = "OK"
BY DEF Module!NormalStatus, Module!NormalLen, Module!validModuleStatus, Module!ModuleStatus

LEMMA RunMoves ==
  ASSUME TypeInv, ModuleInv, ModuleRuns, ModuleSteps
  PROVE  Rests \/ Exits \/ Receives \/ Marks
<1>1. /\ UNCHANGED <<fromModule, toModule, runs>> /\ ModuleOnly
  BY DEF ModuleRuns, ModuleSteps, ModuleOnly, callerVars, callState
<1>2. CASE Module!finishModuleWork
  BY <1>1, <1>2 DEF Module!finishModuleWork, Module!history, Receives
<1>3. CASE Module!DrainEmpty
  BY <1>1, <1>3 DEF Module!DrainEmpty, Module!history, Rests, InLoop
<1>4. CASE Module!BeginShutdown
  <2>1. /\ jobs' = [c \in Calls |-> IF jobs[c] = None THEN None
                                    ELSE [jobs[c] EXCEPT !.cancelled = TRUE]]
        /\ done' = done /\ modulePc = "top" /\ modulePc' = "shutdown"
        /\ UNCHANGED <<assemblies, reply, exit, streams, answers>>
    BY <1>4 DEF Module!BeginShutdown, Module!history
  <2>2. \A c \in Calls : jobs[c] # None =>
          [jobs[c] EXCEPT !.cancelled = TRUE] \in Module!Job
    BY DEF TypeInv, Module!Job
  <2>3. jobs' \in [Calls -> Module!Job \cup {None}] /\ \A c \in Calls : JobKept(c)
    <3> SUFFICES ASSUME NEW c \in Calls PROVE jobs'[c] \in Module!Job \cup {None} /\ JobKept(c)
      BY <2>1
    <3>1. CASE jobs[c] = None
      BY <2>1, <3>1 DEF JobKept
    <3>2. CASE jobs[c] # None
      <4>1. jobs'[c] = [jobs[c] EXCEPT !.cancelled = TRUE] /\ jobs[c] \in Module!Job
        BY <2>1, <3>2 DEF TypeInv
      <4>2. jobs'[c] \in Module!Job /\ jobs'[c] # None
        BY <2>2, <3>2, <4>1, NoneAssumption
      <4>3. jobs'[c].cancelled /\ jobs'[c].phase = jobs[c].phase
        BY <4>1 DEF Module!Job
      <4> QED BY <3>2, <4>2, <4>3 DEF JobKept
    <3> QED BY <3>1, <3>2
  <2> QED BY <1>1, <2>1, <2>3 DEF Marks
<1>5. CASE Module!ShutdownReceive
  BY <1>1, <1>5 DEF Module!ShutdownReceive, Module!history, Receives
<1>6. CASE Module!ShutdownReturn \/ Module!ReplyError \/ Module!ReplyWaitCtx \/ Module!ReplyWaitEpoch
  BY <1>1, <1>6 DEF Module!ShutdownReturn, Module!ReplyError, Module!ReplyWaitCtx,
    Module!ReplyWaitEpoch, Module!Return, Module!history, Exits
<1>7. CASE Module!EpochReturn
  BY <1>1, <1>7 DEF Module!EpochReturn, Module!Return, Module!history, Exits
<1>8. CASE Module!LoopTop
  BY <1>1, <1>8 DEF Module!LoopTop, Module!history, Rests, InLoop
<1>9. CASE Module!PollNothing
  BY <1>1, <1>9 DEF Module!PollNothing, Module!history, Rests, InLoop
<1>10. CASE Module!ReplyWouldBlock
  BY <1>1, <1>10 DEF Module!ReplyWouldBlock, Module!MayEmit, Module!history, Rests, InLoop
<1>11. CASE Module!ReplyRetry
  BY <1>1, <1>11 DEF Module!ReplyRetry, Module!history, Rests, InLoop
<1> QED BY <1>2, <1>3, <1>4, <1>5, <1>6, <1>7, <1>8, <1>9, <1>10, <1>11 DEF ModuleRuns

LEMMA HandlerMoves ==
  ASSUME TypeInv, NEW c \in Calls, HandlerSteps(c)
  PROVE  Marks
<1>1. UNCHANGED <<fromModule, toModule, runs>> /\ ModuleOnly
  BY DEF HandlerSteps, ModuleOnly, callerVars, callState, rings
<1>2. jobs[c] # None /\ jobs[c] \in Module!Job
  BY DEF TypeInv, HandlerSteps, Module!Handler, Module!HandlerReturn, Module!HandlerSend
<1>3. ASSUME NEW job \in Module!Job, jobs' = [jobs EXCEPT ![c] = job], jobs[c].phase # "done",
             job.cancelled = jobs[c].cancelled
      PROVE  jobs' \in [Calls -> Module!Job \cup {None}] /\ \A b \in Calls : JobKept(b)
  <2>1. job # None
    BY NoneAssumption
  <2> QED BY <1>2, <1>3, <2>1 DEF TypeInv, JobKept
<1>4. ASSUME NEW outcome \in HandlerOutcome, Module!HandlerReturn(c, outcome) PROVE Marks
  <2> DEFINE status == Module!NormalStatus(outcome[1], outcome[2])
             len == Module!NormalLen(outcome[1], outcome[2])
             read == streams[c].state = "cancelled"
             job == [jobs[c] EXCEPT
               !.phase = IF jobs[c].cancelled THEN "cancelled" ELSE "returned",
               !.status = IF jobs[c].cancelled THEN "Cancelled" ELSE status,
               !.len = IF jobs[c].cancelled THEN 0 ELSE len,
               !.said = status, !.told = read]
  <2>1. status \in Module!ModuleStatus /\ len \in Nat
    BY NormalType, SystemAssumption
  <2>0. read \in BOOLEAN
    BY Zenon
  <2>2. /\ jobs' = [jobs EXCEPT ![c] = job] /\ jobs[c].phase = "running"
        /\ UNCHANGED <<modulePc, assemblies, done, reply, exit, streams, answers>>
    BY <1>2, <1>4 DEF Module!HandlerReturn, Module!history, TypeInv
  <2> HIDE DEF status, len, read
  <2>3. job \in Module!Job /\ job.cancelled = jobs[c].cancelled
    BY <1>2, <2>0, <2>1 DEF Module!Job, Module!ModuleStatus
  <2> HIDE DEF job
  <2> QED BY <1>1, <1>3, <2>2, <2>3 DEF Marks
<1>5. ASSUME Module!HandlerSend(c) PROVE Marks
  <2>1. PICK late \in BOOLEAN :
          jobs' = [jobs EXCEPT ![c].phase = "done",
                     ![c].status = IF late THEN "DeadlineExceeded" ELSE @,
                     ![c].len    = IF late THEN 0 ELSE @]
    BY <1>5 DEF Module!HandlerSend, Module!DeadlineExpired
  <2> DEFINE job == [jobs[c] EXCEPT !.phase = "done",
                       !.status = IF late THEN "DeadlineExceeded" ELSE @,
                       !.len    = IF late THEN 0 ELSE @]
  <2>2. /\ jobs' = [jobs EXCEPT ![c] = job] /\ jobs[c].phase # "done" /\ done' = Append(done, c)
        /\ UNCHANGED <<modulePc, assemblies, reply, exit, streams, answers>>
    BY <1>2, <1>5, <2>1 DEF Module!HandlerSend, Module!history, TypeInv
  <2>3. job \in Module!Job /\ job.cancelled = jobs[c].cancelled /\ job.phase = "done"
    BY <1>2 DEF Module!Job, Module!ModuleStatus
  <2> HIDE DEF job
  <2>4. jobs'[c].phase = "done"
    BY <2>2, <2>3 DEF TypeInv
  <2> QED BY <1>1, <1>2, <1>3, <2>2, <2>3, <2>4 DEF Marks
<1> QED BY <1>4, <1>5 DEF HandlerSteps, Module!Handler

(* The payload the caller writes decodes. *)
LEMMA InvokeDecodes ==
  ASSUME NEW deadline
  PROVE  /\ Module!DecodeModuleMessage(Invoke(deadline))
         /\ Invoke(deadline).op = "Invoke" /\ Invoke(deadline).stage = 7
         /\ Invoke(deadline).bodyLen = 1 /\ Invoke(deadline).deadline = deadline
         /\ Invoke(deadline).trace = 1
BY SystemAssumption DEF Invoke, Module!DecodeModuleMessage, Module!valid,
  Module!ModuleOperation, Module!ModuleStatus

(* The one kind of this system, and its stage. *)
LEMMA StageOfKind ==
  /\ [k \in {kind} |-> 7][kind] = 7 /\ Module!replyStage(kind) = 7
  /\ 7 \in Module!Stage
  /\ Module!Stage = {7}
BY DEF Module!replyStage, Module!Stage, Module!Kind

LEMMA PollMoves ==
  ASSUME TypeInv, ModuleInv, ModulePolls, ModuleSteps
  PROVE  Polls
<1> DEFINE f == Head(toModule)
           c == f.corr
           p == Invoke(request[c].deadline)
<1>1. /\ toModule # <<>> /\ toModule' = Tail(toModule) /\ f \in Caller!Frame
      /\ c \in Calls /\ f.type \in {"more", "final", "cancel"}
      /\ UNCHANGED fromModule /\ ModuleOnly
  <2>1. f \in Caller!Frame
    BY DEF ModulePolls, TypeInv
  <2> QED BY <2>1 DEF ModulePolls, ModuleSteps, ModuleOnly, callerVars, callState,
        Caller!Frame, Caller!Corr, Calls
<1>2. runs' = [b \in Calls |-> IF jobs[b] = None /\ jobs'[b] # None /\ jobs'[b].got = request[b].len
                               THEN runs[b] + 1 ELSE runs[b]]
  BY DEF ModulePolls
<1>3. \/ f.type = "cancel" /\ Module!PollCancel(c)
      \/ f.type # "cancel" /\ \/ Module!RejectInvalid(c, kind, p, f.type = "more")
                              \/ Module!RejectTableFull(c, kind, p, f.type = "more")
                              \/ Module!RejectTooLarge(c, kind, p, f.type = "more")
      \/ f.type = "more" /\ Module!ExtendAssembly(c, kind, p)
      \/ f.type = "final" /\ \/ Module!RejectExpired(c, kind, p)
                             \/ Module!RejectJobsFull(c, kind, p)
                             \/ Module!StartJob(c, kind, p)
  BY DEF ModulePolls
<1>4. Module!SentSoFar(c) \in Nat /\ Module!Held(c) \in Nat
  BY <1>1, SentType
<1>5. /\ p.bodyLen = 1 /\ p.deadline = request[c].deadline /\ p.trace = 1
  BY InvokeDecodes
<1>6. /\ runs \in [Calls -> {0, 1}] /\ jobs \in [Calls -> Module!Job \cup {None}]
      /\ assemblies \in [Calls -> Module!Assembly \cup {None}]
      /\ request[c].deadline \in {0, Expiry}
  BY <1>1 DEF TypeInv, Request
<1> HIDE DEF c, p
<1>7. (\A b \in Calls : jobs[b] = None <=> jobs'[b] = None) => runs' = runs
  BY <1>2, <1>6
<1>8. ASSUME f.type = "cancel", Module!PollCancel(c) PROVE TakesCancel(c)
  <2>1. /\ modulePc = "poll" /\ State(c) \in {"open", "final"}
        /\ streams' = [streams EXCEPT ![c] = Module!Closed("cancelled")]
        /\ jobs' = IF jobs[c] = None THEN jobs ELSE [jobs EXCEPT ![c].cancelled = TRUE]
        /\ assemblies' = [assemblies EXCEPT ![c] = None]
        /\ modulePc' = "drain"
        /\ UNCHANGED <<done, reply, exit, answers>>
    BY <1>8 DEF Module!PollCancel, Module!Polled, State
  <2>2. /\ jobs' \in [Calls -> Module!Job \cup {None}] /\ \A b \in Calls : JobKept(b)
        /\ jobs[c] # None => jobs'[c].cancelled
    <3>1. CASE jobs[c] = None
      BY <1>6, <2>1, <3>1 DEF JobKept
    <3>2. CASE jobs[c] # None
      <4> DEFINE job == [jobs[c] EXCEPT !.cancelled = TRUE]
      <4>1. job \in Module!Job /\ job.cancelled /\ job.phase = jobs[c].phase
        BY <1>1, <1>6, <3>2 DEF Module!Job
      <4>2. jobs' = [jobs EXCEPT ![c] = job]
        BY <2>1, <3>2
      <4> HIDE DEF job
      <4>3. job # None
        BY <4>1, NoneAssumption
      <4> QED BY <1>1, <1>6, <3>2, <4>1, <4>2, <4>3 DEF JobKept
    <3> QED BY <3>1, <3>2
  <2>3. runs' = runs
    BY <1>7, <2>2 DEF JobKept
  <2> QED BY <1>1, <1>8, <2>1, <2>2, <2>3 DEF TakesCancel, Takes, c
<1>9. ASSUME NEW more \in BOOLEAN, more <=> f.type = "more", f.type # "cancel",
             Module!PollRequest(c, kind, p, more)
      PROVE  TakesPart(c, f.type)
  <2>1. modulePc = "poll" /\ UNCHANGED <<done, exit, answers>>
    BY <1>9 DEF Module!PollRequest, Module!Polled
  <2>2. State(c) \in {"fresh", "open"}
    BY <1>9 DEF Module!PollRequest, Module!KeepsProtocol, State
  <2>3. CASE more
    <3>1. streams' = [streams EXCEPT ![c] =
             [state |-> "open", sent |-> Module!SentSoFar(c) + 1, kind |-> kind, payload |-> p]]
      BY <1>5, <1>9, <2>3 DEF Module!PollRequest
    <3> QED BY <1>1, <1>9, <2>1, <2>2, <2>3, <3>1 DEF TakesPart, Takes, c, p
  <2>4. CASE ~more
    <3>1. streams' = [streams EXCEPT ![c] = Module!Closed("final")]
      BY <1>9, <2>4 DEF Module!PollRequest
    <3> QED BY <1>1, <1>9, <2>1, <2>2, <2>4, <3>1 DEF TakesPart, Takes, c
  <2> QED BY <2>3, <2>4
<1>10. ASSUME NEW status \in Module!ModuleStatus \ {"OK"}, Module!replyModuleResult(c, 7, status, 0)
       PROVE  /\ modulePc' = "reply"
              /\ \E s \in Module!ModuleStatus \ {"OK"} :
                   reply' = [corr |-> c, stage |-> 7, status |-> s, len |-> 0, offset |-> 0, emitted |-> 0]
  <2>1. Module!NormalStatus(status, 0) \in Module!ModuleStatus \ {"OK"} /\ Module!NormalLen(status, 0) = 0
    BY <1>10, NormalType
  <2> QED BY <1>10, <2>1 DEF Module!replyModuleResult
<1>11. ASSUME NEW more \in BOOLEAN, more <=> f.type = "more", f.type # "cancel",
              Module!PollRequest(c, kind, p, more),
              NEW status \in Module!ModuleStatus \ {"OK"}, Module!replyModuleResult(c, 7, status, 0),
              assemblies' = [assemblies EXCEPT ![c] = None], jobs' = jobs
       PROVE  Refuses(c, f.type)
  <2>1. TakesPart(c, f.type)
    BY <1>9, <1>11
  <2>2. /\ modulePc' = "reply"
        /\ \E s \in Module!ModuleStatus \ {"OK"} :
             reply' = [corr |-> c, stage |-> 7, status |-> s, len |-> 0, offset |-> 0, emitted |-> 0]
    BY <1>10, <1>11
  <2> QED BY <1>7, <1>11, <2>1, <2>2 DEF Refuses
<1>12. {"InvalidRequest", "Internal", "DeadlineExceeded"} \subseteq Module!ModuleStatus \ {"OK"}
  BY DEF Module!ModuleStatus
<1>13. ASSUME NEW more \in BOOLEAN, more <=> f.type = "more", f.type # "cancel",
              \/ Module!RejectInvalid(c, kind, p, more)
              \/ Module!RejectTableFull(c, kind, p, more)
              \/ Module!RejectTooLarge(c, kind, p, more)
       PROVE  Refuses(c, f.type)
  <2>1. CASE Module!RejectInvalid(c, kind, p, more)
    BY <1>11, <1>12, <1>13, <2>1, StageOfKind DEF Module!RejectInvalid
  <2>2. CASE Module!RejectTableFull(c, kind, p, more)
    <3>1. assemblies[c] = None /\ assemblies' = assemblies
      BY <2>2 DEF Module!RejectTableFull, Module!RoomToAssemble
    <3>2. assemblies' = [assemblies EXCEPT ![c] = None]
      BY <1>1, <1>6, <3>1
    <3> QED BY <1>11, <1>12, <1>13, <2>2, <3>2, StageOfKind DEF Module!RejectTableFull
  <2>3. CASE Module!RejectTooLarge(c, kind, p, more)
    BY <1>11, <1>12, <1>13, <2>3, StageOfKind DEF Module!RejectTooLarge
  <2> QED BY <1>13, <2>1, <2>2, <2>3
<1>14. ASSUME f.type = "more", Module!ExtendAssembly(c, kind, p) PROVE Extends(c)
  <2>1. TakesPart(c, "more")
    BY <1>9, <1>14 DEF Module!ExtendAssembly
  <2> QED BY <1>5, <1>7, <1>14, <2>1 DEF Module!ExtendAssembly, Extends
<1>15. ASSUME f.type = "final", Module!RejectExpired(c, kind, p) \/ Module!RejectJobsFull(c, kind, p)
       PROVE  Refuses(c, "final")
  BY <1>11, <1>12, <1>15, StageOfKind DEF Module!RejectExpired, Module!RejectJobsFull, Module!CompleteAssembly
<1>16. ASSUME f.type = "final", Module!StartJob(c, kind, p) PROVE Starts(c)
  <2> DEFINE job == [stage |-> 7, deadline |-> request[c].deadline, cancelled |-> FALSE,
                     phase |-> "running", status |-> "OK", len |-> 0, got |-> Module!Held(c) + 1,
                     sent |-> Module!SentSoFar(c) + 1, said |-> "OK", told |-> FALSE]
  <2>1. TakesPart(c, "final") /\ assemblies' = [assemblies EXCEPT ![c] = None]
    BY <1>9, <1>16 DEF Module!StartJob, Module!CompleteAssembly
  <2>2. jobs[c] = None
    BY <1>16 DEF Module!StartJob, Module!CompleteAssembly, Module!Accepted, Module!invalid
  <2>3. jobs' = [jobs EXCEPT ![c] = job] /\ modulePc' = "drain" /\ UNCHANGED reply
    BY <1>5, <1>16, StageOfKind DEF Module!StartJob
  <2>4. job \in Module!Job /\ job.got = Module!Held(c) + 1
    <3>1. request[c].deadline \in Module!Deadline
      BY <1>6, InvokeDecodes DEF Module!Deadline
    <3> QED BY <1>4, <3>1, StageOfKind DEF Module!Job, Module!ModuleStatus
  <2> HIDE DEF job
  <2>5. job # None
    BY <2>4, NoneAssumption
  <2>6. runs' = IF Module!Held(c) + 1 = request[c].len THEN [runs EXCEPT ![c] = @ + 1] ELSE runs
    BY <1>1, <1>2, <1>6, <2>2, <2>3, <2>4, <2>5
  <2> QED BY <2>1, <2>2, <2>3, <2>4, <2>6 DEF Starts
<1>17. CASE f.type = "cancel" /\ Module!PollCancel(c)
  BY <1>1, <1>8, <1>17 DEF Polls
<1>18. CASE /\ f.type # "cancel"
            /\ \/ Module!RejectInvalid(c, kind, p, f.type = "more")
               \/ Module!RejectTableFull(c, kind, p, f.type = "more")
               \/ Module!RejectTooLarge(c, kind, p, f.type = "more")
  <2> DEFINE more == (f.type = "more")
  <2>1. more \in BOOLEAN /\ (more <=> f.type = "more")
    BY Zenon
  <2>2. \/ Module!RejectInvalid(c, kind, p, more)
        \/ Module!RejectTableFull(c, kind, p, more)
        \/ Module!RejectTooLarge(c, kind, p, more)
    BY <1>18
  <2> HIDE DEF more
  <2>3. Refuses(c, f.type)
    BY <1>13, <1>18, <2>1, <2>2
  <2> QED BY <1>1, <1>18, <2>3 DEF Polls
<1>19. CASE f.type = "more" /\ Module!ExtendAssembly(c, kind, p)
  BY <1>1, <1>14, <1>19 DEF Polls
<1>20. CASE f.type = "final" /\ \/ Module!RejectExpired(c, kind, p)
                                \/ Module!RejectJobsFull(c, kind, p)
                                \/ Module!StartJob(c, kind, p)
  BY <1>1, <1>15, <1>16, <1>20 DEF Polls
<1> QED BY <1>3, <1>17, <1>18, <1>19, <1>20
-------------------------------------------------------------------------------
(* The host passes a frame on, and drops or refuses it without a module.   *)
Forwards ==
  /\ callerOut # <<>> /\ callerOut' = Tail(callerOut)
  /\ \/ exit = "none" /\ toModule' = Append(toModule, Head(callerOut)) /\ callerIn' = callerIn
     \/ /\ exit # "none" /\ toModule' = toModule
        /\ \/ callerIn' = callerIn
           \/ /\ Head(callerOut).type # "cancel"
              /\ callerIn' = Append(callerIn, Caller!Noise("absent", Head(callerOut).corr))
  /\ UNCHANGED <<callState, moduleState, fromModule, request>>

Delivers ==
  /\ fromModule # <<>> /\ fromModule' = Tail(fromModule)
  /\ callerIn' = Append(callerIn, Head(fromModule))
  /\ UNCHANGED <<callState, moduleState, callerOut, toModule, request>>

Stutters == UNCHANGED <<callState, moduleState, rings, request>>

CallerMove ==
  \/ \E len \in RequestLen, deadline \in BOOLEAN : Asks(len, deadline)
  \/ Flags \/ (\E r \in SendErrors : SendEnds(r)) \/ Sends
  \/ Waits \/ GivesUp \/ Answered \/ Cancels

ModuleMove == Rests \/ Exits \/ Receives \/ Marks \/ Polls \/ Replies

Move == CallerMove \/ ModuleMove \/ Forwards \/ Delivers \/ Stutters

(* Every step is one of these. *)
LEMMA Moves ==
  ASSUME TypeInv, CallInv, ModuleInv, [Next]_vars
  PROVE  Move
<1>1. ASSUME NEW len \in RequestLen, NEW deadline \in BOOLEAN, MakeCall(len, deadline) PROVE Move
  BY <1>1, AskMoves DEF Move, CallerMove
<1>2. CASE CallerSteps
  BY <1>2, CallerMoves DEF Move, CallerMove
<1>3. CASE CallerExpires \/ CallerGivesUp
  BY <1>3, FlagMoves DEF Move, CallerMove
<1>4. CASE ModuleSteps
  <2>0. CASE ModuleReleases
    <3>1. Rests
      BY <1>4, <2>0 DEF ModuleReleases, ModuleSteps, ModuleOnly, callerVars, callState,
        moduleVars, Rests
    <3> QED BY <3>1 DEF Move, ModuleMove
  <2>1. CASE ModulePolls
    BY <1>4, <2>1, PollMoves DEF Move, ModuleMove
  <2>2. CASE ModuleReplies
    BY <1>4, <2>2, ReplyMoves DEF Move, ModuleMove
  <2>3. CASE ModuleRuns
    BY <1>4, <2>3, RunMoves DEF Move, ModuleMove
  <2> QED BY <1>4, <2>0, <2>1, <2>2, <2>3 DEF ModuleSteps
<1>5. ASSUME NEW c \in Calls, HandlerSteps(c) PROVE Move
  BY <1>5, HandlerMoves DEF Move, ModuleMove
<1>6. CASE ModuleStops
  <2>1. Stutters
    BY <1>6 DEF ModuleStops, Module!CtxCancel, Module!loopVars, Module!history, callerVars,
      callState, moduleState, rings, Stutters
  <2> QED BY <2>1 DEF Move
<1>7. CASE HostForwards
  <2>1. Forwards
    <3>1. UNCHANGED <<callState, moduleState, fromModule, request>>
      BY <1>7 DEF HostForwards, callerVars, moduleVars, callState, moduleState
    <3> QED BY <1>7, <3>1 DEF HostForwards, Forwards
  <2> QED BY <2>1 DEF Move
<1>8. CASE HostDelivers
  <2>1. Delivers
    BY <1>8 DEF HostDelivers, callerVars, moduleVars, callState, moduleState, Delivers
  <2> QED BY <2>1 DEF Move
<1>9. CASE HostRestart \/ Tick \/ UNCHANGED vars
  <2>1. Stutters
    BY <1>9 DEF HostRestart, Tick, vars, callerVars, moduleVars, callState, moduleState, rings, Stutters
  <2> QED BY <2>1 DEF Move
<1> QED BY <1>1, <1>2, <1>3, <1>4, <1>5, <1>6, <1>7, <1>8, <1>9 DEF Next

(* The call in progress has a number. *)
LEMMA Current ==
  ASSUME TypeInv, CallInv
  PROVE  /\ correlation \in Nat /\ correlation <= MaxCalls /\ MaxCalls \in Nat
         /\ callerPc # "idle" => correlation \in Calls /\ results[correlation] = "none"
BY SystemAssumption DEF TypeInv, CallInv, Calls

LEMMA RingTypes ==
  ASSUME NEW S, NEW s \in Seq(S)
  PROVE  /\ s # <<>> => Head(s) \in S /\ Tail(s) \in Seq(S)
         /\ \A e \in S : Append(s, e) \in Seq(S)
OBVIOUS

(* The caller's part of the type. *)
CallerType ==
  /\ callerPc \in {"idle", "send", "await", "empty", "cancel"}
  /\ correlation \in 0 .. MaxCalls
  /\ call \in CallType
  /\ results \in [Calls -> Caller!Result]
  /\ callerOut \in Seq(Caller!Frame)
  /\ request \in [Calls -> Request]

LEMMA NewCallType ==
  /\ Caller!NoCall \in CallType
  /\ \A len \in Nat, deadline \in BOOLEAN : Caller!NewCall(len, TRUE, deadline) \in CallType
BY DEF Caller!NoCall, Caller!NewCall, CallType

LEMMA CallerTypeStep ==
  ASSUME TypeInv, CallInv, CallerMove
  PROVE  CallerType' /\ CallInv'
<1>1. /\ correlation \in Nat /\ correlation <= MaxCalls /\ MaxCalls \in Nat
      /\ callerPc # "idle" => correlation \in Calls /\ results[correlation] = "none"
  BY Current
<1>2. CallerType
  BY DEF TypeInv, CallerType
<1>3. \A c \in Calls : c \in Nat
  BY DEF Calls
<1>4. ASSUME NEW len \in RequestLen, NEW deadline \in BOOLEAN, Asks(len, deadline)
      PROVE  CallerType' /\ CallInv'
  <2>1. len \in Nat /\ len > 0
    BY SystemAssumption
  <2>2. correlation + 1 \in Calls /\ [len |-> len, deadline |-> IF deadline THEN Expiry ELSE 0] \in Request
    BY <1>1, <1>4, <2>1 DEF Asks, Calls, Request
  <2>3. CallerType'
    <3>1. call' \in CallType
      BY <1>4, <2>1, NewCallType DEF Asks
    <3>2. request' \in [Calls -> Request]
      BY <1>2, <1>4, <2>2 DEF Asks, CallerType
    <3>3. correlation' \in 0 .. MaxCalls /\ callerPc' = "send"
      BY <1>1, <1>4 DEF Asks
    <3>4. UNCHANGED <<results, callerOut>>
      BY <1>4 DEF Asks, rings
    <3> QED BY <1>2, <3>1, <3>2, <3>3, <3>4 DEF CallerType
  <2>4. \A c \in Calls : c < correlation + 1 <=> (c < correlation \/ c = correlation)
    BY <1>1, <1>3
  <2>5. /\ call'.stageOK /\ call'.offset = 0 /\ call'.len = len
        /\ request'[correlation + 1].len = len
    BY <1>2, <1>4, <2>2 DEF Asks, Caller!NewCall, CallerType
  <2>6. \A c \in Calls : c > correlation + 1 \/ c = correlation + 1 => c > correlation
    BY <1>1, <1>3
  <2>7. correlation + 1 # 0
    BY <1>1
  <2> QED BY <1>4, <2>1, <2>3, <2>4, <2>5, <2>6, <2>7 DEF Asks, CallInv
<1>5. CASE Flags
  <2>1. CallerType' /\ call'.stageOK = call.stageOK /\ call'.offset = call.offset /\ call'.len = call.len
    BY <1>2, <1>5 DEF Flags, CallerOnly, CallerType, CallType
  <2> QED BY <1>5, <2>1 DEF Flags, CallerOnly, CallInv
<1>6. ASSUME NEW r \in SendErrors, SendEnds(r) PROVE CallerType' /\ CallInv'
  <2>1. r \in Caller!Result /\ r # "none"
    BY DEF SendErrors, Caller!Result
  <2>2. CallerType'
    BY <1>1, <1>2, <1>6, <2>1, NewCallType DEF SendEnds, CallerOnly, CallerType
  <2> QED BY <1>1, <1>2, <1>3, <1>6, <2>1, <2>2 DEF SendEnds, CallerType, CallInv
<1>7. CASE Sends
  <2>1. call.offset \in Nat /\ call.len \in Nat
    BY <1>2 DEF CallerType, CallType
  <2>2. /\ call' \in CallType /\ call'.offset = call.offset + 1 /\ call'.len = call.len
        /\ call'.stageOK = call.stageOK
    <3>1. PICK o \in Nat : o = call.offset + 1
      BY <2>1
    <3>2. call' = [call EXCEPT !.offset = o]
      BY <1>7, <3>1 DEF Sends
    <3> QED BY <1>2, <3>1, <3>2 DEF CallerType, CallType
  <2>3. [corr |-> correlation, type |-> IF Last THEN "final" ELSE "more"] \in Caller!Frame
    BY <1>1, <1>7 DEF Sends, Caller!Frame, Caller!Corr, Calls
  <2>4. callerOut' \in Seq(Caller!Frame)
    BY <1>2, <1>7, <2>3, RingTypes DEF Sends, CallerType
  <2>5. CallerType'
    BY <1>2, <1>7, <2>2, <2>4 DEF Sends, CallerOnly, CallerType
  <2> QED BY <1>7, <2>2, <2>5 DEF Sends, Last, CallerOnly, CallInv
<1>8. CASE Waits \/ GivesUp
  BY <1>2, <1>8 DEF Waits, GivesUp, CallerOnly, CallerType, CallInv
<1>9. CASE Answered
  <2>1. "OK" \in Caller!Result
    BY DEF Caller!Result
  <2>2. CallerType'
    BY <1>1, <1>2, <1>9, <2>1, NewCallType DEF Answered, CallerOnly, CallerType
  <2> QED BY <1>1, <1>2, <1>3, <1>9, <2>2 DEF Answered, CallerType, CallInv
<1>10. CASE Cancels
  <2>1. why \in AwaitErrors /\ why \in Caller!Result /\ why # "none"
    BY <1>10 DEF Cancels, CallInv, AwaitErrors, Caller!AwaitErrors, Caller!Result
  <2>2. [corr |-> correlation, type |-> "cancel"] \in Caller!Frame
    BY <1>1, <1>10 DEF Cancels, Caller!Frame, Caller!Corr, Calls
  <2>3. callerOut' \in Seq(Caller!Frame)
    BY <1>2, <1>10, <2>2, RingTypes DEF Cancels, CallerType
  <2>4. CallerType'
    BY <1>1, <1>2, <1>10, <2>1, <2>3, NewCallType DEF Cancels, CallerOnly, CallerType
  <2> QED BY <1>1, <1>2, <1>3, <1>10, <2>1, <2>4 DEF Cancels, CallerType, CallInv
<1> QED BY <1>4, <1>5, <1>6, <1>7, <1>8, <1>9, <1>10 DEF CallerMove

(* The rest of the type. *)
ModuleType ==
  /\ runs \in [Calls -> {0, 1}]
  /\ assemblies \in [Calls -> Module!Assembly \cup {None}]
  /\ jobs \in [Calls -> Module!Job \cup {None}]
  /\ done \in Seq(Calls)
  /\ reply \in Module!Reply \cup {None}
  /\ streams \in [Calls -> Module!Stream]
  /\ answers \in [Calls -> Seq([status : Module!ModuleStatus, whole : BOOLEAN])]

RingType ==
  toModule \in Seq(Caller!Frame) /\ fromModule \in Seq(Event) /\ callerIn \in Seq(Event)

LEMMA ModuleTypeStep ==
  ASSUME TypeInv, ModuleInv, ModuleMove
  PROVE  ModuleType'
<1>1. ModuleType
  BY DEF TypeInv, ModuleType
<1>2. CASE Rests \/ Exits
  BY <1>1, <1>2 DEF Rests, Exits, ModuleType
<1>3. CASE Receives
  <2>1. Head(done) \in Calls /\ done' \in Seq(Calls)
    BY <1>1, <1>3, RingTypes DEF Receives, ModuleType
  <2>2. jobs' \in [Calls -> Module!Job \cup {None}]
    BY <1>1, <1>3, <2>1 DEF Receives, ModuleType
  <2>3. reply' \in Module!Reply \cup {None}
    <3>1. CASE UNCHANGED reply
      BY <1>1, <3>1 DEF ModuleType
    <3>2. CASE Module!replyModuleResult(Head(done), jobs[Head(done)].stage,
                                                        jobs[Head(done)].status, jobs[Head(done)].len)
      <4>1. PICK c \in Calls : c = Head(done)
        BY <2>1
      <4>2. jobs[c] # None /\ jobs[c] \in Module!Job
        <5>1. done[1] = c /\ 1 \in 1 .. Len(done)
          BY <1>1, <1>3, <4>1, TailAt DEF Receives, ModuleType
        <5> QED BY <1>1, <5>1 DEF ModuleInv, ModuleType
      <4>3. PICK status \in Module!ModuleStatus, len \in Nat, stage \in Module!Stage :
              status = jobs[c].status /\ len = jobs[c].len /\ stage = jobs[c].stage
        BY <4>2 DEF Module!Job
      <4>4. /\ Module!NormalStatus(status, len) \in Module!ModuleStatus
            /\ Module!NormalLen(status, len) \in Nat
        BY NormalType
      <4> QED BY <3>2, <4>1, <4>3, <4>4 DEF Module!replyModuleResult, Module!Reply
    <3> QED BY <1>3, <3>1, <3>2 DEF Receives
  <2> QED BY <1>1, <1>3, <2>1, <2>2, <2>3 DEF Receives, ModuleType
<1>4. CASE Marks
  <2>1. done' \in Seq(Calls)
    <3>1. done \in Seq(Calls)
      BY <1>1 DEF ModuleType
    <3>2. done' = done \/ \E c \in Calls : done' = Append(done, c)
      BY <1>4 DEF Marks
    <3> QED BY <3>1, <3>2, RingTypes
  <2> QED BY <1>1, <1>4, <2>1 DEF Marks, ModuleType
<1>5. CASE Replies
  BY <1>1, <1>5 DEF Replies, ModuleType
<1>6. ASSUME NEW c \in Calls, NEW type, TakesPart(c, type)
      PROVE  streams' \in [Calls -> Module!Stream] /\ UNCHANGED <<done, answers>>
  <2>1. Module!SentSoFar(c) \in Nat
    BY SentType
  <2>2. request[c].deadline \in {0, Expiry}
    BY DEF TypeInv, Request
  <2>3. [state |-> "open", sent |-> Module!SentSoFar(c) + 1, kind |-> kind,
              payload |-> Invoke(request[c].deadline)] \in Module!Stream
    BY <2>1, <2>2 DEF Module!Stream, Module!Kind
  <2>4. Module!Closed("final") \in Module!Stream
    BY DEF Module!Closed, Module!Stream
  <2>5. \E x \in Module!Stream : streams' = [streams EXCEPT ![c] = x]
    BY <1>6, <2>3, <2>4 DEF TakesPart
  <2>6. streams' \in [Calls -> Module!Stream]
    BY <1>1, <2>5 DEF ModuleType
  <2>7. UNCHANGED <<done, answers>>
    BY <1>6 DEF TakesPart, Takes
  <2> QED BY <2>6, <2>7
<1>7. ASSUME NEW c \in Calls PROVE [assemblies EXCEPT ![c] = None] \in [Calls -> Module!Assembly \cup {None}]
  BY <1>1 DEF ModuleType
<1>8. ASSUME NEW c \in Calls, TakesCancel(c) PROVE ModuleType'
  <2>1. Module!Closed("cancelled") \in Module!Stream
    BY DEF Module!Closed, Module!Stream
  <2>2. streams' \in [Calls -> Module!Stream]
    BY <1>1, <1>8, <2>1 DEF TakesCancel, ModuleType
  <2> QED BY <1>1, <1>7, <1>8, <2>2 DEF TakesCancel, Takes, ModuleType
<1>9. ASSUME NEW c \in Calls, NEW type \in {"more", "final"}, Refuses(c, type) PROVE ModuleType'
  <2>1. streams' \in [Calls -> Module!Stream] /\ UNCHANGED <<done, answers>>
    BY <1>6, <1>9 DEF Refuses
  <2>2. reply' \in Module!Reply
    BY <1>9, StageOfKind DEF Refuses, Module!Reply
  <2> QED BY <1>1, <1>7, <1>9, <2>1, <2>2 DEF Refuses, ModuleType
<1>10. ASSUME NEW c \in Calls, Extends(c) PROVE ModuleType'
  <2>1. streams' \in [Calls -> Module!Stream] /\ UNCHANGED <<done, answers>>
    BY <1>6, <1>10 DEF Extends
  <2> DEFINE a == [kind |-> kind, deadline |-> request[c].deadline, trace |-> 1,
                   len |-> Module!Held(c) + 1]
  <2>2. a \in Module!Assembly
    <3>1. request[c].deadline \in Module!Deadline /\ 1 \in Module!Trace
      <4>1. request[c].deadline \in {0, Expiry}
        BY DEF TypeInv, Request
      <4> QED BY <4>1, InvokeDecodes DEF Module!Deadline, Module!Trace
    <3> QED BY <3>1, SentType DEF Module!Assembly, Module!Kind
  <2>3. assemblies' = [assemblies EXCEPT ![c] = a]
    BY <1>10 DEF Extends
  <2> HIDE DEF a
  <2>4. assemblies' \in [Calls -> Module!Assembly \cup {None}]
    BY <1>1, <2>2, <2>3 DEF ModuleType
  <2> QED BY <1>1, <1>10, <2>1, <2>4 DEF Extends, ModuleType
<1>11. ASSUME NEW c \in Calls, Starts(c) PROVE ModuleType'
  <2>1. streams' \in [Calls -> Module!Stream] /\ UNCHANGED <<done, answers>>
    BY <1>6, <1>11 DEF Starts
  <2>2. runs[c] = 0
    BY <1>1, <1>11 DEF Starts, TakesPart, ModuleInv, TablesFit, ModuleType
  <2>3. runs' \in [Calls -> {0, 1}]
    BY <1>1, <1>11, <2>2 DEF Starts, ModuleType
  <2>4. jobs' \in [Calls -> Module!Job \cup {None}]
    BY <1>1, <1>11 DEF Starts, ModuleType
  <2> QED BY <1>1, <1>7, <1>11, <2>1, <2>3, <2>4 DEF Starts, ModuleType
<1> QED BY <1>2, <1>3, <1>4, <1>5, <1>8, <1>9, <1>10, <1>11 DEF ModuleMove, Polls

LEMMA TypeStep ==
  ASSUME TypeInv, CallInv, ModuleInv, Move
  PROVE  TypeInv' /\ CallInv'
<1>1. ModuleType /\ CallerType /\ RingType
  BY DEF TypeInv, ModuleType, CallerType, RingType
<1>2. ASSUME CallerType', ModuleType', RingType' PROVE TypeInv'
  BY <1>2 DEF TypeInv, ModuleType, CallerType, RingType
<1>3. CASE CallerMove
  <2>1. CallerType' /\ CallInv'
    BY <1>3, CallerTypeStep
  <2>2. UNCHANGED <<moduleState, toModule, fromModule>>
    BY <1>3 DEF CallerMove, Asks, Flags, SendEnds, Sends, Waits, GivesUp, Answered, Cancels,
      CallerOnly, rings
  <2>3. ModuleType'
    BY <1>1, <2>2 DEF ModuleType, moduleState
  <2>4. UNCHANGED callerIn \/ (callerIn # <<>> /\ callerIn' = Tail(callerIn))
    BY <1>3 DEF CallerMove, Asks, Flags, SendEnds, Sends, Waits, GivesUp, Answered, Cancels, rings
  <2>5. RingType'
    BY <1>1, <2>2, <2>4, RingTypes DEF RingType
  <2> QED BY <1>2, <2>1, <2>3, <2>5
<1>4. CASE ModuleMove
  <2>1. ModuleOnly
    BY <1>4 DEF ModuleMove, Rests, Exits, Receives, Marks, Replies, Polls, TakesCancel, Refuses,
      Extends, Starts, TakesPart, Takes
  <2>2. CallerType' /\ CallInv'
    BY <1>1, <2>1 DEF ModuleOnly, callState, CallerType, CallInv
  <2>3. UNCHANGED toModule \/ (toModule # <<>> /\ toModule' = Tail(toModule))
    BY <1>4 DEF ModuleMove, Rests, Exits, Receives, Marks, Replies, Polls, TakesCancel, Refuses,
      Extends, Starts, TakesPart, Takes
  <2>4. UNCHANGED fromModule \/ \E e \in Event : fromModule' = Append(fromModule, e)
    BY <1>4 DEF ModuleMove, Rests, Exits, Receives, Marks, Replies, Polls, TakesCancel, Refuses,
      Extends, Starts, TakesPart, Takes
  <2>5. RingType'
    BY <1>1, <2>1, <2>3, <2>4, RingTypes DEF RingType, ModuleOnly
  <2>6. ModuleType'
    BY <1>4, ModuleTypeStep
  <2> QED BY <1>2, <2>2, <2>5, <2>6
<1>5. CASE Forwards
  <2>1. CallInv' /\ UNCHANGED <<callerPc, correlation, call, results, request>>
    BY <1>5 DEF Forwards, callState, CallInv
  <2>2. ModuleType'
    BY <1>1, <1>5 DEF Forwards, moduleState, ModuleType
  <2>3. Head(callerOut) \in Caller!Frame /\ callerOut' \in Seq(Caller!Frame)
    BY <1>1, <1>5, RingTypes DEF Forwards, CallerType
  <2>4. Caller!Noise("absent", Head(callerOut).corr) \in Event
    BY <2>3 DEF Caller!Noise, Event, Caller!Frame, Caller!Corr, Calls
  <2>5. RingType'
    BY <1>1, <1>5, <2>3, <2>4, RingTypes DEF Forwards, RingType
  <2>6. CallerType'
    BY <1>1, <2>1, <2>3 DEF CallerType
  <2> QED BY <1>2, <2>1, <2>2, <2>5, <2>6
<1>6. CASE Delivers
  <2>1. CallInv' /\ UNCHANGED <<callerPc, correlation, call, results, request, callerOut>>
    BY <1>6 DEF Delivers, callState, CallInv
  <2>2. ModuleType'
    BY <1>1, <1>6 DEF Delivers, moduleState, ModuleType
  <2>3. RingType'
    BY <1>1, <1>6, RingTypes DEF Delivers, RingType
  <2>4. CallerType'
    BY <1>1, <2>1 DEF CallerType
  <2> QED BY <1>2, <2>1, <2>2, <2>3, <2>4
<1>7. CASE Stutters
  BY <1>1, <1>2, <1>7 DEF Stutters, callState, moduleState, rings, CallInv, CallerType, ModuleType, RingType
<1> QED BY <1>3, <1>4, <1>5, <1>6, <1>7 DEF Move
-------------------------------------------------------------------------------
(* The requests on their way. *)
LEMMA HasType ==
  ASSUME NEW s \in Seq(Caller!Frame), NEW c, NEW type, Has(s, c, type)
  PROVE  type \in {"more", "final", "cancel"}
<1>1. PICK i \in 1 .. Len(s) : s[i].corr = c /\ s[i].type = type
  BY DEF Has
<1>2. s[i] \in Caller!Frame
  OBVIOUS
<1> QED BY <1>1, <1>2 DEF Caller!Frame

(* Nothing about requests changes. *)
RequestsStill ==
  /\ UNCHANGED <<callerOut, toModule, streams, exit, request>>
  /\ UNCHANGED <<callerPc, correlation, results, lost>>
  /\ call'.offset = call.offset

LEMMA RequestsKept ==
  ASSUME RequestsStill, RequestInv, CountInv
  PROVE  RequestInv' /\ CountInv'
<1>1. \A c \in Calls : /\ State(c)' = State(c) /\ (Asked(c)' <=> Asked(c))
                       /\ Module!SentSoFar(c)' = Module!SentSoFar(c)
  BY DEF RequestsStill, State, Asked, Module!SentSoFar
<1>2. RequestInv'
  BY <1>1 DEF RequestsStill, RequestInv, StreamFits, RequestFits, CancelFits, Sent, NothingSent, Sorted, Before, Has
<1>3. CountInv'
  BY <1>1 DEF RequestsStill, CountInv, Sent, Coming, Parts, Has, Module!SentSoFar
<1> QED BY <1>2, <1>3

(* The rings and what the module has seen are the same. *)
PathStill == UNCHANGED <<callerOut, toModule, streams>>

LEMMA PathKept ==
  ASSUME PathStill
  PROVE  /\ Sorted(toModule, callerOut)' <=> Sorted(toModule, callerOut)
         /\ \A c \in Calls :
              /\ State(c)' = State(c)
              /\ \A type : Has(toModule, c, type)' <=> Has(toModule, c, type)
              /\ \A type : Sent(c, type)' <=> Sent(c, type)
              /\ NothingSent(c)' <=> NothingSent(c)
              /\ Module!SentSoFar(c)' = Module!SentSoFar(c)
              /\ Coming(c)' = Coming(c)
              /\ streams[c]' = streams[c]
<1>1. Sorted(toModule, callerOut)' <=> Sorted(toModule, callerOut)
  BY DEF PathStill, Sorted, Before
<1>2. ASSUME NEW c \in Calls
      PROVE  /\ State(c)' = State(c)
             /\ \A type : Has(toModule, c, type)' <=> Has(toModule, c, type)
             /\ \A type : Sent(c, type)' <=> Sent(c, type)
             /\ NothingSent(c)' <=> NothingSent(c)
             /\ streams[c]' = streams[c]
  BY DEF PathStill, State, Sent, Has, NothingSent
<1>3. ASSUME NEW c \in Calls
      PROVE  Module!SentSoFar(c)' = Module!SentSoFar(c) /\ Coming(c)' = Coming(c)
  BY DEF PathStill, Module!SentSoFar, Coming, Parts
<1> QED BY <1>1, <1>2, <1>3

LEMMA RequestAsk ==
  ASSUME TypeInv, CallInv, RequestInv, CountInv,
         NEW len \in RequestLen, NEW deadline \in BOOLEAN, Asks(len, deadline)
  PROVE  RequestInv' /\ CountInv'
<1>1. PathStill /\ UNCHANGED <<results, lost, exit>> /\ callerPc = "idle" /\ callerPc' = "send"
  BY DEF Asks, PathStill, rings, moduleState
<1>2. /\ correlation \in Nat /\ correlation' = correlation + 1 /\ correlation + 1 \in Calls
      /\ call'.offset = 0 /\ \A c \in Calls : c \in Nat
  BY Current DEF Asks, Calls, Caller!NewCall
<1>3. \A c \in Calls : c # correlation + 1 => request'[c] = request[c]
  BY DEF Asks, TypeInv
<1>4. ASSUME NEW c \in Calls
      PROVE  /\ Asked(c)' <=> Asked(c)
             /\ c = correlation + 1 => State(c) = "fresh" /\ NothingSent(c) /\ ~Asked(c)
  <2>1. Asked(c)' <=> Asked(c)
    BY <1>1 DEF Asked
  <2>2. c = correlation + 1 => c > correlation
    BY <1>2
  <2>3. c = correlation + 1 => results[c] = "none" /\ c # correlation
    BY <1>2, <2>2 DEF CallInv
  <2>4. c = correlation + 1 => ~Asked(c)
    BY <2>3 DEF Asked, AwaitErrors, Caller!AwaitErrors
  <2> QED BY <2>1, <2>2, <2>4 DEF RequestInv, RequestFits
<1>5. ASSUME NEW c \in Calls PROVE (StreamFits(c) /\ RequestFits(c) /\ CancelFits(c))'
  <2>1. StreamFits(c) /\ RequestFits(c) /\ CancelFits(c)
    BY DEF RequestInv
  <2>2. StreamFits(c)'
    BY <1>1, <1>3, <1>4, <2>1, PathKept DEF StreamFits
  <2>3. c > correlation + 1 => c > correlation
    BY <1>2
  <2>4. RequestFits(c)'
    BY <1>1, <1>2, <1>4, <2>1, <2>3, PathKept DEF RequestFits
  <2>5. CancelFits(c)'
    BY <1>1, <2>1, PathKept DEF CancelFits
  <2> QED BY <2>2, <2>4, <2>5
<1>6. RequestInv'
  BY <1>1, <1>5, PathKept DEF RequestInv
<1>7. ASSUME NEW c \in Calls, c = correlation + 1 PROVE Module!SentSoFar(c) = 0 /\ Coming(c) = 0
  <2>1. State(c) = "fresh" /\ NothingSent(c)
    BY <1>4, <1>7
  <2>2. Parts(toModule, c) = 0 /\ Parts(callerOut, c) = 0
    BY <2>1, PartsNone DEF TypeInv, NothingSent, Sent
  <2> QED BY <2>1, <2>2 DEF Module!SentSoFar, State, Coming
<1>8. CountInv'
  <2> SUFFICES ASSUME exit' = "none"
               PROVE  /\ (Module!SentSoFar(correlation) + Coming(correlation))' = call'.offset
                      /\ \A c \in Calls : Sent(c, "final")' =>
                           (Module!SentSoFar(c) + Coming(c))' = request'[c].len
    BY DEF CountInv
  <2>1. PICK d \in Calls : d = correlation + 1
    BY <1>2
  <2>2. Module!SentSoFar(d)' = 0 /\ Coming(d)' = 0
    BY <1>1, <1>7, <2>1, PathKept
  <2>3. (Module!SentSoFar(correlation) + Coming(correlation))' = call'.offset
    BY <1>2, <2>1, <2>2 DEF Module!SentSoFar, Coming, Parts
  <2>4. ASSUME NEW c \in Calls, Sent(c, "final")'
        PROVE  (Module!SentSoFar(c) + Coming(c))' = request'[c].len
    <3>1. Sent(c, "final")
      BY <1>1, <2>4, PathKept
    <3>2. c # correlation + 1
      BY <1>4, <3>1 DEF NothingSent
    <3> QED BY <1>1, <1>3, <3>1, <3>2, PathKept DEF CountInv
  <2> QED BY <2>3, <2>4
<1> QED BY <1>6, <1>8

(* The caller goes on waiting, gives up, has its answer or fails to send. *)
LEMMA RequestAwaited ==
  ASSUME TypeInv, CallInv, RequestInv, CountInv,
         Waits \/ GivesUp \/ Answered \/ \E r \in SendErrors : SendEnds(r)
  PROVE  RequestInv' /\ CountInv'
<1>1. PathStill /\ UNCHANGED <<correlation, lost, exit, request>> /\ callerPc' # "send"
  BY DEF Waits, GivesUp, Answered, SendEnds, CallerOnly, moduleState, PathStill
<1>2. correlation \in Calls /\ results[correlation] = "none"
  BY Current DEF Waits, GivesUp, Answered, SendEnds
<1>3. /\ \A c \in Calls : c # correlation => results'[c] = results[c]
      /\ results'[correlation] \notin AwaitErrors
      /\ results'[correlation] = "WouldBlock" => callerPc = "send" /\ call.offset = 0
  <2>1. CASE Waits \/ GivesUp
    BY <1>2, <2>1 DEF Waits, GivesUp, AwaitErrors, Caller!AwaitErrors
  <2>2. CASE Answered
    BY <1>2, <2>2 DEF Answered, AwaitErrors, Caller!AwaitErrors, TypeInv
  <2>3. ASSUME NEW r \in SendErrors, SendEnds(r)
        PROVE  /\ \A c \in Calls : c # correlation => results'[c] = results[c]
               /\ results'[correlation] \notin AwaitErrors
               /\ results'[correlation] = "WouldBlock" => callerPc = "send" /\ call.offset = 0
    <3>1. results' = [results EXCEPT ![correlation] = r] /\ r \notin AwaitErrors
      BY <2>3 DEF SendEnds, SendErrors, AwaitErrors, Caller!AwaitErrors
    <3> QED BY <1>2, <2>3, <3>1 DEF SendEnds, TypeInv
  <2> QED BY <2>1, <2>2, <2>3
<1>4. ASSUME NEW c \in Calls PROVE Asked(c)' <=> Asked(c)
  <2>1. CASE c # correlation
    BY <1>1, <1>3, <2>1 DEF Asked
  <2>2. CASE c = correlation /\ (Waits \/ GivesUp)
    BY <2>2 DEF Waits, GivesUp, Asked
  <2>3. CASE c = correlation /\ Answered
    <3>1. results'[c] = "OK"
      BY <2>3 DEF Answered, TypeInv
    <3> QED BY <2>3, <3>1 DEF Answered, Asked
  <2>4. ASSUME NEW r \in SendErrors, SendEnds(r), c = correlation PROVE Asked(c)' <=> Asked(c)
    <3>1. results'[c] = r /\ r \notin AwaitErrors \cup {"OK"} /\ callerPc = "send" /\ callerPc' = "idle"
      BY <2>4 DEF SendEnds, SendErrors, AwaitErrors, Caller!AwaitErrors, TypeInv
    <3>2. results[c] \notin AwaitErrors \cup {"OK"}
      BY <1>2, <2>4 DEF AwaitErrors, Caller!AwaitErrors
    <3> QED BY <3>1, <3>2 DEF Asked
  <2> QED BY <2>1, <2>2, <2>3, <2>4
<1>5. ASSUME NEW c \in Calls PROVE (StreamFits(c) /\ RequestFits(c) /\ CancelFits(c))'
  <2>1. StreamFits(c) /\ RequestFits(c) /\ CancelFits(c)
    BY DEF RequestInv
  <2>2. StreamFits(c)'
    BY <1>1, <2>1, PathKept DEF StreamFits
  <2>3. RequestFits(c)'
    BY <1>1, <1>3, <1>4, <2>1, PathKept DEF RequestFits
  <2>4. CancelFits(c)'
    <3>1. CASE c # correlation
      BY <1>1, <1>3, <2>1, <3>1, PathKept DEF CancelFits
    <3>2. CASE c = correlation
      <4>1. results[c] \notin AwaitErrors
        BY <1>2, <3>2 DEF AwaitErrors, Caller!AwaitErrors
      <4>2. results'[c] \notin AwaitErrors
        BY <1>3, <3>2
      <4> QED BY <1>1, <2>1, <4>1, <4>2, PathKept DEF CancelFits
    <3> QED BY <3>1, <3>2
  <2> QED BY <2>2, <2>3, <2>4
<1>6. RequestInv'
  BY <1>1, <1>5, PathKept DEF RequestInv
<1>7. CountInv'
  BY <1>1, PathKept DEF CountInv
<1> QED BY <1>6, <1>7

(* The module returns. *)
LEMMA RequestExit ==
  ASSUME RequestInv, CountInv, ModuleInv, Exits
  PROVE  RequestInv' /\ CountInv'
<1>1. /\ PathStill /\ exit = "none" /\ UNCHANGED <<callerPc, correlation, call, results, lost, request>>
  BY DEF Exits, ModuleInv, ModuleOnly, callState, PathStill
<1>2. \A c \in Calls : Asked(c)' <=> Asked(c)
  BY <1>1 DEF Asked
<1>3. ASSUME NEW c \in Calls PROVE (StreamFits(c) /\ RequestFits(c) /\ CancelFits(c))'
  <2>1. StreamFits(c) /\ RequestFits(c) /\ CancelFits(c)
    BY DEF RequestInv
  <2>2. StreamFits(c)'
    BY <1>1, <2>1, PathKept DEF StreamFits
  <2>3. RequestFits(c)'
    BY <1>1, <1>2, <2>1, PathKept DEF RequestFits
  <2>4. CancelFits(c)'
    BY <1>1, <2>1, PathKept DEF CancelFits
  <2> QED BY <2>2, <2>3, <2>4
<1>4. RequestInv'
  BY <1>1, <1>3, PathKept DEF RequestInv
<1>5. CountInv'
  <2> SUFFICES ASSUME exit' = "none"
               PROVE  /\ callerPc' = "send" =>
                           (Module!SentSoFar(correlation) + Coming(correlation))' = call'.offset
                      /\ \A c \in Calls : Sent(c, "final")' =>
                           (Module!SentSoFar(c) + Coming(c))' = request'[c].len
    BY DEF CountInv
  <2>1. callerPc' = "send" =>
          (Module!SentSoFar(correlation) + Coming(correlation))' = call'.offset
    BY <1>1 DEF CountInv, PathStill, Module!SentSoFar, Coming, Parts
  <2>2. \A c \in Calls : Sent(c, "final")' => (Module!SentSoFar(c) + Coming(c))' = request'[c].len
    BY <1>1, PathKept DEF CountInv
  <2> QED BY <2>1, <2>2
<1> QED BY <1>4, <1>5

(* A frame of call b joins the ring of the caller: what is new of each     *)
(* call.                                                                   *)
LEMMA Published ==
  ASSUME TypeInv, NEW f \in Caller!Frame, callerOut' = Append(callerOut, f),
         UNCHANGED <<toModule, streams>>, NEW c \in Calls
  PROVE  /\ \A type : Sent(c, type)' <=> Sent(c, type) \/ (f.corr = c /\ f.type = type)
         /\ \A type : Has(toModule, c, type)' <=> Has(toModule, c, type)
         /\ State(c)' = State(c) /\ Module!SentSoFar(c)' = Module!SentSoFar(c)
         /\ Coming(c) \in Nat
         /\ Coming(c)' = IF f.corr = c /\ f.type # "cancel" THEN Coming(c) + 1 ELSE Coming(c)
<1>1. callerOut \in Seq(Caller!Frame) /\ toModule \in Seq(Caller!Frame)
  BY DEF TypeInv
<1>2. ASSUME NEW type
      PROVE  /\ Sent(c, type)' <=> Sent(c, type) \/ (f.corr = c /\ f.type = type)
             /\ Has(toModule, c, type)' <=> Has(toModule, c, type)
  <2>1. Has(Append(callerOut, f), c, type) <=> Has(callerOut, c, type) \/ (f.corr = c /\ f.type = type)
    BY <1>1, HasAppend
  <2>2. Has(callerOut, c, type)' <=> Has(Append(callerOut, f), c, type)
    BY DEF Has
  <2>3. Has(toModule, c, type)' <=> Has(toModule, c, type)
    BY DEF Has
  <2> QED BY <2>1, <2>2, <2>3 DEF Sent
<1>3. State(c)' = State(c) /\ Module!SentSoFar(c)' = Module!SentSoFar(c)
  BY DEF State, Module!SentSoFar
<1>4. /\ Parts(callerOut, c) \in Nat
      /\ Parts(Append(callerOut, f), c) =
           IF f.corr = c /\ f.type # "cancel" THEN Parts(callerOut, c) + 1 ELSE Parts(callerOut, c)
  BY <1>1, PartsAppend
<1>5. Parts(toModule, c) \in Nat
  BY <1>1, PartsAppend
<1>6. Coming(c)' = Parts(toModule, c) + Parts(Append(callerOut, f), c)
  BY DEF Coming, Parts
<1>7. Coming(c) = Parts(toModule, c) + Parts(callerOut, c)
  BY DEF Coming
<1> QED BY <1>2, <1>3, <1>4, <1>5, <1>6, <1>7

(* The caller sends the next fragment. *)
LEMMA RequestSend ==
  ASSUME TypeInv, CallInv, RequestInv, CountInv, Sends
  PROVE  RequestInv' /\ CountInv'
<1> DEFINE f == [corr |-> correlation, type |-> IF Last THEN "final" ELSE "more"]
<1>1. /\ UNCHANGED <<toModule, streams, correlation, results, lost, exit, request>>
      /\ callerOut' = Append(callerOut, f) /\ callerPc = "send"
      /\ callerPc' = IF Last THEN "await" ELSE "send"
  BY DEF Sends, CallerOnly, moduleState
<1>2. correlation \in Calls /\ results[correlation] = "none"
  BY <1>1, Current
<1>3. PICK d \in Calls : d = correlation
  BY <1>2
<1>4. /\ call.offset \in Nat /\ call.len \in Nat /\ call.offset < call.len
      /\ call.len = request[d].len /\ call'.offset = call.offset + 1
  BY <1>1, <1>3 DEF TypeInv, CallType, CallInv, Sends
<1>5. f \in Caller!Frame /\ f.corr = d /\ f.type = IF Last THEN "final" ELSE "more"
  BY <1>2, <1>3 DEF Caller!Frame, Caller!Corr, Calls
<1> HIDE DEF f
<1>6. ~Asked(d)
  BY <1>1, <1>2, <1>3 DEF Asked, AwaitErrors, Caller!AwaitErrors
<1>7. ~Sent(d, "final") /\ ~Sent(d, "cancel") /\ State(d) \notin {"final", "cancelled"}
  <2>1. results[d] \notin AwaitErrors
    BY <1>2, <1>3 DEF AwaitErrors, Caller!AwaitErrors
  <2> QED BY <1>6, <2>1 DEF RequestInv, RequestFits, CancelFits
<1>8. Sorted(toModule, callerOut)'
  <2>1. \A type : Has(toModule, f.corr, type) \/ Has(callerOut, f.corr, type) => type = "more"
    BY <1>5, <1>7, HasType DEF TypeInv, Sent
  <2>2. Sorted(toModule, Append(callerOut, f))
    BY <1>5, <2>1, SortedSend DEF TypeInv, RequestInv
  <2> QED BY <1>1, <2>2 DEF Sorted, Before
<1>9. ASSUME NEW c \in Calls
      PROVE  /\ \A type : Sent(c, type)' <=> Sent(c, type) \/ (c = d /\ f.type = type)
             /\ \A type : Has(toModule, c, type)' <=> Has(toModule, c, type)
             /\ State(c)' = State(c) /\ Module!SentSoFar(c)' = Module!SentSoFar(c)
             /\ Module!SentSoFar(c) \in Nat /\ Coming(c) \in Nat
             /\ Coming(c)' = IF c = d THEN Coming(c) + 1 ELSE Coming(c)
             /\ streams'[c] = streams[c]
  BY <1>1, <1>5, Published, SentType
<1>10. ASSUME NEW c \in Calls PROVE Asked(c)' <=> Asked(c) \/ (c = d /\ Last)
  BY <1>1, <1>3, <1>6 DEF Asked
<1>11. ASSUME NEW c \in Calls PROVE (StreamFits(c) /\ RequestFits(c) /\ CancelFits(c))'
  <2>1. StreamFits(c) /\ RequestFits(c) /\ CancelFits(c)
    BY DEF RequestInv
  <2>2. CASE c = d
    <3>1. StreamFits(c)'
      BY <1>1, <1>5, <1>7, <1>9, <2>1, <2>2 DEF StreamFits
    <3>2. RequestFits(c)'
      <4>1. ~(c > correlation) /\ results[c] # "WouldBlock" /\ call'.offset # 0
        BY <1>2, <1>3, <1>4, <2>2 DEF Calls
      <4> QED BY <1>1, <1>5, <1>7, <1>9, <1>10, <2>1, <2>2, <4>1 DEF RequestFits
    <3>3. CancelFits(c)'
      BY <1>1, <1>5, <1>7, <1>9, <2>1, <2>2 DEF CancelFits
    <3> QED BY <3>1, <3>2, <3>3
  <2>3. CASE c # d
    <3>1. /\ \A type : Sent(c, type)' <=> Sent(c, type)
          /\ Asked(c)' <=> Asked(c)
      BY <1>9, <1>10, <2>3
    <3>2. NothingSent(c)' <=> NothingSent(c)
      BY <3>1 DEF NothingSent
    <3>3. StreamFits(c)'
      BY <1>1, <1>9, <2>1, <3>1, <3>2 DEF StreamFits
    <3>4. RequestFits(c)'
      BY <1>1, <1>3, <1>9, <2>1, <2>3, <3>1, <3>2 DEF RequestFits
    <3>5. CancelFits(c)'
      BY <1>1, <1>9, <2>1, <3>1 DEF CancelFits
    <3> QED BY <3>3, <3>4, <3>5
  <2> QED BY <2>2, <2>3
<1>12. RequestInv'
  BY <1>8, <1>11 DEF RequestInv
<1>13. CountInv'
  <2> SUFFICES ASSUME exit = "none"
               PROVE  /\ ~Last => Module!SentSoFar(d)' + Coming(d)' = call.offset + 1
                      /\ \A c \in Calls : Sent(c, "final")' =>
                           Module!SentSoFar(c)' + Coming(c)' = request[c].len
    BY <1>1, <1>3, <1>4 DEF CountInv, Module!SentSoFar, Coming, Parts
  <2>1. Module!SentSoFar(d) + Coming(d) = call.offset
    BY <1>1, <1>3 DEF CountInv
  <2>2. Module!SentSoFar(d)' + Coming(d)' = call.offset + 1
    <3>1. PICK k \in Nat, m \in Nat : k = Module!SentSoFar(d) /\ m = Coming(d)
      BY <1>9
    <3> QED BY <1>4, <1>9, <2>1, <3>1
  <2>3. Last => call.offset + 1 = request[d].len
    BY <1>4 DEF Last
  <2>4. ASSUME NEW c \in Calls, Sent(c, "final")'
        PROVE  Module!SentSoFar(c)' + Coming(c)' = request[c].len
    <3>1. CASE c = d
      <4>1. Last
        BY <1>5, <1>7, <1>9, <2>4, <3>1
      <4> QED BY <2>2, <2>3, <3>1, <4>1
    <3>2. CASE c # d
      BY <1>9, <2>4, <3>2 DEF CountInv
    <3> QED BY <3>1, <3>2
  <2> QED BY <2>2, <2>4
<1> QED BY <1>12, <1>13

(* The caller gives the call up, with its cancel or without. *)
LEMMA RequestCancel ==
  ASSUME TypeInv, CallInv, RequestInv, CountInv, Cancels
  PROVE  RequestInv' /\ CountInv'
<1> DEFINE f == [corr |-> correlation, type |-> "cancel"]
<1>1. /\ UNCHANGED <<toModule, streams, correlation, exit, request>>
      /\ callerPc = "cancel" /\ callerPc' = "idle"
      /\ \/ callerOut' = Append(callerOut, f) /\ lost' = lost
         \/ callerOut' = callerOut /\ lost' = lost \cup {correlation}
  BY DEF Cancels, CallerOnly, moduleState
<1>2. correlation \in Calls /\ results[correlation] = "none"
  BY <1>1, Current
<1>3. PICK d \in Calls : d = correlation
  BY <1>2
<1>4. f \in Caller!Frame /\ f.corr = d /\ f.type = "cancel"
  BY <1>2, <1>3 DEF Caller!Frame, Caller!Corr, Calls
<1> HIDE DEF f
<1>5. /\ results'[d] \in AwaitErrors
      /\ \A c \in Calls : c # d => results'[c] = results[c]
  BY <1>1, <1>3 DEF Cancels, CallInv, TypeInv
<1>6. ~Sent(d, "cancel") /\ State(d) # "cancelled"
  <2>1. results[d] \notin AwaitErrors
    BY <1>2, <1>3 DEF AwaitErrors, Caller!AwaitErrors
  <2> QED BY <2>1 DEF RequestInv, CancelFits
<1>7. \A c \in Calls : Asked(c)' <=> Asked(c)
  BY <1>1, <1>3, <1>5 DEF Asked
<1>8. Asked(d) /\ results'[d] # "WouldBlock"
  BY <1>1, <1>3, <1>5 DEF Asked, AwaitErrors, Caller!AwaitErrors
<1>9. CASE callerOut' = Append(callerOut, f) /\ lost' = lost
  <2>1. Sorted(toModule, callerOut)'
    <3>1. \A type : Has(toModule, f.corr, type) \/ Has(callerOut, f.corr, type) =>
            type = "more" \/ (type = "final" /\ f.type = "cancel")
      BY <1>4, <1>6, HasType DEF TypeInv, Sent
    <3>2. Sorted(toModule, Append(callerOut, f))
      BY <1>4, <3>1, SortedSend DEF TypeInv, RequestInv
    <3> QED BY <1>1, <1>9, <3>2 DEF Sorted, Before
  <2>2. ASSUME NEW c \in Calls
        PROVE  /\ \A type : Sent(c, type)' <=> Sent(c, type) \/ (c = d /\ type = "cancel")
               /\ \A type : Has(toModule, c, type)' <=> Has(toModule, c, type)
               /\ State(c)' = State(c) /\ Module!SentSoFar(c)' = Module!SentSoFar(c)
               /\ Coming(c)' = Coming(c)
               /\ streams'[c] = streams[c]
    BY <1>1, <1>4, <1>9, Published
  <2>3. ASSUME NEW c \in Calls PROVE (StreamFits(c) /\ RequestFits(c) /\ CancelFits(c))'
    <3>1. StreamFits(c) /\ RequestFits(c) /\ CancelFits(c)
      BY DEF RequestInv
    <3>2. CASE c = d
      <4>1. ~(c > correlation)
        BY <1>2, <1>3, <3>2 DEF Calls
      <4>2. StreamFits(c)'
        BY <1>1, <1>6, <2>2, <3>1, <3>2 DEF StreamFits
      <4>3. RequestFits(c)'
        BY <1>1, <1>7, <1>8, <2>2, <3>1, <3>2, <4>1 DEF RequestFits
      <4>4. CancelFits(c)'
        BY <1>5, <2>2, <3>2 DEF CancelFits
      <4> QED BY <4>2, <4>3, <4>4
    <3>3. CASE c # d
      <4>1. /\ \A type : Sent(c, type)' <=> Sent(c, type)
            /\ results'[c] = results[c]
        BY <1>5, <2>2, <3>3
      <4>2. NothingSent(c)' <=> NothingSent(c)
        BY <4>1 DEF NothingSent
      <4>3. StreamFits(c)'
        BY <1>1, <2>2, <3>1, <4>1, <4>2 DEF StreamFits
      <4>4. RequestFits(c)'
        BY <1>1, <1>7, <2>2, <3>1, <4>1, <4>2 DEF RequestFits
      <4>5. CancelFits(c)'
        BY <1>1, <1>9, <2>2, <3>1, <4>1 DEF CancelFits
      <4> QED BY <4>3, <4>4, <4>5
    <3> QED BY <3>2, <3>3
  <2>4. RequestInv'
    BY <2>1, <2>3 DEF RequestInv
  <2>5. CountInv'
    BY <1>1, <2>2 DEF CountInv
  <2> QED BY <2>4, <2>5
<1>10. CASE callerOut' = callerOut /\ lost' = lost \cup {correlation}
  <2>1. PathStill
    BY <1>1, <1>10 DEF PathStill
  <2>2. ASSUME NEW c \in Calls PROVE (StreamFits(c) /\ RequestFits(c) /\ CancelFits(c))'
    <3>1. StreamFits(c) /\ RequestFits(c) /\ CancelFits(c)
      BY DEF RequestInv
    <3>2. StreamFits(c)'
      BY <1>1, <2>1, <3>1, PathKept DEF StreamFits
    <3>3. RequestFits(c)'
      <4>1. results'[c] = "WouldBlock" => results[c] = "WouldBlock"
        BY <1>5, <1>8
      <4> QED BY <1>1, <1>7, <2>1, <3>1, <4>1, PathKept DEF RequestFits
    <3>4. CancelFits(c)'
      <4>1. CASE c = d
        BY <1>3, <1>5, <1>10, <4>1 DEF CancelFits
      <4>2. CASE c # d
        BY <1>1, <1>5, <1>10, <2>1, <3>1, <4>2, PathKept DEF CancelFits
      <4> QED BY <4>1, <4>2
    <3> QED BY <3>2, <3>3, <3>4
  <2>3. RequestInv'
    BY <2>1, <2>2, PathKept DEF RequestInv
  <2>4. CountInv'
    BY <1>1, <2>1, PathKept DEF CountInv
  <2> QED BY <2>3, <2>4
<1> QED BY <1>1, <1>9, <1>10

(* The host passes a frame on, or takes it away when there is no module.   *)
LEMMA RequestForward ==
  ASSUME TypeInv, CallInv, RequestInv, CountInv, Forwards
  PROVE  RequestInv' /\ CountInv'
<1> DEFINE f == Head(callerOut)
<1>1. /\ UNCHANGED <<streams, callerPc, correlation, call, results, lost, exit, request>>
      /\ callerOut # <<>> /\ callerOut' = Tail(callerOut)
      /\ \/ exit = "none" /\ toModule' = Append(toModule, f)
         \/ exit # "none" /\ toModule' = toModule
  BY DEF Forwards, callState, moduleState
<1>2. callerOut \in Seq(Caller!Frame) /\ toModule \in Seq(Caller!Frame) /\ f \in Caller!Frame
  BY <1>1, RingTypes DEF TypeInv
<1>3. \A c \in Calls : /\ State(c)' = State(c) /\ (Asked(c)' <=> Asked(c))
                       /\ Module!SentSoFar(c)' = Module!SentSoFar(c)
                       /\ streams'[c] = streams[c]
  BY <1>1 DEF State, Asked, Module!SentSoFar
<1>4. ASSUME NEW c \in Calls, NEW type
      PROVE  /\ Has(callerOut, c, type) <=> Has(callerOut, c, type)' \/ (f.corr = c /\ f.type = type)
             /\ exit = "none" => (Has(toModule, c, type)' <=>
                                   Has(toModule, c, type) \/ (f.corr = c /\ f.type = type))
             /\ exit # "none" => (Has(toModule, c, type)' <=> Has(toModule, c, type))
  <2>1. Has(callerOut, c, type) <=> Has(Tail(callerOut), c, type) \/ (f.corr = c /\ f.type = type)
    BY <1>1, <1>2, HasTail
  <2>2. Has(Append(toModule, f), c, type) <=> Has(toModule, c, type) \/ (f.corr = c /\ f.type = type)
    BY <1>2, HasAppend
  <2>3. Has(callerOut, c, type)' <=> Has(Tail(callerOut), c, type)
    BY <1>1 DEF Has
  <2>4. exit = "none" => (Has(toModule, c, type)' <=> Has(Append(toModule, f), c, type))
    BY <1>1 DEF Has
  <2>5. exit # "none" => (Has(toModule, c, type)' <=> Has(toModule, c, type))
    BY <1>1 DEF Has
  <2> QED BY <2>1, <2>2, <2>3, <2>4, <2>5
<1>5. Sorted(toModule, callerOut)'
  <2>1. Sorted(toModule, callerOut)
    BY DEF RequestInv
  <2>2. CASE exit = "none"
    <3>1. PICK s, t : s = Append(toModule, f) /\ t = Tail(callerOut)
      OBVIOUS
    <3>2. Sorted(s, t)
      BY <1>1, <1>2, <2>1, <3>1, SortedMove
    <3>3. toModule' = s /\ callerOut' = t
      BY <1>1, <2>2, <3>1
    <3> QED BY <3>2, <3>3 DEF Sorted, Before
  <2>3. CASE exit # "none"
    <3>1. Sorted(toModule, Tail(callerOut))
      BY <1>1, <1>2, <2>1, SortedTail
    <3> QED BY <1>1, <2>3, <3>1 DEF Sorted, Before
  <2> QED BY <2>2, <2>3
<1>6. f.corr \in Calls
  BY <1>2 DEF Caller!Frame, Caller!Corr, Calls
(* A cancel is passed on after the last fragment of its call. *)
<1>7. ASSUME NEW c \in Calls, exit = "none", f.corr = c, f.type = "cancel"
      PROVE  State(c) = "final" \/ Has(toModule, c, "final")
  <2>1. Has(callerOut, c, "cancel")
    BY <1>4, <1>7
  <2>2. results[c] \in AwaitErrors /\ State(c) # "cancelled"
    BY <2>1 DEF RequestInv, CancelFits, StreamFits, Sent, NothingSent
  <2>3. Sent(c, "final") \/ State(c) = "final"
    BY <1>7, <2>2 DEF RequestInv, RequestFits, Asked
  <2>4. ~Has(callerOut, c, "final")
    <3>1. ~Has(Tail(callerOut), f.corr, "final")
      BY <1>1, <1>2, <1>7, SortedHead DEF RequestInv
    <3> QED BY <1>1, <1>2, <1>7, <3>1, HasTail
  <2> QED BY <2>3, <2>4 DEF Sent
<1>8. ASSUME NEW c \in Calls PROVE (StreamFits(c) /\ RequestFits(c) /\ CancelFits(c))'
  <2>1. StreamFits(c) /\ RequestFits(c) /\ CancelFits(c)
    BY DEF RequestInv
  <2>2. \A type : Sent(c, type)' => Sent(c, type)
    BY <1>1, <1>4 DEF Sent
  <2>3. exit = "none" => \A type : Sent(c, type) => Sent(c, type)'
    BY <1>4 DEF Sent
  <2>4. NothingSent(c) => NothingSent(c)'
    BY <2>2 DEF NothingSent
  <2>5. StreamFits(c)'
    <3>1. Has(toModule, c, "cancel")' => State(c) = "final" \/ Has(toModule, c, "final")'
      <4>1. CASE exit = "none"
        BY <1>4, <1>7, <2>1, <4>1 DEF StreamFits
      <4>2. CASE exit # "none"
        BY <1>4, <2>1, <4>2 DEF StreamFits
      <4> QED BY <4>1, <4>2
    <3> QED BY <1>1, <1>3, <2>1, <2>2, <2>4, <3>1 DEF StreamFits
  <2>6. RequestFits(c)'
    BY <1>1, <1>3, <2>1, <2>2, <2>3, <2>4 DEF RequestFits
  <2>7. CancelFits(c)'
    BY <1>1, <1>3, <2>1, <2>2, <2>3 DEF CancelFits
  <2> QED BY <2>5, <2>6, <2>7
<1>9. RequestInv'
  BY <1>5, <1>8 DEF RequestInv
<1>10. CountInv'
  <2>1. CASE exit # "none"
    BY <1>1, <2>1 DEF CountInv
  <2>2. CASE exit = "none"
    <3>1. \A c \in Calls : Coming(c)' = Coming(c)
      <4> SUFFICES ASSUME NEW c \in Calls PROVE Coming(c)' = Coming(c)
        OBVIOUS
      <4>1. /\ Parts(Tail(callerOut), c) \in Nat
            /\ Parts(callerOut, c) = IF f.corr = c /\ f.type # "cancel"
                                     THEN Parts(Tail(callerOut), c) + 1
                                     ELSE Parts(Tail(callerOut), c)
        BY <1>1, <1>2, PartsTail
      <4>2. /\ Parts(toModule, c) \in Nat
            /\ Parts(Append(toModule, f), c) = IF f.corr = c /\ f.type # "cancel"
                                               THEN Parts(toModule, c) + 1
                                               ELSE Parts(toModule, c)
        BY <1>2, PartsAppend
      <4>3. Coming(c)' = Parts(Append(toModule, f), c) + Parts(Tail(callerOut), c)
        BY <1>1, <2>2 DEF Coming, Parts
      <4>4. Coming(c) = Parts(toModule, c) + Parts(callerOut, c)
        BY DEF Coming
      <4> QED BY <4>1, <4>2, <4>3, <4>4
    <3>2. \A c \in Calls : Sent(c, "final")' => Sent(c, "final")
      BY <1>1, <1>4 DEF Sent
    <3>3. ASSUME callerPc = "send"
          PROVE  (Module!SentSoFar(correlation) + Coming(correlation))' = call.offset
      <4>1. PICK d \in Calls : d = correlation
        BY <3>3, Current
      <4>2. Module!SentSoFar(d)' + Coming(d)' = call.offset
        BY <1>3, <2>2, <3>1, <3>3, <4>1 DEF CountInv
      <4> QED BY <1>1, <4>1, <4>2 DEF Module!SentSoFar, Coming, Parts
    <3>4. \A c \in Calls : Sent(c, "final")' => (Module!SentSoFar(c) + Coming(c))' = request'[c].len
      BY <1>1, <1>3, <2>2, <3>1, <3>2 DEF CountInv
    <3> QED BY <1>1, <3>3, <3>4 DEF CountInv
  <2> QED BY <2>1, <2>2
<1> QED BY <1>9, <1>10

(* The module takes a frame from its ring: what is left of each call.      *)
LEMMA Taken ==
  ASSUME TypeInv, NEW d \in Calls, NEW kindOf, Takes(d, kindOf), NEW c \in Calls
  PROVE  /\ \A type : Has(toModule, c, type) <=>
                        Has(toModule, c, type)' \/ (c = d /\ kindOf = type)
         /\ \A type : Sent(c, type) <=> Sent(c, type)' \/ (c = d /\ kindOf = type)
         /\ Coming(c)' \in Nat
         /\ Coming(c) = IF c = d /\ kindOf # "cancel" THEN Coming(c)' + 1 ELSE Coming(c)'
<1>1. /\ callerOut \in Seq(Caller!Frame) /\ toModule \in Seq(Caller!Frame)
      /\ toModule # <<>> /\ toModule' = Tail(toModule) /\ callerOut' = callerOut
      /\ Head(toModule).corr = d /\ Head(toModule).type = kindOf
  BY DEF TypeInv, Takes, ModuleOnly
<1>2. ASSUME NEW type
      PROVE  Has(toModule, c, type) <=> Has(toModule, c, type)' \/ (c = d /\ kindOf = type)
  <2>1. Has(toModule, c, type) <=> Has(Tail(toModule), c, type) \/ (d = c /\ kindOf = type)
    BY <1>1, HasTail
  <2>2. Has(toModule, c, type)' <=> Has(Tail(toModule), c, type)
    BY <1>1 DEF Has
  <2> QED BY <2>1, <2>2
<1>3. ASSUME NEW type PROVE Has(callerOut, c, type)' <=> Has(callerOut, c, type)
  BY <1>1 DEF Has
<1>4. \A type : Sent(c, type) <=> Sent(c, type)' \/ (c = d /\ kindOf = type)
  BY <1>2, <1>3 DEF Sent
<1>5. /\ Parts(Tail(toModule), c) \in Nat
      /\ Parts(toModule, c) = IF d = c /\ kindOf # "cancel"
                              THEN Parts(Tail(toModule), c) + 1 ELSE Parts(Tail(toModule), c)
  BY <1>1, PartsTail
<1>6. Parts(callerOut, c) \in Nat
  BY <1>1, PartsType
<1>7. Coming(c)' = Parts(Tail(toModule), c) + Parts(callerOut, c)
  BY <1>1 DEF Coming, Parts
<1>8. Coming(c) = Parts(toModule, c) + Parts(callerOut, c)
  BY DEF Coming
<1> QED BY <1>2, <1>4, <1>5, <1>6, <1>7, <1>8

(* What follows the frame that is taken. *)
LEMMA TakenFirst ==
  ASSUME TypeInv, RequestInv, NEW d \in Calls, NEW kindOf, Takes(d, kindOf)
  PROVE  /\ kindOf = "cancel" => NothingSent(d)'
         /\ kindOf = "final" => ~Sent(d, "more")' /\ ~Sent(d, "final")'
<1>1. /\ callerOut \in Seq(Caller!Frame) /\ toModule \in Seq(Caller!Frame)
      /\ toModule # <<>> /\ toModule' = Tail(toModule) /\ callerOut' = callerOut
      /\ Head(toModule).corr = d /\ Head(toModule).type = kindOf
  BY DEF TypeInv, Takes, ModuleOnly
<1>2. ASSUME NEW type, Sent(d, type)'
      PROVE  kindOf = "more" \/ (kindOf = "final" /\ type = "cancel")
  <2>1. Has(Tail(toModule), d, type) \/ Has(callerOut, d, type)
    BY <1>1, <1>2 DEF Sent, Has
  <2>2. Sorted(toModule, callerOut)
    BY DEF RequestInv
  <2>3. \/ Has(Tail(toModule), Head(toModule).corr, type)
        \/ Has(callerOut, Head(toModule).corr, type)
    BY <1>1, <2>1
  <2>4. Head(toModule).type = "more" \/ (Head(toModule).type = "final" /\ type = "cancel")
    BY <1>1, <2>2, <2>3, SortedHead
  <2> QED BY <1>1, <2>4
<1> QED BY <1>2 DEF NothingSent

LEMMA RequestTakeCancel ==
  ASSUME TypeInv, CallInv, RequestInv, CountInv, NEW d \in Calls, TakesCancel(d)
  PROVE  RequestInv' /\ CountInv'
<1>1. /\ Takes(d, "cancel")
      /\ UNCHANGED <<callerOut, callerPc, correlation, call, results, lost, exit, request>>
      /\ toModule # <<>> /\ toModule' = Tail(toModule)
  BY DEF TakesCancel, Takes, ModuleOnly, callState
<1>2. /\ \A c \in Calls : c # d => streams'[c] = streams[c]
      /\ streams'[d] = Module!Closed("cancelled")
  BY DEF TakesCancel, TypeInv
<1>3. /\ \A c \in Calls : c # d => State(c)' = State(c) /\ Module!SentSoFar(c)' = Module!SentSoFar(c)
      /\ State(d)' = "cancelled" /\ Module!SentSoFar(d)' = 0
  BY <1>2 DEF State, Module!SentSoFar, Module!Closed
<1>4. ASSUME NEW c \in Calls
      PROVE  /\ \A type : Has(toModule, c, type) <=>
                            Has(toModule, c, type)' \/ (c = d /\ "cancel" = type)
             /\ \A type : Sent(c, type) <=> Sent(c, type)' \/ (c = d /\ "cancel" = type)
             /\ Coming(c)' = Coming(c)
             /\ Asked(c)' <=> Asked(c)
  <2>1. Asked(c)' <=> Asked(c)
    BY <1>1 DEF Asked
  <2>2. /\ \A type : Has(toModule, c, type) <=>
                            Has(toModule, c, type)' \/ (c = d /\ "cancel" = type)
        /\ \A type : Sent(c, type) <=> Sent(c, type)' \/ (c = d /\ "cancel" = type)
        /\ Coming(c)' = Coming(c)
    BY <1>1, Taken
  <2> QED BY <2>1, <2>2
<1>5. /\ Sent(d, "cancel") /\ results[d] \in AwaitErrors /\ NothingSent(d)'
      /\ results[d] # "WouldBlock" /\ Asked(d) /\ ~(d > correlation)
  <2>1. Sent(d, "cancel") /\ NothingSent(d)'
    BY <1>1, <1>4, TakenFirst
  <2>2. results[d] \in AwaitErrors
    BY <2>1 DEF RequestInv, CancelFits
  <2>3. ~(d > correlation)
    BY <2>1 DEF RequestInv, RequestFits, NothingSent
  <2> QED BY <2>1, <2>2, <2>3 DEF Asked, AwaitErrors, Caller!AwaitErrors
<1>6. Sorted(toModule, callerOut)'
  <2>1. PICK s, t : s = Tail(toModule) /\ t = callerOut
    OBVIOUS
  <2>2. Sorted(s, t)
    BY <1>1, <2>1, SortedTail DEF RequestInv, TypeInv
  <2>3. toModule' = s /\ callerOut' = t
    BY <1>1, <2>1
  <2> QED BY <2>2, <2>3 DEF Sorted, Before
<1>7. ASSUME NEW c \in Calls PROVE (StreamFits(c) /\ RequestFits(c) /\ CancelFits(c))'
  <2>1. StreamFits(c) /\ RequestFits(c) /\ CancelFits(c)
    BY DEF RequestInv
  <2>2. CASE c = d
    <3>1. StreamFits(c)'
      BY <1>3, <1>5, <2>2 DEF StreamFits, NothingSent, Sent
    <3>2. RequestFits(c)'
      <4>1. ~(c = correlation /\ callerPc = "send" /\ call.offset = 0)
        BY <1>5, <2>1, <2>2 DEF RequestFits, NothingSent
      <4> QED BY <1>1, <1>3, <1>4, <1>5, <2>2, <4>1 DEF RequestFits
    <3>3. CancelFits(c)'
      BY <1>1, <1>3, <1>5, <2>2 DEF CancelFits
    <3> QED BY <3>1, <3>2, <3>3
  <2>3. CASE c # d
    <3>1. /\ \A type : Has(toModule, c, type)' <=> Has(toModule, c, type)
          /\ \A type : Sent(c, type)' <=> Sent(c, type)
          /\ State(c)' = State(c) /\ streams'[c] = streams[c]
      BY <1>2, <1>3, <1>4, <2>3
    <3>2. NothingSent(c)' <=> NothingSent(c)
      BY <3>1 DEF NothingSent
    <3>3. StreamFits(c)'
      BY <1>1, <2>1, <3>1, <3>2 DEF StreamFits
    <3>4. RequestFits(c)'
      BY <1>1, <1>4, <2>1, <3>1, <3>2 DEF RequestFits
    <3>5. CancelFits(c)'
      BY <1>1, <2>1, <3>1 DEF CancelFits
    <3> QED BY <3>3, <3>4, <3>5
  <2> QED BY <2>2, <2>3
<1>8. RequestInv'
  BY <1>6, <1>7 DEF RequestInv
<1>9. CountInv'
  <2> SUFFICES ASSUME exit = "none"
               PROVE  /\ callerPc = "send" =>
                           (Module!SentSoFar(correlation) + Coming(correlation))' = call.offset
                      /\ \A c \in Calls : Sent(c, "final")' =>
                           (Module!SentSoFar(c) + Coming(c))' = request[c].len
    BY <1>1 DEF CountInv
  <2>1. ASSUME callerPc = "send"
        PROVE  (Module!SentSoFar(correlation) + Coming(correlation))' = call.offset
    <3>1. PICK b \in Calls : b = correlation
      BY <2>1, Current
    <3>2. b # d
      <4>1. results[b] = "none"
        BY <2>1, <3>1, Current
      <4> QED BY <1>5, <4>1 DEF AwaitErrors, Caller!AwaitErrors
    <3>3. Module!SentSoFar(b)' + Coming(b)' = call.offset
      BY <1>3, <1>4, <2>1, <3>1, <3>2 DEF CountInv
    <3> QED BY <1>1, <3>1, <3>3 DEF Module!SentSoFar, Coming, Parts
  <2>2. ASSUME NEW c \in Calls, Sent(c, "final")'
        PROVE  (Module!SentSoFar(c) + Coming(c))' = request[c].len
    <3>1. c # d
      BY <1>5, <2>2 DEF NothingSent
    <3> QED BY <1>3, <1>4, <2>2, <3>1 DEF CountInv
  <2> QED BY <2>1, <2>2
<1> QED BY <1>8, <1>9

LEMMA RequestTakePart ==
  ASSUME TypeInv, CallInv, RequestInv, CountInv, ModuleInv,
         NEW d \in Calls, NEW kindOf \in {"more", "final"}, TakesPart(d, kindOf)
  PROVE  RequestInv' /\ CountInv'
<1>1. /\ Takes(d, kindOf) /\ exit = "none"
      /\ UNCHANGED <<callerOut, callerPc, correlation, call, results, lost, exit, request>>
      /\ toModule # <<>> /\ toModule' = Tail(toModule)
  BY DEF TakesPart, Takes, ModuleOnly, callState, ModuleInv
<1>2. \A c \in Calls : c # d => streams'[c] = streams[c]
  BY DEF TakesPart, TypeInv
<1>3. \A c \in Calls : c # d => State(c)' = State(c) /\ Module!SentSoFar(c)' = Module!SentSoFar(c)
  BY <1>2 DEF State, Module!SentSoFar
<1>4. /\ kindOf = "more" => /\ State(d)' = "open" /\ streams'[d].kind = kind
                            /\ streams'[d].payload = Invoke(request[d].deadline)
                            /\ Module!SentSoFar(d)' = Module!SentSoFar(d) + 1
      /\ kindOf = "final" => State(d)' = "final"
  <2>1. CASE kindOf = "more"
    <3>1. streams'[d] = [state |-> "open", sent |-> Module!SentSoFar(d) + 1, kind |-> kind,
                         payload |-> Invoke(request[d].deadline)]
      BY <2>1 DEF TakesPart, TypeInv
    <3> QED BY <2>1, <3>1 DEF State, Module!SentSoFar
  <2>2. CASE kindOf = "final"
    <3>1. streams'[d] = Module!Closed("final")
      BY <2>2 DEF TakesPart, TypeInv
    <3> QED BY <2>2, <3>1 DEF State, Module!Closed
  <2> QED BY <2>1, <2>2
<1>5. ASSUME NEW c \in Calls
      PROVE  /\ \A type : Has(toModule, c, type) <=>
                            Has(toModule, c, type)' \/ (c = d /\ kindOf = type)
             /\ \A type : Sent(c, type) <=> Sent(c, type)' \/ (c = d /\ kindOf = type)
             /\ Coming(c)' \in Nat
             /\ Coming(c) = IF c = d THEN Coming(c)' + 1 ELSE Coming(c)'
             /\ Asked(c)' <=> Asked(c)
  <2>1. Asked(c)' <=> Asked(c)
    BY <1>1 DEF Asked
  <2>2. /\ \A type : Has(toModule, c, type) <=>
                            Has(toModule, c, type)' \/ (c = d /\ kindOf = type)
        /\ \A type : Sent(c, type) <=> Sent(c, type)' \/ (c = d /\ kindOf = type)
        /\ Coming(c)' \in Nat
        /\ Coming(c) = IF c = d THEN Coming(c)' + 1 ELSE Coming(c)'
    BY <1>1, Taken
  <2> QED BY <2>1, <2>2
<1>6. State(d) \in {"fresh", "open"} /\ State(d)' # "cancelled"
  BY <1>4 DEF TakesPart
<1>7. /\ Sent(d, kindOf) /\ Has(toModule, d, kindOf)
      /\ kindOf = "final" => ~Sent(d, "more")' /\ ~Sent(d, "final")'
      /\ ~(d > correlation) /\ results[d] # "WouldBlock"
      /\ ~(d = correlation /\ callerPc = "send" /\ call.offset = 0)
  <2>1. Sent(d, kindOf) /\ Has(toModule, d, kindOf)
    BY <1>5
  <2>2. kindOf = "final" => ~Sent(d, "more")' /\ ~Sent(d, "final")'
    BY <1>1, TakenFirst
  <2>3. ~NothingSent(d)
    BY <2>1 DEF NothingSent
  <2> QED BY <2>1, <2>2, <2>3 DEF RequestInv, RequestFits
<1>8. Sorted(toModule, callerOut)'
  <2>1. PICK s, t : s = Tail(toModule) /\ t = callerOut
    OBVIOUS
  <2>2. Sorted(s, t)
    BY <1>1, <2>1, SortedTail DEF RequestInv, TypeInv
  <2>3. toModule' = s /\ callerOut' = t
    BY <1>1, <2>1
  <2> QED BY <2>2, <2>3 DEF Sorted, Before
<1>9. ASSUME NEW c \in Calls PROVE (StreamFits(c) /\ RequestFits(c) /\ CancelFits(c))'
  <2>1. StreamFits(c) /\ RequestFits(c) /\ CancelFits(c)
    BY DEF RequestInv
  <2>2. CASE c = d
    <3>1. StreamFits(c)'
      <4>1. CASE kindOf = "more"
        BY <1>1, <1>4, <1>5, <1>6, <2>1, <2>2, <4>1 DEF StreamFits
      <4>2. CASE kindOf = "final"
        BY <1>4, <1>7, <2>2, <4>2 DEF StreamFits
      <4> QED BY <4>1, <4>2
    <3>2. RequestFits(c)'
      <4>1. Sent(c, "final")' \/ State(c)' \in {"final", "cancelled"} => Asked(c)
        <5>1. Sent(c, "final")' => Sent(c, "final")
          BY <1>5
        <5>2. State(c)' \in {"final", "cancelled"} => Sent(c, "final")
          BY <1>4, <1>7, <2>2
        <5> QED BY <2>1, <5>1, <5>2 DEF RequestFits
      <4>2. Asked(c) => Sent(c, "final")' \/ State(c)' \in {"final", "cancelled"}
        BY <1>1, <1>4, <1>5, <1>6, <2>1, <2>2 DEF RequestFits
      <4> QED BY <1>1, <1>5, <1>7, <2>2, <4>1, <4>2 DEF RequestFits
    <3>3. CancelFits(c)'
      BY <1>1, <1>5, <1>6, <2>1, <2>2 DEF CancelFits
    <3> QED BY <3>1, <3>2, <3>3
  <2>3. CASE c # d
    <3>1. /\ \A type : Has(toModule, c, type)' <=> Has(toModule, c, type)
          /\ \A type : Sent(c, type)' <=> Sent(c, type)
          /\ State(c)' = State(c) /\ streams'[c] = streams[c]
      BY <1>2, <1>3, <1>5, <2>3
    <3>2. NothingSent(c)' <=> NothingSent(c)
      BY <3>1 DEF NothingSent
    <3>3. StreamFits(c)'
      BY <1>1, <2>1, <3>1, <3>2 DEF StreamFits
    <3>4. RequestFits(c)'
      BY <1>1, <1>5, <2>1, <3>1, <3>2 DEF RequestFits
    <3>5. CancelFits(c)'
      BY <1>1, <2>1, <3>1 DEF CancelFits
    <3> QED BY <3>3, <3>4, <3>5
  <2> QED BY <2>2, <2>3
<1>10. RequestInv'
  BY <1>8, <1>9 DEF RequestInv
<1>11. ASSUME NEW c \in Calls, c = d => kindOf = "more"
       PROVE  Module!SentSoFar(c)' + Coming(c)' = Module!SentSoFar(c) + Coming(c)
  <2>1. Module!SentSoFar(c) \in Nat
    BY SentType
  <2>2. CASE c = d
    <3>1. /\ Module!SentSoFar(c)' = Module!SentSoFar(c) + 1
          /\ Coming(c) = Coming(c)' + 1 /\ Coming(c)' \in Nat
      BY <1>4, <1>5, <1>11, <2>2
    <3> QED BY <2>1, <3>1
  <2>3. CASE c # d
    BY <1>3, <1>5, <2>3
  <2> QED BY <2>2, <2>3
<1>12. CountInv'
  <2>1. ASSUME callerPc = "send"
        PROVE  (Module!SentSoFar(correlation) + Coming(correlation))' = call.offset
    <3>1. PICK b \in Calls : b = correlation
      BY <2>1, Current
    <3>2. b = d => kindOf = "more"
      <4>1. ~Asked(b)
        <5>1. results[b] = "none"
          BY <2>1, <3>1, Current
        <5> QED BY <2>1, <3>1, <5>1 DEF Asked, AwaitErrors, Caller!AwaitErrors
      <4>2. ~Sent(b, "final")
        BY <4>1 DEF RequestInv, RequestFits
      <4> QED BY <1>7, <4>2
    <3>3. Module!SentSoFar(b)' + Coming(b)' = call.offset
      BY <1>1, <1>11, <2>1, <3>1, <3>2 DEF CountInv
    <3> QED BY <1>1, <3>1, <3>3 DEF Module!SentSoFar, Coming, Parts
  <2>2. ASSUME NEW c \in Calls, Sent(c, "final")'
        PROVE  (Module!SentSoFar(c) + Coming(c))' = request[c].len
    <3>1. c = d => kindOf = "more"
      BY <1>7, <2>2
    <3>2. Sent(c, "final")
      BY <1>5, <2>2
    <3> QED BY <1>1, <1>11, <3>1, <3>2 DEF CountInv
  <2> QED BY <1>1, <2>1, <2>2 DEF CountInv
<1> QED BY <1>10, <1>12

LEMMA RequestStep ==
  ASSUME TypeInv, CallInv, RequestInv, CountInv, ModuleInv, Move
  PROVE  RequestInv' /\ CountInv'
<1>1. CASE Flags \/ Rests \/ Receives \/ Marks \/ Replies \/ Delivers \/ Stutters
  <2>1. CASE Flags
    <3>1. call'.offset = call.offset
      BY <2>1 DEF Flags, TypeInv, CallType
    <3> QED BY <2>1, <3>1, RequestsKept DEF Flags, CallerOnly, moduleState, RequestsStill
  <2>2. CASE Rests \/ Receives \/ Marks \/ Replies
    BY <2>2, RequestsKept DEF Rests, Receives, Marks, Replies, ModuleOnly, callState, RequestsStill
  <2>3. CASE Delivers \/ Stutters
    BY <2>3, RequestsKept DEF Delivers, Stutters, callState, moduleState, rings, RequestsStill
  <2> QED BY <1>1, <2>1, <2>2, <2>3
<1>2. ASSUME NEW len \in RequestLen, NEW deadline \in BOOLEAN, Asks(len, deadline)
      PROVE  RequestInv' /\ CountInv'
  BY <1>2, RequestAsk
<1>3. CASE Waits \/ GivesUp \/ Answered \/ \E r \in SendErrors : SendEnds(r)
  BY <1>3, RequestAwaited
<1>4. CASE Sends
  BY <1>4, RequestSend
<1>5. CASE Cancels
  BY <1>5, RequestCancel
<1>6. CASE Exits
  BY <1>6, RequestExit
<1>7. CASE Forwards
  BY <1>7, RequestForward
<1>8. ASSUME NEW c \in Calls, TakesCancel(c) PROVE RequestInv' /\ CountInv'
  BY <1>8, RequestTakeCancel
<1>9. ASSUME NEW c \in Calls,
             (\E type \in {"more", "final"} : Refuses(c, type)) \/ Extends(c) \/ Starts(c)
      PROVE  RequestInv' /\ CountInv'
  <2>1. \E type \in {"more", "final"} : TakesPart(c, type)
    BY <1>9 DEF Refuses, Extends, Starts
  <2> QED BY <2>1, RequestTakePart
<1> QED BY <1>1, <1>2, <1>3, <1>4, <1>5, <1>6, <1>7, <1>8, <1>9 DEF Move, CallerMove, ModuleMove, Polls
-------------------------------------------------------------------------------
(* The tables of the module. *)
LEMMA ModuleKept ==
  ASSUME ModuleInv, UNCHANGED moduleState
  PROVE  ModuleInv'
BY DEF ModuleInv, TablesFit, State, moduleState

LEMMA TablesKept ==
  ASSUME NEW c \in Calls, TablesFit(c), streams'[c] = streams[c],
         assemblies'[c] = assemblies[c], jobs'[c] = jobs[c], runs'[c] = runs[c]
  PROVE  TablesFit(c)'
BY DEF TablesFit, State

LEMMA ModuleStep ==
  ASSUME TypeInv, ModuleInv, Move
  PROVE  ModuleInv'
<1>1. CASE CallerMove \/ Forwards \/ Delivers \/ Stutters
  <2>1. UNCHANGED moduleState
    BY <1>1 DEF CallerMove, Asks, Flags, SendEnds, Sends, Waits, GivesUp, Answered, Cancels,
      CallerOnly, Forwards, Delivers, Stutters
  <2> QED BY <2>1, ModuleKept
<1>2. CASE Rests \/ Exits
  BY <1>2 DEF Rests, Exits, InLoop, ModuleInv, TablesFit, State
<1>3. CASE Receives
  <2>1. PICK d : d = Head(done)
    OBVIOUS
  <2>2. /\ Len(done) \in Nat /\ Len(done') = Len(done) - 1 /\ 1 \in 1 .. Len(done)
        /\ done[1] = d /\ d \in Calls
        /\ \A k \in 1 .. Len(done') : done'[k] = done[k + 1] /\ k + 1 \in 1 .. Len(done) /\ k + 1 # 1
    <3>1. done \in Seq(Calls) /\ done # <<>> /\ done' = Tail(done)
      BY <1>3 DEF TypeInv, Receives
    <3>2. /\ Head(done) = done[1] /\ done[1] \in Calls
          /\ Len(done) \in Nat /\ Len(done) >= 1 /\ Len(Tail(done)) = Len(done) - 1
          /\ \A k \in 1 .. Len(done) - 1 : Tail(done)[k] = done[k + 1] /\ k + 1 \in 1 .. Len(done)
      BY <3>1, TailAt
    <3> QED BY <2>1, <3>1, <3>2
  <2>3. jobs'[d] = None /\ \A c \in Calls : c # d => jobs'[c] = jobs[c]
    BY <1>3, <2>1, <2>2 DEF Receives, TypeInv
  <2>4. \A i \in 1 .. Len(done') : jobs'[done'[i]] # None /\ jobs'[done'[i]].phase = "done"
    <3> SUFFICES ASSUME NEW i \in 1 .. Len(done')
                 PROVE  jobs'[done'[i]] # None /\ jobs'[done'[i]].phase = "done"
      OBVIOUS
    <3>1. done'[i] = done[i + 1] /\ done[i + 1] # d /\ done[i + 1] \in Calls
      BY <2>2 DEF ModuleInv, TypeInv
    <3> QED BY <2>2, <2>3, <3>1 DEF ModuleInv
  <2>5. \A i, j \in 1 .. Len(done') : done'[i] = done'[j] => i = j
    <3> SUFFICES ASSUME NEW i \in 1 .. Len(done'), NEW j \in 1 .. Len(done'), done'[i] = done'[j]
                 PROVE  i = j
      OBVIOUS
    <3>1. i + 1 = j + 1
      BY <2>2 DEF ModuleInv
    <3> QED BY <2>2, <3>1
  <2>6. \A c \in Calls : TablesFit(c)'
    BY <1>3, <2>3 DEF Receives, ModuleInv, TablesFit, State
  <2>7. reply' # None /\ reply'.status # "OK" => reply'.len = 0 /\ reply'.offset = 0
    <3>1. CASE UNCHANGED reply
      BY <3>1 DEF ModuleInv
    <3>2. CASE Module!replyModuleResult(d, jobs[d].stage, jobs[d].status, jobs[d].len)
      <4>1. jobs[d] \in Module!Job
        BY <2>2 DEF ModuleInv, TypeInv
      <4>2. PICK status \in Module!ModuleStatus, len \in Nat : status = jobs[d].status /\ len = jobs[d].len
        BY <4>1 DEF Module!Job
      <4>3. Module!NormalStatus(status, len) # "OK" => Module!NormalLen(status, len) = 0
        BY NormalType
      <4> QED BY <3>2, <4>2, <4>3 DEF Module!replyModuleResult
    <3> QED BY <1>3, <2>1, <3>1, <3>2 DEF Receives
  <2>8. /\ modulePc' # "exited" => exit' = "none"
        /\ modulePc' \in {"drain", "top", "poll", "shutdown"} => reply' = None
    BY <1>3 DEF Receives, ModuleInv, Module!replyModuleResult
  <2> QED BY <2>4, <2>5, <2>6, <2>7, <2>8 DEF ModuleInv
<1>4. CASE Marks
  <2>1. \A c \in Calls : TablesFit(c)'
    BY <1>4 DEF Marks, JobKept, ModuleInv, TablesFit, State
  <2>2. /\ modulePc' # "exited" => exit' = "none"
        /\ modulePc' \in {"drain", "top", "poll", "shutdown"} => reply' = None
        /\ reply' # None /\ reply'.status # "OK" => reply'.len = 0 /\ reply'.offset = 0
    BY <1>4 DEF Marks, ModuleInv
  <2>3. \A i \in 1 .. Len(done) : done[i] \in Calls /\ jobs'[done[i]] # None /\ jobs'[done[i]].phase = "done"
    BY <1>4 DEF Marks, JobKept, ModuleInv, TypeInv
  <2>4. CASE done' = done
    BY <2>1, <2>2, <2>3, <2>4 DEF ModuleInv
  <2>5. ASSUME NEW c \in Calls, done' = Append(done, c), jobs[c] # None, jobs[c].phase # "done",
               jobs'[c].phase = "done"
        PROVE  ModuleInv'
    <3>1. /\ Len(done') = Len(done) + 1 /\ Len(done) \in Nat /\ done'[Len(done) + 1] = c
          /\ \A k \in 1 .. Len(done) : done'[k] = done[k]
      BY <2>5, AppendAt DEF TypeInv
    <3>2. jobs'[c] # None
      BY <1>4, <2>5 DEF Marks, JobKept
    <3>3. \A k \in 1 .. Len(done) : done[k] # c
      BY <2>5 DEF ModuleInv
    <3>4. \A i \in 1 .. Len(done') : jobs'[done'[i]] # None /\ jobs'[done'[i]].phase = "done"
      <4> SUFFICES ASSUME NEW i \in 1 .. Len(done')
                   PROVE  jobs'[done'[i]] # None /\ jobs'[done'[i]].phase = "done"
        OBVIOUS
      <4>1. CASE i \in 1 .. Len(done)
        BY <2>3, <3>1, <4>1
      <4>2. CASE i = Len(done) + 1
        BY <2>5, <3>1, <3>2, <4>2
      <4> QED BY <3>1, <4>1, <4>2
    <3>5. \A i, j \in 1 .. Len(done') : done'[i] = done'[j] => i = j
      <4> SUFFICES ASSUME NEW i \in 1 .. Len(done'), NEW j \in 1 .. Len(done'), done'[i] = done'[j]
                   PROVE  i = j
        OBVIOUS
      <4>1. CASE i \in 1 .. Len(done) /\ j \in 1 .. Len(done)
        BY <3>1, <4>1 DEF ModuleInv
      <4>2. CASE i = Len(done) + 1 \/ j = Len(done) + 1
        BY <3>1, <3>3, <4>2
      <4> QED BY <3>1, <4>1, <4>2
    <3> QED BY <2>1, <2>2, <3>4, <3>5 DEF ModuleInv
  <2> QED BY <1>4, <2>4, <2>5 DEF Marks
<1>5. CASE Replies
  <2>1. /\ modulePc' # "exited" => exit' = "none"
        /\ modulePc' \in {"drain", "top", "poll", "shutdown"} => reply' = None
        /\ reply' # None /\ reply'.status # "OK" => reply'.len = 0 /\ reply'.offset = 0
    BY <1>5 DEF Replies, ModuleInv
  <2> QED BY <1>5, <2>1 DEF Replies, ModuleInv, TablesFit, State
<1>6. ASSUME NEW d \in Calls, NEW kindOf, TakesPart(d, kindOf)
      PROVE  /\ \A c \in Calls : c # d => streams'[c] = streams[c]
             /\ streams'[d].state = IF kindOf = "more" THEN "open" ELSE "final"
             /\ jobs[d] = None /\ runs[d] # 1 /\ exit' = "none" /\ done' = done
             /\ kindOf \in {"more", "final"} /\ modulePc = "poll" /\ reply = None
  <2>1. /\ \A c \in Calls : c # d => streams'[c] = streams[c]
        /\ streams'[d].state = IF kindOf = "more" THEN "open" ELSE "final"
    BY <1>6 DEF TakesPart, TypeInv, Module!Closed
  <2>2. jobs[d] = None /\ runs[d] # 1
    BY <1>6 DEF TakesPart, ModuleInv, TablesFit
  <2> QED BY <1>6, <2>1, <2>2 DEF TakesPart, Takes, ModuleInv
<1>7. ASSUME NEW d \in Calls, TakesCancel(d) PROVE ModuleInv'
  <2>1. /\ streams'[d].state = "cancelled" /\ \A c \in Calls : c # d => streams'[c] = streams[c]
        /\ assemblies'[d] = None /\ \A c \in Calls : c # d => assemblies'[c] = assemblies[c]
    BY <1>7 DEF TakesCancel, TypeInv, Module!Closed
  <2>2. ASSUME NEW c \in Calls PROVE TablesFit(c)'
    <3>1. TablesFit(c) /\ JobKept(c) /\ runs' = runs
      BY <1>7 DEF TakesCancel, ModuleInv
    <3>2. CASE c = d
      <4>1. jobs'[d] # None => jobs'[d].cancelled
        BY <1>7 DEF TakesCancel, JobKept
      <4> QED BY <2>1, <3>2, <4>1 DEF TablesFit, State
    <3>3. CASE c # d
      BY <2>1, <3>1, <3>3 DEF TablesFit, State, JobKept
    <3> QED BY <3>2, <3>3
  <2>3. /\ modulePc' # "exited" => exit' = "none"
        /\ reply' = None /\ done' = done
    BY <1>7 DEF TakesCancel, Takes, ModuleInv
  <2>4. \A i \in 1 .. Len(done) : jobs'[done[i]] # None /\ jobs'[done[i]].phase = "done"
    BY <1>7 DEF TakesCancel, JobKept, ModuleInv, TypeInv
  <2> QED BY <2>2, <2>3, <2>4 DEF ModuleInv
<1>8. ASSUME NEW d \in Calls, NEW kindOf \in {"more", "final"}, Refuses(d, kindOf) PROVE ModuleInv'
  <2>1. TakesPart(d, kindOf) /\ UNCHANGED <<jobs, runs>> /\ modulePc' = "reply"
    BY <1>8 DEF Refuses
  <2>2. assemblies'[d] = None /\ \A c \in Calls : c # d => assemblies'[c] = assemblies[c]
    BY <1>8 DEF Refuses, TypeInv
  <2>3. reply'.len = 0 /\ reply'.offset = 0
    BY <1>8 DEF Refuses
  <2>4. ASSUME NEW c \in Calls PROVE TablesFit(c)'
    <3>1. CASE c = d
      BY <1>6, <2>1, <2>2, <3>1 DEF TablesFit, State
    <3>2. CASE c # d
      BY <1>6, <2>1, <2>2, <3>2, TablesKept DEF ModuleInv
    <3> QED BY <3>1, <3>2
  <2> QED BY <1>6, <2>1, <2>3, <2>4 DEF ModuleInv
<1>9. ASSUME NEW d \in Calls, Extends(d) PROVE ModuleInv'
  <2>1. TakesPart(d, "more") /\ UNCHANGED <<jobs, runs, reply>> /\ modulePc' = "drain"
    BY <1>9 DEF Extends
  <2>2. \A c \in Calls : c # d => assemblies'[c] = assemblies[c]
    BY <1>9 DEF Extends, TypeInv
  <2>3. ASSUME NEW c \in Calls PROVE TablesFit(c)'
    <3>1. CASE c = d
      BY <1>6, <2>1, <3>1 DEF TablesFit, State
    <3>2. CASE c # d
      BY <1>6, <2>1, <2>2, <3>2, TablesKept DEF ModuleInv
    <3> QED BY <3>1, <3>2
  <2> QED BY <1>6, <2>1, <2>3 DEF ModuleInv
<1>10. ASSUME NEW d \in Calls, Starts(d) PROVE ModuleInv'
  <2>1. TakesPart(d, "final") /\ UNCHANGED reply /\ modulePc' = "drain"
    BY <1>10 DEF Starts
  <2>2. /\ assemblies'[d] = None
        /\ \A c \in Calls : c # d => assemblies'[c] = assemblies[c] /\ jobs'[c] = jobs[c] /\ runs'[c] = runs[c]
    BY <1>10 DEF Starts, TypeInv
  <2>3. ASSUME NEW c \in Calls PROVE TablesFit(c)'
    <3>1. CASE c = d
      BY <1>6, <2>1, <2>2, <3>1 DEF TablesFit, State
    <3>2. CASE c # d
      BY <1>6, <2>1, <2>2, <3>2, TablesKept DEF ModuleInv
    <3> QED BY <3>1, <3>2
  <2>4. \A i \in 1 .. Len(done) : jobs'[done[i]] # None /\ jobs'[done[i]].phase = "done"
    <3> SUFFICES ASSUME NEW i \in 1 .. Len(done)
                 PROVE  jobs'[done[i]] # None /\ jobs'[done[i]].phase = "done"
      OBVIOUS
    <3>1. done[i] \in Calls /\ jobs[done[i]] # None /\ jobs[done[i]].phase = "done"
      BY DEF ModuleInv, TypeInv
    <3>2. done[i] # d
      BY <1>6, <2>1, <3>1
    <3> QED BY <2>2, <3>1, <3>2
  <2> QED BY <1>6, <2>1, <2>3, <2>4 DEF ModuleInv
<1> QED BY <1>1, <1>2, <1>3, <1>4, <1>5, <1>7, <1>8, <1>9, <1>10 DEF Move, ModuleMove, Polls
-------------------------------------------------------------------------------
(* Failures and successes on their way to the caller. *)
LEMMA FailAppend ==
  ASSUME NEW S, NEW s \in Seq(S), NEW e \in S, NEW c
  PROVE  /\ HasFail(Append(s, e), c) <=> HasFail(s, c) \/ Fails(e, c)
         /\ Guarded(s, c) /\ (Succeeds(e, c) => HasFail(s, c)) => Guarded(Append(s, e), c)
<1> DEFINE r == Append(s, e)
<1>1. /\ Len(r) = Len(s) + 1 /\ Len(s) \in Nat /\ r[Len(s) + 1] = e
      /\ \A k \in 1 .. Len(s) : r[k] = s[k]
  BY AppendAt
<1> HIDE DEF r
<1>2. HasFail(r, c) <=> HasFail(s, c) \/ Fails(e, c)
  <2>1. \A k \in 1 .. Len(r) : k \in 1 .. Len(s) \/ k = Len(s) + 1
    BY <1>1
  <2>2. Len(s) + 1 \in 1 .. Len(r) /\ \A k \in 1 .. Len(s) : k \in 1 .. Len(r)
    BY <1>1
  <2> QED BY <1>1, <2>1, <2>2 DEF HasFail
<1>3. ASSUME Guarded(s, c), Succeeds(e, c) => HasFail(s, c) PROVE Guarded(r, c)
  <2> SUFFICES ASSUME NEW i \in 1 .. Len(r), Succeeds(r[i], c)
               PROVE  \E j \in 1 .. i - 1 : Fails(r[j], c)
    BY DEF Guarded
  <2>1. CASE i \in 1 .. Len(s)
    <3>1. PICK j \in 1 .. i - 1 : Fails(s[j], c)
      BY <1>1, <1>3, <2>1 DEF Guarded
    <3>2. j \in 1 .. Len(s)
      BY <1>1, <2>1
    <3> QED BY <1>1, <3>1, <3>2
  <2>2. CASE i = Len(s) + 1
    <3>1. PICK j \in 1 .. Len(s) : Fails(s[j], c)
      BY <1>1, <1>3, <2>2 DEF HasFail
    <3>2. j \in 1 .. i - 1 /\ r[j] = s[j]
      BY <1>1, <2>2
    <3> QED BY <3>1, <3>2
  <2> QED BY <1>1, <2>1, <2>2
<1> QED BY <1>2, <1>3 DEF r

LEMMA FailTail ==
  ASSUME NEW S, NEW s \in Seq(S), s # <<>>, NEW c
  PROVE  /\ HasFail(s, c) <=> HasFail(Tail(s), c) \/ Fails(Head(s), c)
         /\ Guarded(s, c) => /\ ~Succeeds(Head(s), c)
                             /\ ~Fails(Head(s), c) => Guarded(Tail(s), c)
<1> DEFINE r == Tail(s)
           h == Head(s)
<1>1. /\ Len(s) \in Nat /\ Len(s) >= 1 /\ Len(r) = Len(s) - 1 /\ h = s[1]
      /\ \A k \in 1 .. Len(s) - 1 : r[k] = s[k + 1] /\ k + 1 \in 1 .. Len(s)
  BY TailAt
<1> HIDE DEF r, h
<1>2. \A i \in 1 .. Len(s) : i = 1 \/ (i - 1 \in 1 .. Len(s) - 1 /\ r[i - 1] = s[i])
  <2> SUFFICES ASSUME NEW i \in 1 .. Len(s), i # 1
               PROVE  i - 1 \in 1 .. Len(s) - 1 /\ r[i - 1] = s[i]
    OBVIOUS
  <2>1. i - 1 \in 1 .. Len(s) - 1 /\ (i - 1) + 1 = i
    BY <1>1
  <2> QED BY <1>1, <2>1
<1>3. HasFail(s, c) <=> HasFail(r, c) \/ Fails(h, c)
  BY <1>1, <1>2 DEF HasFail
<1>4. ASSUME Guarded(s, c) PROVE ~Succeeds(h, c)
  BY <1>1, <1>4 DEF Guarded
<1>5. ASSUME Guarded(s, c), ~Fails(h, c) PROVE Guarded(r, c)
  <2> SUFFICES ASSUME NEW i \in 1 .. Len(r), Succeeds(r[i], c)
               PROVE  \E j \in 1 .. i - 1 : Fails(r[j], c)
    BY DEF Guarded
  <2>1. i \in 1 .. Len(s) - 1 /\ i + 1 \in 1 .. Len(s) /\ r[i] = s[i + 1]
    BY <1>1
  <2>2. PICK j \in 1 .. (i + 1) - 1 : Fails(s[j], c)
    BY <1>5, <2>1 DEF Guarded
  <2>3. j # 1 /\ j \in 1 .. Len(s) /\ j - 1 \in 1 .. i - 1
    BY <1>1, <1>5, <2>1, <2>2
  <2> QED BY <1>2, <2>2, <2>3
<1> QED BY <1>3, <1>4, <1>5 DEF r, h

(* What is true of the two rings stays true when an event is added to one  *)
(* of them, handed on or read.                                             *)
LEMMA HonestRings ==
  ASSUME NEW S, NEW s \in Seq(S), NEW t \in Seq(S), NEW c
  PROVE  /\ \A e \in S : ~Succeeds(e, c) =>
              /\ Warned(s, t, c) => Warned(Append(s, e), t, c)
              /\ Honest(s, t, c) => Honest(Append(s, e), t, c)
         /\ \A e \in S : (Succeeds(e, c) => Warned(s, t, c)) =>
              /\ Warned(s, t, c) => Warned(s, Append(t, e), c)
              /\ Honest(s, t, c) => Honest(s, Append(t, e), c)
         /\ t # <<>> =>
              /\ Warned(s, t, c) => Warned(Append(s, Head(t)), Tail(t), c)
              /\ Honest(s, t, c) => Honest(Append(s, Head(t)), Tail(t), c)
         /\ s # <<>> /\ ~Fails(Head(s), c) =>
              /\ Warned(s, t, c) => Warned(Tail(s), t, c)
              /\ Honest(s, t, c) => Honest(Tail(s), t, c)
<1>1. \A e \in S : ~Succeeds(e, c) =>
        /\ Warned(s, t, c) => Warned(Append(s, e), t, c)
        /\ Honest(s, t, c) => Honest(Append(s, e), t, c)
  BY FailAppend DEF Warned, Honest
<1>2. t # <<>> =>
        /\ Warned(s, t, c) => Warned(Append(s, Head(t)), Tail(t), c)
        /\ Honest(s, t, c) => Honest(Append(s, Head(t)), Tail(t), c)
  <2> SUFFICES ASSUME t # <<>>
               PROVE  /\ Warned(s, t, c) => Warned(Append(s, Head(t)), Tail(t), c)
                      /\ Honest(s, t, c) => Honest(Append(s, Head(t)), Tail(t), c)
    OBVIOUS
  <2>1. Head(t) \in S
    BY TailAt
  <2>2. /\ HasFail(Append(s, Head(t)), c) <=> HasFail(s, c) \/ Fails(Head(t), c)
        /\ Guarded(s, c) /\ (Succeeds(Head(t), c) => HasFail(s, c)) => Guarded(Append(s, Head(t)), c)
    BY <2>1, FailAppend
  <2>3. /\ HasFail(t, c) <=> HasFail(Tail(t), c) \/ Fails(Head(t), c)
        /\ Guarded(t, c) => /\ ~Succeeds(Head(t), c)
                            /\ ~Fails(Head(t), c) => Guarded(Tail(t), c)
    BY FailTail
  <2> QED BY <2>2, <2>3 DEF Warned, Honest
<1>3. s # <<>> /\ ~Fails(Head(s), c) =>
        /\ Warned(s, t, c) => Warned(Tail(s), t, c)
        /\ Honest(s, t, c) => Honest(Tail(s), t, c)
  BY FailTail DEF Warned, Honest
<1>4. \A e \in S : (Succeeds(e, c) => Warned(s, t, c)) =>
        /\ Warned(s, t, c) => Warned(s, Append(t, e), c)
        /\ Honest(s, t, c) => Honest(s, Append(t, e), c)
  BY FailAppend DEF Warned, Honest
<1> QED BY <1>1, <1>2, <1>3, <1>4
-------------------------------------------------------------------------------
(* What the caller is owed, after each step. *)
LEMMA RingsNext ==
  ASSUME NEW s, NEW t, callerIn' = s, fromModule' = t, NEW c
  PROVE  /\ Warned(callerIn, fromModule, c)' <=> Warned(s, t, c)
         /\ Honest(callerIn, fromModule, c)' <=> Honest(s, t, c)
<1>1. HasFail(callerIn, c)' <=> HasFail(s, c)
  BY DEF HasFail
<1>2. HasFail(fromModule, c)' <=> HasFail(t, c)
  BY DEF HasFail
<1>3. Guarded(callerIn, c)' <=> Guarded(s, c)
  BY DEF Guarded
<1>4. Guarded(fromModule, c)' <=> Guarded(t, c)
  BY DEF Guarded
<1> QED BY <1>1, <1>2, <1>3, <1>4 DEF Warned, Honest

LEMMA AnswerKept ==
  ASSUME NEW c \in Calls, AnswerFits(c), streams'[c] = streams[c],
         assemblies'[c] = assemblies[c], jobs'[c] = jobs[c], runs'[c] = runs[c],
         Succeeding(c)' => Succeeding(c), Failed(c) => Failed(c)', Truthful(c) => Truthful(c)'
  PROVE  AnswerFits(c)'
BY DEF AnswerFits, State, Module!Held

(* Events are added and taken: the numbers of their calls. *)
LEMMA EventsBound ==
  ASSUME NEW s \in Seq(Event), NEW k \in Nat, \A i \in 1 .. Len(s) : s[i].corr <= k
  PROVE  /\ s # <<>> => /\ Head(s) \in Event /\ Head(s).corr <= k
                        /\ \A i \in 1 .. Len(Tail(s)) : Tail(s)[i].corr <= k
         /\ \A e \in Event : e.corr <= k =>
              \A i \in 1 .. Len(Append(s, e)) : Append(s, e)[i].corr <= k
<1>1. ASSUME s # <<>>
      PROVE  /\ Head(s) \in Event /\ Head(s).corr <= k
             /\ \A i \in 1 .. Len(Tail(s)) : Tail(s)[i].corr <= k
  <2>1. /\ Len(s) \in Nat /\ Len(s) >= 1 /\ Len(Tail(s)) = Len(s) - 1
        /\ Head(s) = s[1] /\ s[1] \in Event
        /\ \A j \in 1 .. Len(s) - 1 : Tail(s)[j] = s[j + 1] /\ j + 1 \in 1 .. Len(s)
    BY <1>1, TailAt
  <2> QED BY <2>1
<1>2. ASSUME NEW e \in Event, e.corr <= k, NEW i \in 1 .. Len(Append(s, e))
      PROVE  Append(s, e)[i].corr <= k
  <2>1. /\ Len(Append(s, e)) = Len(s) + 1 /\ Len(s) \in Nat
        /\ Append(s, e)[Len(s) + 1] = e
        /\ \A j \in 1 .. Len(s) : Append(s, e)[j] = s[j]
    BY AppendAt
  <2>2. i \in 1 .. Len(s) \/ i = Len(s) + 1
    BY <2>1
  <2> QED BY <1>2, <2>1, <2>2
<1> QED BY <1>1, <1>2

LEMMA AnswerCaller ==
  ASSUME TypeInv, CallInv, AnswerInv, CallerMove
  PROVE  AnswerInv'
<1>1. UNCHANGED <<moduleState, fromModule>>
  BY DEF CallerMove, Asks, Flags, SendEnds, Sends, Waits, GivesUp, Answered, Cancels, CallerOnly, rings
<1>2. /\ correlation \in Nat /\ correlation' \in Nat /\ correlation <= correlation'
      /\ \A c \in Calls : c \in Nat /\ (Over(c) => Over(c)')
  <2>1. correlation \in Nat /\ \A c \in Calls : c \in Nat
    BY DEF TypeInv, Calls
  <2>2. ASSUME NEW len \in RequestLen, NEW deadline \in BOOLEAN, Asks(len, deadline)
        PROVE  /\ correlation' = correlation + 1
               /\ \A c \in Calls : Over(c) => Over(c)'
    BY <2>1, <2>2 DEF Asks, Over
  <2>3. ASSUME Flags \/ (\E r \in SendErrors : SendEnds(r)) \/ Sends
               \/ Waits \/ GivesUp \/ Answered \/ Cancels
        PROVE  /\ correlation' = correlation
               /\ \A c \in Calls : Over(c) => Over(c)'
    BY <2>1, <2>3 DEF Flags, SendEnds, Sends, Waits, GivesUp, Answered, Cancels, Over
  <2> QED BY <2>1, <2>2, <2>3 DEF CallerMove
<1>3. \/ callerIn' = callerIn
      \/ /\ callerIn # <<>> /\ callerIn' = Tail(callerIn)
         /\ \A c \in Calls : Over(c)' \/ ~Fails(Head(callerIn), c)
  <2>1. CASE (\E len \in RequestLen, deadline \in BOOLEAN : Asks(len, deadline))
             \/ Flags \/ (\E r \in SendErrors : SendEnds(r)) \/ Sends \/ Cancels
    BY <2>1 DEF Asks, Flags, SendEnds, Sends, Cancels, rings
  <2>2. callerIn # <<>> => Head(callerIn).corr <= correlation
    BY <1>2, EventsBound DEF TypeInv, AnswerInv
  <2>3. CASE Waits
    <3>1. correlation' = correlation
      BY <2>3 DEF Waits
    <3> QED BY <1>2, <2>2, <2>3, <3>1 DEF Waits, Over, Fails
  <2>4. CASE GivesUp
    <3>1. correlation' = correlation /\ callerPc' = "cancel"
      BY <2>4 DEF GivesUp
    <3> QED BY <1>2, <2>2, <2>4, <3>1 DEF GivesUp, Over, Fails
  <2>5. CASE Answered
    <3>1. correlation' = correlation /\ callerPc' = "idle"
      BY <2>5 DEF Answered
    <3> QED BY <1>2, <2>2, <2>5, <3>1 DEF Answered, Over, Fails
  <2> QED BY <2>1, <2>3, <2>4, <2>5 DEF CallerMove
<1>4. PICK s, t : s = callerIn' /\ t = fromModule'
  OBVIOUS
<1>5. callerIn \in Seq(Event) /\ fromModule \in Seq(Event)
  BY DEF TypeInv
<1>6. ASSUME NEW c \in Calls
      PROVE  /\ Failed(c) => Failed(c)'
             /\ Truthful(c) => Truthful(c)'
  <2>1. callerIn # <<>> /\ ~Fails(Head(callerIn), c) =>
          /\ Warned(callerIn, fromModule, c) => Warned(Tail(callerIn), fromModule, c)
          /\ Honest(callerIn, fromModule, c) => Honest(Tail(callerIn), fromModule, c)
    BY <1>5, HonestRings
  <2>2. /\ Warned(callerIn, fromModule, c)' <=> Warned(s, t, c)
        /\ Honest(callerIn, fromModule, c)' <=> Honest(s, t, c)
    BY <1>4, RingsNext
  <2>3. /\ Over(c)' \/ (Warned(callerIn, fromModule, c) => Warned(callerIn, fromModule, c)')
        /\ Over(c)' \/ (Honest(callerIn, fromModule, c) => Honest(callerIn, fromModule, c)')
    <3>1. t = fromModule /\ (s = callerIn \/ (s = Tail(callerIn) /\ callerIn # <<>>
                              /\ (Over(c)' \/ ~Fails(Head(callerIn), c))))
      BY <1>1, <1>3, <1>4
    <3> QED BY <2>1, <2>2, <3>1
  <2>4. Failing(c)' <=> Failing(c)
    BY <1>1 DEF Failing, moduleState
  <2>5. Failed(c) => Failed(c)'
    BY <1>2, <2>3, <2>4 DEF Failed
  <2>6. Truthful(c) => Truthful(c)'
    BY <1>1, <1>2, <2>3 DEF Truthful, moduleState
  <2> QED BY <2>5, <2>6
<1>7. \A c \in Calls : AnswerFits(c)'
  BY <1>1, <1>6, AnswerKept DEF moduleState, AnswerInv, Succeeding
<1>8. /\ \A i \in 1 .. Len(callerIn') : callerIn'[i].corr <= correlation'
      /\ \A i \in 1 .. Len(fromModule') : fromModule'[i].corr <= correlation'
  <2>1. \A e \in Event : e.corr \in Nat
    BY <1>2 DEF Event
  <2>2. /\ \A i \in 1 .. Len(callerIn) : callerIn[i].corr \in Nat
        /\ \A i \in 1 .. Len(fromModule) : fromModule[i].corr \in Nat
    BY <1>5, <2>1
  <2>3. /\ \A i \in 1 .. Len(callerIn) : callerIn[i].corr <= correlation'
        /\ \A i \in 1 .. Len(fromModule) : fromModule[i].corr <= correlation'
    BY <1>2, <2>2 DEF AnswerInv
  <2>4. callerIn # <<>> => \A i \in 1 .. Len(Tail(callerIn)) : Tail(callerIn)[i].corr <= correlation'
    BY <1>2, <1>5, <2>3, EventsBound
  <2>5. fromModule' = fromModule
    BY <1>1
  <2> QED BY <1>3, <2>3, <2>4, <2>5
<1>9. reply' # None => reply'.corr <= correlation'
  <2>1. reply # None => reply.corr \in Nat /\ reply.corr <= correlation
    BY <1>2 DEF TypeInv, AnswerInv, Module!Reply
  <2> QED BY <1>1, <1>2, <2>1 DEF moduleState
<1> QED BY <1>7, <1>8, <1>9 DEF AnswerInv

LEMMA AnswerHost ==
  ASSUME TypeInv, CallInv, RequestInv, AnswerInv, Forwards \/ Delivers \/ Stutters
  PROVE  AnswerInv'
<1>1. UNCHANGED <<moduleState, callerPc, correlation>>
  BY DEF Forwards, Delivers, Stutters, callState
<1>2. /\ callerIn \in Seq(Event) /\ fromModule \in Seq(Event)
      /\ correlation \in Nat /\ \A c \in Calls : c \in Nat
  BY DEF TypeInv, Calls
<1>3. PICK s, t : s = callerIn' /\ t = fromModule'
  OBVIOUS
<1>4. /\ \A i \in 1 .. Len(callerIn) : callerIn[i].corr <= correlation
      /\ \A i \in 1 .. Len(fromModule) : fromModule[i].corr <= correlation
  BY DEF AnswerInv
<1>5. ASSUME /\ \A i \in 1 .. Len(s) : s[i].corr <= correlation
             /\ \A i \in 1 .. Len(t) : t[i].corr <= correlation,
             \A c \in Calls :
               /\ Warned(callerIn, fromModule, c) => Warned(s, t, c)
               /\ Honest(callerIn, fromModule, c) => Honest(s, t, c)
      PROVE  AnswerInv'
  <2>1. ASSUME NEW c \in Calls PROVE AnswerFits(c)'
    <3>1. /\ Warned(callerIn, fromModule, c)' <=> Warned(s, t, c)
          /\ Honest(callerIn, fromModule, c)' <=> Honest(s, t, c)
      BY <1>3, RingsNext
    <3>2. (Over(c)' <=> Over(c)) /\ (Failing(c)' <=> Failing(c)) /\ (Succeeding(c)' <=> Succeeding(c))
      BY <1>1 DEF Over, Failing, Succeeding, moduleState
    <3>3. (Failed(c) => Failed(c)') /\ (Truthful(c) => Truthful(c)')
      BY <1>1, <1>5, <3>1, <3>2 DEF Failed, Truthful, moduleState
    <3> QED BY <1>1, <3>2, <3>3, AnswerKept DEF moduleState, AnswerInv
  <2>2. reply' # None => reply'.corr <= correlation'
    BY <1>1 DEF AnswerInv, moduleState
  <2> QED BY <1>1, <1>3, <1>5, <2>1, <2>2 DEF AnswerInv
<1>6. CASE Delivers
  <2>1. fromModule # <<>> /\ t = Tail(fromModule) /\ s = Append(callerIn, Head(fromModule))
    BY <1>3, <1>6 DEF Delivers
  <2>2. \A c \in Calls : /\ Warned(callerIn, fromModule, c) => Warned(s, t, c)
                         /\ Honest(callerIn, fromModule, c) => Honest(s, t, c)
    BY <1>2, <2>1, HonestRings
  <2>3. /\ Head(fromModule) \in Event /\ Head(fromModule).corr <= correlation
        /\ \A i \in 1 .. Len(t) : t[i].corr <= correlation
    BY <1>2, <1>4, <2>1, EventsBound
  <2>4. \A i \in 1 .. Len(s) : s[i].corr <= correlation
    BY <1>2, <1>4, <2>1, <2>3, EventsBound
  <2> QED BY <1>5, <2>2, <2>3, <2>4
<1>7. CASE UNCHANGED <<callerIn, fromModule>>
  BY <1>3, <1>4, <1>5, <1>7
<1>8. ASSUME Forwards, Head(callerOut).type # "cancel",
             callerIn' = Append(callerIn, Caller!Noise("absent", Head(callerOut).corr))
      PROVE  AnswerInv'
  <2> DEFINE f == Head(callerOut)
             e == Caller!Noise("absent", f.corr)
  <2>1. callerOut \in Seq(Caller!Frame) /\ callerOut # <<>> /\ t = fromModule
    BY <1>3, <1>8 DEF Forwards, TypeInv
  <2>2. f \in Caller!Frame /\ Has(callerOut, f.corr, f.type)
    BY <2>1, HasTail
  <2>3. f.corr \in Calls /\ f.type \in {"more", "final"}
    BY <1>8, <2>2 DEF Caller!Frame, Caller!Corr, Calls
  <2>4. f.corr <= correlation
    <3>1. ~NothingSent(f.corr)
      BY <2>2, <2>3 DEF NothingSent, Sent
    <3>2. ~(f.corr > correlation)
      BY <2>3, <3>1 DEF RequestInv, RequestFits
    <3> QED BY <1>2, <2>3, <3>2
  <2>5. e \in Event /\ e.corr = f.corr /\ e.type = "absent"
    BY <2>3 DEF Caller!Noise, Event
  <2>6. s = Append(callerIn, e)
    BY <1>3, <1>8
  <2> HIDE DEF f, e
  <2>7. \A c \in Calls : ~Succeeds(e, c)
    BY <2>5 DEF Succeeds
  <2>8. \A c \in Calls : /\ Warned(callerIn, fromModule, c) => Warned(s, t, c)
                         /\ Honest(callerIn, fromModule, c) => Honest(s, t, c)
    BY <1>2, <2>1, <2>5, <2>6, <2>7, HonestRings
  <2>9. \A i \in 1 .. Len(s) : s[i].corr <= correlation
    BY <1>2, <1>4, <2>4, <2>5, <2>6, EventsBound
  <2> QED BY <1>4, <1>5, <2>1, <2>8, <2>9
<1> QED BY <1>6, <1>7, <1>8 DEF Forwards, Stutters, rings

(* A step of the module that adds no event: what of a call it may change.  *)
LEMMA AnswerModuleStill ==
  ASSUME TypeInv, ModuleOnly, fromModule' = fromModule
  PROVE  /\ correlation' = correlation /\ callerIn' = callerIn
         /\ \A c \in Calls :
              /\ Over(c)' <=> Over(c)
              /\ Warned(callerIn, fromModule, c)' <=> Warned(callerIn, fromModule, c)
              /\ Honest(callerIn, fromModule, c)' <=> Honest(callerIn, fromModule, c)
              /\ Failed(c)' <=> Over(c) \/ Warned(callerIn, fromModule, c) \/ Failing(c)'
              /\ Truthful(c)' <=> Over(c) \/ runs'[c] = 1 \/ Honest(callerIn, fromModule, c)
<1>1. correlation' = correlation /\ callerIn' = callerIn /\ callerPc' = callerPc
  BY DEF ModuleOnly, callState
<1>2. ASSUME NEW c \in Calls
      PROVE  /\ Over(c)' <=> Over(c)
             /\ Warned(callerIn, fromModule, c)' <=> Warned(callerIn, fromModule, c)
             /\ Honest(callerIn, fromModule, c)' <=> Honest(callerIn, fromModule, c)
  <2>1. Over(c)' <=> Over(c)
    BY <1>1 DEF Over
  <2>2. PICK s, t : s = callerIn /\ t = fromModule
    OBVIOUS
  <2>3. /\ Warned(callerIn, fromModule, c)' <=> Warned(s, t, c)
        /\ Honest(callerIn, fromModule, c)' <=> Honest(s, t, c)
    BY <1>1, <2>2, RingsNext
  <2> QED BY <2>1, <2>2, <2>3
<1> QED BY <1>1, <1>2 DEF Failed, Truthful

(* The module takes a fragment of call d: the answers to other calls. *)
LEMMA AnswerOthers ==
  ASSUME TypeInv, ModuleInv, AnswerInv, NEW d \in Calls, NEW kindOf \in {"more", "final"},
         TakesPart(d, kindOf),
         reply' = reply \/ (reply' # None /\ reply'.corr = d),
         NEW c \in Calls, c # d, assemblies'[c] = assemblies[c], jobs'[c] = jobs[c],
         runs'[c] = runs[c]
  PROVE  AnswerFits(c)'
<1>1. ModuleOnly /\ fromModule' = fromModule /\ reply = None
  BY DEF TakesPart, Takes, ModuleInv
<1>2. streams'[c] = streams[c]
  BY DEF TakesPart, TypeInv
<1>3. ~Succeeding(c)' /\ ~Failing(c) /\ ~Failing(c)'
  BY <1>1 DEF Succeeding, Failing
<1>4. (Failed(c) => Failed(c)') /\ (Truthful(c) => Truthful(c)')
  BY <1>1, <1>3, AnswerModuleStill DEF Failed, Truthful
<1> QED BY <1>2, <1>3, <1>4, AnswerKept DEF AnswerInv

(* The calls the module has seen have been made. *)
LEMMA SeenAsked ==
  ASSUME TypeInv, RequestInv, NEW c \in Calls,
         State(c) # "fresh" \/ Sent(c, "more") \/ Sent(c, "final")
  PROVE  c <= correlation
<1>1. ~(c > correlation)
  BY DEF RequestInv, RequestFits, NothingSent
<1>2. c \in Nat /\ correlation \in Nat
  BY DEF TypeInv, Calls
<1> QED BY <1>1, <1>2

LEMMA AnswerReceive ==
  ASSUME TypeInv, RequestInv, ModuleInv, AnswerInv, Receives
  PROVE  AnswerInv'
<1>1. /\ ModuleOnly /\ fromModule' = fromModule /\ reply = None
      /\ UNCHANGED <<assemblies, streams, runs>>
  BY DEF Receives, ModuleInv
<1>2. PICK d : d = Head(done)
  OBVIOUS
<1>3. d \in Calls /\ jobs[d] # None
  <2>1. Head(done) = done[1] /\ done[1] \in Calls /\ 1 \in 1 .. Len(done)
    BY DEF Receives, TypeInv
  <2> QED BY <1>2, <2>1 DEF ModuleInv
<1>4. d <= correlation
  <2>1. State(d) # "fresh"
    BY <1>3 DEF ModuleInv, TablesFit
  <2> QED BY <1>3, <2>1, SeenAsked
<1>5. reply' = None \/ reply'.corr = d
  BY <1>1, <1>2 DEF Receives, Module!replyModuleResult
<1>6. jobs' = [jobs EXCEPT ![d] = None]
  BY <1>2 DEF Receives
<1>7. ASSUME NEW c \in Calls PROVE AnswerFits(c)'
  <2>1. AnswerFits(c) /\ ~Failing(c)
    BY <1>1 DEF AnswerInv, Failing
  <2>2. (Failed(c) => Failed(c)') /\ (Truthful(c) => Truthful(c)')
    BY <1>1, <2>1, AnswerModuleStill DEF Failed, Truthful
  <2>3. jobs'[c] # None => jobs[c] # None
    BY <1>6 DEF TypeInv
  <2>4. Succeeding(c)' => jobs[c] # None
    BY <1>3, <1>5 DEF Succeeding
  <2> QED BY <1>1, <2>1, <2>2, <2>3, <2>4 DEF AnswerFits, State, Module!Held
<1>8. reply' # None => reply'.corr <= correlation'
  BY <1>1, <1>4, <1>5, AnswerModuleStill
<1> QED BY <1>1, <1>7, <1>8, AnswerModuleStill DEF AnswerInv

(* The module refuses the request of call d: the call fails. *)
LEMMA AnswerRefuse ==
  ASSUME TypeInv, RequestInv, ModuleInv, AnswerInv,
         NEW d \in Calls, NEW kindOf \in {"more", "final"}, Refuses(d, kindOf)
  PROVE  AnswerInv'
<1>1. /\ TakesPart(d, kindOf) /\ ModuleOnly /\ fromModule' = fromModule /\ reply = None
      /\ UNCHANGED <<jobs, runs>>
  BY DEF Refuses, TakesPart, Takes, ModuleInv
<1>2. reply'.corr = d /\ reply'.status # "OK" /\ reply' # None
  <2>1. PICK status \in Module!ModuleStatus \ {"OK"} :
          reply' = [corr |-> d, stage |-> 7, status |-> status, len |-> 0, offset |-> 0, emitted |-> 0]
    BY DEF Refuses
  <2>2. reply' \in Module!Reply
    BY <2>1, StageOfKind DEF Module!Reply
  <2> QED BY <2>1, <2>2, NoneAssumption
<1>3. \A c \in Calls : c # d => assemblies'[c] = assemblies[c]
  BY DEF Refuses, TypeInv
<1>4. d <= correlation
  <2>1. Has(toModule, d, kindOf)
    <3>1. Has(toModule, d, kindOf) <=> Has(toModule, d, kindOf)' \/ (d = d /\ kindOf = kindOf)
      BY <1>1, Taken DEF TakesPart
    <3> QED BY <3>1
  <2> QED BY <2>1, SeenAsked DEF Sent
<1>5. AnswerFits(d)'
  <2>1. Failed(d)'
    BY <1>2 DEF Failed, Failing
  <2>2. Truthful(d)'
    BY <1>1, AnswerModuleStill DEF Truthful, AnswerInv, AnswerFits
  <2> QED BY <2>1, <2>2 DEF AnswerFits
<1>6. \A c \in Calls : c # d => AnswerFits(c)'
  BY <1>1, <1>2, <1>3, AnswerOthers
<1>7. reply'.corr <= correlation'
  BY <1>1, <1>2, <1>4, AnswerModuleStill
<1> QED BY <1>1, <1>5, <1>6, <1>7, AnswerModuleStill DEF AnswerInv

(* The module keeps a fragment of the request of call d. *)
LEMMA AnswerExtend ==
  ASSUME TypeInv, ModuleInv, AnswerInv, NEW d \in Calls, Extends(d)
  PROVE  AnswerInv'
<1>1. /\ TakesPart(d, "more") /\ ModuleOnly /\ fromModule' = fromModule /\ reply = None
      /\ UNCHANGED <<jobs, runs, reply>> /\ jobs[d] = None
  BY DEF Extends, TakesPart, Takes, ModuleInv, TablesFit
<1>2. streams'[d].sent = Module!SentSoFar(d) + 1 /\ streams'[d].state = "open"
  BY <1>1 DEF TakesPart, TypeInv
<1>3. /\ Module!Held(d)' = Module!Held(d) + 1
      /\ \A c \in Calls : c # d => assemblies'[c] = assemblies[c]
  <2> DEFINE a == [kind |-> kind, deadline |-> request[d].deadline, trace |-> 1,
                   len |-> Module!Held(d) + 1]
  <2>1. a \in Module!Assembly /\ a.len = Module!Held(d) + 1
    <3>1. request[d].deadline \in {0, Expiry}
      BY DEF TypeInv, Request
    <3>2. request[d].deadline \in Module!Deadline /\ 1 \in Module!Trace
      BY <3>1, InvokeDecodes DEF Module!Deadline, Module!Trace
    <3> QED BY <3>2, SentType DEF Module!Assembly, Module!Kind
  <2>2. assemblies' = [assemblies EXCEPT ![d] = a]
    BY DEF Extends
  <2> HIDE DEF a
  <2>3. assemblies'[d] # None
    BY <2>1, <2>2, NoneAssumption DEF TypeInv
  <2> QED BY <2>1, <2>2, <2>3 DEF TypeInv, Module!Held
<1>4. Module!Held(d) = Module!SentSoFar(d) \/ Failed(d)
  <2>1. CASE State(d) = "open"
    BY <2>1 DEF AnswerInv, AnswerFits, Module!SentSoFar, State
  <2>2. CASE State(d) # "open"
    BY <2>2 DEF ModuleInv, TablesFit, Module!SentSoFar, Module!Held, State
  <2> QED BY <2>1, <2>2
<1>5. AnswerFits(d)'
  <2>1. ~Failing(d) /\ ~Succeeding(d)'
    BY <1>1 DEF Failing, Succeeding
  <2>2. (Failed(d) => Failed(d)') /\ (Truthful(d) => Truthful(d)')
    BY <1>1, <2>1, AnswerModuleStill DEF Failed, Truthful
  <2>3. Module!Held(d)' = streams'[d].sent \/ Failed(d)'
    BY <1>2, <1>3, <1>4, <2>2
  <2>4. Truthful(d)'
    BY <2>2 DEF AnswerInv, AnswerFits
  <2> QED BY <1>1, <2>1, <2>3, <2>4 DEF AnswerFits
<1>6. \A c \in Calls : c # d => AnswerFits(c)'
  BY <1>1, <1>3, AnswerOthers
<1> QED BY <1>1, <1>5, <1>6, AnswerModuleStill DEF AnswerInv

(* The last fragment of the request of call d starts its job: on all of    *)
(* the request, or the call fails.                                         *)
LEMMA AnswerStart ==
  ASSUME TypeInv, RequestInv, CountInv, ModuleInv, AnswerInv, NEW d \in Calls, Starts(d)
  PROVE  AnswerInv'
<1>1. /\ TakesPart(d, "final") /\ Takes(d, "final") /\ ModuleOnly /\ fromModule' = fromModule
      /\ reply = None /\ reply' = reply /\ exit = "none"
  BY DEF Starts, TakesPart, Takes, ModuleInv
<1>2. /\ streams'[d].state = "final"
      /\ \A c \in Calls : c # d =>
           assemblies'[c] = assemblies[c] /\ jobs'[c] = jobs[c] /\ runs'[c] = runs[c]
  BY <1>1 DEF Starts, TakesPart, TypeInv, Module!Closed
<1>3. runs[d] = 0
  BY <1>1 DEF TakesPart, ModuleInv, TablesFit, TypeInv
<1>4. Module!SentSoFar(d) + 1 = request[d].len
  <2>1. Sent(d, "final") /\ Coming(d) = Coming(d)' + 1 /\ Coming(d)' \in Nat
    BY <1>1, Taken
  <2>2. ~Sent(d, "more")' /\ ~Sent(d, "final")'
    BY <1>1, TakenFirst
  <2>3. Coming(d)' = 0
    <3>1. PICK s, t : s = toModule' /\ t = callerOut'
      OBVIOUS
    <3>2. s \in Seq(Caller!Frame) /\ t \in Seq(Caller!Frame)
      BY <1>1, <3>1, RingTypes DEF Takes, ModuleOnly, TypeInv
    <3>3. ~Has(s, d, "more") /\ ~Has(s, d, "final") /\ ~Has(t, d, "more") /\ ~Has(t, d, "final")
      BY <2>2, <3>1 DEF Sent, Has
    <3>4. Parts(s, d) = 0 /\ Parts(t, d) = 0
      BY <3>2, <3>3, PartsNone
    <3> QED BY <3>1, <3>4 DEF Coming, Parts
  <2>4. Module!SentSoFar(d) + Coming(d) = request[d].len
    BY <1>1, <2>1 DEF CountInv
  <2> QED BY <2>1, <2>3, <2>4
<1>5. Module!Held(d) = Module!SentSoFar(d) \/ Failed(d)
  <2>1. CASE State(d) = "open"
    BY <2>1 DEF AnswerInv, AnswerFits, Module!SentSoFar, State
  <2>2. CASE State(d) # "open"
    BY <2>2 DEF ModuleInv, TablesFit, Module!SentSoFar, Module!Held, State
  <2> QED BY <2>1, <2>2
<1>6. AnswerFits(d)'
  <2>1. ~Failing(d) /\ ~Succeeding(d)'
    BY <1>1 DEF Failing, Succeeding
  <2>2. Failed(d) => Failed(d)'
    BY <1>1, <2>1, AnswerModuleStill DEF Failed
  <2>3. runs'[d] = 1 \/ Failed(d)'
    <3>1. CASE Module!Held(d) = Module!SentSoFar(d)
      <4>1. runs' = [runs EXCEPT ![d] = @ + 1]
        BY <1>4, <3>1 DEF Starts
      <4> QED BY <1>3, <4>1 DEF TypeInv
    <3> QED BY <1>5, <2>2, <3>1
  <2>4. runs'[d] = 1 \/ runs'[d] = runs[d]
    BY <1>3 DEF Starts, TypeInv
  <2>5. Truthful(d)'
    BY <1>1, <2>4, AnswerModuleStill DEF Truthful, AnswerInv, AnswerFits
  <2>6. State(d)' # "open"
    BY <1>2 DEF State
  <2> QED BY <2>1, <2>3, <2>5, <2>6 DEF AnswerFits
<1>7. \A c \in Calls : c # d => AnswerFits(c)'
  BY <1>1, <1>2, AnswerOthers
<1> QED BY <1>1, <1>6, <1>7, AnswerModuleStill DEF AnswerInv

(* A fragment of an answer: a success only if that is the outcome.         *)
LEMMA AnswerReply ==
  ASSUME TypeInv, ModuleInv, AnswerInv, Replies
  PROVE  AnswerInv'
<1>1. /\ ModuleOnly /\ UNCHANGED <<assemblies, jobs, streams, runs>> /\ reply # None
      /\ reply' = None \/ (reply'.corr = reply.corr /\ reply.status = "OK" /\ reply'.status = "OK")
  BY DEF Replies
<1>2. PICK e \in Event : /\ fromModule' = Append(fromModule, e)
                         /\ e.type = "result" /\ e.corr = reply.corr
                         /\ e.status = "OK" <=> reply.status = "OK"
  BY DEF Replies
<1>3. /\ callerIn \in Seq(Event) /\ fromModule \in Seq(Event)
      /\ correlation \in Nat /\ reply.corr <= correlation
  BY <1>1 DEF TypeInv, AnswerInv
<1>4. UNCHANGED <<callerIn, callerPc, correlation>>
  BY <1>1 DEF ModuleOnly, callState
<1>5. PICK s, t : s = callerIn /\ t = Append(fromModule, e)
  OBVIOUS
<1>6. ASSUME NEW c \in Calls PROVE AnswerFits(c)'
  <2>1. /\ Warned(callerIn, fromModule, c)' <=> Warned(s, t, c)
        /\ Honest(callerIn, fromModule, c)' <=> Honest(s, t, c)
    BY <1>2, <1>4, <1>5, RingsNext
  <2>2. (Succeeds(e, c) => Warned(callerIn, fromModule, c)) =>
          /\ Warned(callerIn, fromModule, c) => Warned(s, t, c)
          /\ Honest(callerIn, fromModule, c) => Honest(s, t, c)
    BY <1>3, <1>5, HonestRings
  <2>3. Over(c)' <=> Over(c)
    BY <1>4 DEF Over
  <2>4. Failing(c) => Warned(s, t, c)
    <3>1. Failing(c) => Fails(e, c)
      BY <1>2 DEF Failing, Fails
    <3> QED BY <1>3, <1>5, <3>1, FailAppend DEF Warned
  <2>5. Failed(c) => Failed(c)'
    BY <2>1, <2>2, <2>3, <2>4 DEF Failed
  <2>6. Succeeds(e, c) => Over(c) \/ runs[c] = 1 \/ Warned(callerIn, fromModule, c)
    <3>1. Succeeds(e, c) => Succeeding(c) /\ ~Failing(c)
      BY <1>1, <1>2 DEF Succeeds, Succeeding, Failing
    <3> QED BY <3>1 DEF AnswerInv, AnswerFits, Failed
  <2>7. Truthful(c)'
    BY <1>1, <2>1, <2>2, <2>3, <2>6 DEF AnswerInv, AnswerFits, Truthful
  <2>8. Succeeding(c)' => Succeeding(c)
    BY <1>1 DEF Succeeding
  <2> QED BY <1>1, <2>5, <2>7, <2>8, AnswerKept DEF AnswerInv
<1>7. \A i \in 1 .. Len(fromModule') : fromModule'[i].corr <= correlation
  BY <1>2, <1>3, EventsBound DEF AnswerInv
<1> QED BY <1>1, <1>3, <1>4, <1>6, <1>7 DEF AnswerInv

(* The module forgets call d, or only the state of its work changes. *)
LEMMA AnswerIdle ==
  ASSUME TypeInv, ModuleInv, AnswerInv, Rests \/ Exits \/ Marks \/ \E d \in Calls : TakesCancel(d)
  PROVE  AnswerInv'
<1>1. /\ ModuleOnly /\ fromModule' = fromModule /\ UNCHANGED <<reply, runs>>
      /\ \A c \in Calls : jobs'[c] # None => jobs[c] # None
  BY DEF Rests, Exits, Marks, TakesCancel, Takes, JobKept
<1>2. \A c \in Calls : \/ State(c)' = "cancelled"
                       \/ streams'[c] = streams[c] /\ assemblies'[c] = assemblies[c]
  <2>1. CASE Rests \/ Exits \/ Marks
    BY <2>1 DEF Rests, Exits, Marks
  <2>2. ASSUME NEW d \in Calls, TakesCancel(d)
        PROVE  \A c \in Calls : \/ State(c)' = "cancelled"
                                \/ streams'[c] = streams[c] /\ assemblies'[c] = assemblies[c]
    BY <2>2 DEF TakesCancel, TypeInv, State, Module!Closed
  <2> QED BY <2>1, <2>2
<1>3. ASSUME NEW c \in Calls PROVE AnswerFits(c)'
  <2>1. (Succeeding(c)' <=> Succeeding(c)) /\ (Failing(c)' <=> Failing(c))
    BY <1>1 DEF Succeeding, Failing
  <2>2. (Failed(c)' <=> Failed(c)) /\ (Truthful(c)' <=> Truthful(c))
    BY <1>1, <2>1, AnswerModuleStill DEF Failed, Truthful
  <2> QED BY <1>1, <1>2, <2>1, <2>2 DEF AnswerInv, AnswerFits, State, Module!Held
<1> QED BY <1>1, <1>3, AnswerModuleStill DEF AnswerInv

LEMMA AnswerStep ==
  ASSUME TypeInv, CallInv, RequestInv, CountInv, ModuleInv, AnswerInv, Move
  PROVE  AnswerInv'
<1>1. CASE CallerMove
  BY <1>1, AnswerCaller
<1>2. CASE Forwards \/ Delivers \/ Stutters
  BY <1>2, AnswerHost
<1>3. CASE Rests \/ Exits \/ Marks \/ \E d \in Calls : TakesCancel(d)
  BY <1>3, AnswerIdle
<1>4. CASE Receives
  BY <1>4, AnswerReceive
<1>5. CASE Replies
  BY <1>5, AnswerReply
<1>6. ASSUME NEW d \in Calls, (\E kindOf \in {"more", "final"} : Refuses(d, kindOf))
             \/ Extends(d) \/ Starts(d)
      PROVE  AnswerInv'
  BY <1>6, AnswerRefuse, AnswerExtend, AnswerStart
<1> QED BY <1>1, <1>2, <1>3, <1>4, <1>5, <1>6 DEF Move, ModuleMove, Polls
-------------------------------------------------------------------------------
LEMMA InitInv ==
  ASSUME Init
  PROVE  IInv
<1>1. correlation = 0 /\ callerPc = "idle" /\ \A c \in Calls : c \in Nat /\ c > 0
  BY DEF Init, Calls
<1>2. /\ toModule = <<>> /\ callerOut = <<>> /\ fromModule = <<>> /\ callerIn = <<>>
      /\ Len(toModule) = 0 /\ Len(callerOut) = 0 /\ Len(fromModule) = 0 /\ Len(callerIn) = 0
  BY DEF Init
<1>3. /\ \A c, type : ~Has(toModule, c, type) /\ ~Has(callerOut, c, type)
      /\ \A c, type : ~Sent(c, type)
      /\ Sorted(toModule, callerOut)
  BY <1>2 DEF Has, Sent, Sorted
<1>4. \A c \in Calls : State(c) = "fresh" /\ results[c] = "none"
  BY DEF Init, State, Module!Closed
<1>5. TypeInv
  <2>1. CallerType
    <3>1. request \in [Calls -> Request] /\ results \in [Calls -> Caller!Result]
      BY DEF Init, Request, Caller!Result
    <3>2. callerOut \in Seq(Caller!Frame) /\ correlation \in 0 .. MaxCalls
      BY <1>1, <1>2, SystemAssumption
    <3> QED BY <3>1, <3>2, NewCallType DEF Init, CallerType
  <2>2. ModuleType
    <3>1. streams \in [Calls -> Module!Stream]
      BY DEF Init, Module!Closed, Module!Stream
    <3>2. answers \in [Calls -> Seq([status : Module!ModuleStatus, whole : BOOLEAN])]
      BY DEF Init
    <3> QED BY <3>1, <3>2 DEF Init, ModuleType
  <2>3. RingType
    BY <1>2 DEF RingType
  <2> QED BY <2>1, <2>2, <2>3 DEF TypeInv, CallerType, ModuleType, RingType
<1>6. CallInv
  BY <1>1, <1>4 DEF CallInv
<1>7. RequestInv
  <2>1. ASSUME NEW c \in Calls PROVE StreamFits(c) /\ RequestFits(c) /\ CancelFits(c)
    <3>1. ~Asked(c) /\ results[c] \notin AwaitErrors
      BY <1>1, <1>4 DEF Asked, AwaitErrors, Caller!AwaitErrors
    <3> QED BY <1>1, <1>3, <1>4, <3>1 DEF StreamFits, RequestFits, CancelFits, NothingSent
  <2> QED BY <1>3, <2>1 DEF RequestInv
<1>8. CountInv
  BY <1>1, <1>3 DEF CountInv
<1>9. ModuleInv
  BY <1>4 DEF Init, ModuleInv, TablesFit
<1>10. AnswerInv
  <2>1. ASSUME NEW c \in Calls PROVE AnswerFits(c)
    <3>1. Honest(callerIn, fromModule, c)
      BY <1>2 DEF Honest, Guarded
    <3> QED BY <1>4, <3>1 DEF Init, AnswerFits, Succeeding, Truthful
  <2> QED BY <1>2, <2>1 DEF Init, AnswerInv
<1> QED BY <1>5, <1>6, <1>7, <1>8, <1>9, <1>10 DEF IInv

LEMMA IInvStep ==
  ASSUME IInv, [Next]_vars
  PROVE  IInv'
<1>1. TypeInv /\ CallInv /\ RequestInv /\ CountInv /\ ModuleInv /\ AnswerInv
  BY DEF IInv
<1>2. Move
  BY <1>1, Moves
<1> QED BY <1>1, <1>2, TypeStep, RequestStep, ModuleStep, AnswerStep DEF IInv

(* At any time the frames on their way, what the module has seen of each   *)
(* request, its tables and the answers on their way fit what the caller    *)
(* has done, for any number of calls, any sizes of the rings and tables    *)
(* and any interleaving (module_caller.go 76-239, module_runtime.go        *)
(* 293-429).                                                               *)
THEOREM CallSystemInvariant == Spec => []IInv
<1>1. Init => IInv
  BY InitInv
<1>2. IInv /\ [Next]_vars => IInv'
  BY IInvStep
<1> QED BY <1>1, <1>2, PTL DEF Spec

(* The caller never breaks the protocol the module relies on: fragments    *)
(* repeat the header of the first and nothing but a cancel follows the     *)
(* last (module_caller.go 105-106, 141-163).                               *)
THEOREM ProtocolAlwaysKept == Spec => []CallerKeepsProtocol
<1>1. IInv => CallerKeepsProtocol
  <2> SUFFICES ASSUME IInv, toModule # <<>>
               PROVE  CallerKeepsProtocol
    BY DEF CallerKeepsProtocol
  <2>1. PICK f : f = Head(toModule)
    OBVIOUS
  <2>2. PICK c : c = f.corr
    OBVIOUS
  <2>3. toModule \in Seq(Caller!Frame) /\ callerOut \in Seq(Caller!Frame)
    BY DEF IInv, TypeInv
  <2>4. /\ f \in Caller!Frame
        /\ \A type : Has(toModule, c, type) <=> Has(Tail(toModule), c, type) \/ f.type = type
    BY <2>1, <2>2, <2>3, HasTail
  <2>5. c \in Calls /\ f.type \in {"more", "final", "cancel"}
    BY <2>2, <2>4 DEF Caller!Frame, Caller!Corr, Calls
  <2>6. StreamFits(c)
    BY <2>5 DEF IInv, RequestInv
  <2>7. CASE f.type = "cancel"
    <3>1. ~Has(Tail(toModule), c, "final")
      <4>1. Has(Tail(toModule), Head(toModule).corr, "final") =>
              Head(toModule).type = "more" \/ (Head(toModule).type = "final" /\ "final" = "cancel")
        BY <2>3, SortedHead DEF IInv, RequestInv
      <4> QED BY <2>1, <2>2, <2>7, <4>1
    <3>2. State(c) = "final"
      BY <2>4, <2>6, <2>7, <3>1 DEF StreamFits
    <3> QED BY <2>1, <2>2, <2>7, <3>2 DEF CallerKeepsProtocol, State
  <2>8. CASE f.type # "cancel"
    <3>1. Sent(c, f.type) /\ f.type \in {"more", "final"}
      BY <2>4, <2>5, <2>8 DEF Sent
    <3>2. State(c) \notin {"final", "cancelled"}
      BY <2>6, <3>1 DEF StreamFits, NothingSent
    <3>3. State(c) \in {"fresh", "open"}
      BY <2>5, <3>2 DEF IInv, TypeInv, Module!Stream, State
    <3>4. Module!DecodeModuleMessage(Invoke(request[c].deadline)) /\ Invoke(request[c].deadline).op = "Invoke"
      BY InvokeDecodes
    <3>5. Module!KeepsProtocol(c, kind, Invoke(request[c].deadline))
      BY <2>6, <3>3, <3>4 DEF Module!KeepsProtocol, Module!SameHeader, StreamFits, State
    <3> QED BY <2>1, <2>2, <2>8, <3>5 DEF CallerKeepsProtocol
  <2> QED BY <2>7, <2>8
<1> QED BY <1>1, CallSystemInvariant, PTL

LEMMA OnTheWay ==
  ASSUME NEW c, NEW type
  PROVE  InTransit(c, type) <=> Sent(c, type)
BY DEF InTransit, Sent, Has

(* The job of a call that was given up has been told to stop, or the       *)
(* cancel is on its way, unless there was no room for it or the module is  *)
(* gone (module_caller.go 91-95 and 123-128, module_runtime.go 345-352).   *)
THEOREM GivenUpWorkIsStopped == Spec => []GivenUpWorkStops
<1>1. IInv => GivenUpWorkStops
  <2> SUFFICES ASSUME IInv, NEW c \in Calls, results[c] \in AwaitErrors, jobs[c] # None
               PROVE  jobs[c].cancelled \/ InTransit(c, "cancel") \/ c \in lost \/ exit # "none"
    BY DEF GivenUpWorkStops, AwaitErrors
  <2>1. c \in lost \/ exit # "none" \/ Sent(c, "cancel") \/ State(c) = "cancelled"
    BY DEF IInv, RequestInv, CancelFits
  <2>2. State(c) = "cancelled" => jobs[c].cancelled
    BY DEF IInv, ModuleInv, TablesFit
  <2> QED BY <2>1, <2>2, OnTheWay
<1> QED BY <1>1, CallSystemInvariant, PTL

(* An assembly is forgotten only when the rest of its request was never    *)
(* sent (module_caller.go 157-159, module_runtime.go 345-352 and 399).     *)
THEOREM AssembliesAreFinished == Spec => []NoForgottenAssembly
<1>1. IInv => NoForgottenAssembly
  <2> SUFFICES ASSUME IInv, NEW c \in Calls, assemblies[c] # None, exit = "none"
               PROVE  results[c] \in {"none", "PartlySent", "SendEpoch"} \/ InTransit(c, "final")
    BY DEF NoForgottenAssembly
  <2>1. State(c) = "open"
    BY DEF IInv, ModuleInv, TablesFit
  <2>2. RequestFits(c)
    BY DEF IInv, RequestInv
  <2>3. CASE Asked(c)
    BY <2>1, <2>2, <2>3, OnTheWay DEF RequestFits
  <2>4. CASE ~Asked(c)
    <3>1. results[c] \in SendErrors \cup {"none"}
      BY <2>4 DEF IInv, CallInv, Asked
    <3> QED BY <2>1, <2>2, <3>1 DEF RequestFits, SendErrors
  <2> QED BY <2>3, <2>4
<1> QED BY <1>1, CallSystemInvariant, PTL
-------------------------------------------------------------------------------
(* The phase of call c whose result is r, when k calls were made. *)
PhaseOf(r, k, c) ==
  IF r = "OK" THEN "ok" ELSE IF r # "none" THEN "failed" ELSE IF c <= k THEN "open" ELSE "none"

LEMMA PhaseIs ==
  /\ phase = [c \in Calls |-> PhaseOf(results[c], correlation, c)]
  /\ phase' = [c \in Calls |-> PhaseOf(results'[c], correlation', c)]
<1>1. \A c \in Calls : phase[c] = PhaseOf(results[c], correlation, c)
  BY DEF phase, PhaseOf
<1>2. \A c \in Calls : phase'[c] = PhaseOf(results'[c], correlation', c)
  BY DEF phase, PhaseOf
<1>3. phase = [c \in Calls |-> phase[c]] /\ phase' = [c \in Calls |-> phase'[c]]
  BY DEF phase
<1> QED BY <1>1, <1>2, <1>3

(* The module changes nothing the caller is promised, but for the run.     *)
LEMMA RunsKept ==
  ASSUME Move, ~CallerMove, \A d \in Calls : ~Starts(d)
  PROVE  UNCHANGED <<results, correlation, runs>>
BY DEF Move, ModuleMove, Polls, Rests, Exits, Receives, Marks, TakesCancel, Refuses, TakesPart,
  Takes, Extends, Replies, Forwards, Delivers, Stutters, ModuleOnly, callState, moduleState

LEMMA CallerPromise ==
  ASSUME IInv, CallerMove
  PROVE  [Abstract!Next]_(Abstract!vars)
<1>1. /\ TypeInv /\ CallInv /\ \A c \in Calls : c \in Nat /\ Truthful(c)
      /\ correlation \in Nat
      /\ callerPc # "idle" => correlation \in Calls /\ results[correlation] = "none"
  BY Current DEF IInv, AnswerInv, AnswerFits, Calls
<1>2. UNCHANGED runs
  BY DEF CallerMove, Asks, Flags, SendEnds, Sends, Waits, GivesUp, Answered, Cancels, CallerOnly, moduleState
<1>3. ASSUME NEW len \in RequestLen, NEW deadline \in BOOLEAN, Asks(len, deadline)
      PROVE  Abstract!Next
  <2>1. /\ correlation + 1 \in Calls /\ correlation' = correlation + 1 /\ results' = results
        /\ callerPc = "idle"
    BY <1>1, <1>3, Current DEF Asks, Calls
  <2>2. \A c \in Calls : c > correlation => results[c] = "none"
    BY <1>1 DEF CallInv
  <2>3. \A c \in Calls : c <= correlation => results[c] # "none"
    BY <1>1, <2>1 DEF CallInv
  <2>4. phase[correlation + 1] = "none"
    BY <1>1, <2>1, <2>2, PhaseIs DEF PhaseOf
  <2>5. \A c \in Calls : phase[c] # "open"
    BY <2>3, PhaseIs DEF PhaseOf
  <2>6. phase' = [phase EXCEPT ![correlation + 1] = "open"]
    <3>1. \A c \in Calls : c <= correlation + 1 <=> (c <= correlation \/ c = correlation + 1)
      BY <1>1
    <3> QED BY <1>1, <2>1, <2>2, <3>1, PhaseIs DEF PhaseOf
  <2> QED BY <1>2, <2>1, <2>4, <2>5, <2>6 DEF Abstract!Next, Abstract!Invoke
<1>4. ASSUME NEW r \in SendErrors \cup AwaitErrors, callerPc # "idle", correlation' = correlation,
             results' = [results EXCEPT ![correlation] = r]
      PROVE  Abstract!Next
  <2>1. r \notin {"OK", "none"}
    BY DEF SendErrors, AwaitErrors, Caller!AwaitErrors
  <2>2. phase[correlation] = "open"
    BY <1>1, <1>4, PhaseIs DEF PhaseOf
  <2>3. phase' = [phase EXCEPT ![correlation] = "failed"]
    BY <1>1, <1>4, <2>1, PhaseIs DEF PhaseOf, TypeInv
  <2> QED BY <1>1, <1>2, <1>4, <2>2, <2>3 DEF Abstract!Next, Abstract!Fail
<1>5. CASE Answered
  <2>1. /\ callerPc = "await" /\ callerIn # <<>> /\ Succeeds(Head(callerIn), correlation)
        /\ correlation' = correlation /\ results' = [results EXCEPT ![correlation] = "OK"]
        /\ correlation \in Calls
    BY <1>1, <1>5 DEF Answered
  <2>2. ~Guarded(callerIn, correlation)
    BY <2>1, FailTail DEF IInv, TypeInv
  <2>3. runs[correlation] = 1
    BY <1>1, <2>1, <2>2 DEF Truthful, Over, Honest
  <2>4. phase[correlation] = "open"
    BY <1>1, <2>1, PhaseIs DEF PhaseOf
  <2>5. phase' = [phase EXCEPT ![correlation] = "ok"]
    BY <1>1, <2>1, PhaseIs DEF PhaseOf, TypeInv
  <2> QED BY <1>2, <2>1, <2>3, <2>4, <2>5 DEF Abstract!Next, Abstract!Succeed
<1>6. CASE \E r \in SendErrors : SendEnds(r)
  BY <1>4, <1>6 DEF SendEnds
<1>7. CASE Cancels
  BY <1>1, <1>4, <1>7 DEF Cancels, CallInv
<1>8. CASE Flags \/ Sends \/ Waits \/ GivesUp
  <2>1. UNCHANGED <<results, correlation>>
    BY <1>8 DEF Flags, Sends, Waits, GivesUp
  <2>2. phase' = phase
    BY <2>1, PhaseIs
  <2> QED BY <1>2, <2>2 DEF Abstract!vars
<1> QED BY <1>3, <1>5, <1>6, <1>7, <1>8 DEF CallerMove

(* Seen from its caller the stage is a remote call: run at most once, on   *)
(* the whole request, and successful only with the outcome of that run     *)
(* (module_caller.go 96-130, module_runtime.go 293-429).                   *)
THEOREM CallSystemRefinesRemoteCall == Spec => RefinesRemoteCall
<1>1. Init => Abstract!Init
  <2> SUFFICES ASSUME Init
               PROVE  Abstract!Init
    OBVIOUS
  <2>1. \A c \in Calls : results[c] = "none" /\ ~(c <= correlation)
    BY DEF Init, Calls
  <2>2. phase = [c \in Calls |-> "none"]
    BY <2>1, PhaseIs DEF PhaseOf
  <2> QED BY <2>2 DEF Init, Abstract!Init
<1>2. IInv /\ [Next]_vars => [Abstract!Next]_(Abstract!vars)
  <2> SUFFICES ASSUME IInv, [Next]_vars
               PROVE  [Abstract!Next]_(Abstract!vars)
    OBVIOUS
  <2>1. TypeInv /\ CallInv /\ RequestInv /\ ModuleInv /\ Move
    BY Moves DEF IInv
  <2>2. CASE CallerMove
    BY <2>2, CallerPromise
  <2>3. CASE ~CallerMove /\ \A d \in Calls : ~Starts(d)
    <3>1. UNCHANGED <<results, correlation, runs>>
      BY <2>1, <2>3, RunsKept
    <3>2. phase' = phase
      BY <3>1, PhaseIs
    <3> QED BY <3>1, <3>2 DEF Abstract!vars
  <2>4. ASSUME NEW d \in Calls, Starts(d) PROVE [Abstract!Next]_(Abstract!vars)
    <3>1. TakesPart(d, "final") /\ Takes(d, "final") /\ UNCHANGED <<results, correlation>>
      BY <2>4 DEF Starts, TakesPart, Takes, ModuleOnly, callState
    <3>2. phase' = phase
      BY <3>1, PhaseIs
    <3>3. CASE runs' = runs
      BY <3>2, <3>3 DEF Abstract!vars
    <3>4. CASE runs' = [runs EXCEPT ![d] = @ + 1]
      <4>1. runs[d] = 0
        BY <2>1, <3>1 DEF TakesPart, ModuleInv, TablesFit, TypeInv
      <4>2. d <= correlation
        <5>1. Sent(d, "final")
          BY <2>1, <3>1, Taken
        <5> QED BY <2>1, <5>1, SeenAsked
      <4>3. phase[d] # "none"
        BY <4>2, PhaseIs DEF PhaseOf
      <4>4. runs' = [runs EXCEPT ![d] = 1]
        BY <3>4, <4>1
      <4> QED BY <3>2, <4>1, <4>3, <4>4 DEF Abstract!Next, Abstract!Run
    <3> QED BY <2>4, <3>3, <3>4 DEF Starts
  <2> QED BY <2>2, <2>3, <2>4
<1> QED BY <1>1, <1>2, CallSystemInvariant, PTL DEF Spec, RefinesRemoteCall, Abstract!Spec
===============================================================================
