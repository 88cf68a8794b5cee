------------------------------ MODULE CallerProofs ------------------------------
(***************************************************************************)
(* Proofs about ModuleCaller, for any number of calls, sizes of the rings, *)
(* lengths of requests and answers, and whatever the host and the module   *)
(* do.                                                                     *)
(*                                                                         *)
(* That a reply is whole and in order is a fact about what the caller has  *)
(* read, what is still in the inbound ring and what the module is about to *)
(* send, taken together: StreamInv follows the fragments of the current    *)
(* call across the three.                                                  *)
(***************************************************************************)
EXTENDS ModuleCaller, TLAPS

Waiting == {"send", "await", "empty"}

(* The call in progress, and what has never been used. *)
CallInv ==
  /\ pc # "idle" => correlation \in Corr /\ results[correlation] = "none" /\ correlation \notin lost
  /\ pc = "cancel" => why \in AwaitErrors /\ body = <<>>
  /\ pc = "send" => call.offset <= call.len /\ body = <<>>
  /\ \A c \in Corr : c > correlation =>
       /\ results[c] = "none" /\ c \notin lost
       /\ peer[c].request = "none" /\ peer[c].current = NoAnswer /\ peer[c].finished = 0
  /\ \A k \in 1 .. Len(outbound) : outbound[k].corr <= correlation
  /\ \A k \in 1 .. Len(inbound) : inbound[k].corr <= correlation

PeerInv ==
  \A c \in Corr : peer[c].current # NoAnswer =>
    peer[c].finished < MaxAnswers /\ peer[c].sent < peer[c].current.n

(* A cancel is the last frame of its correlation. *)
CancelInv ==
  /\ \A k, l \in 1 .. Len(outbound) :
       k < l /\ outbound[k].type = "cancel" => outbound[l].corr # outbound[k].corr
  /\ \A k \in 1 .. Len(outbound) : peer[outbound[k].corr].request # "cancelled"

(* Inbound event k is a fragment for the current call. *)
Mine(k) == inbound[k].type = "result" /\ inbound[k].corr = correlation

(* The first fragment of the call in the ring follows on what was read,    *)
(* each next one on the one before, and what the module sends next on the  *)
(* last; up to the end of an answer, which ends the call.                  *)
StreamInv ==
  pc \in Waiting =>
    /\ \A k \in 1 .. Len(inbound) : Mine(k) => inbound[k].i <= inbound[k].n
    /\ \A k \in 1 .. Len(inbound) : Mine(k) /\ (\A j \in 1 .. k - 1 : ~Mine(j)) =>
         /\ inbound[k].i = Len(body) + 1 /\ inbound[k].ans = 0
         /\ body # <<>> => inbound[k].n = body[1].n
    /\ \A k, l \in 1 .. Len(inbound) :
         /\ k < l /\ Mine(k) /\ Mine(l) /\ inbound[k].i < inbound[k].n
         /\ \A j \in k + 1 .. l - 1 : ~Mine(j)
         => /\ inbound[l].i = inbound[k].i + 1 /\ inbound[l].ans = inbound[k].ans
            /\ inbound[l].n = inbound[k].n
    /\ \A k \in 1 .. Len(inbound) :
         /\ Mine(k) /\ inbound[k].i < inbound[k].n
         /\ \A j \in k + 1 .. Len(inbound) : ~Mine(j)
         => /\ peer[correlation].current # NoAnswer
            /\ peer[correlation].current.n = inbound[k].n
            /\ peer[correlation].sent = inbound[k].i
            /\ peer[correlation].finished = inbound[k].ans
    /\ (\A k \in 1 .. Len(inbound) : ~Mine(k)) =>
         /\ peer[correlation].finished = 0
         /\ IF body = <<>>
            THEN peer[correlation].current # NoAnswer => peer[correlation].sent = 0
            ELSE /\ peer[correlation].current # NoAnswer
                 /\ peer[correlation].current.n = body[1].n
                 /\ peer[correlation].sent = Len(body)

(* What has been read belongs to the first answer. *)
BodyInv ==
  /\ ReplyIsOwn
  /\ \A i \in 1 .. Len(body) : body[i].n = body[1].n /\ body[i].ans = 0
  /\ pc \in Waiting /\ body # <<>> => Len(body) < body[1].n

CallerInv == TypeOK /\ CallInv /\ PeerInv /\ CancelInv /\ StreamInv /\ BodyInv /\ ModuleIsTold
-------------------------------------------------------------------------------
(* Records of calls, events and frames are typed. *)
CallType == [len : Nat, stageOK : BOOLEAN, offset : Nat, deadline : BOOLEAN,
             expired : BOOLEAN, ctxDone : BOOLEAN]

(* The state between calls is typed. *)
LEMMA NoCallType == NoCall \in CallType
  BY DEF NoCall, NewCall, CallType

(* The end of a call leaves the caller well-typed. *)
LEMMA ReturnType ==
  ASSUME TypeOK, CallInv, pc # "idle", NEW r \in Result, Return(r)
  PROVE  /\ pc' = "idle" /\ config' \in Configs /\ correlation' \in 0 .. MaxCalls
         /\ call' \in CallType /\ body' \in Seq(Event) /\ why' \in Result
         /\ results' \in [Corr -> Result]
  BY NoCallType DEF TypeOK, CallInv, Return, Result

(* An error of awaitReply leaves the caller well-typed. *)
LEMMA FailType ==
  ASSUME TypeOK, NEW r \in AwaitErrors, Fail(r)
  PROVE  /\ pc' = "cancel" /\ config' \in Configs /\ correlation' \in 0 .. MaxCalls
         /\ call' \in CallType /\ body' \in Seq(Event) /\ why' \in Result
         /\ results' \in [Corr -> Result]
  BY DEF TypeOK, Fail, Result, AwaitErrors, CallType

(* Sending moves forward through the request and never past its end. *)
LEMMA PartType ==
  ASSUME TypeOK, CallInv, MaySend
  PROVE  /\ Part \in Nat /\ call.offset + Part \in Nat
         /\ call.offset + Part <= call.len
<1>1. config.inlineBudget \in Nat /\ ModuleMessageHeaderLen \in Nat /\ call.len \in Nat
      /\ call.offset \in Nat
  BY CallerAssumption DEF TypeOK
<1> QED BY <1>1 DEF CallInv, MaySend, Part, chunk

(* What the host and the module do to the state of a correlation. *)
LEMMA HostTakeEffect ==
  ASSUME TypeOK, HostTake
  PROVE  /\ Head(outbound) \in Frame
         /\ peer' \in [Corr -> Peer]
         /\ \A d \in Corr : /\ peer'[d].current = peer[d].current
                            /\ peer'[d].finished = peer[d].finished
                            /\ peer'[d].sent = peer[d].sent
         /\ \A d \in Corr : d # Head(outbound).corr => peer'[d] = peer[d]
         /\ peer'[Head(outbound).corr].request =
              IF peer[Head(outbound).corr].request = "refused" THEN "refused"
              ELSE CASE Head(outbound).type = "cancel" -> "cancelled"
                     [] Head(outbound).type = "final" -> "complete"
                     [] Head(outbound).type = "more" -> "partial"
<1> DEFINE f == Head(outbound)
           r == IF peer[f.corr].request = "refused" THEN peer[f.corr].request
                ELSE CASE f.type = "cancel" -> "cancelled"
                       [] f.type = "final" -> "complete"
                       [] f.type = "more" -> "partial"
           q == [peer[f.corr] EXCEPT !.request = r]
<1>1. f \in Frame
  BY DEF TypeOK, HostTake
<1>2. f.corr \in Corr /\ f.type \in {"more", "final", "cancel"}
  BY <1>1 DEF Frame
<1>3. r \in {"refused", "cancelled", "complete", "partial"}
  BY <1>2
<1>4. peer' = [peer EXCEPT ![f.corr] = q]
  BY DEF HostTake, Deliver
<1> HIDE DEF f, r
<1>5. peer[f.corr] \in Peer
  BY <1>2 DEF TypeOK
<1>6. q \in Peer /\ q.request = r /\ q.current = peer[f.corr].current
      /\ q.finished = peer[f.corr].finished /\ q.sent = peer[f.corr].sent
  BY <1>3, <1>5 DEF Peer
<1> HIDE DEF q
<1>7. peer \in [Corr -> Peer]
  BY DEF TypeOK
<1>8. peer' \in [Corr -> Peer] /\ peer'[f.corr] = q /\ \A d \in Corr : d # f.corr => peer'[d] = peer[d]
  BY <1>2, <1>4, <1>6, <1>7
<1>9. \A d \in Corr : /\ peer'[d].current = peer[d].current
                      /\ peer'[d].finished = peer[d].finished
                      /\ peer'[d].sent = peer[d].sent
  BY <1>6, <1>8
<1>10. peer'[f.corr].request = r
  BY <1>6, <1>8
<1> QED BY <1>1, <1>8, <1>9, <1>10 DEF f, r

(* The host refuses a request: nothing but its state changes. *)
LEMMA HostRefuseEffect ==
  ASSUME TypeOK, NEW type, HostRefuse(type)
  PROVE  /\ Head(outbound) \in Frame
         /\ peer' \in [Corr -> Peer]
         /\ \A d \in Corr : /\ peer'[d].current = peer[d].current
                            /\ peer'[d].finished = peer[d].finished
                            /\ peer'[d].sent = peer[d].sent
         /\ \A d \in Corr : d # Head(outbound).corr => peer'[d] = peer[d]
         /\ peer'[Head(outbound).corr].request = "refused"
<1> DEFINE f == Head(outbound)
           q == [peer[f.corr] EXCEPT !.request = "refused"]
<1>1. f \in Frame
  BY DEF TypeOK, HostRefuse
<1>2. f.corr \in Corr
  BY <1>1 DEF Frame
<1>4. peer' = [peer EXCEPT ![f.corr] = q]
  BY DEF HostRefuse
<1> HIDE DEF f
<1>5. peer[f.corr] \in Peer
  BY <1>2 DEF TypeOK
<1>6. q \in Peer /\ q.request = "refused" /\ q.current = peer[f.corr].current
      /\ q.finished = peer[f.corr].finished /\ q.sent = peer[f.corr].sent
  BY <1>5 DEF Peer
<1> HIDE DEF q
<1>7. peer \in [Corr -> Peer]
  BY DEF TypeOK
<1>8. peer' \in [Corr -> Peer] /\ peer'[f.corr] = q /\ \A d \in Corr : d # f.corr => peer'[d] = peer[d]
  BY <1>2, <1>4, <1>6, <1>7
<1>9. \A d \in Corr : /\ peer'[d].current = peer[d].current
                      /\ peer'[d].finished = peer[d].finished
                      /\ peer'[d].sent = peer[d].sent
  BY <1>6, <1>8
<1>10. peer'[f.corr].request = "refused"
  BY <1>6, <1>8
<1> QED BY <1>1, <1>8, <1>9, <1>10 DEF f

(* The module decides on an answer. *)
LEMMA ModuleAnswerEffect ==
  ASSUME TypeOK, NEW c \in Corr, NEW a \in Answer, ModuleAnswer(c, a)
  PROVE  /\ peer' \in [Corr -> Peer]
         /\ \A d \in Corr : d # c => peer'[d] = peer[d]
         /\ peer'[c].request = peer[c].request /\ peer'[c].finished = peer[c].finished
         /\ peer'[c].current = a /\ peer'[c].sent = 0
<1> DEFINE q == [peer[c] EXCEPT !.current = a, !.sent = 0]
<1>1. peer' = [peer EXCEPT ![c] = q]
  BY DEF ModuleAnswer
<1>2. peer[c] \in Peer /\ peer \in [Corr -> Peer]
  BY DEF TypeOK
<1>3. q \in Peer /\ q.request = peer[c].request /\ q.finished = peer[c].finished
      /\ q.current = a /\ q.sent = 0
  BY <1>2 DEF Peer
<1> HIDE DEF q
<1> QED BY <1>1, <1>2, <1>3

(* The module sends a fragment; the last one finishes the answer. *)
LEMMA ModuleSendEffect ==
  ASSUME TypeOK, PeerInv, NEW c \in Corr, ModuleSend(c)
  PROVE  /\ peer' \in [Corr -> Peer]
         /\ \A d \in Corr : d # c => peer'[d] = peer[d]
         /\ peer[c].current \in Answer /\ peer[c].finished < MaxAnswers
         /\ peer'[c].request = peer[c].request /\ peer'[c].sent = peer[c].sent + 1
         /\ IF peer[c].sent + 1 = peer[c].current.n
            THEN peer'[c].current = NoAnswer /\ peer'[c].finished = peer[c].finished + 1
            ELSE peer'[c].current = peer[c].current /\ peer'[c].finished = peer[c].finished
<1> DEFINE i == peer[c].sent + 1
           last == i = peer[c].current.n
           cur == IF last THEN NoAnswer ELSE peer[c].current
           fin == IF last THEN peer[c].finished + 1 ELSE peer[c].finished
           q == [peer[c] EXCEPT !.sent = i, !.current = cur, !.finished = fin]
<1>1. peer' = [peer EXCEPT ![c] = q]
  BY DEF ModuleSend
<1>2. peer[c] \in Peer /\ peer \in [Corr -> Peer]
  BY DEF TypeOK
<1>3. peer[c].current \in Answer /\ peer[c].finished < MaxAnswers /\ peer[c].sent \in Nat
      /\ peer[c].finished \in 0 .. MaxAnswers
  BY <1>2 DEF Peer, PeerInv, ModuleSend
<1>4. cur \in Answer \cup {NoAnswer} /\ i \in Nat
  BY <1>3
<1>5. fin \in 0 .. MaxAnswers
  BY <1>3, CallerAssumption
<1> HIDE DEF cur, fin, i
<1>6. /\ q.request = peer[c].request /\ q.sent = i /\ q.current = cur /\ q.finished = fin
      /\ q \in Peer
  BY <1>2, <1>4, <1>5 DEF Peer
<1> HIDE DEF q
<1>7. peer' \in [Corr -> Peer] /\ peer'[c] = q /\ \A d \in Corr : d # c => peer'[d] = peer[d]
  BY <1>1, <1>2, <1>6
<1> QED BY <1>3, <1>6, <1>7 DEF cur, fin, i

(* Every step keeps the types. *)
LEMMA TypeStep == TypeOK /\ CallInv /\ PeerInv /\ [Next]_vars => TypeOK'
<1> SUFFICES ASSUME TypeOK, CallInv, PeerInv, [Next]_vars PROVE TypeOK'
  OBVIOUS
<1> USE DEF callerVars, envVars, Occupied
<1>1. ASSUME NEW len \in RequestLen, NEW stageOK \in BOOLEAN, NEW deadline \in BOOLEAN,
             Call(len, stageOK, deadline)
      PROVE  TypeOK'
  <2>1. call' \in CallType
    BY <1>1, CallerAssumption DEF Call, NewCall, CallType
  <2> QED BY <1>1, <2>1, CallerAssumption DEF TypeOK, Call, CallType
<1>R. ASSUME pc # "idle", NEW r \in Result, Return(r),
             UNCHANGED <<envVars, outbound, inbound, pendingRead, peer, lost>>
      PROVE  TypeOK'
  BY <1>R, ReturnType DEF TypeOK, CallType
<1>F. ASSUME NEW r \in AwaitErrors, Fail(r), UNCHANGED <<envVars, outbound, peer, lost>>,
             inbound' \in Seq(Event), pendingRead' \in 0 .. 1, Occupied' <= InCap
      PROVE  TypeOK'
  BY <1>F, FailType DEF TypeOK, CallType
<1>2. ASSUME SendRefused PROVE TypeOK'
  BY <1>2, <1>R DEF SendRefused, Result
<1>3. ASSUME SendError PROVE TypeOK'
  BY <1>3, <1>R DEF SendError, MaySend, Result
<1>4. ASSUME SendFragment PROVE TypeOK'
  <2>1. call' \in CallType
    BY <1>4, PartType DEF SendFragment, TypeOK, CallType
  <2>2. correlation \in Corr
    BY <1>4 DEF SendFragment, MaySend, CallInv
  <2>3. outbound' \in Seq(Frame) /\ Len(outbound') <= OutCap
    BY <1>4, <2>2, CallerAssumption DEF SendFragment, TypeOK, Frame
  <2> QED BY <1>4, <2>1, <2>3 DEF SendFragment, TypeOK, CallType
<1>5. ASSUME PollEpoch PROVE TypeOK'
  BY <1>5, <1>F DEF PollEpoch, AwaitErrors, TypeOK
<1>6. ASSUME PollNothing PROVE TypeOK'
  <2>1. inbound' \in Seq(Event) /\ Occupied' <= InCap
    <3>0. pendingRead' = pendingRead /\ pendingRead \in 0 .. 1
      BY <1>6 DEF PollNothing, TypeOK
    <3>1. CASE UNCHANGED inbound
      BY <3>0, <3>1 DEF TypeOK
    <3>2. CASE inbound # <<>> /\ inbound' = Tail(inbound)
      BY <3>0, <3>2, CallerAssumption DEF TypeOK
    <3> QED BY <1>6, <3>1, <3>2 DEF PollNothing
  <2> QED BY <1>6, <2>1 DEF PollNothing, TypeOK
<1>6R. ASSUME PollRelease PROVE TypeOK'
  <2>1. pendingRead' = 0 /\ Occupied' <= InCap
    BY <1>6R, CallerAssumption DEF PollRelease, TypeOK
  <2> QED BY <1>6R, <2>1 DEF PollRelease, TypeOK
<1>7. ASSUME EmptyGiveUp PROVE TypeOK'
  BY <1>7, <1>F DEF EmptyGiveUp, AwaitErrors, TypeOK
<1>8. ASSUME EmptySleep PROVE TypeOK'
  BY <1>8 DEF EmptySleep, TypeOK
<1>E. ASSUME NEW e, PollEvent(e)
      PROVE  /\ e \in Event /\ inbound' \in Seq(Event) /\ pendingRead' \in 0 .. 1
             /\ Occupied' <= InCap /\ UNCHANGED <<envVars, outbound, peer, lost>>
  BY <1>E, CallerAssumption DEF PollEvent, TypeOK
<1>9. ASSUME NEW e, PollControl(e) \/ PollStatus(e) \/ PollTooLong(e) PROVE TypeOK'
  BY <1>9, <1>E, <1>F DEF PollControl, PollStatus, PollTooLong, PollResult, AwaitErrors
<1>10. ASSUME NEW e, PollSkip(e) PROVE TypeOK'
  BY <1>10, <1>E DEF PollSkip, TypeOK
<1>11. ASSUME NEW e, PollFragment(e) PROVE TypeOK'
  BY <1>11, <1>E DEF PollFragment, PollResult, TypeOK
<1>12. ASSUME NEW e, PollFinal(e) PROVE TypeOK'
  <2>1. results' \in [Corr -> Result]
    BY <1>12 DEF PollFinal, TypeOK, Result
  <2> QED BY <1>12, <1>E, <2>1, NoCallType DEF PollFinal, PollResult, TypeOK, CallType
<1>13. ASSUME Cancel PROVE TypeOK'
  <2>1. correlation \in Corr /\ why \in Result
    BY <1>13 DEF Cancel, CallInv, TypeOK
  <2>2. outbound' \in Seq(Frame) /\ Len(outbound') <= OutCap /\ lost' \subseteq Corr
    <3>1. CASE ~epochChanged /\ Len(outbound) < OutCap
      <4>1. [corr |-> correlation, type |-> "cancel"] \in Frame
        BY <2>1 DEF Frame
      <4>2. outbound' = Append(outbound, [corr |-> correlation, type |-> "cancel"]) /\ UNCHANGED lost
        BY <1>13, <3>1 DEF Cancel
      <4> QED BY <3>1, <4>1, <4>2, CallerAssumption DEF TypeOK
    <3>2. CASE ~(~epochChanged /\ Len(outbound) < OutCap)
      BY <1>13, <2>1, <3>2, CallerAssumption DEF Cancel, TypeOK
    <3> QED BY <3>1, <3>2
  <2> QED BY <1>13, <2>1, <2>2, ReturnType DEF Cancel, TypeOK, CallType
<1>14. ASSUME HostTake PROVE TypeOK'
  <2>1. outbound' \in Seq(Frame) /\ Len(outbound') <= OutCap /\ Head(outbound) \in Frame
    <3>1. outbound # <<>> /\ outbound' = Tail(outbound)
      BY <1>14 DEF HostTake
    <3>2. outbound \in Seq(Frame) /\ Len(outbound) <= OutCap /\ OutCap \in Nat
      BY CallerAssumption DEF TypeOK
    <3> QED BY <3>1, <3>2
  <2>2. peer' \in [Corr -> Peer]
    BY <1>14, HostTakeEffect
  <2> QED BY <1>14, <2>1, <2>2 DEF HostTake, TypeOK
<1>15. ASSUME NEW type \in {"absent", "error"}, HostRefuse(type) PROVE TypeOK'
  <2>1. outbound' \in Seq(Frame) /\ Len(outbound') <= OutCap /\ Head(outbound) \in Frame
    <3>1. outbound # <<>> /\ outbound' = Tail(outbound)
      BY <1>15 DEF HostRefuse
    <3>2. outbound \in Seq(Frame) /\ Len(outbound) <= OutCap /\ OutCap \in Nat
      BY CallerAssumption DEF TypeOK
    <3> QED BY <3>1, <3>2
  <2>2. peer' \in [Corr -> Peer]
    BY <1>15, HostRefuseEffect
  <2>3. Noise(type, Head(outbound).corr) \in Event
    <3>1. Head(outbound).corr \in Corr
      BY <2>1 DEF Frame
    <3>2. 0 \in 0 .. MaxAnswers
      BY CallerAssumption
    <3> QED BY <3>1, <3>2 DEF Noise, Event
  <2>4. inbound' \in Seq(Event) /\ pendingRead' \in 0 .. 1 /\ Occupied' <= InCap
    <3>1. PICK e \in Event : e = Noise(type, Head(outbound).corr)
      BY <2>3
    <3>2. inbound' = Append(inbound, e) /\ pendingRead' = pendingRead /\ Occupied < InCap
      BY <1>15, <3>1 DEF HostRefuse
    <3> QED BY <3>2, CallerAssumption DEF TypeOK
  <2>5. noise' = noise + 1 /\ noise < MaxNoise /\ noise \in 0 .. MaxNoise
    BY <1>15 DEF HostRefuse, TypeOK
  <2>6. noise' \in 0 .. MaxNoise
    BY <2>5, CallerAssumption
  <2> QED BY <1>15, <2>1, <2>2, <2>4, <2>6 DEF HostRefuse, TypeOK
<1>16. ASSUME NEW c \in Corr, NEW a \in Answer, ModuleAnswer(c, a) PROVE TypeOK'
  <2>1. peer' \in [Corr -> Peer]
    BY <1>16, ModuleAnswerEffect
  <2> QED BY <1>16, <2>1 DEF ModuleAnswer, TypeOK
<1>17. ASSUME NEW c \in Corr, ModuleSend(c) PROVE TypeOK'
  <2>1. peer[c] \in Peer /\ peer[c].current \in Answer /\ peer[c].finished < MaxAnswers
    BY <1>17 DEF ModuleSend, TypeOK, Peer, PeerInv
  <2>2. peer' \in [Corr -> Peer]
    BY <1>17, ModuleSendEffect
  <2>3. Fragment(c, peer[c].finished, peer[c].sent + 1, peer[c].current) \in Event
    BY <2>1, CallerAssumption DEF Fragment, Event, Peer
  <2>4. inbound' \in Seq(Event) /\ pendingRead' \in 0 .. 1 /\ Occupied' <= InCap
    <3>1. PICK e \in Event :
            e = Fragment(c, peer[c].finished, peer[c].sent + 1, peer[c].current)
      BY <2>3
    <3>2. inbound' = Append(inbound, e) /\ pendingRead' = pendingRead /\ Occupied < InCap
      BY <1>17, <3>1 DEF ModuleSend
    <3> QED BY <3>2, CallerAssumption DEF TypeOK
  <2> QED BY <1>17, <2>2, <2>4 DEF ModuleSend, TypeOK
<1>18. ASSUME NEW type \in {"garbage", "other"}, HostNoise(type) PROVE TypeOK'
  <2>1. Noise(type, correlation) \in Event
    BY <1>18, CallerAssumption DEF HostNoise, Noise, Event, TypeOK, Corr
  <2>2. inbound' \in Seq(Event) /\ pendingRead' \in 0 .. 1 /\ Occupied' <= InCap
    <3>1. PICK e \in Event : e = Noise(type, correlation)
      BY <2>1
    <3>2. inbound' = Append(inbound, e) /\ pendingRead' = pendingRead /\ Occupied < InCap
      BY <1>18, <3>1 DEF HostNoise
    <3> QED BY <3>2, CallerAssumption DEF TypeOK
  <2> QED BY <1>18, <2>2, CallerAssumption DEF HostNoise, TypeOK
<1>19. ASSUME HostRestart PROVE TypeOK'
  <2>1. epochChanged' \in BOOLEAN
    BY <1>19, Zenon DEF HostRestart
  <2> QED BY <1>19, <2>1 DEF HostRestart, TypeOK
<1>20. ASSUME Expire PROVE TypeOK'
  <2>1. call' \in CallType
    BY <1>20 DEF Expire, TypeOK, CallType
  <2> QED BY <1>20, <2>1 DEF Expire, TypeOK, CallType
<1>21. ASSUME CtxCancel PROVE TypeOK'
  <2>1. call' \in CallType
    BY <1>21 DEF CtxCancel, TypeOK, CallType
  <2> QED BY <1>21, <2>1 DEF CtxCancel, TypeOK, CallType
<1>22. CASE UNCHANGED vars
  BY <1>22 DEF vars, TypeOK
<1> QED BY <1>1, <1>2, <1>3, <1>4, <1>5, <1>6, <1>6R, <1>7, <1>8, <1>9, <1>10, <1>11, <1>12, <1>13,
           <1>14, <1>15, <1>16, <1>17, <1>18, <1>19, <1>20, <1>21, <1>22
        DEF Next, InCall, AwaitReply, Environment
-------------------------------------------------------------------------------
(* Sequences, position by position. *)
LEMMA AppendAt ==
  ASSUME NEW S, NEW s \in Seq(S), NEW e \in S
  PROVE  /\ Len(Append(s, e)) = Len(s) + 1 /\ Len(s) \in Nat
         /\ Append(s, e)[Len(s) + 1] = e
         /\ \A k \in 1 .. Len(s) : Append(s, e)[k] = s[k]
  OBVIOUS

(* Taking the first element shifts the others. *)
LEMMA TailAt ==
  ASSUME NEW S, NEW s \in Seq(S), s # <<>>
  PROVE  /\ Len(s) \in Nat /\ Len(s) >= 1 /\ Len(Tail(s)) = Len(s) - 1 /\ Head(s) = s[1] /\ s[1] \in S
         /\ \A k \in 1 .. Len(s) - 1 : Tail(s)[k] = s[k + 1] /\ k + 1 \in 1 .. Len(s)
  OBVIOUS

(* An answer being sent has fragments left, and its number is in bounds. *)
LEMMA PeerStep == TypeOK /\ PeerInv /\ [Next]_vars => PeerInv'
<1> SUFFICES ASSUME TypeOK, PeerInv, [Next]_vars PROVE PeerInv'
  OBVIOUS
<1>1. CASE UNCHANGED peer
  BY <1>1 DEF PeerInv
<1>2. ASSUME HostTake PROVE PeerInv'
  BY <1>2, HostTakeEffect DEF PeerInv
<1>3. ASSUME NEW type, HostRefuse(type) PROVE PeerInv'
  BY <1>3, HostRefuseEffect DEF PeerInv
<1>4. ASSUME NEW c \in Corr, NEW a \in Answer, ModuleAnswer(c, a) PROVE PeerInv'
  <2>1. a.n > 0 /\ peer[c].finished < MaxAnswers
    BY <1>4, CallerAssumption DEF ModuleAnswer
  <2> QED BY <1>4, <2>1, ModuleAnswerEffect DEF PeerInv
<1>5. ASSUME NEW c \in Corr, ModuleSend(c) PROVE PeerInv'
  <2>1. peer[c].sent \in Nat /\ peer[c].current \in Answer /\ peer[c].current.n \in Nat
        /\ peer[c].sent < peer[c].current.n
    BY <1>5, ModuleSendEffect, CallerAssumption DEF TypeOK, Peer, PeerInv, ModuleSend
  <2> QED BY <1>5, <2>1, ModuleSendEffect DEF PeerInv
<1>6. \/ UNCHANGED peer \/ HostTake \/ (\E type : HostRefuse(type))
      \/ \E c \in Corr : (\E a \in Answer : ModuleAnswer(c, a)) \/ ModuleSend(c)
  BY DEF Next, InCall, AwaitReply, Environment, Call, SendRefused, SendError, SendFragment,
         PollEpoch, PollRelease, PollNothing, EmptyGiveUp, EmptySleep, PollControl, PollSkip, PollStatus,
         PollTooLong, PollFragment, PollFinal, PollResult, PollEvent, Cancel, HostRestart,
         Expire, CtxCancel, HostNoise, vars
<1> QED BY <1>1, <1>2, <1>3, <1>4, <1>5, <1>6

(* A correlation is used once, and whatever travels belongs to one used. *)
LEMMA CallStep == TypeOK /\ CallInv /\ PeerInv /\ [Next]_vars => CallInv'
<1> SUFFICES ASSUME TypeOK, CallInv, PeerInv, [Next]_vars PROVE CallInv'
  OBVIOUS
<1> USE DEF callerVars, envVars
<1>0. /\ inbound \in Seq(Event) /\ outbound \in Seq(Frame) /\ correlation \in 0 .. MaxCalls
      /\ results \in [Corr -> Result] /\ MaxCalls \in Nat
  BY CallerAssumption DEF TypeOK
<1> DEFINE Unused == \A c \in Corr : c > correlation =>
             /\ results[c] = "none" /\ c \notin lost
             /\ peer[c].request = "none" /\ peer[c].current = NoAnswer /\ peer[c].finished = 0
           Out == \A k \in 1 .. Len(outbound) : outbound[k].corr <= correlation
           In == \A k \in 1 .. Len(inbound) : inbound[k].corr <= correlation
           Progress ==
             /\ pc # "idle" => correlation \in Corr /\ results[correlation] = "none"
                               /\ correlation \notin lost
             /\ pc = "cancel" => why \in AwaitErrors /\ body = <<>>
             /\ pc = "send" => call.offset <= call.len /\ body = <<>>
<1>I. /\ Unused /\ Out /\ In /\ Progress
      /\ Unused' /\ Out' /\ In' /\ Progress' => CallInv'
  BY DEF CallInv
<1>T. inbound # <<>> /\ inbound' = Tail(inbound) /\ UNCHANGED correlation => In'
  BY <1>0, <1>I, TailAt
<1>U. UNCHANGED <<inbound, correlation>> => In'
  BY <1>I
<1>R. ASSUME pc # "idle", NEW r, Return(r), UNCHANGED <<lost, peer>>
      PROVE  Unused' /\ Progress'
  BY <1>0, <1>I, <1>R DEF Return, Corr
<1>F. ASSUME pc # "idle", NEW r \in AwaitErrors, Fail(r), UNCHANGED <<lost, peer, outbound>>
      PROVE  Unused' /\ Progress' /\ Out'
  BY <1>0, <1>I, <1>F DEF Fail
<1>1. ASSUME NEW len \in RequestLen, NEW stageOK \in BOOLEAN, NEW deadline \in BOOLEAN,
             Call(len, stageOK, deadline)
      PROVE  CallInv'
  <2>1. /\ correlation' = correlation + 1 /\ correlation' \in Corr
        /\ UNCHANGED <<results, lost, peer, outbound, inbound>> /\ pc' = "send" /\ body' = <<>>
        /\ call' = NewCall(len, stageOK, deadline) /\ len \in Nat
    BY <1>0, <1>1, CallerAssumption DEF Call, Corr
  <2>2. Unused'
    BY <1>0, <1>I, <2>1 DEF Corr
  <2>3. Out' /\ In'
    <3>1. \A k \in 1 .. Len(outbound) : outbound[k].corr \in Int
      <4>1. \A k \in 1 .. Len(outbound) : outbound[k] \in Frame
        BY <1>0
      <4>2. \A f \in Frame : f.corr \in Int
        BY DEF Frame, Corr
      <4> QED BY <4>1, <4>2
    <3>2. \A k \in 1 .. Len(inbound) : inbound[k].corr \in Int
      <4>1. \A k \in 1 .. Len(inbound) : inbound[k] \in Event
        BY <1>0
      <4>2. \A e \in Event : e.corr \in Int
        BY DEF Event, Corr
      <4> QED BY <4>1, <4>2
    <3> QED BY <1>0, <1>I, <2>1, <3>1, <3>2
  <2>4. results[correlation + 1] = "none" /\ correlation + 1 \notin lost
    BY <1>0, <1>I, <2>1 DEF Corr
  <2>5. Progress'
    BY <2>1, <2>4 DEF NewCall
  <2> QED BY <1>I, <2>2, <2>3, <2>5
<1>2. ASSUME SendRefused \/ SendError PROVE CallInv'
  <2>1. pc # "idle" /\ UNCHANGED <<lost, peer, outbound, inbound>> /\ \E r : Return(r)
    BY <1>2 DEF SendRefused, SendError, MaySend
  <2> QED BY <1>I, <1>R, <1>U, <2>1 DEF Return
<1>3. ASSUME SendFragment PROVE CallInv'
  <2>1. pc = "send" /\ MaySend /\ UNCHANGED <<correlation, body, why, inbound, peer, results, lost>>
        /\ pc' \in {"send", "await"}
    BY <1>3 DEF SendFragment, MaySend
  <2>2. call' = [call EXCEPT !.offset = @ + Part] /\ call \in CallType
    BY <1>3 DEF SendFragment, TypeOK, CallType
  <2>3. call'.offset <= call'.len
    BY <2>1, <2>2, PartType DEF CallType
  <2>4. Progress' /\ Unused'
    BY <1>I, <2>1, <2>3
  <2>5. Out'
    <3> DEFINE f == [corr |-> correlation, type |-> IF More THEN "more" ELSE "final"]
    <3>1. f \in Frame /\ f.corr = correlation
      BY <1>I, <2>1 DEF Frame
    <3>2. outbound' = Append(outbound, f)
      BY <1>3 DEF SendFragment
    <3> HIDE DEF f
    <3> QED BY <1>0, <1>I, <2>1, <3>1, <3>2, AppendAt
  <2> QED BY <1>I, <1>U, <2>1, <2>4, <2>5
<1>4. ASSUME PollEpoch \/ EmptyGiveUp PROVE CallInv'
  <2>1. pc # "idle" /\ UNCHANGED <<lost, peer, outbound, inbound>> /\ \E r \in AwaitErrors : Fail(r)
    BY <1>4 DEF PollEpoch, EmptyGiveUp, AwaitErrors
  <2> QED BY <1>I, <1>F, <1>U, <2>1 DEF Fail
<1>5. ASSUME PollNothing PROVE CallInv'
  <2>1. pc # "idle" /\ pc' = "empty"
        /\ UNCHANGED <<correlation, call, body, why, outbound, peer, results, lost>>
        /\ (UNCHANGED inbound \/ (inbound # <<>> /\ inbound' = Tail(inbound)))
    BY <1>5 DEF PollNothing
  <2> QED BY <1>I, <1>T, <1>U, <2>1
<1>6. ASSUME EmptySleep \/ Expire PROVE CallInv'
  <2>1. pc # "idle" /\ pc' \in {"empty", "await"}
        /\ UNCHANGED <<correlation, body, why, outbound, inbound, peer, results, lost>>
    BY <1>6 DEF EmptySleep, Expire
  <2> QED BY <1>I, <1>U, <2>1
<1>7. ASSUME NEW e, PollControl(e) \/ PollStatus(e) \/ PollTooLong(e) PROVE CallInv'
  <2>1. /\ pc # "idle" /\ UNCHANGED <<lost, peer, outbound>> /\ \E r \in AwaitErrors : Fail(r)
        /\ inbound # <<>> /\ inbound' = Tail(inbound)
    BY <1>7 DEF PollControl, PollStatus, PollTooLong, PollResult, PollEvent, AwaitErrors
  <2> QED BY <1>I, <1>F, <1>T, <2>1 DEF Fail
<1>8. ASSUME NEW e, PollSkip(e) \/ PollFragment(e) PROVE CallInv'
  <2>1. /\ pc = "await" /\ UNCHANGED <<pc, correlation, call, why, lost, peer, outbound, results>>
        /\ inbound # <<>> /\ inbound' = Tail(inbound)
    BY <1>8 DEF PollSkip, PollFragment, PollResult, PollEvent
  <2> QED BY <1>I, <1>T, <2>1
<1>9. ASSUME NEW e, PollFinal(e) PROVE CallInv'
  <2>1. /\ pc = "await" /\ pc' = "idle" /\ UNCHANGED <<correlation, lost, peer, outbound>>
        /\ results' = [results EXCEPT ![correlation] = "OK"]
        /\ inbound # <<>> /\ inbound' = Tail(inbound)
    BY <1>9 DEF PollFinal, PollResult, PollEvent
  <2>2. Unused'
    BY <1>0, <1>I, <2>1 DEF Corr
  <2> QED BY <1>I, <1>T, <2>1, <2>2
<1>10. ASSUME Cancel PROVE CallInv'
  <2>1. /\ pc = "cancel" /\ pc' = "idle" /\ UNCHANGED <<correlation, peer, inbound>>
        /\ results' = [results EXCEPT ![correlation] = why]
        /\ \/ UNCHANGED lost /\ outbound' = Append(outbound, [corr |-> correlation, type |-> "cancel"])
           \/ lost' = lost \cup {correlation} /\ UNCHANGED outbound
    BY <1>10 DEF Cancel, Return
  <2>2. Unused'
    BY <1>0, <1>I, <2>1 DEF Corr
  <2>3. Out'
    <3> DEFINE f == [corr |-> correlation, type |-> "cancel"]
    <3>1. f \in Frame /\ f.corr = correlation
      BY <1>I, <2>1 DEF Frame
    <3> HIDE DEF f
    <3>2. CASE outbound' = Append(outbound, f)
      BY <1>0, <1>I, <2>1, <3>1, <3>2, AppendAt
    <3>3. CASE UNCHANGED outbound
      BY <1>I, <2>1, <3>3
    <3> QED BY <2>1, <3>2, <3>3 DEF f
  <2> QED BY <1>I, <1>U, <2>1, <2>2, <2>3
<1>11. ASSUME HostTake PROVE CallInv'
  <2>1. /\ UNCHANGED <<pc, correlation, call, body, why, inbound, results, lost>>
        /\ outbound # <<>> /\ outbound' = Tail(outbound)
    BY <1>11 DEF HostTake
  <2>2. Out'
    BY <1>0, <1>I, <2>1, TailAt
  <2>3. Head(outbound).corr <= correlation
    BY <1>0, <1>I, <2>1, TailAt
  <2>4. Unused'
    <3> SUFFICES ASSUME NEW c \in Corr, c > correlation
                 PROVE  peer'[c].request = "none" /\ peer'[c].current = NoAnswer
                        /\ peer'[c].finished = 0
      BY <1>I, <2>1
    <3>1. c # Head(outbound).corr
      BY <1>0, <2>3 DEF Corr
    <3> QED BY <1>11, <1>I, <3>1, HostTakeEffect
  <2> QED BY <1>I, <1>U, <2>1, <2>2, <2>4
<1>12. ASSUME NEW type \in {"absent", "error"}, HostRefuse(type) PROVE CallInv'
  <2>1. /\ UNCHANGED <<pc, correlation, call, body, why, results, lost>>
        /\ outbound # <<>> /\ outbound' = Tail(outbound)
        /\ inbound' = Append(inbound, Noise(type, Head(outbound).corr))
    BY <1>12 DEF HostRefuse
  <2>2. Out'
    BY <1>0, <1>I, <2>1, TailAt
  <2>3. Head(outbound).corr <= correlation
    BY <1>0, <1>I, <2>1, TailAt
  <2>4. Unused'
    <3> SUFFICES ASSUME NEW c \in Corr, c > correlation
                 PROVE  peer'[c].request = "none" /\ peer'[c].current = NoAnswer
                        /\ peer'[c].finished = 0
      BY <1>I, <2>1
    <3>1. c # Head(outbound).corr
      BY <1>0, <2>3 DEF Corr
    <3> QED BY <1>12, <1>I, <3>1, HostRefuseEffect
  <2>5. Noise(type, Head(outbound).corr) \in Event
        /\ Noise(type, Head(outbound).corr).corr = Head(outbound).corr
    BY <1>12, CallerAssumption, HostRefuseEffect DEF Noise, Event, Frame
  <2>6. In'
    <3> DEFINE e == Noise(type, Head(outbound).corr)
    <3>1. e \in Event /\ e.corr <= correlation /\ inbound' = Append(inbound, e)
      BY <2>1, <2>3, <2>5
    <3> HIDE DEF e
    <3> QED BY <1>0, <1>I, <2>1, <3>1, AppendAt
  <2> QED BY <1>I, <2>1, <2>2, <2>4, <2>6
<1>13. ASSUME NEW c \in Corr, NEW a \in Answer, ModuleAnswer(c, a) PROVE CallInv'
  <2>1. /\ UNCHANGED <<pc, correlation, call, body, why, results, lost, outbound, inbound>>
        /\ peer[c].request # "none"
    BY <1>13 DEF ModuleAnswer
  <2>2. Unused'
    BY <1>13, <1>I, <2>1, ModuleAnswerEffect
  <2> QED BY <1>I, <1>U, <2>1, <2>2
<1>14. ASSUME NEW c \in Corr, ModuleSend(c) PROVE CallInv'
  <2> DEFINE e == Fragment(c, peer[c].finished, peer[c].sent + 1, peer[c].current)
  <2>1. /\ UNCHANGED <<pc, correlation, call, body, why, results, lost, outbound>>
        /\ peer[c].current # NoAnswer /\ inbound' = Append(inbound, e)
    BY <1>14 DEF ModuleSend
  <2>2. Unused'
    BY <1>14, <1>I, <2>1, ModuleSendEffect
  <2>3. e \in Event /\ e.corr = c
    BY <1>14, ModuleSendEffect, CallerAssumption DEF Fragment, Event, Peer, TypeOK
  <2>4. c <= correlation
    BY <1>0, <1>I, <2>1 DEF Corr
  <2> HIDE DEF e
  <2>5. In'
    BY <1>0, <1>I, <2>1, <2>3, <2>4, AppendAt
  <2> QED BY <1>I, <2>1, <2>2, <2>5
<1>15. ASSUME NEW type \in {"garbage", "other"}, HostNoise(type) PROVE CallInv'
  <2> DEFINE e == Noise(type, correlation)
  <2>1. /\ UNCHANGED <<pc, correlation, call, body, why, results, lost, outbound, peer>>
        /\ correlation # 0 /\ inbound' = Append(inbound, e)
    BY <1>15 DEF HostNoise
  <2>2. e \in Event /\ e.corr = correlation
    BY <1>0, <2>1, CallerAssumption DEF Noise, Event, Corr
  <2> HIDE DEF e
  <2>3. In'
    BY <1>0, <1>I, <2>1, <2>2, AppendAt
  <2> QED BY <1>I, <2>1, <2>3
<1>16. ASSUME PollRelease \/ HostRestart \/ UNCHANGED vars PROVE CallInv'
  BY <1>16 DEF PollRelease, HostRestart, vars, CallInv
<1>17. ASSUME CtxCancel PROVE CallInv'
  <2>1. /\ UNCHANGED <<pc, correlation, body, why, results, lost, outbound, inbound, peer>>
        /\ call'.offset = call.offset /\ call'.len = call.len
    BY <1>17 DEF CtxCancel, TypeOK
  <2> QED BY <1>I, <1>U, <2>1
<1> QED BY <1>1, <1>2, <1>3, <1>4, <1>5, <1>6, <1>7, <1>8, <1>9, <1>10, <1>11, <1>12, <1>13,
           <1>14, <1>15, <1>16, <1>17
        DEF Next, InCall, AwaitReply, Environment

(* Cancels are sent for calls given up, once, and for no others. *)
LEMMA ToldStep ==
  TypeOK /\ CallInv /\ PeerInv /\ CancelInv /\ ModuleIsTold /\ [Next]_vars
    => CancelInv' /\ ModuleIsTold'
<1> SUFFICES ASSUME TypeOK, CallInv, PeerInv, CancelInv, ModuleIsTold, [Next]_vars
             PROVE  CancelInv' /\ ModuleIsTold'
  OBVIOUS
<1> USE DEF callerVars, envVars
<1>0. /\ outbound \in Seq(Frame) /\ results \in [Corr -> Result]
      /\ \A k \in 1 .. Len(outbound) : outbound[k] \in Frame /\ outbound[k].corr \in Corr
  <2>1. outbound \in Seq(Frame) /\ results \in [Corr -> Result]
    BY DEF TypeOK
  <2>2. \A k \in 1 .. Len(outbound) : outbound[k] \in Frame
    BY <2>1
  <2>3. \A f \in Frame : f.corr \in Corr
    BY DEF Frame
  <2> QED BY <2>1, <2>2, <2>3
<1>N. pc # "idle" => correlation \in Corr /\ ~CancelSentFor(correlation)
  BY DEF CallInv, ModuleIsTold, AwaitErrors
<1>A. ASSUME UNCHANGED <<outbound, results, lost>>,
             \A d \in Corr : peer'[d].request = peer[d].request
      PROVE  CancelInv' /\ ModuleIsTold'
  BY <1>0, <1>A DEF CancelInv, ModuleIsTold, CancelSentFor
<1>B. ASSUME pc # "idle", UNCHANGED <<outbound, peer, lost>>, NEW r, r \notin AwaitErrors,
             results' = [results EXCEPT ![correlation] = r]
      PROVE  CancelInv' /\ ModuleIsTold'
  BY <1>0, <1>B, <1>N DEF CancelInv, ModuleIsTold, CancelSentFor
<1>1. ASSUME SendRefused \/ SendError PROVE CancelInv' /\ ModuleIsTold'
  BY <1>1, <1>B DEF SendRefused, SendError, MaySend, Return, AwaitErrors
<1>2. ASSUME NEW e, PollFinal(e) PROVE CancelInv' /\ ModuleIsTold'
  BY <1>2, <1>B DEF PollFinal, PollResult, PollEvent, AwaitErrors
<1>3. ASSUME SendFragment PROVE CancelInv' /\ ModuleIsTold'
  <2> DEFINE f == [corr |-> correlation, type |-> IF More THEN "more" ELSE "final"]
  <2>1. /\ pc # "idle" /\ outbound' = Append(outbound, f) /\ UNCHANGED <<peer, results, lost>>
    BY <1>3 DEF SendFragment, MaySend
  <2>2. f \in Frame /\ f.corr = correlation /\ f.type # "cancel"
    BY <1>N, <2>1 DEF Frame
  <2> HIDE DEF f
  <2>3. /\ Len(outbound') = Len(outbound) + 1 /\ Len(outbound) \in Nat
        /\ outbound'[Len(outbound) + 1] = f /\ \A k \in 1 .. Len(outbound) : outbound'[k] = outbound[k]
    BY <1>0, <2>1, <2>2, AppendAt
  <2>4. \A k \in 1 .. Len(outbound) : outbound[k].type = "cancel" => outbound[k].corr # correlation
    BY <1>N, <2>1 DEF CancelSentFor
  <2>5. peer[correlation].request # "cancelled"
    BY <1>N, <2>1 DEF CancelSentFor
  <2>6. CancelInv'
    BY <2>1, <2>2, <2>3, <2>4, <2>5 DEF CancelInv
  <2>7. \A c \in Corr : CancelSentFor(c)' <=> CancelSentFor(c)
    BY <2>1, <2>2, <2>3 DEF CancelSentFor
  <2>8. ModuleIsTold'
    BY <2>1, <2>7 DEF ModuleIsTold
  <2> QED BY <2>6, <2>8
<1>4. ASSUME Cancel PROVE CancelInv' /\ ModuleIsTold'
  <2> DEFINE f == [corr |-> correlation, type |-> "cancel"]
  <2>1. /\ pc = "cancel" /\ UNCHANGED <<correlation, peer>>
        /\ results' = [results EXCEPT ![correlation] = why]
        /\ \/ UNCHANGED lost /\ outbound' = Append(outbound, f)
           \/ lost' = lost \cup {correlation} /\ UNCHANGED outbound
    BY <1>4 DEF Cancel, Return
  <2>2. why \in AwaitErrors /\ correlation \notin lost /\ correlation \in Corr
    BY <2>1 DEF CallInv
  <2>3. CASE lost' = lost \cup {correlation} /\ UNCHANGED outbound
    BY <1>0, <1>N, <2>1, <2>2, <2>3 DEF CancelInv, ModuleIsTold, CancelSentFor
  <2>4. CASE UNCHANGED lost /\ outbound' = Append(outbound, f)
    <3>1. f \in Frame /\ f.corr = correlation /\ f.type = "cancel"
      BY <2>2 DEF Frame
    <3> HIDE DEF f
    <3>2. /\ Len(outbound') = Len(outbound) + 1 /\ Len(outbound) \in Nat
          /\ outbound'[Len(outbound) + 1] = f
          /\ \A k \in 1 .. Len(outbound) : outbound'[k] = outbound[k]
      BY <1>0, <2>4, <3>1, AppendAt
    <3>3. \A k \in 1 .. Len(outbound) : outbound[k].type = "cancel" => outbound[k].corr # correlation
      BY <1>N, <2>1 DEF CancelSentFor
    <3>4. peer[correlation].request # "cancelled"
      BY <1>N, <2>1 DEF CancelSentFor
    <3>5. CancelInv'
      <4>1. ASSUME NEW k \in 1 .. Len(outbound'), NEW l \in 1 .. Len(outbound'), k < l,
                   outbound'[k].type = "cancel"
            PROVE  outbound'[l].corr # outbound'[k].corr
        <5>1. k \in 1 .. Len(outbound) /\ outbound'[k] = outbound[k]
          BY <3>2, <4>1
        <5>2. CASE l \in 1 .. Len(outbound)
          BY <3>2, <4>1, <5>1, <5>2 DEF CancelInv
        <5>3. CASE l = Len(outbound) + 1
          BY <3>1, <3>2, <3>3, <4>1, <5>1, <5>3
        <5> QED BY <3>2, <4>1, <5>2, <5>3
      <4>2. ASSUME NEW k \in 1 .. Len(outbound')
            PROVE  peer'[outbound'[k].corr].request # "cancelled"
        BY <2>1, <3>1, <3>2, <3>4, <4>2 DEF CancelInv
      <4> QED BY <4>1, <4>2 DEF CancelInv
    <3>6. \A c \in Corr : c # correlation => (CancelSentFor(c)' <=> CancelSentFor(c))
      BY <2>1, <3>1, <3>2 DEF CancelSentFor
    <3>7. CancelSentFor(correlation)'
      BY <2>1, <3>1, <3>2 DEF CancelSentFor
    <3>8. ModuleIsTold'
      BY <1>0, <2>1, <2>2, <2>4, <3>6, <3>7 DEF ModuleIsTold
    <3> QED BY <3>5, <3>8
  <2> QED BY <2>1, <2>3, <2>4
<1>5. ASSUME HostTake PROVE CancelInv' /\ ModuleIsTold'
  <2>0. PICK f \in Frame : f = Head(outbound)
    BY <1>5, HostTakeEffect
  <2>1. outbound # <<>> /\ outbound' = Tail(outbound) /\ UNCHANGED <<results, lost>>
    BY <1>5 DEF HostTake
  <2>2. /\ f \in Frame /\ f = outbound[1] /\ Len(outbound) \in Nat /\ Len(outbound) >= 1
        /\ Len(outbound') = Len(outbound) - 1
        /\ \A k \in 1 .. Len(outbound) - 1 : outbound'[k] = outbound[k + 1] /\ k + 1 \in 1 .. Len(outbound)
    BY <1>0, <2>0, <2>1, TailAt
  <2>3. /\ f.corr \in Corr /\ f.type \in {"more", "final", "cancel"}
        /\ \A d \in Corr : d # f.corr => peer'[d] = peer[d]
    BY <1>5, <2>0, HostTakeEffect DEF Frame
  <2>4. peer[f.corr].request # "cancelled"
    BY <2>2 DEF CancelInv
  <2>5. /\ f.type # "cancel" => peer'[f.corr].request # "cancelled"
        /\ f.type = "cancel" => peer'[f.corr].request \in {"cancelled", "refused"}
        /\ peer[f.corr].request = "refused" <=> peer'[f.corr].request = "refused"
    <3>1. peer'[f.corr].request = IF peer[f.corr].request = "refused" THEN "refused"
                                  ELSE CASE f.type = "cancel" -> "cancelled"
                                         [] f.type = "final" -> "complete"
                                         [] f.type = "more" -> "partial"
      BY <1>5, <2>0, HostTakeEffect
    <3>2. CASE peer[f.corr].request = "refused"
      BY <3>1, <3>2
    <3>3. CASE peer[f.corr].request # "refused" /\ f.type = "cancel"
      BY <3>1, <3>3
    <3>4. CASE peer[f.corr].request # "refused" /\ f.type # "cancel"
      <4>1. peer'[f.corr].request \in {"complete", "partial"}
        BY <2>3, <3>1, <3>4
      <4> QED BY <3>4, <4>1
    <3> QED BY <3>2, <3>3, <3>4
  <2>6. CancelInv'
    <3>1. ASSUME NEW k \in 1 .. Len(outbound')
          PROVE  /\ k + 1 \in 1 .. Len(outbound) /\ outbound'[k] = outbound[k + 1]
                 /\ f.type = "cancel" => outbound'[k].corr # f.corr
                 /\ outbound'[k].corr \in Corr
      <4>1. k \in 1 .. Len(outbound) - 1 /\ 1 \in 1 .. Len(outbound) /\ 1 < k + 1
        BY <2>2
      <4> QED BY <1>0, <2>2, <4>1 DEF CancelInv
    <3>2. ASSUME NEW k \in 1 .. Len(outbound') PROVE peer'[outbound'[k].corr].request # "cancelled"
      BY <2>3, <2>5, <3>1 DEF CancelInv
    <3>3. ASSUME NEW k \in 1 .. Len(outbound'), NEW l \in 1 .. Len(outbound'), k < l,
                 outbound'[k].type = "cancel"
          PROVE  outbound'[l].corr # outbound'[k].corr
      <4>1. k + 1 < l + 1
        BY <2>2, <3>3
      <4> QED BY <3>1, <3>3, <4>1 DEF CancelInv
    <3> QED BY <3>2, <3>3 DEF CancelInv
  <2>7. ASSUME NEW c \in Corr, c # f.corr PROVE CancelSentFor(c)' <=> CancelSentFor(c)
    <3>1. ASSUME NEW k \in 1 .. Len(outbound), outbound[k].corr = c, outbound[k].type = "cancel"
          PROVE  CancelSentFor(c)'
      <4>1. k # 1 /\ k - 1 \in 1 .. Len(outbound) - 1 /\ k - 1 + 1 = k
        BY <2>2, <2>7, <3>1
      <4>2. outbound'[k - 1] = outbound[k] /\ k - 1 \in 1 .. Len(outbound')
        BY <2>2, <4>1
      <4> QED BY <3>1, <4>2 DEF CancelSentFor
    <3>2. ASSUME NEW k \in 1 .. Len(outbound'), outbound'[k].corr = c, outbound'[k].type = "cancel"
          PROVE  CancelSentFor(c)
      BY <2>2, <3>2 DEF CancelSentFor
    <3> QED BY <2>3, <2>7, <3>1, <3>2 DEF CancelSentFor
  <2>8. CancelSentFor(f.corr)' => CancelSentFor(f.corr)
    BY <2>2, <2>4, <2>5 DEF CancelSentFor
  <2>9. CancelSentFor(f.corr) => CancelSentFor(f.corr)' \/ peer'[f.corr].request = "refused"
    <3> SUFFICES ASSUME CancelSentFor(f.corr), peer'[f.corr].request # "refused"
                 PROVE  CancelSentFor(f.corr)'
      OBVIOUS
    <3>1. PICK k \in 1 .. Len(outbound) : outbound[k].corr = f.corr /\ outbound[k].type = "cancel"
      BY <2>4 DEF CancelSentFor
    <3>2. CASE k = 1
      BY <2>2, <2>5, <3>1, <3>2 DEF CancelSentFor
    <3>3. CASE k # 1
      <4>1. k - 1 \in 1 .. Len(outbound) - 1 /\ k - 1 + 1 = k
        BY <2>2, <3>3
      <4>2. outbound'[k - 1] = outbound[k] /\ k - 1 \in 1 .. Len(outbound')
        BY <2>2, <4>1
      <4> QED BY <3>1, <4>2 DEF CancelSentFor
    <3> QED BY <3>2, <3>3
  <2>10. ModuleIsTold'
    BY <2>1, <2>3, <2>5, <2>7, <2>8, <2>9 DEF ModuleIsTold
  <2> QED BY <2>6, <2>10
<1>6. ASSUME NEW type, HostRefuse(type) PROVE CancelInv' /\ ModuleIsTold'
  <2>0. PICK f \in Frame : f = Head(outbound)
    BY <1>6, HostRefuseEffect
  <2>1. outbound # <<>> /\ outbound' = Tail(outbound) /\ UNCHANGED <<results, lost>>
        /\ f.type # "cancel" /\ peer[f.corr].request = "none"
    BY <1>6, <2>0 DEF HostRefuse
  <2>2. /\ f \in Frame /\ f = outbound[1] /\ Len(outbound) \in Nat /\ Len(outbound) >= 1
        /\ Len(outbound') = Len(outbound) - 1
        /\ \A k \in 1 .. Len(outbound) - 1 : outbound'[k] = outbound[k + 1] /\ k + 1 \in 1 .. Len(outbound)
    BY <1>0, <2>0, <2>1, TailAt
  <2>3. /\ f.corr \in Corr /\ peer'[f.corr].request = "refused"
        /\ \A d \in Corr : d # f.corr => peer'[d] = peer[d]
    BY <1>6, <2>0, HostRefuseEffect DEF Frame
  <2>6. CancelInv'
    <3>1. ASSUME NEW k \in 1 .. Len(outbound')
          PROVE  /\ k + 1 \in 1 .. Len(outbound) /\ outbound'[k] = outbound[k + 1]
                 /\ f.type = "cancel" => outbound'[k].corr # f.corr
                 /\ outbound'[k].corr \in Corr
      <4>1. k \in 1 .. Len(outbound) - 1 /\ 1 \in 1 .. Len(outbound) /\ 1 < k + 1
        BY <2>2
      <4> QED BY <1>0, <2>2, <4>1 DEF CancelInv
    <3>2. ASSUME NEW k \in 1 .. Len(outbound') PROVE peer'[outbound'[k].corr].request # "cancelled"
      BY <2>3, <3>1 DEF CancelInv
    <3>3. ASSUME NEW k \in 1 .. Len(outbound'), NEW l \in 1 .. Len(outbound'), k < l,
                 outbound'[k].type = "cancel"
          PROVE  outbound'[l].corr # outbound'[k].corr
      <4>1. k + 1 < l + 1
        BY <2>2, <3>3
      <4> QED BY <3>1, <3>3, <4>1 DEF CancelInv
    <3> QED BY <3>2, <3>3 DEF CancelInv
  <2>7. ASSUME NEW c \in Corr, c # f.corr PROVE CancelSentFor(c)' <=> CancelSentFor(c)
    <3>1. ASSUME NEW k \in 1 .. Len(outbound), outbound[k].corr = c, outbound[k].type = "cancel"
          PROVE  CancelSentFor(c)'
      <4>1. k # 1 /\ k - 1 \in 1 .. Len(outbound) - 1 /\ k - 1 + 1 = k
        BY <2>2, <2>7, <3>1
      <4>2. outbound'[k - 1] = outbound[k] /\ k - 1 \in 1 .. Len(outbound')
        BY <2>2, <4>1
      <4> QED BY <3>1, <4>2 DEF CancelSentFor
    <3>2. ASSUME NEW k \in 1 .. Len(outbound'), outbound'[k].corr = c, outbound'[k].type = "cancel"
          PROVE  CancelSentFor(c)
      BY <2>2, <3>2 DEF CancelSentFor
    <3> QED BY <2>3, <2>7, <3>1, <3>2 DEF CancelSentFor
  <2>8. CancelSentFor(f.corr)' => CancelSentFor(f.corr)
    BY <2>2, <2>3 DEF CancelSentFor
  <2>10. ModuleIsTold'
    BY <2>1, <2>3, <2>7, <2>8 DEF ModuleIsTold
  <2> QED BY <2>6, <2>10
<1>7. ASSUME NEW c \in Corr, NEW a \in Answer, ModuleAnswer(c, a) PROVE CancelInv' /\ ModuleIsTold'
  BY <1>7, <1>A, ModuleAnswerEffect DEF ModuleAnswer
<1>8. ASSUME NEW c \in Corr, ModuleSend(c) PROVE CancelInv' /\ ModuleIsTold'
  BY <1>8, <1>A, ModuleSendEffect DEF ModuleSend
<1>9. CASE UNCHANGED <<outbound, results, lost, peer>>
  BY <1>9, <1>A
<1>10. \/ UNCHANGED <<outbound, results, lost, peer>>
       \/ SendRefused \/ SendError \/ (\E e : PollFinal(e)) \/ SendFragment \/ Cancel
       \/ HostTake \/ (\E type : HostRefuse(type))
       \/ \E c \in Corr : (\E a \in Answer : ModuleAnswer(c, a)) \/ ModuleSend(c)
  BY DEF Next, InCall, AwaitReply, Environment, Call, PollEpoch, PollRelease, PollNothing, EmptyGiveUp,
         EmptySleep, PollControl, PollSkip, PollStatus, PollTooLong, PollFragment, PollResult,
         PollEvent, HostRestart, Expire, CtxCancel, HostNoise, Fail, vars
<1> QED BY <1>1, <1>2, <1>3, <1>4, <1>5, <1>6, <1>7, <1>8, <1>9, <1>10

(* The fragments of the call, as events come and go. *)
LEMMA StreamKept ==
  ASSUME TypeOK, StreamInv, pc \in Waiting, UNCHANGED <<correlation, inbound, body>>, correlation \in Corr,
         /\ peer'[correlation].current = peer[correlation].current
         /\ peer'[correlation].sent = peer[correlation].sent
         /\ peer'[correlation].finished = peer[correlation].finished
  PROVE  StreamInv'
  BY DEF StreamInv, Mine

(* An event that is not for the call leaves the ring. *)
LEMMA StreamSkip ==
  ASSUME TypeOK, StreamInv, pc \in Waiting, correlation \in Corr,
         UNCHANGED <<correlation, body, peer>>,
         inbound # <<>>, inbound' = Tail(inbound), ~Mine(1)
  PROVE  StreamInv'
<1>1. /\ Len(inbound) \in Nat /\ Len(inbound) >= 1 /\ Len(inbound') = Len(inbound) - 1
      /\ \A k \in 1 .. Len(inbound) - 1 : inbound'[k] = inbound[k + 1] /\ k + 1 \in 1 .. Len(inbound)
  BY TailAt DEF TypeOK
<1>2. \A k \in 1 .. Len(inbound') : Mine(k)' <=> Mine(k + 1)
  BY <1>1 DEF Mine
<1>3. \A k \in 1 .. Len(inbound) : Mine(k) => k - 1 \in 1 .. Len(inbound') /\ Mine(k - 1)'
  <2> SUFFICES ASSUME NEW k \in 1 .. Len(inbound), Mine(k)
               PROVE  k - 1 \in 1 .. Len(inbound') /\ Mine(k - 1)'
    OBVIOUS
  <2>1. k # 1
    OBVIOUS
  <2>2. k - 1 \in 1 .. Len(inbound) - 1 /\ k - 1 + 1 = k
    BY <1>1, <2>1
  <2>3. inbound'[k - 1] = inbound[k]
    BY <1>1, <2>2
  <2> QED BY <1>1, <2>2, <2>3 DEF Mine
<1>4. \A k \in 1 .. Len(inbound') : Mine(k)' => inbound'[k].i <= inbound'[k].n
  BY <1>1, <1>2 DEF StreamInv
<1>5. ASSUME NEW k \in 1 .. Len(inbound'), Mine(k)', \A j \in 1 .. k - 1 : ~Mine(j)'
      PROVE  /\ inbound'[k].i = Len(body) + 1 /\ inbound'[k].ans = 0
             /\ body # <<>> => inbound'[k].n = body[1].n
  <2>1. k + 1 \in 1 .. Len(inbound) /\ Mine(k + 1) /\ inbound'[k] = inbound[k + 1]
    BY <1>1, <1>2, <1>5
  <2>2. ASSUME NEW j \in 1 .. k + 1 - 1 PROVE ~Mine(j)
    <3>1. j \in 1 .. Len(inbound) /\ j - 1 < k
      BY <1>1
    <3>2. CASE j = 1
      BY <3>2
    <3>3. CASE j # 1
      <4>1. j - 1 \in 1 .. k - 1
        BY <1>1, <3>3
      <4> QED BY <1>3, <1>5, <3>1, <4>1
    <3> QED BY <3>2, <3>3
  <2> QED BY <2>1, <2>2 DEF StreamInv
<1>6. ASSUME NEW k \in 1 .. Len(inbound'), NEW l \in 1 .. Len(inbound'), k < l, Mine(k)', Mine(l)',
             inbound'[k].i < inbound'[k].n, \A j \in k + 1 .. l - 1 : ~Mine(j)'
      PROVE  /\ inbound'[l].i = inbound'[k].i + 1 /\ inbound'[l].ans = inbound'[k].ans
             /\ inbound'[l].n = inbound'[k].n
  <2>1. /\ k + 1 \in 1 .. Len(inbound) /\ Mine(k + 1) /\ inbound'[k] = inbound[k + 1]
        /\ l + 1 \in 1 .. Len(inbound) /\ Mine(l + 1) /\ inbound'[l] = inbound[l + 1]
        /\ k + 1 < l + 1
    BY <1>1, <1>2, <1>6
  <2>2. ASSUME NEW j \in k + 1 + 1 .. l + 1 - 1 PROVE ~Mine(j)
    <3>1. j \in 1 .. Len(inbound) /\ j - 1 \in k + 1 .. l - 1
      BY <1>1, <2>1
    <3> QED BY <1>3, <1>6, <3>1
  <2>3. PICK m \in 1 .. Len(inbound) : m = k + 1
    BY <2>1
  <2>4. PICK n \in 1 .. Len(inbound) : n = l + 1
    BY <2>1
  <2>5. m < n /\ Mine(m) /\ Mine(n) /\ inbound[m].i < inbound[m].n /\ \A j \in m + 1 .. n - 1 : ~Mine(j)
    BY <1>6, <2>1, <2>2, <2>3, <2>4
  <2>6. inbound[n].i = inbound[m].i + 1 /\ inbound[n].ans = inbound[m].ans /\ inbound[n].n = inbound[m].n
    BY <2>5 DEF StreamInv
  <2> QED BY <2>1, <2>3, <2>4, <2>6
<1>7. ASSUME NEW k \in 1 .. Len(inbound'), Mine(k)', inbound'[k].i < inbound'[k].n,
             \A j \in k + 1 .. Len(inbound') : ~Mine(j)'
      PROVE  /\ peer[correlation].current # NoAnswer
             /\ peer[correlation].current.n = inbound'[k].n
             /\ peer[correlation].sent = inbound'[k].i
             /\ peer[correlation].finished = inbound'[k].ans
  <2>1. /\ k + 1 \in 1 .. Len(inbound) /\ Mine(k + 1) /\ inbound'[k] = inbound[k + 1]
    BY <1>1, <1>2, <1>7
  <2>2. ASSUME NEW j \in k + 1 + 1 .. Len(inbound) PROVE ~Mine(j)
    <3>1. j \in 1 .. Len(inbound) /\ j - 1 \in k + 1 .. Len(inbound')
      BY <1>1, <2>1
    <3> QED BY <1>3, <1>7, <3>1
  <2> QED BY <1>7, <2>1, <2>2 DEF StreamInv
<1>8. (\A k \in 1 .. Len(inbound') : ~Mine(k)') => \A k \in 1 .. Len(inbound) : ~Mine(k)
  BY <1>3
<1> QED BY <1>4, <1>5, <1>6, <1>7, <1>8 DEF StreamInv

(* An event that is not for the call enters the ring. *)
LEMMA StreamAdd ==
  ASSUME TypeOK, StreamInv, pc \in Waiting, correlation \in Corr, UNCHANGED <<correlation, body>>,
         /\ peer'[correlation].current = peer[correlation].current
         /\ peer'[correlation].sent = peer[correlation].sent
         /\ peer'[correlation].finished = peer[correlation].finished,
         NEW e \in Event, inbound' = Append(inbound, e),
         ~(e.type = "result" /\ e.corr = correlation)
  PROVE  StreamInv'
<1>0. PICK L \in Nat : L = Len(inbound)
  BY DEF TypeOK
<1>1. /\ Len(inbound') = Len(inbound) + 1 /\ Len(inbound) \in Nat
      /\ inbound'[L + 1] = e
      /\ \A k \in 1 .. Len(inbound) : inbound'[k] = inbound[k]
  BY <1>0, AppendAt DEF TypeOK
<1>2. \A k \in 1 .. Len(inbound) : Mine(k)' <=> Mine(k)
  BY <1>1 DEF Mine
<1>3. ~Mine(L + 1)'
  BY <1>1 DEF Mine
<1>4. \A k \in 1 .. Len(inbound') : Mine(k)' => k \in 1 .. Len(inbound) /\ Mine(k)
  <2> SUFFICES ASSUME NEW k \in 1 .. Len(inbound'), Mine(k)'
               PROVE  k \in 1 .. Len(inbound) /\ Mine(k)
    OBVIOUS
  <2>1. k # L + 1
    BY <1>3
  <2>2. k \in 1 .. Len(inbound)
    BY <1>0, <1>1, <2>1
  <2> QED BY <1>2, <2>2
<1>5. \A k \in 1 .. Len(inbound') : Mine(k)' => inbound'[k].i <= inbound'[k].n
  BY <1>1, <1>4 DEF StreamInv
<1>6. ASSUME NEW k \in 1 .. Len(inbound'), Mine(k)', \A j \in 1 .. k - 1 : ~Mine(j)'
      PROVE  /\ inbound'[k].i = Len(body) + 1 /\ inbound'[k].ans = 0
             /\ body # <<>> => inbound'[k].n = body[1].n
  <2>1. k \in 1 .. Len(inbound) /\ Mine(k) /\ inbound'[k] = inbound[k]
    BY <1>1, <1>4, <1>6
  <2>2. \A j \in 1 .. k - 1 : j \in 1 .. Len(inbound)
    BY <1>1, <2>1
  <2>3. \A j \in 1 .. k - 1 : ~Mine(j)
    BY <1>2, <1>6, <2>2
  <2> QED BY <2>1, <2>3 DEF StreamInv
<1>7. ASSUME NEW k \in 1 .. Len(inbound'), NEW l \in 1 .. Len(inbound'), k < l, Mine(k)', Mine(l)',
             inbound'[k].i < inbound'[k].n, \A j \in k + 1 .. l - 1 : ~Mine(j)'
      PROVE  /\ inbound'[l].i = inbound'[k].i + 1 /\ inbound'[l].ans = inbound'[k].ans
             /\ inbound'[l].n = inbound'[k].n
  <2>1. /\ k \in 1 .. Len(inbound) /\ Mine(k) /\ inbound'[k] = inbound[k]
        /\ l \in 1 .. Len(inbound) /\ Mine(l) /\ inbound'[l] = inbound[l]
    BY <1>1, <1>4, <1>7
  <2>2. \A j \in k + 1 .. l - 1 : j \in 1 .. Len(inbound)
    BY <1>1, <2>1
  <2>3. \A j \in k + 1 .. l - 1 : ~Mine(j)
    BY <1>2, <1>7, <2>2
  <2> QED BY <1>7, <2>1, <2>3 DEF StreamInv
<1>8. ASSUME NEW k \in 1 .. Len(inbound'), Mine(k)', inbound'[k].i < inbound'[k].n,
             \A j \in k + 1 .. Len(inbound') : ~Mine(j)'
      PROVE  /\ peer[correlation].current # NoAnswer
             /\ peer[correlation].current.n = inbound'[k].n
             /\ peer[correlation].sent = inbound'[k].i
             /\ peer[correlation].finished = inbound'[k].ans
  <2>1. k \in 1 .. Len(inbound) /\ Mine(k) /\ inbound'[k] = inbound[k]
    BY <1>1, <1>4, <1>8
  <2>2. \A j \in k + 1 .. Len(inbound) : j \in 1 .. Len(inbound) /\ j \in k + 1 .. Len(inbound')
    BY <1>1, <2>1
  <2>3. \A j \in k + 1 .. Len(inbound) : ~Mine(j)
    BY <1>2, <1>8, <2>2
  <2>4. inbound[k].i < inbound[k].n
    BY <1>8, <2>1
  <2>5. /\ peer[correlation].current # NoAnswer
        /\ peer[correlation].current.n = inbound[k].n
        /\ peer[correlation].sent = inbound[k].i
        /\ peer[correlation].finished = inbound[k].ans
    BY <2>1, <2>3, <2>4 DEF StreamInv
  <2> QED BY <2>1, <2>5
<1>9. (\A k \in 1 .. Len(inbound') : ~Mine(k)') => \A k \in 1 .. Len(inbound) : ~Mine(k)
  BY <1>1, <1>2
<1> QED BY <1>5, <1>6, <1>7, <1>8, <1>9, SMTT(20) DEF StreamInv

(* The module starts an answer. *)
LEMMA StreamAnswer ==
  ASSUME TypeOK, StreamInv, pc \in Waiting, correlation \in Corr,
         NEW a \in Answer, ModuleAnswer(correlation, a)
  PROVE  StreamInv'
<1>1. /\ UNCHANGED <<correlation, inbound, body>> /\ peer[correlation].current = NoAnswer
      /\ peer'[correlation].sent = 0 /\ peer'[correlation].finished = peer[correlation].finished
  BY ModuleAnswerEffect DEF ModuleAnswer, callerVars
<1> DEFINE Bounds == \A k \in 1 .. Len(inbound) : Mine(k) => inbound[k].i <= inbound[k].n
           First == \A k \in 1 .. Len(inbound) : Mine(k) /\ (\A j \in 1 .. k - 1 : ~Mine(j)) =>
                      /\ inbound[k].i = Len(body) + 1 /\ inbound[k].ans = 0
                      /\ body # <<>> => inbound[k].n = body[1].n
           Chain == \A k, l \in 1 .. Len(inbound) :
                      /\ k < l /\ Mine(k) /\ Mine(l) /\ inbound[k].i < inbound[k].n
                      /\ \A j \in k + 1 .. l - 1 : ~Mine(j)
                      => /\ inbound[l].i = inbound[k].i + 1 /\ inbound[l].ans = inbound[k].ans
                         /\ inbound[l].n = inbound[k].n
<1>2. Bounds' /\ First' /\ Chain'
  <2>1. Bounds /\ First /\ Chain
    BY DEF StreamInv
  <2> QED BY <1>1, <2>1 DEF Mine
<1>3. \A k \in 1 .. Len(inbound') : Mine(k)' /\ (\A j \in k + 1 .. Len(inbound') : ~Mine(j)') =>
        ~(inbound'[k].i < inbound'[k].n)
  <2>1. \A k \in 1 .. Len(inbound) : Mine(k) /\ (\A j \in k + 1 .. Len(inbound) : ~Mine(j)) =>
          ~(inbound[k].i < inbound[k].n)
    BY <1>1 DEF StreamInv
  <2> QED BY <1>1, <2>1 DEF Mine
<1>4. (\A k \in 1 .. Len(inbound') : ~Mine(k)') => peer[correlation].finished = 0 /\ body = <<>>
  <2>1. (\A k \in 1 .. Len(inbound) : ~Mine(k)) => peer[correlation].finished = 0 /\ body = <<>>
    BY <1>1 DEF StreamInv
  <2> QED BY <1>1, <2>1 DEF Mine
<1> QED BY <1>1, <1>2, <1>3, <1>4 DEF StreamInv

(* The module sends a fragment for the call. *)
LEMMA StreamSend ==
  ASSUME TypeOK, PeerInv, StreamInv, pc \in Waiting, correlation \in Corr, ModuleSend(correlation)
  PROVE  StreamInv'
<1>0. PICK L \in Nat : L = Len(inbound)
  BY DEF TypeOK
<1>1. PICK e : e = Fragment(correlation, peer[correlation].finished, peer[correlation].sent + 1,
                            peer[correlation].current)
  OBVIOUS
<1>2. /\ UNCHANGED <<correlation, body>> /\ inbound' = Append(inbound, e)
      /\ peer[correlation].current # NoAnswer
  BY <1>1 DEF ModuleSend, callerVars
<1>3. /\ peer[correlation].sent \in Nat /\ peer[correlation].finished \in 0 .. MaxAnswers
      /\ peer[correlation].current.n \in Nat /\ peer[correlation].finished < MaxAnswers
      /\ peer[correlation].current.status \in {"OK", "Failure"}
      /\ peer[correlation].sent < peer[correlation].current.n
  BY <1>2, ModuleSendEffect, CallerAssumption DEF TypeOK, Peer, PeerInv
<1>4. /\ e.type = "result" /\ e.corr = correlation /\ e.ans = peer[correlation].finished
      /\ e.i = peer[correlation].sent + 1 /\ e.n = peer[correlation].current.n
  BY <1>1 DEF Fragment
<1>5. e \in Event
  BY <1>1, <1>3 DEF Fragment, Event
<1>6. /\ Len(inbound') = L + 1 /\ inbound'[L + 1] = e
      /\ \A k \in 1 .. L : inbound'[k] = inbound[k]
  BY <1>0, <1>2, <1>5, AppendAt DEF TypeOK
<1>7. \A k \in 1 .. L : Mine(k)' <=> Mine(k)
  BY <1>2, <1>6 DEF Mine
<1>8. Mine(L + 1)' /\ L + 1 \in 1 .. Len(inbound')
  BY <1>2, <1>4, <1>6 DEF Mine
<1>9. \A k \in 1 .. Len(inbound') : k \in 1 .. L \/ k = L + 1
  BY <1>6
<1>10. \A k \in 1 .. Len(inbound') : Mine(k)' => inbound'[k].i <= inbound'[k].n
  <2>1. e.i <= e.n
    BY <1>3, <1>4
  <2> QED BY <1>0, <1>6, <1>7, <1>9, <2>1 DEF StreamInv
<1>11. ASSUME NEW k \in 1 .. Len(inbound'), Mine(k)', \A j \in 1 .. k - 1 : ~Mine(j)'
       PROVE  /\ inbound'[k].i = Len(body) + 1 /\ inbound'[k].ans = 0
              /\ body # <<>> => inbound'[k].n = body[1].n
  <2>1. \A j \in 1 .. k - 1 : j \in 1 .. L
    BY <1>6
  <2>2. \A j \in 1 .. k - 1 : ~Mine(j)
    BY <1>7, <1>11, <2>1
  <2>3. CASE k \in 1 .. L
    <3>1. Mine(k) /\ inbound'[k] = inbound[k]
      BY <1>6, <1>7, <1>11, <2>3
    <3> QED BY <1>0, <2>2, <2>3, <3>1 DEF StreamInv
  <2>4. CASE k = L + 1
    <3>1. \A j \in 1 .. Len(inbound) : ~Mine(j)
      BY <1>0, <2>2, <2>4
    <3>2. /\ peer[correlation].finished = 0
          /\ IF body = <<>> THEN peer[correlation].sent = 0
             ELSE peer[correlation].current.n = body[1].n /\ peer[correlation].sent = Len(body)
      BY <1>2, <3>1 DEF StreamInv
    <3>3. Len(<<>>) = 0
      OBVIOUS
    <3> QED BY <1>4, <1>6, <2>4, <3>2, <3>3
  <2> QED BY <1>9, <2>3, <2>4
<1>12. ASSUME NEW k \in 1 .. Len(inbound'), NEW l \in 1 .. Len(inbound'), k < l, Mine(k)', Mine(l)',
              inbound'[k].i < inbound'[k].n, \A j \in k + 1 .. l - 1 : ~Mine(j)'
       PROVE  /\ inbound'[l].i = inbound'[k].i + 1 /\ inbound'[l].ans = inbound'[k].ans
              /\ inbound'[l].n = inbound'[k].n
  <2>1. k \in 1 .. L /\ Mine(k) /\ inbound'[k] = inbound[k]
    <3>1. k \in 1 .. L
      BY <1>6, <1>12
    <3> QED BY <1>6, <1>7, <1>12, <3>1
  <2>2. \A j \in k + 1 .. l - 1 : j \in 1 .. L
    BY <1>6, <2>1
  <2>3. \A j \in k + 1 .. l - 1 : ~Mine(j)
    BY <1>7, <1>12, <2>2
  <2>4. CASE l \in 1 .. L
    <3>1. Mine(l) /\ inbound'[l] = inbound[l]
      BY <1>6, <1>7, <1>12, <2>4
    <3> QED BY <1>0, <1>12, <2>1, <2>3, <2>4, <3>1 DEF StreamInv
  <2>5. CASE l = L + 1
    <3>1. \A j \in k + 1 .. Len(inbound) : ~Mine(j)
      BY <1>0, <2>3, <2>5
    <3>2. /\ peer[correlation].current.n = inbound[k].n
          /\ peer[correlation].sent = inbound[k].i
          /\ peer[correlation].finished = inbound[k].ans
      BY <1>0, <1>12, <2>1, <3>1 DEF StreamInv
    <3> QED BY <1>4, <1>6, <2>1, <2>5, <3>2
  <2> QED BY <1>9, <2>4, <2>5
<1>13. ASSUME NEW k \in 1 .. Len(inbound'), Mine(k)', inbound'[k].i < inbound'[k].n,
              \A j \in k + 1 .. Len(inbound') : ~Mine(j)'
       PROVE  /\ peer'[correlation].current # NoAnswer
              /\ peer'[correlation].current.n = inbound'[k].n
              /\ peer'[correlation].sent = inbound'[k].i
              /\ peer'[correlation].finished = inbound'[k].ans
  <2>1. k = L + 1
    <3>1. k \in 1 .. L => L + 1 \in k + 1 .. Len(inbound')
      BY <1>6
    <3> QED BY <1>8, <1>9, <1>13, <3>1
  <2>2. e.i # e.n
    BY <1>3, <1>4, <1>6, <1>13, <2>1
  <2>3. /\ peer'[correlation].current = peer[correlation].current
        /\ peer'[correlation].sent = peer[correlation].sent + 1
        /\ peer'[correlation].finished = peer[correlation].finished
    BY <1>4, <2>2, ModuleSendEffect
  <2> QED BY <1>2, <1>4, <1>6, <2>1, <2>3
<1>14. ~ \A k \in 1 .. Len(inbound') : ~Mine(k)'
  BY <1>8
<1>15. correlation' = correlation /\ body' = body
  BY <1>2
<1> QED BY <1>10, <1>11, <1>12, <1>13, <1>14, <1>15 DEF StreamInv

(* The caller reads a fragment and goes on. *)
LEMMA StreamRead ==
  ASSUME TypeOK, StreamInv, pc \in Waiting, correlation \in Corr,
         UNCHANGED <<correlation, peer>>,
         inbound # <<>>, inbound' = Tail(inbound), Mine(1), inbound[1].i < inbound[1].n,
         body' = Append(body, inbound[1])
  PROVE  StreamInv'
<1>1. /\ Len(inbound) \in Nat /\ Len(inbound) >= 1 /\ Len(inbound') = Len(inbound) - 1
      /\ \A k \in 1 .. Len(inbound) - 1 : inbound'[k] = inbound[k + 1] /\ k + 1 \in 1 .. Len(inbound)
      /\ inbound[1] \in Event
  BY TailAt DEF TypeOK
<1>2. \A k \in 1 .. Len(inbound') : Mine(k)' <=> Mine(k + 1)
  BY <1>1 DEF Mine
<1>3. ASSUME NEW k \in 2 .. Len(inbound) PROVE k - 1 \in 1 .. Len(inbound') /\ Mine(k) => Mine(k - 1)'
  <2>1. k - 1 \in 1 .. Len(inbound) - 1 /\ k - 1 + 1 = k
    BY <1>1
  <2>2. inbound'[k - 1] = inbound[k]
    BY <1>1, <2>1
  <2> QED BY <1>1, <2>1, <2>2 DEF Mine
<1>4. /\ Len(body') = Len(body) + 1 /\ Len(body) \in Nat /\ body'[Len(body) + 1] = inbound[1]
      /\ \A k \in 1 .. Len(body) : body'[k] = body[k]
  BY <1>1, AppendAt DEF TypeOK
<1>5. /\ inbound[1].i = Len(body) + 1 /\ inbound[1].ans = 0 /\ body'[1].n = inbound[1].n /\ body' # <<>>
  <2>1. /\ inbound[1].i = Len(body) + 1 /\ inbound[1].ans = 0
        /\ body # <<>> => inbound[1].n = body[1].n
    <3>1. 1 \in 1 .. Len(inbound) /\ \A j \in 1 .. 1 - 1 : ~Mine(j)
      BY <1>1
    <3> QED BY <3>1 DEF StreamInv
  <2>2. body' # <<>>
    BY <1>4
  <2>3. CASE body = <<>>
    <3>1. Len(body) = 0
      BY <2>3
    <3>2. body'[1] = inbound[1]
      BY <1>4, <3>1
    <3> QED BY <2>1, <2>2, <3>2
  <2>4. CASE body # <<>>
    <3>1. 1 \in 1 .. Len(body)
      BY <1>4, <2>4 DEF TypeOK
    <3> QED BY <1>4, <2>1, <2>2, <2>4, <3>1
  <2> QED BY <2>3, <2>4
<1>6. \A k \in 1 .. Len(inbound') : Mine(k)' => inbound'[k].i <= inbound'[k].n
  BY <1>1, <1>2 DEF StreamInv
<1>7. ASSUME NEW k \in 1 .. Len(inbound'), Mine(k)', \A j \in 1 .. k - 1 : ~Mine(j)'
      PROVE  /\ inbound'[k].i = Len(body') + 1 /\ inbound'[k].ans = 0
             /\ inbound'[k].n = body'[1].n
  <2>1. PICK m \in 1 .. Len(inbound) : m = k + 1
    BY <1>1
  <2>2. Mine(m) /\ inbound'[k] = inbound[m] /\ 1 < m /\ 1 \in 1 .. Len(inbound)
    BY <1>1, <1>2, <1>7, <2>1
  <2>3. ASSUME NEW j \in 1 + 1 .. m - 1 PROVE ~Mine(j)
    <3>1. j \in 2 .. Len(inbound) /\ j - 1 \in 1 .. k - 1
      BY <1>1, <2>1
    <3> QED BY <1>3, <1>7, <3>1
  <2>4. inbound[m].i = inbound[1].i + 1 /\ inbound[m].ans = inbound[1].ans /\ inbound[m].n = inbound[1].n
    BY <2>2, <2>3 DEF StreamInv
  <2> QED BY <1>4, <1>5, <2>2, <2>4
<1>8. ASSUME NEW k \in 1 .. Len(inbound'), NEW l \in 1 .. Len(inbound'), k < l, Mine(k)', Mine(l)',
             inbound'[k].i < inbound'[k].n, \A j \in k + 1 .. l - 1 : ~Mine(j)'
      PROVE  /\ inbound'[l].i = inbound'[k].i + 1 /\ inbound'[l].ans = inbound'[k].ans
             /\ inbound'[l].n = inbound'[k].n
  <2>1. PICK m \in 1 .. Len(inbound) : m = k + 1
    BY <1>1
  <2>2. PICK n \in 1 .. Len(inbound) : n = l + 1
    BY <1>1
  <2>3. /\ Mine(m) /\ inbound'[k] = inbound[m] /\ Mine(n) /\ inbound'[l] = inbound[n] /\ m < n
    BY <1>1, <1>2, <1>8, <2>1, <2>2
  <2>4. ASSUME NEW j \in m + 1 .. n - 1 PROVE ~Mine(j)
    <3>1. j \in 2 .. Len(inbound) /\ j - 1 \in k + 1 .. l - 1
      BY <1>1, <2>1, <2>2
    <3> QED BY <1>3, <1>8, <3>1
  <2>5. inbound[n].i = inbound[m].i + 1 /\ inbound[n].ans = inbound[m].ans /\ inbound[n].n = inbound[m].n
    BY <1>8, <2>3, <2>4 DEF StreamInv
  <2> QED BY <2>3, <2>5
<1>9. ASSUME NEW k \in 1 .. Len(inbound'), Mine(k)', inbound'[k].i < inbound'[k].n,
             \A j \in k + 1 .. Len(inbound') : ~Mine(j)'
      PROVE  /\ peer[correlation].current # NoAnswer
             /\ peer[correlation].current.n = inbound'[k].n
             /\ peer[correlation].sent = inbound'[k].i
             /\ peer[correlation].finished = inbound'[k].ans
  <2>1. PICK m \in 1 .. Len(inbound) : m = k + 1
    BY <1>1
  <2>2. Mine(m) /\ inbound'[k] = inbound[m]
    BY <1>1, <1>2, <1>9, <2>1
  <2>3. ASSUME NEW j \in m + 1 .. Len(inbound) PROVE ~Mine(j)
    <3>1. j \in 2 .. Len(inbound) /\ j - 1 \in k + 1 .. Len(inbound')
      BY <1>1, <2>1
    <3> QED BY <1>3, <1>9, <3>1
  <2> QED BY <1>9, <2>2, <2>3 DEF StreamInv
<1>10. ASSUME \A k \in 1 .. Len(inbound') : ~Mine(k)'
       PROVE  /\ peer[correlation].finished = 0
              /\ peer[correlation].current # NoAnswer
              /\ peer[correlation].current.n = body'[1].n
              /\ peer[correlation].sent = Len(body')
  <2>1. \A j \in 2 .. Len(inbound) : ~Mine(j)
    BY <1>3, <1>10
  <2>2. 1 \in 1 .. Len(inbound) /\ \A j \in 1 + 1 .. Len(inbound) : ~Mine(j)
    BY <1>1, <2>1
  <2>3. /\ peer[correlation].current # NoAnswer
        /\ peer[correlation].current.n = inbound[1].n
        /\ peer[correlation].sent = inbound[1].i
        /\ peer[correlation].finished = inbound[1].ans
    BY <2>2 DEF StreamInv
  <2> QED BY <1>4, <1>5, <2>3
<1> QED BY <1>5, <1>6, <1>7, <1>8, <1>9, <1>10 DEF StreamInv

(* A call starts with a correlation nothing in the ring carries. *)
LEMMA StreamNew ==
  ASSUME TypeOK, CallInv, NEW len, NEW stageOK, NEW deadline, Call(len, stageOK, deadline)
  PROVE  StreamInv'
<1>1. /\ correlation' = correlation + 1 /\ body' = <<>> /\ UNCHANGED <<inbound, peer>>
      /\ correlation \in Nat /\ correlation + 1 \in Corr
  BY CallerAssumption DEF Call, TypeOK, Corr
<1>2. \A k \in 1 .. Len(inbound') : ~Mine(k)'
  BY <1>1 DEF Mine, CallInv
<1>3. peer'[correlation'].finished = 0 /\ peer'[correlation'].current = NoAnswer
  BY <1>1 DEF CallInv
<1> QED BY <1>1, <1>2, <1>3 DEF StreamInv

(* The fragments of the call in progress stay a stream, whatever anyone does. *)
LEMMA StreamStep == TypeOK /\ CallInv /\ PeerInv /\ StreamInv /\ [Next]_vars => StreamInv'
<1> SUFFICES ASSUME TypeOK, CallInv, PeerInv, StreamInv, [Next]_vars PROVE StreamInv'
  OBVIOUS
<1> USE DEF callerVars, envVars
<1>0. pc \in Waiting => correlation \in Corr
  BY DEF CallInv, Waiting
<1>L. CASE pc' \notin Waiting
  BY <1>L DEF StreamInv
<1>K. ASSUME pc \in Waiting, UNCHANGED <<correlation, inbound, body, peer>> PROVE StreamInv'
  BY <1>0, <1>K, StreamKept
<1>E. ASSUME NEW e, PollEvent(e) PROVE inbound # <<>> /\ e = inbound[1] /\ inbound' = Tail(inbound)
  <2>1. inbound # <<>> /\ e = Head(inbound) /\ inbound' = Tail(inbound) /\ inbound \in Seq(Event)
    BY <1>E DEF PollEvent, TypeOK
  <2> QED BY <2>1, TailAt
<1>1. ASSUME NEW len, NEW stageOK, NEW deadline, Call(len, stageOK, deadline) PROVE StreamInv'
  BY <1>1, StreamNew
<1>2. ASSUME SendFragment \/ EmptySleep PROVE StreamInv'
  BY <1>2, <1>K DEF SendFragment, MaySend, EmptySleep, Waiting
<1>3. ASSUME PollNothing PROVE StreamInv'
  <2>1. pc \in Waiting /\ UNCHANGED <<correlation, body, peer>>
    BY <1>3 DEF PollNothing, Waiting
  <2>2. CASE UNCHANGED inbound
    BY <1>K, <2>1, <2>2
  <2>3. CASE inbound # <<>> /\ Head(inbound).type = "garbage" /\ inbound' = Tail(inbound)
    <3>1. Head(inbound) = inbound[1]
      BY <2>3, TailAt DEF TypeOK
    <3>2. ~Mine(1)
      BY <2>3, <3>1 DEF Mine
    <3> QED BY <1>0, <2>1, <2>3, <3>2, StreamSkip
  <2> QED BY <1>3, <2>2, <2>3 DEF PollNothing
<1>4. ASSUME NEW e, PollSkip(e) PROVE StreamInv'
  <2>1. pc \in Waiting /\ UNCHANGED <<correlation, body, peer>> /\ PollEvent(e)
    BY <1>4 DEF PollSkip, PollEvent, Waiting
  <2>2. ~Mine(1)
    BY <1>4, <1>E, <2>1 DEF PollSkip, Mine, ForThisCall
  <2> QED BY <1>0, <1>E, <2>1, <2>2, StreamSkip
<1>5. ASSUME NEW e, PollFragment(e) PROVE StreamInv'
  <2>1. /\ pc \in Waiting /\ UNCHANGED <<correlation, peer>> /\ PollEvent(e)
        /\ e.type = "result" /\ e.corr = correlation /\ e.i < e.n /\ body' = Append(body, e)
    BY <1>5 DEF PollFragment, PollResult, PollEvent, ForThisCall, Waiting
  <2>2. Mine(1)
    BY <1>E, <2>1 DEF Mine
  <2> QED BY <1>0, <1>E, <2>1, <2>2, StreamRead
<1>6. ASSUME pc \in Waiting, HostTake PROVE StreamInv'
  BY <1>0, <1>6, HostTakeEffect, StreamKept DEF HostTake
<1>N. ASSUME pc \in Waiting, NEW type \in {"absent", "error", "garbage", "other"}, NEW c \in Corr,
             UNCHANGED <<correlation, body>>, inbound' = Append(inbound, Noise(type, c)),
             /\ peer'[correlation].current = peer[correlation].current
             /\ peer'[correlation].sent = peer[correlation].sent
             /\ peer'[correlation].finished = peer[correlation].finished
      PROVE  StreamInv'
  <2>1. PICK e : e = Noise(type, c)
    OBVIOUS
  <2>2. e \in Event /\ e.type # "result"
    BY <2>1, CallerAssumption DEF Noise, Event
  <2> QED BY <1>0, <1>N, <2>1, <2>2, StreamAdd
<1>7. ASSUME pc \in Waiting, NEW type \in {"absent", "error"}, HostRefuse(type) PROVE StreamInv'
  <2>1. PICK c \in Corr : c = Head(outbound).corr
    BY <1>7, HostRefuseEffect DEF Frame
  <2>2. inbound' = Append(inbound, Noise(type, c)) /\ UNCHANGED <<correlation, body>>
    BY <1>7, <2>1 DEF HostRefuse
  <2> QED BY <1>0, <1>7, <1>N, <2>1, <2>2, HostRefuseEffect
<1>8. ASSUME pc \in Waiting, NEW type \in {"garbage", "other"}, HostNoise(type) PROVE StreamInv'
  BY <1>0, <1>8, <1>N DEF HostNoise
<1>9. ASSUME pc \in Waiting, NEW c \in Corr, NEW a \in Answer, ModuleAnswer(c, a) PROVE StreamInv'
  <2>1. CASE c = correlation
    BY <1>0, <1>9, <2>1, StreamAnswer
  <2>2. CASE c # correlation
    BY <1>0, <1>9, <2>2, ModuleAnswerEffect, StreamKept DEF ModuleAnswer
  <2> QED BY <2>1, <2>2
<1>10. ASSUME pc \in Waiting, NEW c \in Corr, ModuleSend(c) PROVE StreamInv'
  <2>1. CASE c = correlation
    BY <1>0, <1>10, <2>1, StreamSend
  <2>2. CASE c # correlation
    <3>1. PICK e : e = Fragment(c, peer[c].finished, peer[c].sent + 1, peer[c].current)
      OBVIOUS
    <3>2. inbound' = Append(inbound, e) /\ UNCHANGED <<correlation, body>>
      BY <1>10, <3>1 DEF ModuleSend
    <3>3. /\ peer[c].sent \in Nat /\ peer[c].finished \in 0 .. MaxAnswers
          /\ peer[c].current.n \in Nat /\ peer[c].current.status \in {"OK", "Failure"}
      BY <1>10, ModuleSendEffect, CallerAssumption DEF TypeOK, Peer
    <3>4. e \in Event /\ e.corr # correlation
      BY <2>2, <3>1, <3>3 DEF Fragment, Event
    <3>5. peer'[correlation] = peer[correlation]
      BY <1>0, <1>10, <2>2, ModuleSendEffect
    <3> QED BY <1>0, <1>10, <3>2, <3>4, <3>5, StreamAdd
  <2> QED BY <2>1, <2>2
<1>11. ASSUME pc \in Waiting, PollRelease \/ HostRestart \/ Expire \/ CtxCancel \/ UNCHANGED vars
       PROVE  StreamInv'
  BY <1>11, <1>K DEF PollRelease, HostRestart, Expire, CtxCancel, vars
<1>12. ASSUME pc' \in Waiting, pc \notin Waiting
       PROVE  \E len, stageOK, deadline : Call(len, stageOK, deadline)
  BY <1>12 DEF Next, InCall, AwaitReply, Environment, SendRefused, SendError, SendFragment, MaySend,
         PollEpoch, PollRelease, PollNothing, EmptyGiveUp, EmptySleep, PollControl, PollSkip, PollStatus,
         PollTooLong, PollFragment, PollFinal, PollResult, PollEvent, Cancel, Return, Fail,
         HostTake, HostRefuse, ModuleAnswer, ModuleSend, HostRestart,
         Expire, CtxCancel, HostNoise, vars, Waiting
<1>13. ASSUME pc' \in Waiting, pc \in Waiting
       PROVE  \/ SendFragment \/ EmptySleep \/ PollNothing \/ PollRelease \/ (\E e : PollSkip(e) \/ PollFragment(e))
              \/ HostTake \/ (\E type \in {"absent", "error"} : HostRefuse(type))
              \/ (\E type \in {"garbage", "other"} : HostNoise(type))
              \/ (\E c \in Corr : (\E a \in Answer : ModuleAnswer(c, a)) \/ ModuleSend(c))
              \/ HostRestart \/ Expire \/ CtxCancel \/ UNCHANGED vars
              \/ (\E len, stageOK, deadline : Call(len, stageOK, deadline))
  BY <1>13 DEF Next, InCall, AwaitReply, Environment, SendRefused, SendError, PollEpoch,
         EmptyGiveUp, PollControl, PollStatus, PollTooLong, PollFinal, Cancel, Return, Fail, Waiting
<1> QED BY <1>L, <1>1, <1>2, <1>3, <1>4, <1>5, <1>6, <1>7, <1>8, <1>9, <1>10, <1>11, <1>12, <1>13

(* A fragment that is taken continues the reply. *)
LEMMA BodyAdd ==
  ASSUME TypeOK, StreamInv, BodyInv, NEW e, PollResult(e), body' = Append(body, e)
  PROVE  /\ Len(body') = e.i /\ Len(body') # 0 /\ body'[1].n = e.n
         /\ \A i \in 1 .. Len(body') :
              /\ body'[i].corr = correlation /\ body'[i].i = i
              /\ body'[i].ans = 0 /\ body'[i].n = e.n
<1>1. /\ inbound # <<>> /\ e = Head(inbound) /\ pc \in Waiting /\ e.type = "result" /\ e.corr = correlation
  BY DEF PollResult, PollEvent, ForThisCall, Waiting
<1>2. Len(inbound) >= 1 /\ Len(inbound) \in Nat /\ e = inbound[1] /\ e \in Event
  BY <1>1, TailAt DEF TypeOK
<1>3. 1 \in 1 .. Len(inbound) /\ Mine(1) /\ \A j \in 1 .. 1 - 1 : ~Mine(j)
  BY <1>1, <1>2 DEF Mine
<1>4. e.i = Len(body) + 1 /\ e.ans = 0 /\ (body # <<>> => e.n = body[1].n)
  BY <1>1, <1>2, <1>3 DEF StreamInv
<1>5. /\ Len(body') = Len(body) + 1 /\ Len(body) \in Nat /\ body'[Len(body) + 1] = e
      /\ \A k \in 1 .. Len(body) : body'[k] = body[k]
  BY <1>2, AppendAt DEF TypeOK
<1>6. ASSUME NEW i \in 1 .. Len(body')
      PROVE  /\ body'[i].corr = correlation /\ body'[i].i = i
             /\ body'[i].ans = 0 /\ body'[i].n = e.n
  <2>1. CASE i = Len(body) + 1
    BY <1>1, <1>4, <1>5, <2>1
  <2>2. CASE i \in 1 .. Len(body)
    <3>1. body # <<>>
      BY <1>5, <2>2
    <3>2. body'[i] = body[i] /\ body[i].corr = correlation /\ body[i].i = i /\ body[i].ans = 0
          /\ body[i].n = body[1].n
      BY <1>5, <2>2 DEF BodyInv, ReplyIsOwn
    <3> QED BY <1>4, <3>1, <3>2
  <2> QED BY <1>5, <2>1, <2>2
<1>7. 1 \in 1 .. Len(body')
  BY <1>5
<1> QED BY <1>4, <1>5, <1>6, <1>7

(* What is read belongs to one answer, in order. *)
LEMMA BodyStep == TypeOK /\ CallInv /\ StreamInv /\ BodyInv /\ [Next]_vars => BodyInv'
<1> SUFFICES ASSUME TypeOK, CallInv, StreamInv, BodyInv, [Next]_vars PROVE BodyInv'
  OBVIOUS
<1> USE DEF callerVars, envVars
<1>1. ASSUME body' = <<>> PROVE BodyInv'
  <2>1. 1 .. Len(body') = {}
    BY <1>1
  <2> QED BY <1>1, <2>1 DEF BodyInv, ReplyIsOwn
<1>2. ASSUME UNCHANGED <<body, correlation>>, pc' = "idle" => pc = "idle",
             pc' \in Waiting => pc \in Waiting
      PROVE  BodyInv'
  BY <1>2 DEF BodyInv, ReplyIsOwn
<1>3. ASSUME NEW e, PollFragment(e) PROVE BodyInv'
  <2>1. /\ PollResult(e) /\ body' = Append(body, e) /\ e.i < e.n /\ correlation' = correlation
        /\ pc' = "await"
    BY <1>3 DEF PollFragment, PollResult, PollEvent
  <2>2. 1 \in 1 .. Len(body')
    BY <2>1, BodyAdd DEF TypeOK
  <2> QED BY <2>1, <2>2, BodyAdd DEF BodyInv, ReplyIsOwn
<1>4. ASSUME NEW e, PollFinal(e) PROVE BodyInv'
  <2>1. /\ PollResult(e) /\ body' = Append(body, e) /\ e.i = e.n /\ correlation' = correlation
        /\ pc' = "idle"
    BY <1>4 DEF PollFinal
  <2>2. 1 \in 1 .. Len(body')
    BY <2>1, BodyAdd DEF TypeOK
  <2> QED BY <2>1, <2>2, BodyAdd DEF BodyInv, ReplyIsOwn, Waiting
<1>5. \/ body' = <<>> \/ (\E e : PollFragment(e) \/ PollFinal(e))
      \/ /\ UNCHANGED <<body, correlation>> /\ (pc' = "idle" => pc = "idle")
         /\ (pc' \in Waiting => pc \in Waiting)
  BY ZenonT(40) DEF Next, InCall, AwaitReply, Environment, Call, SendRefused, SendError, SendFragment, MaySend,
         PollEpoch, PollRelease, PollNothing, EmptyGiveUp, EmptySleep, PollControl, PollSkip, PollStatus,
         PollTooLong, PollResult, PollEvent, Cancel, Return, Fail,
         HostTake, HostRefuse, ModuleAnswer, ModuleSend, HostRestart,
         Expire, CtxCancel, HostNoise, vars, Waiting
<1> QED BY <1>1, <1>2, <1>3, <1>4, <1>5
-------------------------------------------------------------------------------
(* A caller that has made no call satisfies the invariant. *)
LEMMA InitInv == Init => CallerInv
<1> SUFFICES ASSUME Init PROVE CallerInv
  OBVIOUS
<1>1. /\ Len(body) = 0 /\ Len(inbound) = 0 /\ Len(outbound) = 0
      /\ 1 .. Len(body) = {} /\ 1 .. Len(inbound) = {} /\ 1 .. Len(outbound) = {}
  BY DEF Init
<1>2. \A c \in Corr : peer[c] = [request |-> "none", finished |-> 0, current |-> NoAnswer, sent |-> 0]
  BY DEF Init
<1>3. [request |-> "none", finished |-> 0, current |-> NoAnswer, sent |-> 0] \in Peer
  BY CallerAssumption DEF Peer
<1>4. TypeOK
  <2>1. call \in CallType
    BY NoCallType DEF Init
  <2>2. peer \in [Corr -> Peer]
    BY <1>3 DEF Init
  <2>3. body \in Seq(Event) /\ inbound \in Seq(Event) /\ outbound \in Seq(Frame)
    BY DEF Init
  <2>4. epochChanged \in BOOLEAN /\ results \in [Corr -> Result] /\ why \in Result /\ lost \subseteq Corr
    BY DEF Init, Result
  <2>5. Len(outbound) <= OutCap /\ Occupied <= InCap /\ pendingRead \in 0 .. 1
        /\ noise \in 0 .. MaxNoise /\ correlation \in 0 .. MaxCalls
    BY <1>1, CallerAssumption DEF Init, Occupied
  <2>6. config \in Configs /\ pc \in {"idle", "send", "await", "empty", "cancel"}
    BY DEF Init
  <2> QED BY <2>1, <2>2, <2>3, <2>4, <2>5, <2>6 DEF TypeOK, CallType
<1>5. CallInv
  BY <1>1, <1>2 DEF CallInv, Init
<1>6. PeerInv
  BY <1>2 DEF PeerInv
<1>7. CancelInv
  BY <1>1 DEF CancelInv
<1>8. StreamInv
  BY DEF StreamInv, Init, Waiting
<1>9. BodyInv
  BY <1>1 DEF BodyInv, ReplyIsOwn, Init
<1>10. ModuleIsTold
  BY <1>1, <1>2 DEF ModuleIsTold, CancelSentFor, AwaitErrors, Init
<1> QED BY <1>4, <1>5, <1>6, <1>7, <1>8, <1>9, <1>10 DEF CallerInv

(* The caller's invariant: a correlation is used once and nothing precedes *)
(* it; a cancel is the last frame of its correlation; and the fragments of *)
(* the call in progress, those read, those in the ring and those to come,  *)
(* are one stream (module_caller.go 66-128 and 168-222).                   *)
THEOREM CallerInvariant == Spec => []CallerInv
<1>1. CallerInv /\ [Next]_vars => CallerInv'
  BY TypeStep, CallStep, PeerStep, ToldStep, StreamStep, BodyStep DEF CallerInv
<1> QED BY <1>1, InitInv, PTL DEF Spec

(* The response of a call is one answer to it, whole and in order, however *)
(* many stale fragments, control frames and other events the ring holds    *)
(* (module_caller.go 191-222).                                             *)
THEOREM ReplyIsAlwaysOwn == Spec => []ReplyIsOwn
<1>1. CallerInv => ReplyIsOwn
  BY DEF CallerInv, BodyInv
<1> QED BY <1>1, CallerInvariant, PTL

(* Every call given up after its request was sent is cancelled towards the *)
(* module, or its cancel is known to be lost, and no other call ever is    *)
(* (module_caller.go 93-95, 123-128).                                      *)
THEOREM ModuleIsAlwaysTold == Spec => []ModuleIsTold
<1>1. CallerInv => ModuleIsTold
  BY DEF CallerInv
<1> QED BY <1>1, CallerInvariant, PTL
-------------------------------------------------------------------------------
(* Only the call in progress has no result yet. *)
PastInv ==
  \A c \in Corr : c <= correlation /\ results[c] = "none" => c = correlation /\ pc # "idle"

Control(e) == e.type \in {"absent", "error"}

(* The refusals in the ring stay there. *)
RefusalsKept ==
  \A k \in 1 .. Len(inbound) : Control(inbound[k]) =>
    \E l \in 1 .. Len(inbound') : inbound'[l] = inbound[k]

(* A new event takes no refusal out of the ring. *)
LEMMA AppendKeeps ==
  ASSUME TypeOK, NEW e, inbound' = Append(inbound, e)
  PROVE  RefusalsKept /\ \E l \in 1 .. Len(inbound') : inbound'[l] = e
<1>1. Len(inbound) \in Nat /\ Len(inbound') = Len(inbound) + 1
  BY DEF TypeOK
<1>2. /\ inbound'[Len(inbound) + 1] = e
      /\ \A k \in 1 .. Len(inbound) : inbound'[k] = inbound[k]
  BY DEF TypeOK
<1>3. Len(inbound) + 1 \in 1 .. Len(inbound') /\ 1 .. Len(inbound) \subseteq 1 .. Len(inbound')
  BY <1>1
<1> QED BY <1>2, <1>3 DEF RefusalsKept

(* Reading an event takes no refusal but itself out of the ring. *)
LEMMA TailKeeps ==
  ASSUME TypeOK, inbound # <<>>, inbound' = Tail(inbound),
         NEW k \in 1 .. Len(inbound), inbound[k] # Head(inbound)
  PROVE  \E l \in 1 .. Len(inbound') : inbound'[l] = inbound[k]
<1>1. /\ Len(inbound) \in Nat /\ Len(inbound') = Len(inbound) - 1 /\ Head(inbound) = inbound[1]
      /\ \A j \in 1 .. Len(inbound) - 1 : inbound'[j] = inbound[j + 1]
  BY TailAt DEF TypeOK
<1>2. k # 1 /\ k - 1 \in 1 .. Len(inbound') /\ k - 1 \in 1 .. Len(inbound) - 1 /\ k - 1 + 1 = k
  BY <1>1
<1>3. inbound'[k - 1] = inbound[k]
  BY <1>1, <1>2
<1> QED BY <1>2, <1>3

(* Every call before the current one has its result. *)
LEMMA PastStep == TypeOK /\ CallInv /\ PastInv /\ [Next]_vars => PastInv'
<1> SUFFICES ASSUME TypeOK, CallInv, PastInv, [Next]_vars PROVE PastInv'
  OBVIOUS
<1> USE DEF callerVars, envVars
<1>1. ASSUME UNCHANGED <<correlation, results>>, pc' = "idle" => pc = "idle" PROVE PastInv'
  BY <1>1 DEF PastInv
<1>2. ASSUME UNCHANGED correlation, pc # "idle",
             NEW r, r # "none", results' = [results EXCEPT ![correlation] = r]
      PROVE  PastInv'
  <2>1. correlation \in Corr /\ results \in [Corr -> Result]
    BY <1>2 DEF CallInv, TypeOK
  <2> QED BY <1>2, <2>1 DEF PastInv
<1>3. ASSUME NEW len, NEW stageOK, NEW deadline, Call(len, stageOK, deadline) PROVE PastInv'
  <2>1. /\ pc = "idle" /\ pc' = "send" /\ correlation' = correlation + 1 /\ results' = results
        /\ correlation \in 0 .. MaxCalls /\ MaxCalls \in Nat
    BY <1>3, CallerAssumption DEF Call, TypeOK
  <2>2. \A c \in Corr : c <= correlation' => c <= correlation \/ c = correlation'
    BY <2>1 DEF Corr
  <2> QED BY <2>1, <2>2 DEF PastInv
<1>4. ASSUME SendRefused \/ SendError \/ Cancel \/ (\E e : PollFinal(e)) PROVE PastInv'
  <2>1. pc # "idle" /\ UNCHANGED correlation
    BY <1>4 DEF SendRefused, SendError, MaySend, Cancel, Return, PollFinal, PollResult, PollEvent
  <2>2. \E r : r # "none" /\ results' = [results EXCEPT ![correlation] = r]
    <3>1. CASE Cancel
      BY <3>1 DEF Cancel, Return, CallInv, AwaitErrors
    <3>2. CASE SendError
      BY <3>2 DEF SendError, Return
    <3>3. CASE SendRefused \/ \E e : PollFinal(e)
      BY <3>3 DEF SendRefused, Return, PollFinal
    <3> QED BY <1>4, <3>1, <3>2, <3>3
  <2> QED BY <1>2, <2>1, <2>2
<1>5. \/ SendRefused \/ SendError \/ Cancel \/ (\E e : PollFinal(e))
      \/ (\E len, stageOK, deadline : Call(len, stageOK, deadline))
      \/ UNCHANGED <<correlation, results>> /\ (pc' = "idle" => pc = "idle")
  BY ZenonT(40) DEF Next, InCall, AwaitReply, Environment, SendFragment, PollEpoch,
         PollRelease, PollNothing, EmptyGiveUp, EmptySleep, PollControl, PollSkip, PollStatus,
         PollTooLong, PollFragment, PollResult, PollEvent, Fail, HostTake, HostRefuse,
         ModuleAnswer, ModuleSend, HostRestart, Expire, CtxCancel, HostNoise, vars
<1> QED BY <1>1, <1>3, <1>4, <1>5

(* A refusal is read by the call it refuses, and by no other. *)
LEMMA RefusalStep ==
  TypeOK /\ CallInv /\ PeerInv /\ PastInv /\ RefusalIsHeard /\ [Next]_vars => RefusalIsHeard'
<1> SUFFICES ASSUME TypeOK, CallInv, PeerInv, PastInv, RefusalIsHeard, [Next]_vars
             PROVE  RefusalIsHeard'
  OBVIOUS
<1> USE DEF callerVars, envVars
<1>C. \A c \in Corr : peer[c].request = "refused" /\ results[c] = "none" => c = correlation
  <2>1. \A c \in Corr : c > correlation \/ c <= correlation
    BY DEF Corr, TypeOK
  <2> QED BY <2>1 DEF PastInv, CallInv
<1>A. ASSUME UNCHANGED results, RefusalsKept, pc = "cancel" => UNCHANGED <<pc, why>>,
             \A c \in Corr : peer'[c].request = "refused" => peer[c].request = "refused"
      PROVE  RefusalIsHeard'
  BY <1>A DEF RefusalIsHeard, RefusalsKept, Control
<1>U. UNCHANGED inbound => RefusalsKept
  BY DEF RefusalsKept
<1>1. ASSUME SendRefused \/ SendError \/ Cancel \/ (\E e : PollFinal(e)) PROVE RefusalIsHeard'
  <2>1. pc # "idle" /\ UNCHANGED peer
    BY <1>1 DEF SendRefused, SendError, MaySend, Cancel, PollFinal, PollResult, PollEvent
  <2>2. \E r : r # "none" /\ results' = [results EXCEPT ![correlation] = r]
    <3>1. CASE Cancel
      BY <3>1 DEF Cancel, Return, CallInv, AwaitErrors
    <3>2. CASE SendError
      BY <3>2 DEF SendError, Return
    <3>3. CASE SendRefused \/ \E e : PollFinal(e)
      BY <3>3 DEF SendRefused, Return, PollFinal
    <3> QED BY <1>1, <3>1, <3>2, <3>3
  <2>3. correlation \in Corr /\ results \in [Corr -> Result]
    BY <2>1 DEF CallInv, TypeOK
  <2>4. results'[correlation] # "none"
        /\ \A c \in Corr : c # correlation => results'[c] = results[c]
    BY <2>2, <2>3
  <2> QED BY <1>C, <2>1, <2>4 DEF RefusalIsHeard
<1>2. ASSUME NEW e, PollControl(e) PROVE RefusalIsHeard'
  <2>1. UNCHANGED <<peer, results>> /\ pc' = "cancel" /\ why' \in {"Absent", "Rejected"}
    BY <1>2 DEF PollControl, PollEvent, Fail
  <2> QED BY <2>1 DEF RefusalIsHeard
<1>3. ASSUME NEW e, PollSkip(e) \/ PollStatus(e) \/ PollTooLong(e) \/ PollFragment(e)
      PROVE  RefusalIsHeard'
  <2>1. /\ PollEvent(e) /\ UNCHANGED <<peer, results>> /\ pc = "await"
        /\ ~(Control(e) /\ e.corr = correlation)
    BY <1>3 DEF PollSkip, PollStatus, PollTooLong, PollFragment, PollResult, PollEvent,
                ForThisCall, Fail, Control
  <2>2. inbound # <<>> /\ inbound' = Tail(inbound) /\ e = Head(inbound)
    BY <2>1 DEF PollEvent
  <2>3. ASSUME NEW c \in Corr, peer[c].request = "refused", results[c] = "none"
        PROVE  \E l \in 1 .. Len(inbound') : inbound'[l].corr = c /\ Control(inbound'[l])
    <3>1. PICK k \in 1 .. Len(inbound) : inbound[k].corr = c /\ Control(inbound[k])
      BY <2>1, <2>3 DEF RefusalIsHeard, Control
    <3>2. inbound[k] # Head(inbound)
      BY <1>C, <2>1, <2>2, <2>3, <3>1
    <3> QED BY <2>2, <3>1, <3>2, TailKeeps
  <2> QED BY <2>1, <2>3 DEF RefusalIsHeard, Control
<1>4. ASSUME PollNothing PROVE RefusalIsHeard'
  <2>1. RefusalsKept
    <3>1. CASE inbound # <<>> /\ Head(inbound).type = "garbage" /\ inbound' = Tail(inbound)
      <4> SUFFICES ASSUME NEW k \in 1 .. Len(inbound), Control(inbound[k])
                   PROVE  \E l \in 1 .. Len(inbound') : inbound'[l] = inbound[k]
        BY DEF RefusalsKept
      <4>1. inbound[k] # Head(inbound)
        BY <3>1 DEF Control
      <4> QED BY <3>1, <4>1, TailKeeps
    <3> QED BY <1>4, <1>U, <3>1 DEF PollNothing
  <2> QED BY <1>4, <1>A, <2>1 DEF PollNothing
<1>5. ASSUME HostTake PROVE RefusalIsHeard'
  <2>1. \A c \in Corr : peer'[c].request = "refused" => peer[c].request = "refused"
    BY <1>5, HostTakeEffect DEF Frame
  <2> QED BY <1>5, <1>A, <1>U, <2>1 DEF HostTake
<1>6. ASSUME NEW type \in {"absent", "error"}, HostRefuse(type) PROVE RefusalIsHeard'
  <2> DEFINE e == Noise(type, Head(outbound).corr)
  <2>1. inbound' = Append(inbound, e) /\ UNCHANGED <<pc, why, results>>
    BY <1>6 DEF HostRefuse
  <2>2. e.corr = Head(outbound).corr /\ Control(e)
    BY DEF Noise, Control
  <2>3. \A c \in Corr : c # Head(outbound).corr => peer'[c] = peer[c]
    BY <1>6, HostRefuseEffect
  <2> HIDE DEF e
  <2>4. RefusalsKept /\ \E l \in 1 .. Len(inbound') : inbound'[l] = e
    BY <2>1, AppendKeeps
  <2> QED BY <2>1, <2>2, <2>3, <2>4 DEF RefusalIsHeard, RefusalsKept, Control
<1>7. ASSUME NEW c \in Corr, (\E a \in Answer : ModuleAnswer(c, a)) \/ ModuleSend(c)
      PROVE  RefusalIsHeard'
  <2>1. UNCHANGED <<pc, why, results>>
    BY <1>7 DEF ModuleAnswer, ModuleSend
  <2>2. \A d \in Corr : peer'[d].request = peer[d].request
    <3>1. CASE ModuleSend(c)
      BY <3>1, ModuleSendEffect
    <3>2. CASE \E a \in Answer : ModuleAnswer(c, a)
      BY <3>2, ModuleAnswerEffect
    <3> QED BY <1>7, <3>1, <3>2
  <2>3. RefusalsKept
    <3>1. CASE ModuleSend(c)
      BY <3>1, AppendKeeps DEF ModuleSend
    <3>2. CASE \E a \in Answer : ModuleAnswer(c, a)
      BY <3>2, <1>U DEF ModuleAnswer
    <3> QED BY <1>7, <3>1, <3>2
  <2> QED BY <1>A, <2>1, <2>2, <2>3
<1>8. ASSUME NEW type, HostNoise(type) PROVE RefusalIsHeard'
  <2>1. RefusalsKept /\ UNCHANGED <<pc, why, results, peer>>
    BY <1>8, AppendKeeps DEF HostNoise
  <2> QED BY <1>A, <2>1
<1>9. ASSUME UNCHANGED <<inbound, peer, results>>, pc = "cancel" => UNCHANGED <<pc, why>>
      PROVE  RefusalIsHeard'
  BY <1>9, <1>A, <1>U
<1>10. \/ SendRefused \/ SendError \/ Cancel \/ PollNothing \/ HostTake
       \/ \E e : \/ PollFinal(e) \/ PollControl(e) \/ PollSkip(e) \/ PollStatus(e)
                 \/ PollTooLong(e) \/ PollFragment(e)
       \/ (\E type \in {"absent", "error"} : HostRefuse(type)) \/ (\E type : HostNoise(type))
       \/ (\E c \in Corr : (\E a \in Answer : ModuleAnswer(c, a)) \/ ModuleSend(c))
       \/ UNCHANGED <<inbound, peer, results>> /\ (pc = "cancel" => UNCHANGED <<pc, why>>)
  BY ZenonT(40) DEF Next, InCall, AwaitReply, Environment, Call, SendFragment, MaySend,
         PollEpoch, PollRelease, EmptyGiveUp, EmptySleep, Fail, HostRestart, Expire, CtxCancel,
         vars
<1> QED BY <1>1, <1>2, <1>3, <1>4, <1>5, <1>6, <1>7, <1>8, <1>9, <1>10

(* A call the host has refused always finds out: the refusal is still to   *)
(* be read or has made the call leave; stale fragments, noise and other    *)
(* calls never use it up (module_caller.go 187-198).                       *)
THEOREM RefusalIsAlwaysHeard == Spec => []RefusalIsHeard
<1>1. Init => PastInv /\ RefusalIsHeard
  BY DEF Init, PastInv, RefusalIsHeard, Corr
<1>2. CallerInv /\ PastInv /\ RefusalIsHeard /\ [Next]_vars => PastInv' /\ RefusalIsHeard'
  BY PastStep, RefusalStep DEF CallerInv
<1> QED BY <1>1, <1>2, CallerInvariant, PTL DEF Spec
===============================================================================
