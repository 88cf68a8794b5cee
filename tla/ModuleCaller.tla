----------------------------- MODULE ModuleCaller ------------------------------
(***************************************************************************)
(* The calling side of a module stage: ModuleCaller.Call, send and         *)
(* awaitReply (server-go/bus/module_caller.go) over Client.emit and        *)
(* Client.Poll (client.go).                                                *)
(*                                                                         *)
(* One goroutine makes one call after the other.  pc names where it is:    *)
(*   "idle"   between calls                                                *)
(*   "send"   about to send the next fragment of the request               *)
(*   "await"  about to Poll                                                *)
(*   "empty"  Poll had nothing: about to look at the context and the time  *)
(*   "cancel" awaitReply failed: about to publish the cancel               *)
(*                                                                         *)
(* The host and the module behind it are external and modelled from what   *)
(* the caller relies on: frames keep their order, the host may refuse a    *)
(* request with a control frame, the module answers at any speed (also     *)
(* after the caller has left, which leaves stale fragments in the inbound  *)
(* ring for the next call), and a failure may be followed by further       *)
(* answers of the same correlation (RejectTableFull of ModuleRuntime).     *)
(***************************************************************************)
EXTENDS Integers, Sequences, FiniteSets

CONSTANTS
  MaxCalls,               \* bound: calls made, and so correlations used
  RequestLen,             \* lengths of request bodies, in units
  ModuleMessageMaxBody,   \* longest request; also the caller's responseLimit
  Configs,                \* [inlineBudget, slotSize] of the attached client
  ModuleMessageHeaderLen, HdrLen,
  OutCap, InCap,          \* slots of the rings
  Answer,                 \* [status, n]: outcome and fragments of an answer
  MaxAnswers,             \* bound: answers per correlation
  MaxNoise                \* bound: events that are no answer

ASSUME CallerAssumption ==
  /\ MaxCalls \in Nat /\ OutCap \in Nat /\ InCap \in Nat
  /\ RequestLen \subseteq Nat
  /\ ModuleMessageMaxBody \in Nat
  /\ ModuleMessageHeaderLen \in Nat /\ HdrLen \in Nat
  /\ MaxAnswers \in Nat /\ MaxNoise \in Nat
  /\ \A c \in Configs : c.inlineBudget \in Nat /\ c.slotSize \in Nat
  /\ \A a \in Answer : a.status \in {"OK", "Failure"} /\ a.n \in Nat \ {0}

VARIABLES
  config,        \* the attached client's sizes; never change
  pc,
  correlation,   \* of the current call, or of the last one
  call,          \* the call: its request, how much of it is sent, whether it has a
                 \* deadline, and whether that has passed or its context has ended
  body,          \* the response assembled so far
  why,           \* the error awaitReply returned
  epochChanged,  \* the host has restarted
  outbound, inbound,  \* the rings: frames not taken, and events not read
  pendingRead,   \* slots of the inbound ring the event read last still occupies: 1 or 0
  noise,         \* events so far that are no answer
  peer,          \* per correlation: what the module knows and is sending
  results,       \* history: per correlation, how its call ended
  lost           \* history: correlations whose cancel found no room

callerVars == <<pc, correlation, call, body, why>>
envVars == <<epochChanged, noise>>
vars == <<config, callerVars, envVars, outbound, inbound, pendingRead, peer, results, lost>>

Corr == 1 .. MaxCalls

(* An event: the control kinds of the host, a fragment of an answer        *)
(* (fragment i of n of answer a), a frame that does not decode, and        *)
(* anything awaitReply skips (another kind or operation).                  *)
Fragment(c, a, i, ans) ==
  [type |-> "result", corr |-> c, ans |-> a, i |-> i, n |-> ans.n, status |-> ans.status]
Noise(type, c) ==
  [type |-> type, corr |-> c, ans |-> 0, i |-> 0, n |-> 0, status |-> "OK"]
Event == [type : {"result", "absent", "error", "garbage", "other"}, corr : Corr,
          ans : 0 .. MaxAnswers, i : Nat, n : Nat, status : {"OK", "Failure"}]

Frame == [corr : Corr, type : {"more", "final", "cancel"}]

(* How a call ends.  Both "WouldBlock" and "PartlySent" are ErrWouldBlock;  *)
(* the latter after fragments of the request had left.                     *)
Result == {"none", "OK", "NoSend", "WouldBlock", "PartlySent", "SendEpoch", "Payload",
           "Epoch", "Deadline", "Cancelled", "Absent", "Rejected", "Status", "TooLong"}

NoAnswer == [status |-> "OK", n |-> 0]

AwaitErrors == {"Epoch", "Deadline", "Cancelled", "Absent", "Rejected", "Status", "TooLong"}

(* What the module makes of a correlation: the state of the request, the   *)
(* answers finished, and the one being sent with the fragments of it sent. *)
Peer == [request : {"none", "partial", "complete", "refused", "cancelled"},
         finished : 0 .. MaxAnswers, current : Answer \cup {NoAnswer}, sent : Nat]

(* A slot is free for the host once its event is no longer in use.         *)
Occupied == Len(inbound) + pendingRead

(* Type correctness of the caller, its rings and its peer.                 *)
TypeOK ==
  /\ config \in Configs
  /\ pc \in {"idle", "send", "await", "empty", "cancel"}
  /\ correlation \in 0 .. MaxCalls
  /\ call \in [len : Nat, stageOK : BOOLEAN, offset : Nat, deadline : BOOLEAN,
                expired : BOOLEAN, ctxDone : BOOLEAN]
  /\ body \in Seq(Event)
  /\ why \in Result
  /\ epochChanged \in BOOLEAN
  /\ outbound \in Seq(Frame) /\ Len(outbound) <= OutCap
  /\ inbound \in Seq(Event) /\ pendingRead \in 0 .. 1 /\ Occupied <= InCap
  /\ noise \in 0 .. MaxNoise
  /\ peer \in [Corr -> Peer]
  /\ results \in [Corr -> Result]
  /\ lost \subseteq Corr

NewCall(len, stageOK, deadline) ==
  [len |-> len, stageOK |-> stageOK, offset |-> 0, deadline |-> deadline,
   expired |-> FALSE, ctxDone |-> FALSE]
NoCall == NewCall(0, TRUE, FALSE)

Init ==
  /\ config \in Configs
  /\ pc = "idle"
  /\ correlation = 0
  /\ call = NoCall
  /\ body = <<>>
  /\ why = "none"
  /\ epochChanged = FALSE
  /\ outbound = <<>> /\ inbound = <<>> /\ pendingRead = 0
  /\ noise = 0
  /\ peer = [c \in Corr |-> [request |-> "none", finished |-> 0, current |-> NoAnswer, sent |-> 0]]
  /\ results = [c \in Corr |-> "none"]
  /\ lost = {}

-------------------------------------------------------------------------------
(* Call returns. *)
Return(result) ==
  /\ pc' = "idle"
  /\ results' = [results EXCEPT ![correlation] = result]
  /\ call' = NoCall
  /\ body' = <<>>
  /\ why' = "none"
  /\ UNCHANGED <<config, correlation>>

(* awaitReply returns an error. *)
Fail(error) ==
  /\ pc' = "cancel"
  /\ why' = error
  /\ body' = <<>>
  /\ UNCHANGED <<config, correlation, call, results>>

(* Mutant of Call: later calls reuse the first correlation. *)
CallSameCorrelation(len, stageOK, deadline) ==
  /\ pc = "idle"
  /\ correlation < MaxCalls
  /\ ~(len > ModuleMessageMaxBody)
  /\ correlation' = 1
  /\ call' = NewCall(len, stageOK, deadline)
  /\ body' = <<>>
  /\ pc' = "send"
  /\ UNCHANGED <<config, why, epochChanged, noise, outbound, inbound, pendingRead, peer,
                 results, lost>>

(* Call, up to send.  An oversized request (ErrModuleConfig) returns       *)
(* before a correlation is taken and so changes nothing.                   *)
Call(len, stageOK, deadline) ==
  /\ pc = "idle"
  /\ correlation < MaxCalls
  /\ ~(len > ModuleMessageMaxBody)
  /\ correlation' = correlation + 1
  /\ call' = NewCall(len, stageOK, deadline)
  /\ body' = <<>>
  /\ pc' = "send"
  /\ UNCHANGED <<config, why, epochChanged, noise, outbound, inbound, pendingRead, peer,
                 results, lost>>

chunk == config.inlineBudget - ModuleMessageHeaderLen
Part == IF call.len - call.offset > chunk THEN chunk ELSE call.len - call.offset
More == call.offset + Part < call.len

(* A budget without room for a body, or a message Encode refuses. *)
SendRefused ==
  /\ pc = "send"
  /\ config.inlineBudget <= ModuleMessageHeaderLen \/ ~call.stageOK
  /\ Return("NoSend")
  /\ UNCHANGED <<envVars, outbound, inbound, pendingRead, peer, lost>>

MaySend == pc = "send" /\ config.inlineBudget > ModuleMessageHeaderLen /\ call.stageOK

(* Client.emit: the size, then the epoch, then the ring. *)
FitsSlot == HdrLen + ModuleMessageHeaderLen + Part <= config.slotSize

(* send returns the error of RequestFragment as it is, and so does Call:   *)
(* neither waits for room nor cancels what was already sent.               *)
SendError ==
  /\ MaySend
  /\ \/ ~FitsSlot /\ Return("Payload")
     \/ FitsSlot /\ epochChanged /\ Return("SendEpoch")
     \/ /\ FitsSlot /\ ~epochChanged /\ Len(outbound) >= OutCap
        /\ Return(IF call.offset = 0 THEN "WouldBlock" ELSE "PartlySent")
  /\ UNCHANGED <<envVars, outbound, inbound, pendingRead, peer, lost>>

SendFragment ==
  /\ MaySend
  /\ FitsSlot
  /\ ~epochChanged
  /\ Len(outbound) < OutCap
  /\ outbound' = Append(outbound, [corr |-> correlation, type |-> IF More THEN "more" ELSE "final"])
  /\ call' = [call EXCEPT !.offset = @ + Part]
  /\ pc' = IF More THEN "send" ELSE "await"
  /\ UNCHANGED <<config, correlation, body, why, envVars, inbound, pendingRead, peer, results,
                 lost>>

-------------------------------------------------------------------------------
(* awaitReply.  Poll fails once the host has restarted. *)
PollEpoch ==
  /\ pc = "await"
  /\ epochChanged
  /\ Fail("Epoch")
  /\ UNCHANGED <<envVars, outbound, inbound, pendingRead, peer, lost>>

(* Otherwise it first gives back the slot of the event it returned last. *)
PollRelease ==
  /\ pc = "await"
  /\ ~epochChanged
  /\ pendingRead = 1
  /\ pendingRead' = 0
  /\ UNCHANGED <<config, callerVars, envVars, outbound, inbound, peer, results, lost>>

(* Nothing to read, or a frame that does not decode, whose slot is given   *)
(* back at once: Poll returns no event.                                    *)
PollNothing ==
  /\ pc = "await"
  /\ ~epochChanged
  /\ pendingRead = 0
  /\ \/ inbound = <<>> /\ UNCHANGED inbound
     \/ inbound # <<>> /\ Head(inbound).type = "garbage" /\ inbound' = Tail(inbound)
  /\ pc' = "empty"
  /\ UNCHANGED <<config, correlation, call, body, why, envVars, outbound, pendingRead, peer,
                 results, lost>>

(* Mutant of EmptyGiveUp: the deadline is not looked at. *)
EmptyGiveUpCtxOnly ==
  /\ pc = "empty"
  /\ call.ctxDone
  /\ Fail("Cancelled")
  /\ UNCHANGED <<envVars, outbound, inbound, pendingRead, peer, lost>>

(* Only then are the context and the deadline looked at. *)
EmptyGiveUp ==
  /\ pc = "empty"
  /\ \/ call.ctxDone /\ Fail("Cancelled")
     \/ ~call.ctxDone /\ call.expired /\ Fail("Deadline")
  /\ UNCHANGED <<envVars, outbound, inbound, pendingRead, peer, lost>>

EmptySleep ==
  /\ pc = "empty"
  /\ ~call.ctxDone
  /\ ~call.expired
  /\ pc' = "await"
  /\ UNCHANGED <<config, correlation, call, body, why, envVars, outbound, inbound,
                 pendingRead, peer, results, lost>>

(* Poll returns the event e, whose slot stays occupied until the next Poll. *)
PollEvent(e) ==
  /\ pc = "await"
  /\ ~epochChanged
  /\ pendingRead = 0
  /\ inbound # <<>>
  /\ e = Head(inbound)
  /\ e.type # "garbage"
  /\ inbound' = Tail(inbound)
  /\ pendingRead' = 1
  /\ UNCHANGED <<envVars, outbound, peer, lost>>

(* Mutant of ForThisCall: the correlation is not compared. *)
ForAnyCall(e) == e.corr \in Corr

ForThisCall(e) == e.corr = correlation

(* Mutant of PollControl: the kinds of the host do not pass the filter for *)
(* the kind of the call.                                                   *)
PollControlFiltered(e) ==
  /\ PollEvent(e)
  /\ ForThisCall(e)
  /\ e.type \in {"absent", "error"}
  /\ UNCHANGED <<config, callerVars, results>>

(* A control frame of the host for this correlation. *)
PollControl(e) ==
  /\ PollEvent(e)
  /\ ForThisCall(e)
  /\ \/ e.type = "absent" /\ Fail("Absent")
     \/ e.type = "error" /\ Fail("Rejected")

(* Another correlation, another kind, or a message that is no result. *)
PollSkip(e) ==
  /\ PollEvent(e)
  /\ ~ForThisCall(e) \/ e.type = "other"
  /\ UNCHANGED <<config, callerVars, results>>

PollResult(e) == PollEvent(e) /\ ForThisCall(e) /\ e.type = "result"

PollStatus(e) ==
  /\ PollResult(e)
  /\ e.status # "OK"
  /\ Fail("Status")

(* Each fragment carries one unit. *)
PollTooLong(e) ==
  /\ PollResult(e)
  /\ e.status = "OK"
  /\ Len(body) + 1 > ModuleMessageMaxBody
  /\ Fail("TooLong")

PollFragment(e) ==
  /\ PollResult(e)
  /\ e.status = "OK"
  /\ ~(Len(body) + 1 > ModuleMessageMaxBody)
  /\ e.i < e.n
  /\ body' = Append(body, e)
  /\ UNCHANGED <<config, pc, correlation, call, why, results>>

PollFinal(e) ==
  /\ PollResult(e)
  /\ e.status = "OK"
  /\ ~(Len(body) + 1 > ModuleMessageMaxBody)
  /\ e.i = e.n
  /\ body' = Append(body, e)
  /\ pc' = "idle"
  /\ results' = [results EXCEPT ![correlation] = "OK"]
  /\ call' = NoCall
  /\ UNCHANGED <<config, correlation, why>>

(* Mutant of Cancel: it is left out. *)
CancelOmitted ==
  /\ pc = "cancel"
  /\ Return(why)
  /\ UNCHANGED <<envVars, outbound, inbound, pendingRead, peer, lost>>

(* The best-effort cancel: lost when the host has restarted or the ring is *)
(* full.                                                                   *)
Cancel ==
  /\ pc = "cancel"
  /\ IF ~epochChanged /\ Len(outbound) < OutCap
     THEN /\ outbound' = Append(outbound, [corr |-> correlation, type |-> "cancel"])
          /\ UNCHANGED lost
     ELSE /\ lost' = lost \cup {correlation}
          /\ UNCHANGED outbound
  /\ Return(why)
  /\ UNCHANGED <<envVars, inbound, pendingRead, peer>>
-------------------------------------------------------------------------------
(* The host and the module.  A frame the host takes reaches the module, or *)
(* is refused with a control frame.  A host that has restarted no longer   *)
(* serves these rings.                                                     *)
Deliver(f) ==
  peer' = [peer EXCEPT ![f.corr].request =
             IF @ = "refused" THEN @
             ELSE CASE f.type = "cancel" -> "cancelled"
                    [] f.type = "final" -> "complete"
                    [] f.type = "more" -> "partial"]

HostTake ==
  /\ ~epochChanged
  /\ outbound # <<>>
  /\ outbound' = Tail(outbound)
  /\ Deliver(Head(outbound))
  /\ UNCHANGED <<config, callerVars, envVars, inbound, pendingRead, results, lost>>

HostRefuse(type) ==
  /\ ~epochChanged
  /\ outbound # <<>>
  /\ Occupied < InCap
  /\ noise < MaxNoise
  /\ LET f == Head(outbound)
     IN  /\ f.type # "cancel"
         /\ peer[f.corr].request = "none"
         /\ inbound' = Append(inbound, Noise(type, f.corr))
         /\ peer' = [peer EXCEPT ![f.corr].request = "refused"]
  /\ outbound' = Tail(outbound)
  /\ noise' = noise + 1
  /\ UNCHANGED <<config, callerVars, epochChanged, pendingRead, results, lost>>

(* The module decides on an answer.  It may refuse a request it has only   *)
(* part of; a handler's outcome follows the whole request, and may come    *)
(* after a cancel that was too late.                                       *)
ModuleAnswer(c, a) ==
  /\ ~epochChanged
  /\ peer[c].current = NoAnswer
  /\ peer[c].finished < MaxAnswers
  /\ \/ peer[c].request \in {"complete", "cancelled"}
     \/ peer[c].request = "partial" /\ a.status # "OK"
  /\ peer' = [peer EXCEPT ![c].current = a, ![c].sent = 0]
  /\ UNCHANGED <<config, callerVars, envVars, outbound, inbound, pendingRead, results, lost>>

ModuleSend(c) ==
  /\ ~epochChanged
  /\ peer[c].current # NoAnswer
  /\ Occupied < InCap
  /\ LET a    == peer[c].current
         i    == peer[c].sent + 1
         last == i = a.n
     IN  /\ inbound' = Append(inbound, Fragment(c, peer[c].finished, i, a))
         /\ peer' = [peer EXCEPT ![c].sent = i,
                       ![c].current = IF last THEN NoAnswer ELSE a,
                       ![c].finished = IF last THEN @ + 1 ELSE @]
  /\ UNCHANGED <<config, callerVars, envVars, outbound, pendingRead, results, lost>>

(* Traffic that is nobody's answer. *)
HostNoise(type) ==
  /\ ~epochChanged
  /\ noise < MaxNoise
  /\ Occupied < InCap
  /\ correlation # 0
  /\ inbound' = Append(inbound, Noise(type, correlation))
  /\ noise' = noise + 1
  /\ UNCHANGED <<config, callerVars, epochChanged, outbound, pendingRead, peer, results, lost>>

HostRestart ==
  /\ ~epochChanged
  /\ epochChanged' = TRUE
  /\ UNCHANGED <<config, callerVars, noise, outbound, inbound, pendingRead, peer,
                 results, lost>>

(* The expiry is computed when send has returned. *)
Expire ==
  /\ pc \in {"await", "empty"}
  /\ call.deadline /\ ~call.expired
  /\ call' = [call EXCEPT !.expired = TRUE]
  /\ UNCHANGED <<config, pc, correlation, body, why, envVars, outbound, inbound,
                 pendingRead, peer, results, lost>>

CtxCancel ==
  /\ pc # "idle"
  /\ ~call.ctxDone
  /\ call' = [call EXCEPT !.ctxDone = TRUE]
  /\ UNCHANGED <<config, pc, correlation, body, why, envVars, outbound, inbound,
                 pendingRead, peer, results, lost>>

-------------------------------------------------------------------------------
AwaitReply ==
  \/ PollEpoch \/ PollRelease \/ PollNothing \/ EmptyGiveUp \/ EmptySleep
  \/ \E e \in IF inbound = <<>> THEN {} ELSE {Head(inbound)} :
       \/ PollControl(e) \/ PollSkip(e) \/ PollStatus(e) \/ PollTooLong(e)
       \/ PollFragment(e) \/ PollFinal(e)

InCall == SendRefused \/ SendError \/ SendFragment \/ AwaitReply \/ Cancel

Environment ==
  \/ HostTake \/ HostRestart \/ Expire \/ CtxCancel
  \/ \E type \in {"absent", "error"} : HostRefuse(type)
  \/ \E type \in {"garbage", "other"} : HostNoise(type)
  \/ \E c \in Corr : (\E a \in Answer : ModuleAnswer(c, a)) \/ ModuleSend(c)

Next ==
  \/ \E len \in RequestLen, stageOK, deadline \in BOOLEAN : Call(len, stageOK, deadline)
  \/ InCall
  \/ Environment

Spec == Init /\ [][Next]_vars

(* The goroutine of the caller keeps running and time passes; nothing is   *)
(* assumed of the host or the module.                                      *)
FairSpec == Spec /\ WF_vars(InCall) /\ WF_vars(Expire)
-------------------------------------------------------------------------------
(* The response of a call is one answer to that call, whole and in order:  *)
(* fragments of earlier calls still in the ring, control frames and noise  *)
(* in between never get into it (module_caller.go 191-222).                *)
ReplyIsOwn ==
  \A i \in 1 .. Len(body) :
    /\ body[i].corr = correlation
    /\ body[i].i = i
    /\ body[i].ans = body[1].ans
    /\ pc = "idle" => body[i].n = Len(body)

CancelSentFor(c) ==
  \/ \E i \in 1 .. Len(outbound) : outbound[i].corr = c /\ outbound[i].type = "cancel"
  \/ peer[c].request = "cancelled"

(* The module learns of every call that is given up after its request was  *)
(* sent (module_caller.go 93-95, 123-128): its cancel is on the way or     *)
(* delivered unless the ring had no room, the host restarted or the host   *)
(* had refused the request.  A call that got its answer, or is waiting for *)
(* it, is never cancelled.                                                 *)
ModuleIsTold ==
  \A c \in Corr :
    /\ results[c] \in AwaitErrors
         => CancelSentFor(c) \/ c \in lost \/ peer[c].request = "refused"
    /\ CancelSentFor(c) => results[c] \in AwaitErrors /\ c \notin lost

(* A call whose request the host has refused does not wait for an answer   *)
(* that cannot come: the refusal is still to be read, or the call is       *)
(* leaving on account of it (module_caller.go 187-198).                    *)
RefusalIsHeard ==
  \A c \in Corr : peer[c].request = "refused" /\ results[c] = "none" =>
    \/ \E i \in 1 .. Len(inbound) :
         inbound[i].corr = c /\ inbound[i].type \in {"absent", "error"}
    \/ pc = "cancel" /\ why \in {"Absent", "Rejected"}

(* A call that has a deadline, or whose context ends, returns, whatever    *)
(* the host and the module do, if the events that are not for it are       *)
(* finite (module_caller.go 172-186).                                      *)
CallEnds == call.deadline \/ call.ctxDone ~> pc = "idle"
===============================================================================
