-------------------------- MODULE ModuleRuntimeProofs --------------------------
(***************************************************************************)
(* Safety of the serving loop for every set of correlations, every job     *)
(* limit, ring capacity, stage table, payload set and process geometry.    *)
(***************************************************************************)
EXTENDS ModuleRuntime, FiniteSetTheorems, SequenceTheorems, TLAPS

(* What a normalised outcome looks like. *)
LEMMA NormalType ==
  ASSUME NEW status, NEW len \in Nat
  PROVE  NormalStatus(status, len) \in ModuleStatus /\ NormalLen(status, len) \in Nat
BY SMT DEF NormalStatus, NormalLen, validModuleStatus, ModuleStatus

(* The answer being written and the loop's position agree. *)
ReplyInv ==
  /\ pc \in {"reply", "replywait"} => reply # None
  /\ pc \in {"drain", "top", "poll", "shutdown"} => reply = None
  /\ reply # None => reply.offset <= reply.len /\ reply.emitted = reply.offset
  /\ exit = "none" <=> pc # "exited"

IInv == TypeOK /\ ReplyInv /\ JobAccounting

-------------------------------------------------------------------------------
(* Type correctness, action by action. *)
LEMMA replyType ==
  ASSUME NEW c \in Corr, NEW stage \in Stage \cup {1}, NEW status, NEW len \in Nat,
         replyModuleResult(c, stage, status, len)
  PROVE  /\ reply' \in Reply /\ reply' # None /\ pc' = "reply"
         /\ reply'.offset = 0 /\ reply'.emitted = 0 /\ reply'.len \in Nat
         /\ reply'.corr = c /\ reply'.stage = stage
<1>1. reply' \in Reply
  BY NormalType, SMT DEF replyModuleResult, Reply
<1> QED
  BY <1>1, NoneAssumption, NormalType, SMT DEF replyModuleResult, Reply

(* Every answer to a request names a stage of the table, or 1. *)
LEMMA StageType ==
  ASSUME NEW k \in Kind
  PROVE  Stages[k] \in Stage \cup {1} /\ replyStage(k) \in Stage \cup {1}
BY DEF Stage, replyStage

(* The types of what a polled request carries. *)
LEMMA PollRequestType ==
  ASSUME TypeOK, NEW c \in Corr, NEW k \in Kind, NEW p \in Payload, NEW more \in BOOLEAN,
         PollRequest(c, k, p, more)
  PROVE  /\ events' \in 0 .. MaxEvents
         /\ streams' \in [Corr -> Stream]
         /\ SentSoFar(c) + p.bodyLen \in Nat
         /\ p.bodyLen \in Nat /\ p.deadline \in Deadline /\ p.trace \in Trace
<1>1. events' \in 0 .. MaxEvents
  BY RuntimeAssumption, SMT DEF TypeOK, PollRequest, Polled
<1>2. p.bodyLen \in Nat /\ p.deadline \in Deadline /\ p.trace \in Trace
  BY RuntimeAssumption DEF Deadline, Trace
<1>3. streams[c].sent \in Nat
  BY DEF TypeOK, Stream
<1>4. SentSoFar(c) + p.bodyLen \in Nat
  BY <1>2, <1>3, SMT DEF SentSoFar
<1>5. /\ [state |-> "open", sent |-> SentSoFar(c) + p.bodyLen,
          kind |-> IF ReuseCorrelation THEN None ELSE k,
          payload |-> IF ReuseCorrelation THEN None ELSE p] \in Stream
      /\ Closed("final") \in Stream
  BY <1>4, SMT DEF Stream, Closed
<1>6. streams' \in [Corr -> Stream]
  BY <1>5 DEF TypeOK, PollRequest
<1> QED
  BY <1>1, <1>2, <1>4, <1>6

(* The bytes an assembly holds are a number. *)
LEMMA HeldType ==
  ASSUME TypeOK, NEW c \in Corr
  PROVE  Held(c) \in Nat
BY SMT DEF TypeOK, Held, Assembly

(* The job a handler leaves behind when its result enters the channel. *)
LEMMA JobSent ==
  ASSUME TypeOK, NEW c \in Corr, HandlerSend(c)
  PROVE  \E late \in BOOLEAN :
            /\ late => /\ jobs[c].phase = "returned"
                       /\ DeadlineExpired(jobs[c].deadline, clock)
            /\ jobs' = [jobs EXCEPT ![c] = [jobs[c] EXCEPT
                       !.phase  = "done",
                       !.status = IF late THEN "DeadlineExceeded" ELSE jobs[c].status,
                       !.len    = IF late THEN 0 ELSE jobs[c].len]]
<1>1. jobs[c] \in Job
  BY DEF HandlerSend, TypeOK
<1>2. PICK now \in monotonicNowNS :
        LET late == /\ jobs[c].phase = "returned"
                    /\ now # 0
                    /\ DeadlineExpired(jobs[c].deadline, now)
        IN  jobs' = [jobs EXCEPT ![c].phase = "done",
                       ![c].status = IF late THEN "DeadlineExceeded" ELSE @,
                       ![c].len    = IF late THEN 0 ELSE @]
  BY DEF HandlerSend
<1> DEFINE late == /\ jobs[c].phase = "returned"
                   /\ now # 0
                   /\ DeadlineExpired(jobs[c].deadline, now)
<1>3. jobs' = [jobs EXCEPT ![c].phase = "done",
                 ![c].status = IF late THEN "DeadlineExceeded" ELSE @,
                 ![c].len    = IF late THEN 0 ELSE @]
  BY <1>2
<1>6. late => jobs[c].phase = "returned" /\ DeadlineExpired(jobs[c].deadline, clock)
  BY DEF monotonicNowNS
<1> HIDE DEF late
<1>4. CASE late
  <2>1. jobs' = [jobs EXCEPT ![c] = [jobs[c] EXCEPT
                       !.phase  = "done", !.status = "DeadlineExceeded", !.len = 0]]
    BY <1>1, <1>3, <1>4 DEF TypeOK, Job
  <2> QED
    BY <1>4, <1>6, <2>1
<1>5. CASE ~late
  <2>1. jobs' = [jobs EXCEPT ![c] = [jobs[c] EXCEPT
                       !.phase  = "done", !.status = jobs[c].status, !.len = jobs[c].len]]
    BY <1>1, <1>3, <1>5 DEF TypeOK, Job
  <2> QED
    BY <1>5, <1>6, <2>1
<1> QED
  BY <1>4, <1>5, <1>6

(* The job a handler leaves behind when it returns. *)
LEMMA JobReturned ==
  ASSUME TypeOK, NEW c \in Corr, NEW outcome \in HandlerOutcome, HandlerReturn(c, outcome)
  PROVE  /\ jobs[c] \in Job /\ jobs[c].phase = "running"
         /\ jobs'[c] \in Job /\ jobs'[c] # None
         /\ jobs'[c].phase = IF jobs[c].cancelled THEN "cancelled" ELSE "returned"
         /\ jobs'[c].status = IF jobs[c].cancelled THEN "Cancelled" ELSE jobs'[c].said
         /\ jobs'[c].told <=> streams[c].state = "cancelled"
         /\ jobs'[c].stage = jobs[c].stage /\ jobs'[c].deadline = jobs[c].deadline
         /\ jobs'[c].cancelled = jobs[c].cancelled
         /\ jobs'[c].got = jobs[c].got /\ jobs'[c].sent = jobs[c].sent
         /\ \A d \in Corr : d # c => jobs'[d] = jobs[d]
         /\ jobs' \in [Corr -> Job \cup {None}]
<1> DEFINE status == NormalStatus(outcome[1], outcome[2])
           len == NormalLen(outcome[1], outcome[2])
           ph == IF jobs[c].cancelled THEN "cancelled" ELSE "returned"
           st == IF jobs[c].cancelled THEN "Cancelled" ELSE status
           le == IF jobs[c].cancelled THEN 0 ELSE len
           told == streams[c].state = "cancelled"
           w == [jobs[c] EXCEPT !.phase = ph, !.status = st, !.len = le, !.said = status,
                                !.told = told]
<1>1. jobs' = [jobs EXCEPT ![c] = w] /\ jobs[c] # None /\ jobs[c].phase = "running"
  BY DEF HandlerReturn
<1>2. status \in ModuleStatus /\ len \in Nat
  BY NormalType, RuntimeAssumption
<1>3. jobs[c] \in Job
  BY <1>1 DEF TypeOK
<1>4. st \in ModuleStatus /\ le \in Nat /\ ph \in {"cancelled", "returned"} /\ told \in BOOLEAN
  BY <1>2 DEF ModuleStatus
<1>5. ph = (IF jobs[c].cancelled THEN "cancelled" ELSE "returned")
      /\ st = (IF jobs[c].cancelled THEN "Cancelled" ELSE status)
      /\ (told <=> streams[c].state = "cancelled")
  OBVIOUS
<1> HIDE DEF status, len, ph, st, le, told
<1>6. w \in Job
  BY <1>2, <1>3, <1>4 DEF Job
<1>7. /\ w.phase = ph /\ w.status = st /\ w.said = status /\ w.told = told
      /\ w.stage = jobs[c].stage /\ w.deadline = jobs[c].deadline
      /\ w.cancelled = jobs[c].cancelled /\ w.got = jobs[c].got /\ w.sent = jobs[c].sent
  BY <1>3 DEF Job
<1> HIDE DEF w
<1>8. jobs'[c] = w /\ (\A d \in Corr : d # c => jobs'[d] = jobs[d])
      /\ jobs' \in [Corr -> Job \cup {None}]
  BY <1>1, <1>6 DEF TypeOK
<1> QED
  BY <1>1, <1>3, <1>5, <1>6, <1>7, <1>8, NoneAssumption

(* One fragment carries part of what is left and never more. *)
LEMMA ReplyPartType ==
  ASSUME TypeOK, ReplyInv, MayEmit
  PROVE  /\ reply \in Reply /\ reply.len \in Nat /\ reply.offset \in Nat
         /\ reply.emitted \in Nat /\ reply.corr \in Corr /\ reply.status \in ModuleStatus
         /\ reply.emitted = reply.offset
         /\ Part \in Nat /\ Part <= reply.len - reply.offset
         /\ ~More => reply.emitted + Part = reply.len
<1>1. /\ reply \in Reply /\ reply.len \in Nat /\ reply.offset \in Nat
      /\ reply.emitted \in Nat /\ reply.corr \in Corr /\ reply.status \in ModuleStatus
      /\ reply.offset <= reply.len /\ reply.emitted = reply.offset
  BY DEF TypeOK, ReplyInv, MayEmit, Reply
<1>2. /\ config.inlineBudget \in Nat /\ ModuleMessageHeaderLen \in Nat
      /\ config.inlineBudget > ModuleMessageHeaderLen
  BY RuntimeAssumption DEF TypeOK, MayEmit
<1>3. Part \in Nat /\ Part <= reply.len - reply.offset
  BY <1>1, <1>2, SMT DEF Part, chunkCapacity
<1>4. ~More => reply.emitted + Part = reply.len
  BY <1>1, <1>3, SMT DEF More
<1> QED
  BY <1>1, <1>3, <1>4

(* The answer after one more fragment. *)
LEMMA ReplyPartStep ==
  ASSUME TypeOK, ReplyInv, ReplyFragment, More
  PROVE  /\ reply' \in Reply /\ reply' # None
         /\ reply'.len = reply.len
         /\ reply'.offset <= reply'.len /\ reply'.emitted = reply'.offset
         /\ reply'.corr = reply.corr /\ reply'.status = reply.status
         /\ reply'.stage = reply.stage
         /\ pc' = pc
<1>1. MayEmit
  BY DEF ReplyFragment
<1>2. /\ reply \in Reply /\ reply.len \in Nat /\ reply.offset \in Nat
      /\ reply.emitted \in Nat /\ reply.emitted = reply.offset
      /\ Part \in Nat /\ Part <= reply.len - reply.offset
  BY <1>1, ReplyPartType
<1>3. /\ reply' = [reply EXCEPT !.offset = reply.offset + Part,
                               !.emitted = reply.emitted + Part]
      /\ pc' = pc
  BY DEF ReplyFragment
<1>4. /\ reply.offset + Part \in Nat /\ reply.emitted + Part \in Nat
      /\ reply.offset + Part <= reply.len
      /\ reply.emitted + Part = reply.offset + Part
  BY <1>2, SMT
<1>5. reply' \in Reply
  BY <1>2, <1>3, <1>4 DEF Reply
<1>6. /\ reply'.offset = reply.offset + Part /\ reply'.emitted = reply.emitted + Part
      /\ reply'.len = reply.len /\ reply'.corr = reply.corr
      /\ reply'.status = reply.status /\ reply'.stage = reply.stage
  BY <1>2, <1>3 DEF Reply
<1> QED
  BY <1>3, <1>4, <1>5, <1>6, NoneAssumption

(* Every step keeps the types. *)
LEMMA TypeStep == IInv /\ [Next]_vars => TypeOK'
<1> SUFFICES ASSUME IInv, [Next]_vars
             PROVE  TypeOK'
  OBVIOUS
<1>0. TypeOK /\ ReplyInv /\ JobAccounting
  BY DEF IInv
<1> USE <1>0
<1>1. CASE finishModuleWork
  <2> DEFINE c == Head(done)
  <2>1. c \in Corr /\ Tail(done) \in Seq(Corr) /\ c = done[1] /\ 1 \in 1 .. Len(done)
    BY <1>1, HeadTailProperties, EmptySeq, SMT DEF finishModuleWork, TypeOK
  <2>2. jobs[c] \in Job
    BY <2>1 DEF TypeOK, JobAccounting, Finished, InFlight
  <2>3. jobs[c].len \in Nat /\ jobs[c].stage \in Stage
    BY <2>2 DEF Job
  <2>4. reply' \in Reply /\ pc' = "reply"
    BY <1>1, <2>1, <2>3, replyType DEF finishModuleWork
  <2>5. jobs' \in [Corr -> Job \cup {None}]
    BY <1>1 DEF finishModuleWork, TypeOK
  <2> QED
    BY <1>1, <2>1, <2>4, <2>5 DEF TypeOK, finishModuleWork, Pc, envVars, history
<1>2. CASE DrainEmpty \/ PollNothing
  BY <1>2 DEF TypeOK, DrainEmpty, PollNothing, Pc, envVars, history
<1>3. CASE BeginShutdown
  <2>1. jobs' \in [Corr -> Job \cup {None}]
    <3>1. \A c \in Corr : jobs[c] # None => [jobs[c] EXCEPT !.cancelled = TRUE] \in Job
      BY DEF TypeOK, Job
    <3> QED
      BY <1>3, <3>1 DEF BeginShutdown
  <2> QED
    BY <1>3, <2>1 DEF TypeOK, BeginShutdown, Pc, envVars, history
<1>4. CASE ShutdownReceive
  <2>1. Tail(done) \in Seq(Corr)
    BY <1>4, HeadTailProperties DEF ShutdownReceive, TypeOK
  <2>2. jobs' \in [Corr -> Job \cup {None}]
    BY <1>4 DEF ShutdownReceive, TypeOK
  <2> QED
    BY <1>4, <2>1, <2>2 DEF TypeOK, ShutdownReceive, envVars, history
<1>5. CASE ShutdownReturn \/ EpochReturn \/ ReplyBadBudget \/ ReplyError \/ ReplyWaitCtx
           \/ ReplyWaitEpoch
  BY <1>5 DEF TypeOK, ShutdownReturn, EpochReturn, ReplyBadBudget, ReplyError,
              ReplyWaitCtx, ReplyWaitEpoch, Return, Pc, Exit, envVars, history
<1>6. CASE LoopTop
  <2>1. loopNow' \in 0 .. MaxTime /\ heartbeat' \in 0 .. MaxTime
    BY <1>6, RuntimeAssumption, SMTT(20) DEF TypeOK, LoopTop, monotonicNowNS, Beat
  <2> QED
    BY <1>6, <2>1 DEF TypeOK, LoopTop, Pc, envVars, history
<1>7. ASSUME NEW c \in Corr, PollCancel(c)
      PROVE  TypeOK'
  <2>1. jobs' \in [Corr -> Job \cup {None}]
    <3>1. jobs \in [Corr -> Job \cup {None}]
      BY DEF TypeOK
    <3>2. CASE jobs[c] = None
      BY <1>7, <3>1, <3>2 DEF PollCancel
    <3>3. CASE jobs[c] # None
      <4>1. jobs[c] \in Job /\ jobs' = [jobs EXCEPT ![c].cancelled = TRUE]
        BY <1>7, <3>1, <3>3 DEF PollCancel
      <4>2. [jobs[c] EXCEPT !.cancelled = TRUE] \in Job
        BY <4>1, Zenon DEF Job
      <4>3. jobs' = [jobs EXCEPT ![c] = [jobs[c] EXCEPT !.cancelled = TRUE]]
        BY <4>1
      <4> QED BY <3>1, <4>2, <4>3
    <3> QED BY <3>2, <3>3
  <2>2. streams' \in [Corr -> Stream]
    <3>1. Closed("cancelled") \in Stream
      BY SMT DEF Closed, Stream
    <3> QED
      BY <1>7, <3>1 DEF TypeOK, PollCancel
  <2>3. events' \in 0 .. MaxEvents
    BY <1>7, RuntimeAssumption, SMT DEF TypeOK, PollCancel, Polled
  <2> QED
    BY <1>7, <2>1, <2>2, <2>3 DEF TypeOK, PollCancel, Pc, envVars
<1>8. CASE PollOther
  <2>1. events' \in 0 .. MaxEvents
    BY <1>8, RuntimeAssumption, SMT DEF TypeOK, PollOther, Polled
  <2> QED
    BY <1>8, <2>1 DEF TypeOK, PollOther, Pc, envVars
<1>9. CASE DispatchRequest
  <2> SUFFICES ASSUME NEW c \in Corr, NEW k \in Kind, NEW p \in Payload,
                      \/ \E more \in BOOLEAN : \/ RejectInvalid(c, k, p, more)
                                               \/ RejectTableFull(c, k, p, more)
                                               \/ RejectTooLarge(c, k, p, more)
                      \/ ExtendAssembly(c, k, p)
                      \/ RejectExpired(c, k, p)
                      \/ RejectAbsent(c, k, p)
                      \/ RejectJobsFull(c, k, p)
                      \/ StartJob(c, k, p)
               PROVE  TypeOK'
    BY <1>9 DEF DispatchRequest
  <2>0. 0 \in Nat
    OBVIOUS
  <2>1. ASSUME NEW more \in BOOLEAN,
               RejectInvalid(c, k, p, more) \/ RejectTableFull(c, k, p, more)
                 \/ RejectTooLarge(c, k, p, more)
        PROVE  TypeOK'
    <3>1. PollRequest(c, k, p, more)
      BY <2>1 DEF RejectInvalid, RejectTableFull, RejectTooLarge
    <3>2. events' \in 0 .. MaxEvents /\ streams' \in [Corr -> Stream]
      BY <3>1, PollRequestType
    <3>3. reply' \in Reply /\ pc' = "reply"
      BY <2>0, <2>1, StageType, replyType DEF RejectInvalid, RejectTableFull, RejectTooLarge
    <3>4. assemblies' \in [Corr -> Assembly \cup {None}] /\ jobs' = jobs
      BY <2>1 DEF TypeOK, RejectInvalid, RejectTableFull, RejectTooLarge
    <3> QED
      BY <3>1, <3>2, <3>3, <3>4 DEF TypeOK, PollRequest, Pc, envVars
  <2>2. CASE ExtendAssembly(c, k, p)
    <3>1. PollRequest(c, k, p, TRUE)
      BY <2>2 DEF ExtendAssembly
    <3>2. /\ events' \in 0 .. MaxEvents /\ streams' \in [Corr -> Stream]
          /\ p.bodyLen \in Nat /\ p.deadline \in Deadline /\ p.trace \in Trace
      BY <3>1, PollRequestType
    <3>3. [kind |-> k, deadline |-> p.deadline, trace |-> p.trace,
           len |-> Held(c) + p.bodyLen] \in Assembly
      BY <3>2, HeldType, SMT DEF Assembly
    <3>4. assemblies' \in [Corr -> Assembly \cup {None}]
      BY <2>2, <3>3 DEF TypeOK, ExtendAssembly
    <3> QED
      BY <2>2, <3>1, <3>2, <3>4 DEF TypeOK, ExtendAssembly, PollRequest, Pc, envVars
  <2>3. CASE RejectExpired(c, k, p) \/ RejectAbsent(c, k, p) \/ RejectJobsFull(c, k, p)
    <3>1. PollRequest(c, k, p, FALSE) /\ assemblies' = [assemblies EXCEPT ![c] = None]
      BY <2>3 DEF RejectExpired, RejectAbsent, RejectJobsFull, CompleteAssembly
    <3>2. events' \in 0 .. MaxEvents /\ streams' \in [Corr -> Stream]
      BY <3>1, PollRequestType
    <3>3. reply' \in Reply /\ pc' = "reply" /\ jobs' = jobs
      BY <2>0, <2>3, StageType, replyType DEF RejectExpired, RejectAbsent, RejectJobsFull
    <3>4. assemblies' \in [Corr -> Assembly \cup {None}]
      BY <3>1 DEF TypeOK
    <3> QED
      BY <3>1, <3>2, <3>3, <3>4 DEF TypeOK, PollRequest, Pc, envVars
  <2>4. CASE StartJob(c, k, p)
    <3>1. PollRequest(c, k, p, FALSE) /\ assemblies' = [assemblies EXCEPT ![c] = None]
      BY <2>4 DEF StartJob, CompleteAssembly
    <3>2. /\ events' \in 0 .. MaxEvents /\ streams' \in [Corr -> Stream]
          /\ p.bodyLen \in Nat /\ p.deadline \in Deadline
          /\ SentSoFar(c) + p.bodyLen \in Nat
      BY <3>1, PollRequestType
    <3>3. [stage |-> Stages[k], deadline |-> p.deadline, cancelled |-> FALSE, phase |-> "running",
           status |-> "OK", len |-> 0,
           got |-> Held(c) + p.bodyLen, sent |-> SentSoFar(c) + p.bodyLen, said |-> "OK", told |-> FALSE] \in Job
      BY <3>2, HeldType, SMT DEF Job, ModuleStatus, Stage
    <3>4. /\ assemblies' \in [Corr -> Assembly \cup {None}]
          /\ jobs' \in [Corr -> Job \cup {None}]
      BY <2>4, <3>1, <3>3 DEF TypeOK, StartJob
    <3> QED
      BY <2>4, <3>1, <3>2, <3>4 DEF TypeOK, StartJob, PollRequest, Pc, envVars
  <2> QED
    BY <2>1, <2>2, <2>3, <2>4
<1>10. CASE ReplyFragment
  <2>1. MayEmit
    BY <1>10 DEF ReplyFragment
  <2>2. reply.corr \in Corr /\ reply.status \in ModuleStatus
    BY <2>1, ReplyPartType
  <2>3. outbound' \in 0 .. OutCap
    BY <1>10, RuntimeAssumption, SMT DEF TypeOK, ReplyFragment
  <2>4. CASE More
    <3>1. reply' \in Reply
      BY <1>10, <2>4, ReplyPartStep
    <3> QED
      BY <1>10, <2>3, <2>4, <3>1 DEF TypeOK, ReplyFragment, envVars
  <2>5. CASE ~More
    <3> DEFINE a == [status |-> reply.status, whole |-> reply.emitted + Part = reply.len]
               R == [status : ModuleStatus, whole : BOOLEAN]
    <3>1. a \in R
      BY <2>2
    <3>2. answers[reply.corr] \in Seq(R)
      BY <2>2 DEF TypeOK
    <3>3. Append(answers[reply.corr], a) \in Seq(R)
      BY <3>1, <3>2, AppendProperties
    <3>4. answers' = [answers EXCEPT ![reply.corr] = Append(@, a)]
      BY <1>10, <2>5 DEF ReplyFragment
    <3>5. answers' \in [Corr -> Seq(R)]
      BY <2>2, <3>3, <3>4 DEF TypeOK
    <3> QED
      BY <1>10, <2>3, <2>5, <3>5 DEF TypeOK, ReplyFragment, Pc, envVars
  <2> QED
    BY <2>4, <2>5
<1>11. CASE ReplyWouldBlock
  BY <1>11 DEF TypeOK, ReplyWouldBlock, Pc, envVars, history
<1>12. CASE ReplyRetry
  <2>1. heartbeat' \in 0 .. MaxTime
    BY <1>12, RuntimeAssumption, SMT DEF TypeOK, ReplyRetry, monotonicNowNS, Beat
  <2> QED
    BY <1>12, <2>1 DEF TypeOK, ReplyRetry, Pc, envVars, history
<1>13. ASSUME NEW c \in Corr, NEW outcome \in HandlerOutcome, HandlerReturn(c, outcome)
       PROVE  TypeOK'
  <2>1. /\ NormalStatus(outcome[1], outcome[2]) \in ModuleStatus
        /\ NormalLen(outcome[1], outcome[2]) \in Nat
    BY NormalType, RuntimeAssumption
  <2>2. jobs[c] \in Job
    BY <1>13 DEF HandlerReturn, TypeOK
  <2>3. jobs' \in [Corr -> Job \cup {None}]
    BY <1>13, <2>1, <2>2 DEF HandlerReturn, TypeOK, Job, ModuleStatus
  <2> QED
    BY <1>13, <2>3 DEF TypeOK, HandlerReturn, envVars, history
<1>14. ASSUME NEW c \in Corr, HandlerSend(c)
       PROVE  TypeOK'
  <2>1. jobs[c] \in Job
    BY <1>14 DEF HandlerSend, TypeOK
  <2>2. jobs' \in [Corr -> Job \cup {None}]
    <3>1. PICK late \in BOOLEAN :
            jobs' = [jobs EXCEPT ![c] = [jobs[c] EXCEPT
                       !.phase  = "done",
                       !.status = IF late THEN "DeadlineExceeded" ELSE jobs[c].status,
                       !.len    = IF late THEN 0 ELSE jobs[c].len]]
      BY <1>14, JobSent
    <3>2. jobs'[c] \in Job
      BY <2>1, <3>1 DEF Job, ModuleStatus, TypeOK
    <3> QED
      BY <3>1, <3>2 DEF TypeOK
  <2>3. done' \in Seq(Corr)
    BY <1>14, AppendProperties DEF HandlerSend, TypeOK
  <2> QED
    BY <1>14, <2>2, <2>3 DEF TypeOK, HandlerSend, envVars, history
<1>15. CASE Environment
  <2>1. CASE HostDrain
    <3>1. outbound' \in 0 .. OutCap
      BY <2>1, RuntimeAssumption, SMT DEF TypeOK, HostDrain
    <3> QED
      BY <2>1, <3>1 DEF TypeOK, HostDrain, envVars, history
  <2>2. CASE Tick
    <3>1. clock' \in 1 .. MaxTime
      BY <2>2, RuntimeAssumption, SMT DEF TypeOK, Tick
    <3> QED
      BY <2>2, <3>1 DEF TypeOK, Tick, loopVars, history
  <2>3. CASE HostRestart \/ CtxCancel
    BY <2>3 DEF TypeOK, HostRestart, CtxCancel, loopVars, history
  <2> QED
    BY <1>15, <2>1, <2>2, <2>3 DEF Environment
<1>16. CASE UNCHANGED vars
  BY <1>16 DEF TypeOK, vars, loopVars, envVars, history
<1> QED
  BY <1>1, <1>2, <1>3, <1>4, <1>5, <1>6, <1>7, <1>8, <1>9, <1>10, <1>11, <1>12, <1>13,
     <1>14, <1>15, <1>16 DEF Next, Loop, Handler
-------------------------------------------------------------------------------
(* A request that is refused is answered with a failure. *)
LEMMA replyFails ==
  ASSUME NEW c \in Corr, NEW stage, NEW status, status # "OK", replyModuleResult(c, stage, status, 0)
  PROVE  reply'.status # "OK"
BY DEF replyModuleResult, NormalStatus

(* Every refusal enters "reply" with a fresh answer, which is a failure. *)
DispatchAnswers(c) ==
  /\ reply' \in Reply /\ reply' # None /\ pc' = "reply"
  /\ reply'.offset = 0 /\ reply'.emitted = 0 /\ reply'.len \in Nat
  /\ reply'.corr = c /\ reply'.status # "OK"

(* A dispatched request is answered, extends its assembly or starts a job. *)
LEMMA DispatchCases ==
  ASSUME IInv, DispatchRequest
  PROVE  \E c \in Corr, k \in Kind, p \in Payload, more \in BOOLEAN :
           /\ PollRequest(c, k, p, more)
           /\ \/ /\ jobs' = jobs
                 /\ assemblies' \in {assemblies, [assemblies EXCEPT ![c] = None]}
                 /\ DispatchAnswers(c)
              \/ /\ jobs' = jobs
                 /\ more
                 /\ ExtendAssembly(c, k, p)
                 /\ pc' = "drain" /\ reply' = reply
              \/ /\ StartJob(c, k, p)
                 /\ assemblies' = [assemblies EXCEPT ![c] = None]
                 /\ pc' = "drain" /\ reply' = reply
<1>1. PICK c \in Corr, k \in Kind, p \in Payload :
                      \/ \E more \in BOOLEAN : \/ RejectInvalid(c, k, p, more)
                                               \/ RejectTableFull(c, k, p, more)
                                               \/ RejectTooLarge(c, k, p, more)
                      \/ ExtendAssembly(c, k, p)
                      \/ RejectExpired(c, k, p)
                      \/ RejectAbsent(c, k, p)
                      \/ RejectJobsFull(c, k, p)
                      \/ StartJob(c, k, p)
  BY DEF DispatchRequest
<1>0. 0 \in Nat
  OBVIOUS
<1>2. ASSUME NEW more \in BOOLEAN,
             RejectInvalid(c, k, p, more) \/ RejectTableFull(c, k, p, more)
               \/ RejectTooLarge(c, k, p, more)
      PROVE  /\ PollRequest(c, k, p, more) /\ jobs' = jobs
             /\ assemblies' \in {assemblies, [assemblies EXCEPT ![c] = None]}
             /\ DispatchAnswers(c)
  <2>1. DispatchAnswers(c)
    BY <1>0, <1>2, StageType, replyType, replyFails
       DEF RejectInvalid, RejectTableFull, RejectTooLarge, DispatchAnswers
  <2> QED
    BY <1>2, <2>1 DEF RejectInvalid, RejectTableFull, RejectTooLarge
<1>3. ASSUME RejectExpired(c, k, p) \/ RejectAbsent(c, k, p) \/ RejectJobsFull(c, k, p)
      PROVE  /\ PollRequest(c, k, p, FALSE) /\ jobs' = jobs
             /\ assemblies' \in {assemblies, [assemblies EXCEPT ![c] = None]}
             /\ DispatchAnswers(c)
  <2>1. DispatchAnswers(c)
    BY <1>0, <1>3, StageType, replyType, replyFails
       DEF RejectExpired, RejectAbsent, RejectJobsFull, DispatchAnswers
  <2> QED
    BY <1>3, <2>1 DEF RejectExpired, RejectAbsent, RejectJobsFull, CompleteAssembly
<1>4. ASSUME ExtendAssembly(c, k, p)
      PROVE  /\ PollRequest(c, k, p, TRUE) /\ jobs' = jobs
             /\ pc' = "drain" /\ reply' = reply
  BY <1>4 DEF ExtendAssembly
<1>5. ASSUME StartJob(c, k, p)
      PROVE  /\ PollRequest(c, k, p, FALSE)
             /\ assemblies' = [assemblies EXCEPT ![c] = None]
             /\ pc' = "drain" /\ reply' = reply
  BY <1>5 DEF StartJob, CompleteAssembly
<1> QED
  BY <1>1, <1>2, <1>3, <1>4, <1>5

(* The result at the head of the channel belongs to a job. *)
LEMMA HeadIsFinished ==
  ASSUME IInv, done # <<>>
  PROVE  /\ Head(done) \in Corr /\ Head(done) = done[1] /\ 1 \in 1 .. Len(done)
         /\ Head(done) \in Finished
         /\ jobs[Head(done)] \in Job /\ jobs[Head(done)].len \in Nat
         /\ jobs[Head(done)].stage \in Stage
<1>1. /\ Head(done) \in Corr /\ Head(done) = done[1] /\ 1 \in 1 .. Len(done)
  BY HeadTailProperties, EmptySeq, SMT DEF IInv, TypeOK
<1>2. Head(done) \in Finished
  BY <1>1 DEF IInv, JobAccounting
<1>3. jobs[Head(done)] \in Job
  BY <1>2 DEF IInv, TypeOK, Finished, InFlight
<1> QED
  BY <1>1, <1>2, <1>3 DEF Job

(* Every step keeps the invariant of the reply being sent. *)
LEMMA ReplyStep == IInv /\ [Next]_vars => ReplyInv'
<1> SUFFICES ASSUME IInv, [Next]_vars
             PROVE  ReplyInv'
  OBVIOUS
<1>0. TypeOK /\ ReplyInv
  BY DEF IInv
<1>1. CASE finishModuleWork
  <2>1. reply' # None /\ pc' = "reply" /\ reply'.offset = 0 /\ reply'.emitted = 0
        /\ reply'.len \in Nat
    BY <1>1, HeadIsFinished, replyType DEF finishModuleWork
  <2> QED
    BY <1>0, <1>1, <2>1, SMT DEF ReplyInv, finishModuleWork
<1>2. CASE DrainEmpty \/ PollNothing \/ BeginShutdown \/ ShutdownReceive \/ LoopTop
           \/ PollOther \/ (\E c \in Corr : PollCancel(c))
  BY <1>0, <1>2 DEF ReplyInv, DrainEmpty, PollNothing, BeginShutdown, ShutdownReceive,
     LoopTop, PollOther, PollCancel, Polled
<1>3. CASE ShutdownReturn \/ EpochReturn \/ ReplyBadBudget \/ ReplyError \/ ReplyWaitCtx
           \/ ReplyWaitEpoch
  BY <1>0, <1>3 DEF ReplyInv, ShutdownReturn, EpochReturn, ReplyBadBudget, ReplyError,
              ReplyWaitCtx, ReplyWaitEpoch, Return
<1>4. CASE DispatchRequest
  <2>1. PICK c \in Corr, k \in Kind, p \in Payload, more \in BOOLEAN :
           /\ PollRequest(c, k, p, more)
           /\ \/ DispatchAnswers(c)
              \/ pc' = "drain" /\ reply' = reply
    BY <1>4, DispatchCases
  <2>2. pc = "poll" /\ exit' = exit
    BY <2>1 DEF PollRequest, Polled
  <2>3. CASE DispatchAnswers(c)
    BY <1>0, <2>2, <2>3, SMT DEF ReplyInv, DispatchAnswers
  <2>4. CASE pc' = "drain" /\ reply' = reply
    BY <1>0, <2>2, <2>4 DEF ReplyInv
  <2> QED
    BY <2>1, <2>3, <2>4
<1>5. CASE ReplyFragment
  <2>1. CASE More
    <3>1. /\ reply' # None /\ pc' = pc
          /\ reply'.offset <= reply'.len /\ reply'.emitted = reply'.offset
      BY <1>0, <1>5, <2>1, ReplyPartStep
    <3>2. pc = "reply" /\ exit' = exit
      BY <1>5 DEF ReplyFragment, MayEmit
    <3> QED
      BY <1>0, <3>1, <3>2 DEF ReplyInv
  <2>2. CASE ~More
    BY <1>0, <1>5, <2>2 DEF ReplyInv, ReplyFragment, MayEmit
  <2> QED
    BY <2>1, <2>2
<1>6. CASE ReplyWouldBlock \/ ReplyRetry
  BY <1>0, <1>6 DEF ReplyInv, ReplyWouldBlock, ReplyRetry, MayEmit
<1>7. ASSUME NEW c \in Corr, Handler(c)
      PROVE  ReplyInv'
  BY <1>0, <1>7 DEF ReplyInv, Handler, HandlerReturn, HandlerSend
<1>8. CASE Environment
  BY <1>0, <1>8 DEF ReplyInv, Environment, HostDrain, HostRestart, CtxCancel, Tick, loopVars
<1>9. CASE UNCHANGED vars
  BY <1>0, <1>9 DEF ReplyInv, vars, loopVars
<1> QED
  BY <1>1, <1>2, <1>3, <1>4, <1>5, <1>6, <1>7, <1>8, <1>9 DEF Next, Loop
-------------------------------------------------------------------------------
(* The accounting of jobs, finished jobs and the channel. *)
LEMMA TablesFinite ==
  /\ IsFiniteSet(InFlight) /\ Cardinality(InFlight) \in Nat
  /\ IsFiniteSet(Finished) /\ Cardinality(Finished) \in Nat
  /\ IsFiniteSet(Assembling) /\ Cardinality(Assembling) \in Nat
<1>1. InFlight \subseteq Corr /\ Finished \subseteq InFlight /\ Assembling \subseteq Corr
  BY DEF InFlight, Finished, Assembling
<1> QED
  BY <1>1, FS_Subset, FS_CardinalityType, RuntimeAssumption

(* Steps that keep the set of jobs and of finished jobs. *)
LEMMA AccountingKept ==
  ASSUME JobAccounting, InFlight' = InFlight, Finished' = Finished, done' = done,
         Cardinality(Assembling') <= moduleMaxInFlight
  PROVE  JobAccounting'
BY DEF JobAccounting

(* Dropping an assembly keeps their number within the limit. *)
LEMMA AssemblyDropped ==
  ASSUME IInv, NEW c, assemblies' = [assemblies EXCEPT ![c] = None]
  PROVE  Cardinality(Assembling') <= moduleMaxInFlight
<1>1. Assembling' \subseteq Assembling
  BY DEF IInv, TypeOK, Assembling
<1>2. Cardinality(Assembling') <= Cardinality(Assembling) /\ Cardinality(Assembling') \in Nat
  BY <1>1, TablesFinite, FS_Subset, FS_CardinalityType
<1> QED
  BY <1>2, TablesFinite, RuntimeAssumption, SMT DEF IInv, JobAccounting

(* Receiving a result: the job and its place in the channel go together. *)
LEMMA AccountingReceive ==
  ASSUME IInv, done # <<>>, done' = Tail(done), assemblies' = assemblies,
         jobs' = [jobs EXCEPT ![Head(done)] = None]
  PROVE  JobAccounting'
<1> DEFINE c == Head(done)
<1>1. c \in Corr /\ c = done[1] /\ 1 \in 1 .. Len(done) /\ c \in Finished
  BY HeadIsFinished
<1>2. InFlight' = InFlight \ {c} /\ Finished' = Finished \ {c} /\ Assembling' = Assembling
  BY <1>1 DEF IInv, TypeOK, InFlight, Finished, Assembling
<1>3. /\ done \in Seq(Corr) /\ Len(done) \in Nat
      /\ Len(done') = Len(done) - 1
      /\ \A i \in 1 .. Len(done') : done'[i] = done[i + 1]
  BY HeadTailProperties, LenProperties DEF IInv, TypeOK
<1>4. ASSUME NEW i \in 1 .. Len(done')
      PROVE  /\ i + 1 \in 1 .. Len(done) /\ done'[i] = done[i + 1]
             /\ done[i + 1] \in Finished /\ done[i + 1] # c
  <2>1. i + 1 \in 1 .. Len(done) /\ i + 1 # 1
    BY <1>3, <1>4, SMT
  <2>2. done[i + 1] \in Finished /\ done[i + 1] # done[1]
    BY <1>1, <2>1 DEF IInv, JobAccounting
  <2> QED
    BY <1>1, <1>3, <1>4, <2>1, <2>2
<1>5. \A i \in 1 .. Len(done') : done'[i] \in Finished'
  BY <1>2, <1>4
<1>6. ASSUME NEW i \in 1 .. Len(done'), NEW j \in 1 .. Len(done'), done'[i] = done'[j]
      PROVE  i = j
  <2>1. i + 1 = j + 1
    BY <1>4, <1>6 DEF IInv, JobAccounting
  <2> QED
    BY <1>3, <2>1, SMT
<1>7. Cardinality(Finished') = Cardinality(Finished) - 1
  BY <1>1, <1>2, TablesFinite, FS_RemoveElement
<1>8. Cardinality(InFlight') <= moduleMaxInFlight
  <2>1. Cardinality(InFlight') <= Cardinality(InFlight) /\ Cardinality(InFlight') \in Nat
    BY <1>2, TablesFinite, FS_Subset, FS_CardinalityType
  <2> QED
    BY <2>1, TablesFinite, RuntimeAssumption, SMT DEF IInv, JobAccounting
<1> QED
  BY <1>2, <1>3, <1>5, <1>6, <1>7, <1>8 DEF IInv, JobAccounting

(* Sending a result: a job that was not finished takes one more place. *)
LEMMA AccountingSend ==
  ASSUME IInv, NEW c \in Corr, HandlerSend(c)
  PROVE  JobAccounting'
<1>1. jobs[c] \in Job /\ c \in InFlight /\ c \notin Finished
  BY DEF IInv, TypeOK, HandlerSend, InFlight, Finished
<1>2. PICK late \in BOOLEAN :
            jobs' = [jobs EXCEPT ![c] = [jobs[c] EXCEPT
                       !.phase  = "done",
                       !.status = IF late THEN "DeadlineExceeded" ELSE jobs[c].status,
                       !.len    = IF late THEN 0 ELSE jobs[c].len]]
  BY JobSent DEF IInv
<1>3. jobs'[c] \in Job /\ jobs'[c].phase = "done" /\ jobs'[c] # None
  <2>1. jobs'[c] \in Job /\ jobs'[c].phase = "done"
    BY <1>1, <1>2 DEF IInv, TypeOK, Job, ModuleStatus
  <2> QED
    BY <2>1, NoneAssumption
<1>4. \A d \in Corr : d # c => jobs'[d] = jobs[d]
  BY <1>2 DEF IInv, TypeOK
<1>5. InFlight' = InFlight /\ Finished' = Finished \cup {c} /\ Assembling' = Assembling
  BY <1>1, <1>3, <1>4 DEF InFlight, Finished, Assembling, HandlerSend
<1>6. /\ done \in Seq(Corr) /\ Len(done) \in Nat
      /\ Len(done') = Len(done) + 1
      /\ \A i \in 1 .. Len(done) : done'[i] = done[i]
      /\ done'[Len(done) + 1] = c
  BY AppendProperties, LenProperties DEF IInv, TypeOK, HandlerSend
<1>7. ASSUME NEW i \in 1 .. Len(done')
      PROVE  \/ i \in 1 .. Len(done) /\ done'[i] = done[i] /\ done[i] \in Finished
             \/ i = Len(done) + 1 /\ done'[i] = c
  <2>1. i \in 1 .. Len(done) \/ i = Len(done) + 1
    BY <1>6, <1>7, SMT
  <2> QED
    BY <1>6, <2>1 DEF IInv, JobAccounting
<1>8. \A i \in 1 .. Len(done') : done'[i] \in Finished'
  BY <1>5, <1>7
<1>9. ASSUME NEW i \in 1 .. Len(done'), NEW j \in 1 .. Len(done'), done'[i] = done'[j]
      PROVE  i = j
  BY <1>1, <1>7, <1>9 DEF IInv, JobAccounting
<1>10. Cardinality(Finished') = Cardinality(Finished) + 1
  BY <1>1, <1>5, TablesFinite, FS_AddElement
<1> QED
  BY <1>5, <1>6, <1>8, <1>9, <1>10 DEF IInv, JobAccounting

(* Starting a job keeps the accounts of jobs and assemblies. *)
LEMMA AccountingStart ==
  ASSUME IInv, NEW c \in Corr, NEW k \in Kind, NEW p \in Payload, StartJob(c, k, p)
  PROVE  JobAccounting'
<1>1. /\ jobs[c] = None /\ ~JobsFull
      /\ assemblies' = [assemblies EXCEPT ![c] = None]
      /\ done' = done
  BY DEF StartJob, CompleteAssembly, Accepted, invalid, PollRequest
<1> DEFINE w == [stage |-> Stages[k], deadline |-> p.deadline, cancelled |-> FALSE, phase |-> "running",
                 status |-> "OK", len |-> 0,
                 got |-> Held(c) + p.bodyLen, sent |-> SentSoFar(c) + p.bodyLen,
                 said |-> "OK", told |-> FALSE]
<1>2. jobs' = [jobs EXCEPT ![c] = w]
  BY DEF StartJob
<1>3. w \in Job
  <2>1. PollRequest(c, k, p, FALSE)
    BY DEF StartJob, CompleteAssembly
  <2>2. /\ p.bodyLen \in Nat /\ p.deadline \in Deadline
        /\ SentSoFar(c) + p.bodyLen \in Nat
    BY <2>1, PollRequestType DEF IInv
  <2>3. Held(c) \in Nat
    BY HeldType DEF IInv
  <2> QED
    BY <2>2, <2>3, SMT DEF Job, ModuleStatus, Stage
<1>4. w # None /\ w.phase # "done"
  BY <1>3, NoneAssumption
<1> HIDE DEF w
<1>5. /\ jobs'[c] = w
      /\ \A d \in Corr : d # c => jobs'[d] = jobs[d]
  BY <1>2 DEF IInv, TypeOK
<1>6. InFlight' = InFlight \cup {c} /\ Finished' = Finished /\ c \notin InFlight
  BY <1>1, <1>4, <1>5 DEF InFlight, Finished
<1>7. Cardinality(InFlight') = Cardinality(InFlight) + 1
  BY <1>6, TablesFinite, FS_AddElement
<1>8. Cardinality(InFlight') <= moduleMaxInFlight
  BY <1>1, <1>7, TablesFinite, RuntimeAssumption, SMT DEF JobsFull
<1>9. Cardinality(Assembling') <= moduleMaxInFlight
  BY <1>1, AssemblyDropped
<1> QED
  BY <1>1, <1>6, <1>8, <1>9 DEF IInv, JobAccounting

(* Extending an assembly keeps the accounts of jobs and assemblies. *)
LEMMA AccountingExtend ==
  ASSUME IInv, NEW c \in Corr, NEW k \in Kind, NEW p \in Payload, ExtendAssembly(c, k, p)
  PROVE  JobAccounting'
<1>1. jobs' = jobs /\ done' = done
  BY DEF ExtendAssembly, PollRequest
<1>2. InFlight' = InFlight /\ Finished' = Finished
  BY <1>1 DEF InFlight, Finished
<1>3. Assembling' \subseteq Assembling \cup {c}
  BY DEF IInv, TypeOK, ExtendAssembly, Assembling
<1>4. Cardinality(Assembling \cup {c}) <= moduleMaxInFlight
  <2>1. CASE c \in Assembling
    <3>1. Assembling \cup {c} = Assembling
      BY <2>1
    <3> QED
      BY <3>1 DEF IInv, JobAccounting
  <2>2. CASE c \notin Assembling
    <3>1. ~(Cardinality(Assembling) >= moduleMaxInFlight)
      BY <2>2 DEF ExtendAssembly, Accepted, RoomToAssemble, Assembling
    <3>2. Cardinality(Assembling \cup {c}) = Cardinality(Assembling) + 1
      BY <2>2, TablesFinite, FS_AddElement
    <3> QED
      BY <3>1, <3>2, TablesFinite, RuntimeAssumption, SMT
  <2> QED
    BY <2>1, <2>2
<1>5. IsFiniteSet(Assembling \cup {c})
  BY TablesFinite, FS_AddElement
<1>6. /\ Cardinality(Assembling') <= Cardinality(Assembling \cup {c})
      /\ Cardinality(Assembling') \in Nat /\ Cardinality(Assembling \cup {c}) \in Nat
  BY <1>3, <1>5, FS_Subset, FS_CardinalityType
<1>7. Cardinality(Assembling') <= moduleMaxInFlight
  BY <1>4, <1>6, RuntimeAssumption, SMT
<1> QED
  BY <1>1, <1>2, <1>7, AccountingKept DEF IInv
(* Setting a cancel flag moves no job. *)
LEMMA FlagKeepsJobs ==
  ASSUME IInv, NEW S \in SUBSET Corr,
         jobs' = [c \in Corr |-> IF jobs[c] # None /\ c \in S
                                 THEN [jobs[c] EXCEPT !.cancelled = TRUE] ELSE jobs[c]]
  PROVE  InFlight' = InFlight /\ Finished' = Finished
<1>1. ASSUME NEW c \in Corr, jobs[c] # None
      PROVE  jobs'[c] # None /\ jobs'[c].phase = jobs[c].phase
  <2>1. jobs[c] \in Job
    BY <1>1 DEF IInv, TypeOK
  <2>2. [jobs[c] EXCEPT !.cancelled = TRUE] \in Job
    BY <2>1 DEF Job
  <2>3. [jobs[c] EXCEPT !.cancelled = TRUE].phase = jobs[c].phase
    BY <2>1 DEF Job
  <2> QED
    BY <1>1, <2>2, <2>3, NoneAssumption
<1>2. ASSUME NEW c \in Corr, jobs[c] = None
      PROVE  jobs'[c] = None
  BY <1>2
<1> QED
  BY <1>1, <1>2 DEF InFlight, Finished

(* Every step keeps the accounts of jobs and assemblies. *)
LEMMA AccountingStep == IInv /\ [Next]_vars => JobAccounting'
<1> SUFFICES ASSUME IInv, [Next]_vars
             PROVE  JobAccounting'
  OBVIOUS
<1>0. JobAccounting
  BY DEF IInv
<1>1. CASE finishModuleWork
  BY <1>1, AccountingReceive DEF finishModuleWork
<1>2. CASE BeginShutdown
  <2>1. jobs' = [c \in Corr |-> IF jobs[c] # None /\ c \in Corr
                                THEN [jobs[c] EXCEPT !.cancelled = TRUE] ELSE jobs[c]]
    BY <1>2 DEF BeginShutdown
  <2>2. InFlight' = InFlight /\ Finished' = Finished
    BY <2>1, FlagKeepsJobs
  <2>3. done' = done /\ Assembling' = Assembling
    BY <1>2 DEF BeginShutdown, Assembling
  <2> QED
    BY <1>0, <2>2, <2>3, AccountingKept DEF JobAccounting
<1>3. CASE ShutdownReceive
  BY <1>3, AccountingReceive DEF ShutdownReceive
<1>4. ASSUME NEW c \in Corr, PollCancel(c)
      PROVE  JobAccounting'
  <2>1. jobs' = [d \in Corr |-> IF jobs[d] # None /\ d \in {c}
                                THEN [jobs[d] EXCEPT !.cancelled = TRUE] ELSE jobs[d]]
    BY <1>4 DEF PollCancel, IInv, TypeOK
  <2>2. InFlight' = InFlight /\ Finished' = Finished
    BY <2>1, FlagKeepsJobs
  <2>3. done' = done /\ Cardinality(Assembling') <= moduleMaxInFlight
    BY <1>4, AssemblyDropped DEF PollCancel
  <2> QED
    BY <1>0, <2>2, <2>3, AccountingKept
<1>5. CASE DispatchRequest
  <2>1. PICK c \in Corr, k \in Kind, p \in Payload, more \in BOOLEAN :
           /\ PollRequest(c, k, p, more)
           /\ \/ /\ jobs' = jobs
                 /\ assemblies' \in {assemblies, [assemblies EXCEPT ![c] = None]}
              \/ ExtendAssembly(c, k, p)
              \/ StartJob(c, k, p)
    BY <1>5, DispatchCases
  <2>2. CASE /\ jobs' = jobs
             /\ assemblies' \in {assemblies, [assemblies EXCEPT ![c] = None]}
    <3>1. InFlight' = InFlight /\ Finished' = Finished /\ done' = done
      BY <2>1, <2>2 DEF InFlight, Finished, PollRequest
    <3>2. Cardinality(Assembling') <= moduleMaxInFlight
      <4>1. CASE assemblies' = assemblies
        BY <1>0, <4>1 DEF JobAccounting, Assembling
      <4> QED
        BY <2>2, <4>1, AssemblyDropped
    <3> QED
      BY <1>0, <3>1, <3>2, AccountingKept
  <2> QED
    BY <2>1, <2>2, AccountingExtend, AccountingStart
<1>6. ASSUME NEW c \in Corr, NEW outcome \in HandlerOutcome, HandlerReturn(c, outcome)
      PROVE  JobAccounting'
  <2>1. jobs[c] \in Job /\ c \in InFlight /\ c \notin Finished
    BY <1>6 DEF IInv, TypeOK, HandlerReturn, InFlight, Finished
  <2>2. jobs'[c] \in Job /\ jobs'[c].phase # "done"
    <3>1. /\ NormalStatus(outcome[1], outcome[2]) \in ModuleStatus
          /\ NormalLen(outcome[1], outcome[2]) \in Nat
      BY NormalType, RuntimeAssumption
    <3> QED
      BY <1>6, <2>1, <3>1 DEF HandlerReturn, IInv, TypeOK, Job, ModuleStatus
  <2>3. \A d \in Corr : d # c => jobs'[d] = jobs[d]
    BY <1>6 DEF HandlerReturn, IInv, TypeOK
  <2>4. InFlight' = InFlight /\ Finished' = Finished
    BY <2>1, <2>2, <2>3, NoneAssumption DEF InFlight, Finished
  <2>5. done' = done /\ Assembling' = Assembling
    BY <1>6 DEF HandlerReturn, Assembling
  <2> QED
    BY <1>0, <2>4, <2>5, AccountingKept DEF JobAccounting
<1>7. ASSUME NEW c \in Corr, HandlerSend(c)
      PROVE  JobAccounting'
  BY <1>7, AccountingSend
<1>8. CASE UNCHANGED <<jobs, done, assemblies>>
  BY <1>0, <1>8 DEF JobAccounting, InFlight, Finished, Assembling
<1>9. CASE DrainEmpty \/ ShutdownReturn \/ EpochReturn \/ LoopTop \/ PollNothing \/ PollOther
           \/ ReplyBadBudget \/ ReplyError \/ ReplyFragment \/ ReplyWouldBlock
           \/ ReplyWaitCtx \/ ReplyWaitEpoch \/ ReplyRetry \/ Environment \/ UNCHANGED vars
  BY <1>8, <1>9 DEF DrainEmpty, ShutdownReturn, EpochReturn, LoopTop, PollNothing, PollOther,
     ReplyBadBudget, ReplyError, ReplyFragment, ReplyWouldBlock, ReplyWaitCtx, ReplyWaitEpoch,
     ReplyRetry, Environment, HostDrain, HostRestart, CtxCancel, Tick, vars, loopVars
<1> QED
  BY <1>1, <1>2, <1>3, <1>4, <1>5, <1>6, <1>7, <1>9 DEF Next, Loop, Handler

-------------------------------------------------------------------------------
LEMMA InitIInv == Init => IInv
<1> SUFFICES ASSUME Init PROVE IInv
  OBVIOUS
<1>1. TypeOK
  <2>1. Closed("fresh") \in Stream
    BY SMT DEF Closed, Stream
  <2>2. done \in Seq(Corr) /\ <<>> \in Seq([status : ModuleStatus, whole : BOOLEAN])
    BY EmptySeq DEF Init
  <2>3. /\ 0 \in 0 .. OutCap /\ 1 \in 1 .. MaxTime /\ 0 \in 0 .. MaxTime
        /\ 0 \in 0 .. MaxEvents
    BY RuntimeAssumption, SMT
  <2> QED
    BY <2>1, <2>2, <2>3 DEF Init, TypeOK, Pc, Exit
<1>2. ReplyInv
  BY DEF Init, ReplyInv
<1>3. JobAccounting
  <2>1. InFlight = {} /\ Finished = {} /\ Assembling = {}
    BY DEF Init, InFlight, Finished, Assembling
  <2>2. Len(done) = 0
    BY DEF Init
  <2> QED
    BY <2>1, <2>2, FS_EmptySet, RuntimeAssumption, SMT DEF JobAccounting
<1> QED
  BY <1>1, <1>2, <1>3 DEF IInv

(* The serving loop keeps its type and its accounting: tables within their *)
(* limits, and in the channel exactly the finished jobs, each once         *)
(* (module_runtime.go 286-291, 298-300, 319-322, 414-427).                 *)
THEOREM RuntimeInvariant == Spec => [](TypeOK /\ ReplyInv /\ JobAccounting)
<1>1. Init => IInv
  BY InitIInv
<1>2. IInv /\ [Next]_vars => IInv'
  BY TypeStep, ReplyStep, AccountingStep DEF IInv
<1> QED
  BY <1>1, <1>2, PTL DEF Spec, IInv

(* No handler goroutine ever blocks on the channel: a job that has yet to  *)
(* send its result is in flight and not among the finished ones, so the    *)
(* channel holds fewer results than there may be jobs.                     *)
THEOREM HandlersNeverBlock == Spec => []HandlerNeverBlocks
<1>1. IInv => HandlerNeverBlocks
  <2> SUFFICES ASSUME IInv, NEW c \in Corr, jobs[c] # None,
                      jobs[c].phase \in {"returned", "cancelled"}
               PROVE  Len(done) < moduleMaxInFlight
    BY DEF HandlerNeverBlocks
  <2>1. c \in InFlight /\ Finished \subseteq InFlight \ {c}
    BY DEF InFlight, Finished
  <2>2. /\ IsFiniteSet(InFlight \ {c})
        /\ Cardinality(InFlight \ {c}) = Cardinality(InFlight) - 1
    BY <2>1, TablesFinite, FS_RemoveElement
  <2>3. Cardinality(Finished) <= Cardinality(InFlight \ {c})
    BY <2>1, <2>2, FS_Subset
  <2> QED
    BY <2>2, <2>3, TablesFinite, RuntimeAssumption, SMT DEF IInv, JobAccounting
<1>2. Spec => []IInv
  BY RuntimeInvariant, PTL DEF IInv
<1> QED
  BY <1>1, <1>2, PTL
-------------------------------------------------------------------------------
(* Only the last fragment of an answer is recorded as an answer. *)
LEMMA AnswersChange ==
  ASSUME IInv, [Next]_vars
  PROVE  \/ answers' = answers
         \/ /\ ReplyFragment /\ ~More
            /\ reply.corr \in Corr
            /\ answers' = [answers EXCEPT ![reply.corr] =
                  Append(@, [status |-> reply.status,
                             whole |-> reply.emitted + Part = reply.len])]
<1>1. CASE ReplyFragment
  <2>1. reply.corr \in Corr
    BY <1>1, ReplyPartType DEF IInv, ReplyFragment
  <2> QED
    BY <1>1, <2>1 DEF ReplyFragment
<1>2. CASE DispatchRequest
  <2>1. \E c \in Corr, k \in Kind, p \in Payload, more \in BOOLEAN : PollRequest(c, k, p, more)
    BY <1>2, DispatchCases
  <2> QED
    BY <2>1 DEF PollRequest
<1>3. CASE finishModuleWork \/ DrainEmpty \/ BeginShutdown \/ ShutdownReceive
           \/ ShutdownReturn \/ EpochReturn \/ LoopTop \/ PollNothing
           \/ (\E c \in Corr : PollCancel(c)) \/ PollOther
           \/ ReplyBadBudget \/ ReplyError \/ ReplyWouldBlock
           \/ ReplyWaitCtx \/ ReplyWaitEpoch \/ ReplyRetry
           \/ (\E c \in Corr : Handler(c)) \/ Environment \/ UNCHANGED vars
  BY <1>3 DEF finishModuleWork, DrainEmpty, BeginShutdown, ShutdownReceive, ShutdownReturn,
     EpochReturn, LoopTop, PollNothing, PollCancel, PollOther, ReplyBadBudget, ReplyError,
     ReplyWouldBlock, ReplyWaitCtx, ReplyWaitEpoch, ReplyRetry, Handler, HandlerReturn,
     HandlerSend, Environment, HostDrain, HostRestart, CtxCancel, Tick, vars, history
<1> QED
  BY <1>1, <1>2, <1>3 DEF Next, Loop

(* Every answer is the whole body it announces, for every inline budget    *)
(* and every number of waits on a full ring (module_runtime.go 235-273).   *)
THEOREM EveryAnswerIsWhole == Spec => []AnswersAreWhole
<1>1. Init => AnswersAreWhole
  <2> SUFFICES ASSUME Init PROVE AnswersAreWhole
    OBVIOUS
  <2>1. \A c \in Corr : Len(answers[c]) = 0
    BY DEF Init
  <2> QED
    BY <2>1, SMT DEF AnswersAreWhole
<1>2. IInv /\ AnswersAreWhole /\ [Next]_vars => AnswersAreWhole'
  <2> SUFFICES ASSUME IInv, AnswersAreWhole, [Next]_vars
               PROVE  AnswersAreWhole'
    OBVIOUS
  <2>1. CASE answers' = answers
    BY <2>1 DEF AnswersAreWhole
  <2>2. CASE /\ ReplyFragment /\ ~More
             /\ reply.corr \in Corr
             /\ answers' = [answers EXCEPT ![reply.corr] =
                   Append(@, [status |-> reply.status,
                              whole |-> reply.emitted + Part = reply.len])]
    <3> DEFINE d == reply.corr
               a == [status |-> reply.status, whole |-> reply.emitted + Part = reply.len]
               R == [status : ModuleStatus, whole : BOOLEAN]
    <3>1. reply.emitted + Part = reply.len /\ reply.status \in ModuleStatus
      BY <2>2, ReplyPartType DEF IInv, ReplyFragment
    <3>2. a \in R /\ a.whole
      BY <3>1
    <3> HIDE DEF a
    <3>3. answers[d] \in Seq(R) /\ Len(answers[d]) \in Nat
      BY <2>2, LenProperties DEF IInv, TypeOK
    <3>4. /\ answers'[d] = Append(answers[d], a)
          /\ \A c \in Corr : c # d => answers'[c] = answers[c]
      BY <2>2 DEF IInv, TypeOK, a
    <3>5. /\ Len(Append(answers[d], a)) = Len(answers[d]) + 1
          /\ \A i \in 1 .. Len(answers[d]) : Append(answers[d], a)[i] = answers[d][i]
          /\ Append(answers[d], a)[Len(answers[d]) + 1] = a
      BY <3>2, <3>3, AppendProperties
    <3>6. ASSUME NEW c \in Corr, NEW i \in 1 .. Len(answers'[c])
          PROVE  answers'[c][i].whole
      <4>1. CASE c # d
        BY <3>4, <3>6, <4>1 DEF AnswersAreWhole
      <4>2. CASE c = d
        <5>1. i \in 1 .. Len(answers[d]) \/ i = Len(answers[d]) + 1
          BY <3>3, <3>4, <3>5, <3>6, <4>2, SMT
        <5>2. CASE i \in 1 .. Len(answers[d])
          BY <2>2, <3>4, <3>5, <4>2, <5>2 DEF AnswersAreWhole
        <5>3. CASE i = Len(answers[d]) + 1
          BY <3>2, <3>4, <3>5, <4>2, <5>3
        <5> QED
          BY <5>1, <5>2, <5>3
      <4> QED
        BY <4>1, <4>2
    <3> QED
      BY <3>6 DEF AnswersAreWhole
  <2> QED
    BY <2>1, <2>2, AnswersChange
<1>3. Spec => []IInv
  BY RuntimeInvariant, PTL DEF IInv
<1> QED
  BY <1>1, <1>2, <1>3, PTL DEF Spec
-------------------------------------------------------------------------------
(* A request that has been read completely is somewhere. *)
Accounted(c) ==
  \/ answers[c] # <<>>
  \/ jobs[c] # None
  \/ reply # None /\ reply.corr = c

(* Answers are never taken back. *)
LEMMA AnswersGrow ==
  ASSUME IInv, [Next]_vars, NEW c \in Corr, answers[c] # <<>>
  PROVE  answers'[c] # <<>>
<1> DEFINE R == [status : ModuleStatus, whole : BOOLEAN]
           a == [status |-> reply.status, whole |-> reply.emitted + Part = reply.len]
<1>1. CASE answers' = answers
  BY <1>1
<1>2. CASE /\ ReplyFragment /\ ~More
           /\ reply.corr \in Corr
           /\ answers' = [answers EXCEPT ![reply.corr] = Append(@, a)]
  <2>1. a \in R
    BY <1>2, ReplyPartType DEF IInv, ReplyFragment
  <2>2. answers[reply.corr] \in Seq(R)
    BY <1>2 DEF IInv, TypeOK
  <2>3. Append(answers[reply.corr], a) # <<>>
    BY <2>1, <2>2, AppendProperties
  <2> QED
    BY <1>2, <2>3 DEF IInv, TypeOK
<1> QED
  BY <1>1, <1>2, AnswersChange

(* The job a request starts is well-typed. *)
LEMMA StartedJob ==
  ASSUME IInv, NEW c \in Corr, NEW k \in Kind, NEW p \in Payload, StartJob(c, k, p)
  PROVE  jobs'[c] \in Job
<1>1. PollRequest(c, k, p, FALSE)
  BY DEF StartJob, CompleteAssembly
<1>2. /\ p.bodyLen \in Nat /\ p.deadline \in Deadline
      /\ SentSoFar(c) + p.bodyLen \in Nat
  BY <1>1, PollRequestType DEF IInv
<1>3. Held(c) \in Nat
  BY HeldType DEF IInv
<1>4. [stage |-> Stages[k], deadline |-> p.deadline, cancelled |-> FALSE, phase |-> "running",
       status |-> "OK", len |-> 0,
       got |-> Held(c) + p.bodyLen, sent |-> SentSoFar(c) + p.bodyLen, said |-> "OK", told |-> FALSE] \in Job
  BY <1>2, <1>3, SMT DEF Job, ModuleStatus, Stage
<1> QED
  BY <1>4 DEF StartJob, IInv, TypeOK

(* A loop that serves has served all along. *)
LEMMA ServingBefore ==
  ASSUME IInv, [Next]_vars, Serving'
  PROVE  Serving
<1>0. ReplyInv
  BY DEF IInv
<1>1. CASE DispatchRequest
  <2>1. \E c \in Corr, k \in Kind, p \in Payload, more \in BOOLEAN : PollRequest(c, k, p, more)
    BY <1>1, DispatchCases
  <2> QED
    BY <1>0, <2>1 DEF PollRequest, Polled, Serving, ReplyInv
<1>2. CASE finishModuleWork \/ DrainEmpty \/ BeginShutdown \/ ShutdownReceive
           \/ ShutdownReturn \/ EpochReturn \/ LoopTop \/ PollNothing \/ PollOther
           \/ (\E d \in Corr : PollCancel(d))
  BY <1>0, <1>2 DEF Serving, ReplyInv, finishModuleWork, DrainEmpty, BeginShutdown,
     ShutdownReceive, ShutdownReturn, EpochReturn, LoopTop, PollNothing, PollOther,
     PollCancel, Polled, Return
<1>3. CASE ReplyBadBudget \/ ReplyError \/ ReplyFragment \/ ReplyWouldBlock
           \/ ReplyWaitCtx \/ ReplyWaitEpoch \/ ReplyRetry
  BY <1>0, <1>3 DEF Serving, ReplyInv, ReplyBadBudget, ReplyError, ReplyFragment,
     ReplyWouldBlock, ReplyWaitCtx, ReplyWaitEpoch, ReplyRetry, MayEmit, Return
<1>4. CASE (\E d \in Corr : Handler(d)) \/ Environment \/ UNCHANGED vars
  BY <1>4 DEF Serving, Handler, HandlerReturn, HandlerSend, Environment, HostDrain,
     HostRestart, CtxCancel, Tick, vars, loopVars
<1> QED
  BY <1>1, <1>2, <1>3, <1>4 DEF Next, Loop

(* While the loop serves, a request stays accounted for. *)
LEMMA AccountedStep ==
  ASSUME IInv, [Next]_vars, Serving, Serving', NEW c \in Corr, Accounted(c)
  PROVE  Accounted(c)'
<1>0. TypeOK /\ ReplyInv
  BY DEF IInv
<1>1. CASE answers[c] # <<>>
  BY <1>1, AnswersGrow DEF Accounted
<1>2. CASE finishModuleWork
  <2>1. reply = None
    BY <1>0, <1>2 DEF ReplyInv, finishModuleWork
  <2>2. reply' # None /\ reply'.corr = Head(done)
    BY <1>2, HeadIsFinished, replyType DEF finishModuleWork
  <2>3. CASE c # Head(done) /\ jobs[c] # None
    BY <1>0, <1>2, <2>3 DEF finishModuleWork, TypeOK, Accounted
  <2> QED
    BY <1>1, <2>1, <2>2, <2>3 DEF Accounted
<1>3. CASE BeginShutdown \/ ShutdownReceive \/ ShutdownReturn \/ EpochReturn
           \/ ReplyBadBudget \/ ReplyError \/ ReplyWaitCtx \/ ReplyWaitEpoch
  BY <1>3 DEF Serving, BeginShutdown, ShutdownReceive, ShutdownReturn, EpochReturn,
     ReplyBadBudget, ReplyError, ReplyWaitCtx, ReplyWaitEpoch, Return
<1>4. ASSUME NEW d \in Corr, PollCancel(d)
      PROVE  Accounted(c)'
  <2>1. jobs' = [e \in Corr |-> IF jobs[e] # None /\ e \in {d}
                                THEN [jobs[e] EXCEPT !.cancelled = TRUE] ELSE jobs[e]]
    BY <1>0, <1>4 DEF PollCancel, TypeOK
  <2>2. InFlight' = InFlight
    BY <2>1, FlagKeepsJobs
  <2>3. reply' = reply /\ answers' = answers
    BY <1>4 DEF PollCancel
  <2> QED
    BY <2>2, <2>3 DEF Accounted, InFlight
<1>5. CASE DispatchRequest
  <2>1. PICK d \in Corr, k \in Kind, p \in Payload, more \in BOOLEAN :
           /\ PollRequest(d, k, p, more)
           /\ \/ jobs' = jobs
              \/ StartJob(d, k, p)
    BY <1>5, DispatchCases
  <2>2. reply = None
    BY <1>0, <2>1 DEF ReplyInv, PollRequest, Polled
  <2>3. CASE jobs' = jobs
    BY <1>1, <2>2, <2>3 DEF Accounted
  <2>4. CASE StartJob(d, k, p)
    <3>1. jobs[d] = None
      BY <2>4 DEF StartJob, CompleteAssembly, Accepted, invalid
    <3>2. jobs[c] # None => jobs'[c] = jobs[c]
      BY <1>0, <2>4, <3>1 DEF StartJob, TypeOK
    <3> QED
      BY <1>1, <2>2, <3>2 DEF Accounted
  <2> QED
    BY <2>1, <2>3, <2>4
<1>6. CASE ReplyFragment
  <2>1. jobs' = jobs
    BY <1>6 DEF ReplyFragment
  <2>2. CASE More
    <3>1. reply' # None /\ reply'.corr = reply.corr
      BY <1>0, <1>6, <2>2, ReplyPartStep
    <3> QED
      BY <1>1, <2>1, <3>1 DEF Accounted
  <2>3. CASE ~More
    <3> DEFINE R == [status : ModuleStatus, whole : BOOLEAN]
               a == [status |-> reply.status, whole |-> reply.emitted + Part = reply.len]
    <3>1. reply.corr \in Corr /\ a \in R
      BY <1>0, <1>6, ReplyPartType DEF ReplyFragment
    <3>2. answers'[reply.corr] = Append(answers[reply.corr], a)
      BY <1>0, <1>6, <2>3, <3>1 DEF ReplyFragment, TypeOK
    <3>3. answers[reply.corr] \in Seq(R)
      BY <1>0, <3>1 DEF TypeOK
    <3>4. Append(answers[reply.corr], a) # <<>>
      BY <3>1, <3>3, AppendProperties
    <3> QED
      BY <1>1, <2>1, <3>2, <3>4 DEF Accounted
  <2> QED
    BY <2>2, <2>3
<1>7. ASSUME NEW d \in Corr, NEW outcome \in HandlerOutcome, HandlerReturn(d, outcome)
      PROVE  Accounted(c)'
  <2>1. jobs[d] \in Job
    BY <1>0, <1>7 DEF HandlerReturn, TypeOK
  <2>2. jobs'[d] \in Job
    <3>1. /\ NormalStatus(outcome[1], outcome[2]) \in ModuleStatus
          /\ NormalLen(outcome[1], outcome[2]) \in Nat
      BY NormalType, RuntimeAssumption
    <3> QED
      BY <1>0, <1>7, <2>1, <3>1 DEF HandlerReturn, TypeOK, Job, ModuleStatus
  <2>3. \A e \in Corr : e # d => jobs'[e] = jobs[e]
    BY <1>0, <1>7 DEF HandlerReturn, TypeOK
  <2>4. reply' = reply /\ answers' = answers
    BY <1>7 DEF HandlerReturn, history
  <2> QED
    BY <2>2, <2>3, <2>4, NoneAssumption DEF Accounted
<1>8. ASSUME NEW d \in Corr, HandlerSend(d)
      PROVE  Accounted(c)'
  <2>1. jobs[d] \in Job
    BY <1>0, <1>8 DEF HandlerSend, TypeOK
  <2>2. PICK late \in BOOLEAN :
            jobs' = [jobs EXCEPT ![d] = [jobs[d] EXCEPT
                       !.phase  = "done",
                       !.status = IF late THEN "DeadlineExceeded" ELSE jobs[d].status,
                       !.len    = IF late THEN 0 ELSE jobs[d].len]]
    BY <1>0, <1>8, JobSent
  <2>3. jobs'[d] \in Job /\ \A e \in Corr : e # d => jobs'[e] = jobs[e]
    BY <1>0, <2>1, <2>2 DEF TypeOK, Job, ModuleStatus
  <2>4. reply' = reply /\ answers' = answers
    BY <1>8 DEF HandlerSend, history
  <2> QED
    BY <2>3, <2>4, NoneAssumption DEF Accounted
<1>9. CASE UNCHANGED <<jobs, reply, answers>>
  BY <1>9 DEF Accounted
<1>10. CASE DrainEmpty \/ LoopTop \/ PollNothing \/ PollOther \/ ReplyWouldBlock
            \/ ReplyRetry \/ Environment \/ UNCHANGED vars
  BY <1>9, <1>10 DEF DrainEmpty, LoopTop, PollNothing, PollOther, ReplyWouldBlock,
     ReplyRetry, Environment, HostDrain, HostRestart, CtxCancel, Tick, vars, loopVars,
     history
<1> QED
  BY <1>2, <1>3, <1>4, <1>5, <1>6, <1>7, <1>8, <1>10 DEF Next, Loop, Handler

(* A request enters the state "final" only by a step that answers it or    *)
(* starts its job.                                                         *)
LEMMA FinalIsAccounted ==
  ASSUME IInv, [Next]_vars, NEW c \in Corr,
         streams[c].state # "final", streams'[c].state = "final"
  PROVE  Accounted(c)'
<1>1. CASE DispatchRequest
  <2>1. PICK d \in Corr, k \in Kind, p \in Payload, more \in BOOLEAN :
           /\ PollRequest(d, k, p, more)
           /\ \/ DispatchAnswers(d)
              \/ more
              \/ StartJob(d, k, p)
    BY <1>1, DispatchCases
  <2>2. c = d /\ ~more
    BY <2>1 DEF PollRequest, IInv, TypeOK, Closed
  <2>3. CASE DispatchAnswers(d)
    BY <2>2, <2>3 DEF DispatchAnswers, Accounted
  <2>4. CASE StartJob(d, k, p)
    <3>1. jobs'[d] \in Job
      BY <2>4, StartedJob
    <3> QED
      BY <2>2, <3>1, NoneAssumption DEF Accounted
  <2> QED
    BY <2>1, <2>2, <2>3, <2>4
<1>2. ASSUME NEW d \in Corr, PollCancel(d)
      PROVE  FALSE
  <2>1. streams' = [streams EXCEPT ![d] = Closed("cancelled")]
    BY <1>2 DEF PollCancel
  <2> QED
    BY <2>1 DEF IInv, TypeOK, Closed
<1>3. CASE streams' = streams
  BY <1>3
<1>4. CASE finishModuleWork \/ DrainEmpty \/ BeginShutdown \/ ShutdownReceive
           \/ ShutdownReturn \/ EpochReturn \/ LoopTop \/ PollNothing \/ PollOther
           \/ ReplyBadBudget \/ ReplyError \/ ReplyFragment \/ ReplyWouldBlock
           \/ ReplyWaitCtx \/ ReplyWaitEpoch \/ ReplyRetry
           \/ (\E d \in Corr : Handler(d)) \/ Environment \/ UNCHANGED vars
  BY <1>3, <1>4 DEF finishModuleWork, DrainEmpty, BeginShutdown, ShutdownReceive,
     ShutdownReturn, EpochReturn, LoopTop, PollNothing, PollOther, ReplyBadBudget,
     ReplyError, ReplyFragment, ReplyWouldBlock, ReplyWaitCtx, ReplyWaitEpoch, ReplyRetry,
     Handler, HandlerReturn, HandlerSend, Environment, HostDrain, HostRestart, CtxCancel,
     Tick, vars, history
<1> QED
  BY <1>1, <1>2, <1>4 DEF Next, Loop

(* A request whose last fragment was read is never forgotten while the     *)
(* loop serves, whatever the peers send: it is in a handler, being         *)
(* answered, or answered (module_runtime.go 368-427, 286-291).             *)
THEOREM RequestsAreNotDropped == Spec => []NoSilentDrop
<1>1. Init => NoSilentDrop
  BY DEF Init, NoSilentDrop, Closed
<1>2. IInv /\ NoSilentDrop /\ [Next]_vars => NoSilentDrop'
  <2> SUFFICES ASSUME IInv, NoSilentDrop, [Next]_vars, NEW c \in Corr,
                      streams'[c].state = "final", Serving'
               PROVE  Accounted(c)'
    BY DEF NoSilentDrop, Accounted
  <2>1. CASE streams[c].state # "final"
    BY <2>1, FinalIsAccounted
  <2>2. CASE streams[c].state = "final"
    <3>1. Serving
      BY ServingBefore
    <3>2. Accounted(c)
      BY <2>2, <3>1 DEF NoSilentDrop, Accounted
    <3> QED
      BY <3>1, <3>2, AccountedStep
  <2> QED
    BY <2>1, <2>2
<1>3. Spec => []IInv
  BY RuntimeInvariant, PTL DEF IInv
<1> QED
  BY <1>1, <1>2, <1>3, PTL DEF Spec
-------------------------------------------------------------------------------
(* The caller of c has read a failure first. *)
Failed(c) == answers[c] # <<>> /\ answers[c][1].status # "OK"

(* The caller of c has read a failure first, or is being sent one first. *)
Told(c) ==
  \/ Failed(c)
  \/ answers[c] = <<>> /\ reply # None /\ reply.corr = c /\ reply.status # "OK"

(* The caller of c has been sent nothing. *)
Quiet(c) == answers[c] = <<>> /\ ~(reply # None /\ reply.corr = c)

(* While a request is open, every unit its caller sent is in the assembly, *)
(* or the caller has been told; a job runs on all of it, or the caller has *)
(* read the failure.                                                       *)
TruncInv ==
  \A c \in Corr :
    /\ streams[c].state = "fresh" => jobs[c] = None /\ assemblies[c] = None /\ Quiet(c)
    /\ streams[c].state = "open" =>
         /\ jobs[c] = None
         /\ Told(c) \/ (Quiet(c) /\ Held(c) = streams[c].sent)
    /\ jobs[c] # None /\ jobs[c].got # jobs[c].sent => Failed(c)

(* Appending an answer keeps the first, and is the first of none. *)
LEMMA FirstAnswer ==
  ASSUME NEW R, NEW s \in Seq(R), NEW a \in R
  PROVE  /\ Append(s, a) # <<>>
         /\ Append(s, a)[1] = IF s = <<>> THEN a ELSE s[1]
<1>1. /\ Len(s) \in Nat /\ Len(Append(s, a)) = Len(s) + 1 /\ Append(s, a)[Len(s) + 1] = a
      /\ \A i \in 1 .. Len(s) : Append(s, a)[i] = s[i]
  BY AppendProperties, LenProperties
<1>2. Append(s, a) # <<>>
  BY <1>1
<1>3. CASE s = <<>>
  <2>1. Len(s) = 0
    BY <1>3
  <2> QED
    BY <1>1, <1>2, <1>3, <2>1
<1>4. CASE s # <<>>
  <2>1. 1 \in 1 .. Len(s)
    BY <1>1, <1>4, EmptySeq
  <2> QED
    BY <1>1, <1>2, <1>4, <2>1
<1> QED
  BY <1>3, <1>4

(* How the answers of one correlation change. *)
LEMMA AnswersOf ==
  ASSUME IInv, [Next]_vars, NEW c \in Corr
  PROVE  \/ answers'[c] = answers[c] /\ (answers' = answers \/ reply.corr # c)
         \/ /\ ReplyFragment /\ ~More /\ reply.corr = c /\ reply # None
            /\ answers'[c] # <<>>
            /\ answers'[c][1].status = IF answers[c] = <<>> THEN reply.status ELSE answers[c][1].status
<1> DEFINE R == [status : ModuleStatus, whole : BOOLEAN]
           a == [status |-> reply.status, whole |-> reply.emitted + Part = reply.len]
<1>1. CASE answers' = answers
  BY <1>1
<1>2. CASE /\ ReplyFragment /\ ~More
           /\ reply.corr \in Corr
           /\ answers' = [answers EXCEPT ![reply.corr] = Append(@, a)]
  <2>1. a \in R /\ a.status = reply.status
    BY <1>2, ReplyPartType DEF IInv, ReplyFragment
  <2>2. answers[reply.corr] \in Seq(R) /\ reply # None
    BY <1>2 DEF IInv, TypeOK, ReplyInv, ReplyFragment, MayEmit
  <2>3. /\ answers'[reply.corr] = Append(answers[reply.corr], a)
        /\ \A d \in Corr : d # reply.corr => answers'[d] = answers[d]
    BY <1>2 DEF IInv, TypeOK
  <2> HIDE DEF a, R
  <2>4. /\ Append(answers[reply.corr], a) # <<>>
        /\ Append(answers[reply.corr], a)[1] =
             IF answers[reply.corr] = <<>> THEN a ELSE answers[reply.corr][1]
    BY <2>1, <2>2, FirstAnswer
  <2>5. CASE reply.corr = c
    BY <1>2, <2>1, <2>2, <2>3, <2>4, <2>5
  <2>6. CASE reply.corr # c
    BY <2>3, <2>6
  <2> QED
    BY <2>5, <2>6
<1> QED
  BY <1>1, <1>2, AnswersChange

(* What has been read stays read. *)
LEMMA FailedStays ==
  ASSUME IInv, [Next]_vars, NEW c \in Corr, Failed(c)
  PROVE  Failed(c)'
BY AnswersOf DEF Failed

(* A failure being sent is the first answer, until it is read. *)
LEMMA ToldStays ==
  ASSUME IInv, [Next]_vars, NEW c \in Corr, Told(c)
  PROVE  Told(c)'
<1>0. TypeOK /\ ReplyInv
  BY DEF IInv
<1>1. CASE Failed(c)
  BY <1>1, FailedStays DEF Told
<1> SUFFICES ASSUME answers[c] = <<>>, reply # None, reply.corr = c, reply.status # "OK"
             PROVE  Told(c)'
  BY <1>1 DEF Told
<1>2. pc \notin {"drain", "top", "poll", "shutdown"}
  BY <1>0 DEF ReplyInv
<1>3. CASE ReplyFragment /\ More
  <2>1. reply' # None /\ reply'.corr = reply.corr /\ reply'.status = reply.status
    BY <1>0, <1>3, ReplyPartStep
  <2>2. answers' = answers
    BY <1>3 DEF ReplyFragment
  <2> QED
    BY <2>1, <2>2 DEF Told
<1>4. CASE ReplyFragment /\ ~More
  <2>1. answers'[c] # <<>> /\ answers'[c][1].status = reply.status
    <3>1. answers' # answers
      <4>1. answers \in [Corr -> Seq([status : ModuleStatus, whole : BOOLEAN])]
            /\ reply.status \in ModuleStatus
        BY <1>0, <1>4, ReplyPartType DEF TypeOK, ReplyFragment
      <4>2. answers'[c] = Append(answers[c], [status |-> reply.status,
                                              whole |-> reply.emitted + Part = reply.len])
        BY <1>4, <4>1 DEF ReplyFragment
      <4>3. [status |-> reply.status, whole |-> reply.emitted + Part = reply.len]
              \in [status : ModuleStatus, whole : BOOLEAN]
        BY <4>1
      <4>4. answers[c] \in Seq([status : ModuleStatus, whole : BOOLEAN])
        BY <4>1
      <4>5. answers'[c] # <<>>
        BY <4>2, <4>3, <4>4, FirstAnswer
      <4> QED
        BY <4>5
    <3> QED
      BY <3>1, AnswersOf
  <2> QED
    BY <2>1 DEF Told, Failed
<1>5. CASE DispatchRequest
  BY <1>2, <1>5, DispatchCases DEF PollRequest, Polled
<1>6. CASE finishModuleWork \/ DrainEmpty \/ BeginShutdown \/ ShutdownReceive
           \/ ShutdownReturn \/ EpochReturn \/ LoopTop \/ PollNothing
           \/ (\E d \in Corr : PollCancel(d)) \/ PollOther
  BY <1>2, <1>6 DEF finishModuleWork, DrainEmpty, BeginShutdown, ShutdownReceive, ShutdownReturn,
     EpochReturn, LoopTop, PollNothing, PollCancel, PollOther, Polled
<1>7. CASE UNCHANGED <<reply, answers>>
  BY <1>7 DEF Told
<1>8. CASE ReplyBadBudget \/ ReplyError \/ ReplyWouldBlock
           \/ ReplyWaitCtx \/ ReplyWaitEpoch \/ ReplyRetry
           \/ (\E d \in Corr : Handler(d)) \/ Environment \/ UNCHANGED vars
  <2>1. UNCHANGED <<reply, answers>>
    BY <1>8 DEF ReplyBadBudget, ReplyError,
       ReplyWouldBlock, ReplyWaitCtx, ReplyWaitEpoch, ReplyRetry, Handler, HandlerReturn,
       HandlerSend, Environment, HostDrain, HostRestart, CtxCancel, Tick, vars, loopVars, history
  <2> QED
    BY <1>7, <2>1
<1> QED
  BY <1>3, <1>4, <1>5, <1>6, <1>8 DEF Next, Loop

(* A correlation without a job is sent nothing unless a request is dispatched. *)
LEMMA QuietStays ==
  ASSUME IInv, [Next]_vars, NEW c \in Corr, Quiet(c), jobs[c] = None, ~DispatchRequest
  PROVE  Quiet(c)'
<1>0. TypeOK /\ ReplyInv
  BY DEF IInv
<1>1. answers'[c] = <<>>
  BY AnswersOf DEF Quiet
<1>2. CASE finishModuleWork
  <2>1. done # <<>> /\ replyModuleResult(Head(done), jobs[Head(done)].stage, jobs[Head(done)].status,
                              jobs[Head(done)].len)
    BY <1>2 DEF finishModuleWork
  <2>2. Head(done) # c
    BY <2>1, HeadIsFinished DEF Finished, InFlight
  <2>3. reply'.corr # c
    BY <2>1, <2>2, HeadIsFinished, replyType
  <2> QED
    BY <1>1, <2>3 DEF Quiet
<1>3. CASE ReplyFragment
  <2>1. CASE More
    BY <1>0, <1>1, <1>3, <2>1, ReplyPartStep DEF Quiet, ReplyInv, ReplyFragment, MayEmit
  <2>2. CASE ~More
    BY <1>1, <1>3, <2>2 DEF Quiet, ReplyFragment
  <2> QED
    BY <2>1, <2>2
<1>4. CASE UNCHANGED reply
  BY <1>1, <1>4 DEF Quiet
<1>5. CASE DrainEmpty \/ BeginShutdown \/ ShutdownReceive
           \/ ShutdownReturn \/ EpochReturn \/ LoopTop \/ PollNothing
           \/ (\E d \in Corr : PollCancel(d)) \/ PollOther
           \/ ReplyBadBudget \/ ReplyError \/ ReplyWouldBlock
           \/ ReplyWaitCtx \/ ReplyWaitEpoch \/ ReplyRetry
           \/ (\E d \in Corr : Handler(d)) \/ Environment \/ UNCHANGED vars
  <2>1. UNCHANGED reply
    BY <1>5 DEF DrainEmpty, BeginShutdown, ShutdownReceive, ShutdownReturn,
       EpochReturn, LoopTop, PollNothing, PollCancel, PollOther, ReplyBadBudget, ReplyError,
       ReplyWouldBlock, ReplyWaitCtx, ReplyWaitEpoch, ReplyRetry, Handler, HandlerReturn,
       HandlerSend, Environment, HostDrain, HostRestart, CtxCancel, Tick, vars, loopVars
  <2> QED
    BY <1>4, <2>1
<1> QED
  BY <1>2, <1>3, <1>5 DEF Next, Loop

(* A job keeps what it was given. *)
LEMMA JobsKept ==
  ASSUME IInv, [Next]_vars, ~DispatchRequest, NEW c \in Corr, jobs'[c] # None
  PROVE  jobs[c] # None /\ jobs'[c].got = jobs[c].got /\ jobs'[c].sent = jobs[c].sent
<1>0. jobs \in [Corr -> Job \cup {None}] /\ TypeOK
  BY DEF IInv, TypeOK
<1>1. CASE UNCHANGED jobs
  BY <1>1
<1>2. CASE finishModuleWork \/ ShutdownReceive
  BY <1>0, <1>2 DEF finishModuleWork, ShutdownReceive
<1>3. ASSUME jobs[c] # None, NEW j, jobs'[c] = [jobs[c] EXCEPT !.cancelled = j]
      PROVE  jobs'[c].got = jobs[c].got /\ jobs'[c].sent = jobs[c].sent
  <2>1. jobs[c] \in Job
    BY <1>0, <1>3
  <2> QED
    BY <1>3, <2>1 DEF Job
<1>4. CASE BeginShutdown
  <2>1. jobs[c] # None /\ jobs'[c] = [jobs[c] EXCEPT !.cancelled = TRUE]
    BY <1>0, <1>4 DEF BeginShutdown
  <2> QED
    BY <1>3, <2>1
<1>5. ASSUME NEW d \in Corr, PollCancel(d)
      PROVE  jobs[c] # None /\ jobs'[c].got = jobs[c].got /\ jobs'[c].sent = jobs[c].sent
  <2>1. CASE jobs[d] = None \/ d # c
    BY <1>0, <1>1, <1>5, <2>1 DEF PollCancel
  <2>2. CASE jobs[d] # None /\ d = c
    <3>1. jobs' = [jobs EXCEPT ![c] = [jobs[c] EXCEPT !.cancelled = TRUE]]
      BY <1>5, <2>2 DEF PollCancel
    <3>2. jobs'[c] = [jobs[c] EXCEPT !.cancelled = TRUE]
      BY <1>0, <3>1
    <3> QED
      BY <1>3, <2>2, <3>2
  <2> QED
    BY <2>1, <2>2
<1>6. ASSUME NEW d \in Corr, NEW outcome \in HandlerOutcome, HandlerReturn(d, outcome)
      PROVE  jobs[c] # None /\ jobs'[c].got = jobs[c].got /\ jobs'[c].sent = jobs[c].sent
  <2>1. jobs[d] # None
    BY <1>0, <1>6, NoneAssumption, JobReturned
  <2> QED
    BY <1>0, <1>6, <2>1, JobReturned
<1>7. ASSUME NEW d \in Corr, HandlerSend(d)
      PROVE  jobs[c] # None /\ jobs'[c].got = jobs[c].got /\ jobs'[c].sent = jobs[c].sent
  <2>1. jobs[d] \in Job /\ jobs[d] # None
    BY <1>0, <1>7 DEF HandlerSend
  <2>2. PICK late \in BOOLEAN :
            jobs' = [jobs EXCEPT ![d] = [jobs[d] EXCEPT
                       !.phase  = "done",
                       !.status = IF late THEN "DeadlineExceeded" ELSE jobs[d].status,
                       !.len    = IF late THEN 0 ELSE jobs[d].len]]
    BY <1>0, <1>7, JobSent
  <2> QED
    BY <1>0, <2>1, <2>2 DEF Job
<1>8. CASE DrainEmpty \/ ShutdownReturn \/ EpochReturn \/ LoopTop \/ PollNothing \/ PollOther
           \/ ReplyBadBudget \/ ReplyError \/ ReplyFragment \/ ReplyWouldBlock
           \/ ReplyWaitCtx \/ ReplyWaitEpoch \/ ReplyRetry \/ Environment \/ UNCHANGED vars
  <2>1. UNCHANGED jobs
    BY <1>8 DEF DrainEmpty, ShutdownReturn,
       EpochReturn, LoopTop, PollNothing, PollOther, ReplyBadBudget, ReplyError, ReplyFragment,
       ReplyWouldBlock, ReplyWaitCtx, ReplyWaitEpoch, ReplyRetry,
       Environment, HostDrain, HostRestart, CtxCancel, Tick, vars, loopVars
  <2> QED
    BY <1>1, <2>1
<1> QED
  BY <1>2, <1>4, <1>5, <1>6, <1>7, <1>8 DEF Next, Loop, Handler

(* With callers that use a correlation for one request, TruncInv survives  *)
(* the dispatch of a request.                                              *)
LEMMA TruncDispatch ==
  ASSUME ~ReuseCorrelation, IInv, TruncInv, [Next]_vars, DispatchRequest
  PROVE  TruncInv'
<1>0. TypeOK /\ ReplyInv
  BY DEF IInv
<1>1. PICK c \in Corr, k \in Kind, p \in Payload, more \in BOOLEAN :
           /\ PollRequest(c, k, p, more)
           /\ \/ /\ jobs' = jobs
                 /\ assemblies' \in {assemblies, [assemblies EXCEPT ![c] = None]}
                 /\ DispatchAnswers(c)
              \/ /\ jobs' = jobs
                 /\ more
                 /\ ExtendAssembly(c, k, p)
                 /\ pc' = "drain" /\ reply' = reply
              \/ /\ StartJob(c, k, p)
                 /\ assemblies' = [assemblies EXCEPT ![c] = None]
                 /\ pc' = "drain" /\ reply' = reply
  BY DispatchCases
<1>2. /\ reply = None /\ answers' = answers /\ streams[c].state \in {"fresh", "open"}
      /\ streams' = [streams EXCEPT ![c] =
                   IF more
                   THEN [state |-> "open", sent |-> SentSoFar(c) + p.bodyLen,
                         kind |-> k, payload |-> p]
                   ELSE Closed("final")]
  BY <1>0, <1>1 DEF ReplyInv, PollRequest, Polled, KeepsProtocol
<1>3. /\ streams'[c].state = IF more THEN "open" ELSE "final"
      /\ more => streams'[c].sent = SentSoFar(c) + p.bodyLen
      /\ \A d \in Corr : d # c => streams'[d] = streams[d]
  BY <1>0, <1>2 DEF TypeOK, Closed
<1>4. /\ jobs[c] = None
      /\ Failed(c) \/ (Quiet(c) /\ Held(c) = SentSoFar(c))
  <2>1. CASE streams[c].state = "fresh"
    BY <2>1 DEF TruncInv, Held, SentSoFar
  <2>2. CASE streams[c].state = "open"
    BY <1>2, <2>2 DEF TruncInv, Told, SentSoFar
  <2> QED
    BY <1>2, <2>1, <2>2
<1>5. Failed(c) => Failed(c)'
  BY <1>2 DEF Failed
<1>6. ASSUME NEW d \in Corr, d # c
      PROVE  /\ jobs'[d] = jobs[d] /\ assemblies'[d] = assemblies[d]
             /\ reply' = None \/ reply'.corr # d
  BY <1>0, <1>1, <1>2, <1>6 DEF TypeOK, DispatchAnswers, ExtendAssembly, StartJob
<1>7. ASSUME NEW d \in Corr, d # c
      PROVE  /\ streams'[d].state = "fresh" =>
                  jobs'[d] = None /\ assemblies'[d] = None /\ Quiet(d)'
             /\ streams'[d].state = "open" =>
                  /\ jobs'[d] = None
                  /\ Told(d)' \/ (Quiet(d)' /\ Held(d)' = streams'[d].sent)
             /\ jobs'[d] # None /\ jobs'[d].got # jobs'[d].sent => Failed(d)'
  <2>1. Told(d) => Told(d)'
    BY ToldStays
  <2>2. Quiet(d) => Quiet(d)'
    BY <1>2, <1>6, <1>7 DEF Quiet
  <2>3. Held(d)' = Held(d)
    BY <1>6, <1>7 DEF Held
  <2>4. Failed(d) => Failed(d)'
    BY <1>2 DEF Failed
  <2> QED
    BY <1>3, <1>6, <1>7, <2>1, <2>2, <2>3, <2>4 DEF TruncInv
<1>8. /\ streams'[c].state # "fresh"
      /\ streams'[c].state = "open" =>
           /\ jobs'[c] = None
           /\ Told(c)' \/ (Quiet(c)' /\ Held(c)' = streams'[c].sent)
      /\ jobs'[c] # None /\ jobs'[c].got # jobs'[c].sent => Failed(c)'
  <2>1. CASE jobs' = jobs /\ DispatchAnswers(c)
    <3>1. Told(c)'
      BY <1>2, <1>4, <1>5, <2>1 DEF Told, Quiet, DispatchAnswers
    <3> QED
      BY <1>3, <1>4, <2>1, <3>1
  <2>2. CASE jobs' = jobs /\ more /\ ExtendAssembly(c, k, p) /\ reply' = reply
    <3>1. assemblies'[c] = [kind |-> k, deadline |-> p.deadline, trace |-> p.trace,
                            len |-> Held(c) + p.bodyLen]
      BY <1>0, <2>2 DEF ExtendAssembly, TypeOK
    <3>2. Held(c) \in Nat /\ p.bodyLen \in Nat /\ p.deadline \in Deadline /\ p.trace \in Trace
      BY <1>0, <1>1, HeldType, PollRequestType
    <3>3. assemblies'[c] \in Assembly /\ assemblies'[c].len = Held(c) + p.bodyLen
      BY <3>1, <3>2 DEF Assembly
    <3>4. Held(c)' = Held(c) + p.bodyLen
      BY <3>3, NoneAssumption DEF Held
    <3>5. Quiet(c) => Quiet(c)'
      BY <1>2, <2>2 DEF Quiet
    <3> QED
      BY <1>3, <1>4, <1>5, <2>2, <3>4, <3>5 DEF Told
  <2>3. CASE StartJob(c, k, p)
    <3>1. jobs'[c] = [stage |-> Stages[k], deadline |-> p.deadline, cancelled |-> FALSE, phase |-> "running",
                      status |-> "OK", len |-> 0,
                      got |-> Held(c) + p.bodyLen, sent |-> SentSoFar(c) + p.bodyLen,
                      said |-> "OK", told |-> FALSE]
      BY <1>0, <2>3 DEF StartJob, TypeOK
    <3>2. jobs'[c].got = Held(c) + p.bodyLen /\ jobs'[c].sent = SentSoFar(c) + p.bodyLen
      BY <3>1
    <3>3. streams'[c].state = "final"
      <4>1. PollRequest(c, k, p, FALSE)
        BY <2>3 DEF StartJob, CompleteAssembly
      <4> QED
        BY <1>0, <4>1 DEF PollRequest, TypeOK, Closed
    <3> QED
      BY <1>4, <1>5, <3>2, <3>3
  <2> QED
    BY <1>1, <2>1, <2>2, <2>3
<1> QED
  BY <1>7, <1>8 DEF TruncInv

(* Every step keeps TruncInv. *)
LEMMA TruncStep ==
  ASSUME ~ReuseCorrelation, IInv, TruncInv, [Next]_vars
  PROVE  TruncInv'
<1>0. TypeOK
  BY DEF IInv
<1>1. CASE DispatchRequest
  BY <1>1, TruncDispatch
<1> SUFFICES ASSUME ~DispatchRequest PROVE TruncInv'
  BY <1>1
<1>2. ASSUME NEW c \in Corr, streams'[c] = streams[c], assemblies'[c] = assemblies[c]
      PROVE  /\ streams'[c].state = "fresh" =>
                  jobs'[c] = None /\ assemblies'[c] = None /\ Quiet(c)'
             /\ streams'[c].state = "open" =>
                  /\ jobs'[c] = None
                  /\ Told(c)' \/ (Quiet(c)' /\ Held(c)' = streams'[c].sent)
  <2>1. Held(c)' = Held(c)
    BY <1>2 DEF Held
  <2>2. jobs[c] = None => jobs'[c] = None
    BY JobsKept
  <2>3. Told(c) => Told(c)'
    BY ToldStays
  <2>4. jobs[c] = None /\ Quiet(c) => Quiet(c)'
    BY QuietStays
  <2> QED
    BY <1>2, <2>1, <2>2, <2>3, <2>4 DEF TruncInv
<1>3. ASSUME NEW c \in Corr, jobs'[c] # None, jobs'[c].got # jobs'[c].sent
      PROVE  Failed(c)'
  <2>1. Failed(c)
    BY <1>3, JobsKept DEF TruncInv
  <2> QED
    BY <2>1, FailedStays
<1>4. ASSUME NEW d \in Corr, PollCancel(d)
      PROVE  TruncInv'
  <2>1. /\ streams'[d].state = "cancelled"
        /\ \A c \in Corr : c # d => streams'[c] = streams[c] /\ assemblies'[c] = assemblies[c]
    BY <1>0, <1>4 DEF PollCancel, TypeOK, Closed
  <2> QED
    BY <1>2, <1>3, <2>1 DEF TruncInv
<1>5. CASE UNCHANGED <<streams, assemblies>>
  BY <1>2, <1>3, <1>5 DEF TruncInv
<1>6. CASE finishModuleWork \/ DrainEmpty \/ BeginShutdown \/ ShutdownReceive
           \/ ShutdownReturn \/ EpochReturn \/ LoopTop \/ PollNothing \/ PollOther
           \/ ReplyBadBudget \/ ReplyError \/ ReplyFragment \/ ReplyWouldBlock
           \/ ReplyWaitCtx \/ ReplyWaitEpoch \/ ReplyRetry
           \/ (\E d \in Corr : Handler(d)) \/ Environment \/ UNCHANGED vars
  <2>1. UNCHANGED <<streams, assemblies>>
    BY <1>6 DEF finishModuleWork, DrainEmpty, BeginShutdown, ShutdownReceive,
       ShutdownReturn, EpochReturn, LoopTop, PollNothing, PollOther, ReplyBadBudget,
       ReplyError, ReplyFragment, ReplyWouldBlock, ReplyWaitCtx, ReplyWaitEpoch, ReplyRetry,
       Handler, HandlerReturn, HandlerSend, Environment, HostDrain, HostRestart, CtxCancel,
       Tick, vars, history, loopVars
  <2> QED
    BY <1>5, <2>1
<1> QED
  BY <1>4, <1>6 DEF Next, Loop

(* If callers use a correlation for one request and keep the fragment      *)
(* protocol (as ModuleCaller.send does), a handler that runs on less than  *)
(* its caller sent runs only after the caller was answered with a failure  *)
(* (module_runtime.go 376-394).                                            *)
THEOREM TruncationIsTold ==
  ASSUME ~ReuseCorrelation
  PROVE  Spec => []TruncatedOnlyAfterFailure
<1>1. Init => TruncInv
  BY DEF Init, TruncInv, Quiet, Closed
<1>2. IInv /\ TruncInv /\ [Next]_vars => TruncInv'
  BY TruncStep
<1>3. Spec => []IInv
  BY RuntimeInvariant, PTL DEF IInv
<1>4. TruncInv => TruncatedOnlyAfterFailure
  BY DEF TruncInv, TruncatedOnlyAfterFailure, Failed
<1> QED
  BY <1>1, <1>2, <1>3, <1>4, PTL DEF Spec
-------------------------------------------------------------------------------
(* What results and the end of the loop mean.                              *)

(* A job is flagged, moved on by its handler or started, or stays as it is. *)
LEMMA JobSteps ==
  ASSUME IInv, [Next]_vars, NEW c \in Corr, jobs'[c] # None
  PROVE  \/ jobs[c] # None /\ jobs'[c] = jobs[c]
         \/ /\ jobs[c] # None /\ jobs'[c] = [jobs[c] EXCEPT !.cancelled = TRUE]
            /\ BeginShutdown \/ PollCancel(c)
         \/ \E outcome \in HandlerOutcome : HandlerReturn(c, outcome)
         \/ HandlerSend(c)
         \/ \E k \in Kind, p \in Payload : StartJob(c, k, p)
<1>0. TypeOK /\ jobs \in [Corr -> Job \cup {None}]
  BY DEF IInv, TypeOK
<1>1. CASE finishModuleWork \/ ShutdownReceive
  BY <1>0, <1>1 DEF finishModuleWork, ShutdownReceive
<1>2. CASE BeginShutdown
  BY <1>0, <1>2 DEF BeginShutdown
<1>3. ASSUME NEW d \in Corr, PollCancel(d)
      PROVE  \/ jobs[c] # None /\ jobs'[c] = jobs[c]
             \/ /\ jobs[c] # None /\ jobs'[c] = [jobs[c] EXCEPT !.cancelled = TRUE]
                /\ PollCancel(c)
  <2>1. CASE c # d
    BY <1>0, <1>3, <2>1 DEF PollCancel
  <2>2. CASE c = d /\ jobs[c] # None
    <3>1. jobs' = [jobs EXCEPT ![c] = [jobs[c] EXCEPT !.cancelled = TRUE]]
      BY <1>3, <2>2 DEF PollCancel
    <3> QED
      BY <1>0, <1>3, <2>2, <3>1
  <2>3. CASE c = d /\ jobs[c] = None
    BY <1>3, <2>3 DEF PollCancel
  <2> QED
    BY <2>1, <2>2, <2>3
<1>4. ASSUME NEW d \in Corr, NEW outcome \in HandlerOutcome, HandlerReturn(d, outcome)
      PROVE  (jobs[c] # None /\ jobs'[c] = jobs[c]) \/ HandlerReturn(c, outcome)
  BY <1>0, <1>4, JobReturned
<1>5. ASSUME NEW d \in Corr, HandlerSend(d)
      PROVE  (jobs[c] # None /\ jobs'[c] = jobs[c]) \/ HandlerSend(c)
  BY <1>0, <1>5, JobSent
<1>6. CASE DispatchRequest
  <2>1. PICK d \in Corr, k \in Kind, p \in Payload, more \in BOOLEAN :
           jobs' = jobs \/ StartJob(d, k, p)
    BY <1>6, DispatchCases
  <2>2. StartJob(d, k, p) /\ d # c => jobs'[c] = jobs[c]
    BY <1>0 DEF StartJob
  <2> QED
    BY <2>1, <2>2
<1>7. CASE UNCHANGED jobs
  BY <1>7
<1>8. CASE \/ DrainEmpty \/ ShutdownReturn \/ EpochReturn \/ LoopTop \/ PollNothing
           \/ PollOther \/ ReplyBadBudget \/ ReplyError \/ ReplyFragment \/ ReplyWouldBlock
           \/ ReplyWaitCtx \/ ReplyWaitEpoch \/ ReplyRetry \/ Environment \/ UNCHANGED vars
  <2>1. UNCHANGED jobs
    BY <1>8 DEF DrainEmpty, ShutdownReturn, EpochReturn, LoopTop, PollNothing, PollOther,
       ReplyBadBudget, ReplyError, ReplyFragment, ReplyWouldBlock, ReplyWaitCtx,
       ReplyWaitEpoch, ReplyRetry, Environment, HostDrain, HostRestart, CtxCancel, Tick,
       Return, vars, loopVars
  <2> QED
    BY <1>7, <2>1
<1> QED
  BY <1>1, <1>2, <1>3, <1>4, <1>5, <1>6, <1>8 DEF Next, Loop, Handler

(* The flag leaves the rest of a job alone. *)
LEMMA FlaggedJob ==
  ASSUME NEW job \in Job
  PROVE  LET flagged == [job EXCEPT !.cancelled = TRUE]
         IN  /\ flagged.cancelled
             /\ flagged.phase = job.phase /\ flagged.status = job.status
             /\ flagged.said = job.said /\ (flagged.told <=> job.told)
             /\ flagged.stage = job.stage /\ flagged.deadline = job.deadline
<1> DEFINE flagged == [job EXCEPT !.cancelled = TRUE]
<1>1. flagged.cancelled
  BY Zenon DEF Job
<1>2. flagged.told <=> job.told
  BY Zenon DEF Job
<1> QED
  BY <1>1, <1>2 DEF Job

(* The result in the channel is the job's, or that it is late. *)
LEMMA SentJob ==
  ASSUME TypeOK, NEW c \in Corr, HandlerSend(c)
  PROVE  /\ jobs[c] \in Job /\ jobs[c].phase \in {"returned", "cancelled"}
         /\ jobs'[c].phase = "done" /\ (jobs'[c].cancelled <=> jobs[c].cancelled)
         /\ jobs'[c].stage = jobs[c].stage /\ jobs'[c].deadline = jobs[c].deadline
         /\ jobs'[c].said = jobs[c].said /\ (jobs'[c].told <=> jobs[c].told)
         /\ \/ jobs'[c].status = jobs[c].status
            \/ /\ jobs'[c].status = "DeadlineExceeded" /\ jobs[c].phase = "returned"
               /\ DeadlineExpired(jobs[c].deadline, clock)
<1>1. jobs[c] \in Job /\ jobs[c].phase \in {"returned", "cancelled"}
  BY DEF HandlerSend, TypeOK
<1>2. PICK late \in BOOLEAN :
            /\ late => /\ jobs[c].phase = "returned"
                       /\ DeadlineExpired(jobs[c].deadline, clock)
            /\ jobs' = [jobs EXCEPT ![c] = [jobs[c] EXCEPT
                       !.phase  = "done",
                       !.status = IF late THEN "DeadlineExceeded" ELSE jobs[c].status,
                       !.len    = IF late THEN 0 ELSE jobs[c].len]]
  BY JobSent
<1> DEFINE st == IF late THEN "DeadlineExceeded" ELSE jobs[c].status
           le == IF late THEN 0 ELSE jobs[c].len
<1>3. jobs'[c] = [jobs[c] EXCEPT !.phase = "done", !.status = st, !.len = le]
  BY <1>2 DEF TypeOK
<1>4. st = jobs[c].status \/ (st = "DeadlineExceeded" /\ late)
  OBVIOUS
<1> HIDE DEF st, le
<1>5. jobs'[c].told = jobs[c].told
  BY <1>1, <1>3 DEF Job
<1>6. jobs'[c].cancelled = jobs[c].cancelled
  BY <1>1, <1>3 DEF Job
<1>7. /\ jobs'[c].phase = "done" /\ jobs'[c].status = st
      /\ jobs'[c].stage = jobs[c].stage /\ jobs'[c].deadline = jobs[c].deadline
      /\ jobs'[c].said = jobs[c].said
  BY <1>1, <1>3 DEF Job
<1> QED
  BY <1>1, <1>2, <1>4, <1>5, <1>6, <1>7

(* The loop is stopping, or callers do not keep the fragment protocol. *)
Stopping == pc \in {"shutdown", "exited"} \/ ReuseCorrelation

(* How the phase of a job, its flag, its status and what its caller has    *)
(* sent hang together on the way to the channel.                           *)
Earned(c) ==
  LET job == jobs[c]
  IN  /\ job.phase = "running" /\ streams[c].state = "cancelled" => job.cancelled
      /\ job.cancelled => streams[c].state = "cancelled" \/ Stopping
      /\ job.phase = "returned" => ~job.told /\ job.status = job.said
      /\ job.phase = "cancelled" => job.status = "Cancelled" /\ (job.told \/ Stopping)
      /\ job.phase = "done" =>
           /\ job.told => job.status = "Cancelled"
           /\ \/ job.status = job.said
              \/ job.status = "Cancelled" /\ (job.told \/ Stopping)
              \/ job.status = "DeadlineExceeded" /\ DeadlineExpired(job.deadline, clock)

VerdictInv == \A c \in Corr : jobs[c] # None => Earned(c)

(* A loop that stops goes on stopping. *)
LEMMA StoppingStays ==
  ASSUME IInv, [Next]_vars, Stopping
  PROVE  Stopping'
<1>1. ReplyInv /\ ReplyInv'
  BY ReplyStep DEF IInv
<1> QED
  BY <1>1, ServingBefore DEF Stopping, Serving, ReplyInv

(* Only a cancel makes a stream cancelled, and nothing but a caller that   *)
(* does not keep the protocol opens it again.                              *)
LEMMA CancelledStream ==
  ASSUME IInv, [Next]_vars, NEW c \in Corr
  PROVE  /\ streams'[c].state = "cancelled" => streams[c].state = "cancelled" \/ PollCancel(c)
         /\ streams[c].state = "cancelled" => streams'[c].state = "cancelled" \/ ReuseCorrelation
<1>0. TypeOK
  BY DEF IInv
<1>1. CASE UNCHANGED streams
  BY <1>1
<1>2. CASE DispatchRequest
  <2>1. PICK d \in Corr, k \in Kind, p \in Payload, more \in BOOLEAN : PollRequest(d, k, p, more)
    BY <1>2, DispatchCases, <1>0 DEF IInv
  <2>2. streams'[c].state = "cancelled" => streams[c].state = "cancelled"
    BY <1>0, <2>1 DEF PollRequest, TypeOK, Closed
  <2>3. streams[c].state = "cancelled" => streams'[c].state = "cancelled" \/ ReuseCorrelation
    BY <1>0, <2>1 DEF PollRequest, KeepsProtocol, TypeOK
  <2> QED
    BY <2>2, <2>3
<1>3. ASSUME NEW d \in Corr, PollCancel(d)
      PROVE  /\ streams'[c].state = "cancelled" => streams[c].state = "cancelled" \/ PollCancel(c)
             /\ streams[c].state = "cancelled" => streams'[c].state = "cancelled"
  <2>1. streams'[d].state = "cancelled" /\ (c # d => streams'[c] = streams[c])
    BY <1>0, <1>3 DEF PollCancel, TypeOK, Closed
  <2> QED
    BY <1>3, <2>1
<1>4. CASE finishModuleWork \/ DrainEmpty \/ BeginShutdown \/ ShutdownReceive
           \/ ShutdownReturn \/ EpochReturn \/ LoopTop \/ PollNothing \/ PollOther
           \/ ReplyBadBudget \/ ReplyError \/ ReplyFragment \/ ReplyWouldBlock
           \/ ReplyWaitCtx \/ ReplyWaitEpoch \/ ReplyRetry
           \/ (\E d \in Corr : Handler(d)) \/ Environment \/ UNCHANGED vars
  <2>1. UNCHANGED streams
    BY <1>4 DEF finishModuleWork, DrainEmpty, BeginShutdown, ShutdownReceive,
       ShutdownReturn, EpochReturn, LoopTop, PollNothing, PollOther, ReplyBadBudget,
       ReplyError, ReplyFragment, ReplyWouldBlock, ReplyWaitCtx, ReplyWaitEpoch, ReplyRetry,
       Handler, HandlerReturn, HandlerSend, Environment, HostDrain, HostRestart, CtxCancel,
       Tick, vars, history, loopVars
  <2> QED
    BY <1>1, <2>1
<1> QED
  BY <1>2, <1>3, <1>4 DEF Next, Loop

(* The clock does not run backwards. *)
LEMMA ClockGrows ==
  ASSUME IInv, [Next]_vars
  PROVE  clock \in Nat /\ clock' \in Nat /\ clock' >= clock
<1>1. clock \in Nat /\ clock' \in Nat
  <2>1. clock \in 1 .. MaxTime /\ clock' \in 1 .. MaxTime
    BY TypeStep DEF IInv, TypeOK
  <2> QED
    BY <2>1, RuntimeAssumption, SMT
<1>2. CASE Tick
  BY <1>1, <1>2 DEF Tick
<1>3. CASE DispatchRequest
  BY <1>1, <1>3, DispatchCases DEF PollRequest, envVars
<1>4. CASE \/ finishModuleWork \/ DrainEmpty \/ BeginShutdown \/ ShutdownReceive
           \/ ShutdownReturn \/ EpochReturn \/ LoopTop \/ PollNothing \/ PollOther
           \/ (\E d \in Corr : PollCancel(d))
           \/ ReplyBadBudget \/ ReplyError \/ ReplyFragment \/ ReplyWouldBlock
           \/ ReplyWaitCtx \/ ReplyWaitEpoch \/ ReplyRetry
           \/ (\E d \in Corr : Handler(d)) \/ HostDrain \/ HostRestart \/ CtxCancel
           \/ UNCHANGED vars
  <2>1. clock' = clock
    BY <1>4 DEF finishModuleWork, DrainEmpty, BeginShutdown, ShutdownReceive,
       ShutdownReturn, EpochReturn, LoopTop, PollNothing, PollOther, PollCancel, ReplyBadBudget,
       ReplyError, ReplyFragment, ReplyWouldBlock, ReplyWaitCtx, ReplyWaitEpoch, ReplyRetry,
       Handler, HandlerReturn, HandlerSend, HostDrain, HostRestart, CtxCancel,
       vars, envVars
  <2> QED
    BY <1>1, <2>1
<1> QED
  BY <1>2, <1>3, <1>4 DEF Next, Loop, Environment

(* A deadline that has passed stays passed. *)
LEMMA LateStays ==
  ASSUME IInv, [Next]_vars, NEW job \in Job, DeadlineExpired(job.deadline, clock)
  PROVE  DeadlineExpired(job.deadline, clock')
<1>1. job.deadline \in Nat
  BY RuntimeAssumption DEF Job, Deadline
<1> QED
  BY <1>1, ClockGrows DEF DeadlineExpired

(* Every step keeps what a job's result means. *)
LEMMA EarnedStep ==
  ASSUME IInv, VerdictInv, [Next]_vars, NEW c \in Corr, jobs'[c] # None
  PROVE  Earned(c)'
<1>0. TypeOK /\ (Stopping => Stopping')
  BY StoppingStays DEF IInv
<1>1. CASE jobs[c] # None /\ jobs'[c] = jobs[c]
  <2>1. Earned(c) /\ jobs[c] \in Job
    BY <1>0, <1>1 DEF VerdictInv, TypeOK
  <2>2. ASSUME PollCancel(c)
        PROVE  jobs[c].cancelled
    <3>1. jobs' = [jobs EXCEPT ![c] = [jobs[c] EXCEPT !.cancelled = TRUE]]
      BY <1>1, <2>2 DEF PollCancel
    <3>2. jobs'[c] = [jobs[c] EXCEPT !.cancelled = TRUE]
      BY <1>0, <3>1 DEF TypeOK
    <3> QED
      BY <1>1, <2>1, <3>2, FlaggedJob
  <2>3. DeadlineExpired(jobs[c].deadline, clock) => DeadlineExpired(jobs[c].deadline, clock')
    BY <2>1, LateStays
  <2>4. /\ streams'[c].state = "cancelled" => streams[c].state = "cancelled" \/ jobs[c].cancelled
        /\ streams[c].state = "cancelled" => streams'[c].state = "cancelled" \/ Stopping'
    BY <2>2, CancelledStream DEF Stopping
  <2> QED
    BY <1>0, <1>1, <2>1, <2>3, <2>4 DEF Earned
<1>2. CASE /\ jobs[c] # None /\ jobs'[c] = [jobs[c] EXCEPT !.cancelled = TRUE]
           /\ BeginShutdown \/ PollCancel(c)
  <2>1. Earned(c) /\ jobs[c] \in Job
    BY <1>0, <1>2 DEF VerdictInv, TypeOK
  <2>2. DeadlineExpired(jobs[c].deadline, clock) => DeadlineExpired(jobs[c].deadline, clock')
    BY <2>1, LateStays
  <2>3. streams'[c].state = "cancelled" \/ Stopping'
    BY <1>0, <1>2 DEF BeginShutdown, PollCancel, Stopping, TypeOK, Closed
  <2>4. /\ jobs'[c].cancelled
        /\ jobs'[c].phase = jobs[c].phase /\ jobs'[c].status = jobs[c].status
        /\ jobs'[c].said = jobs[c].said /\ (jobs'[c].told <=> jobs[c].told)
        /\ jobs'[c].deadline = jobs[c].deadline
    BY <1>2, <2>1, FlaggedJob
  <2> QED
    BY <1>0, <2>1, <2>2, <2>3, <2>4 DEF Earned
<1>3. ASSUME NEW outcome \in HandlerOutcome, HandlerReturn(c, outcome)
      PROVE  Earned(c)'
  <2>1. Earned(c)
    BY <1>0, <1>3 DEF VerdictInv, HandlerReturn
  <2>2. /\ jobs[c].phase = "running"
        /\ jobs'[c].phase = (IF jobs[c].cancelled THEN "cancelled" ELSE "returned")
        /\ jobs'[c].status = (IF jobs[c].cancelled THEN "Cancelled" ELSE jobs'[c].said)
        /\ (jobs'[c].told <=> streams[c].state = "cancelled")
        /\ (jobs'[c].cancelled <=> jobs[c].cancelled)
    BY <1>0, <1>3, JobReturned
  <2>3. streams' = streams
    BY <1>3 DEF HandlerReturn, history
  <2> QED
    BY <1>0, <2>1, <2>2, <2>3 DEF Earned
<1>4. CASE HandlerSend(c)
  <2>1. Earned(c) /\ streams' = streams /\ clock' = clock
    BY <1>0, <1>4 DEF VerdictInv, HandlerSend, history, envVars
  <2>2. /\ jobs[c] \in Job /\ jobs[c].phase \in {"returned", "cancelled"}
        /\ jobs'[c].phase = "done" /\ (jobs'[c].cancelled <=> jobs[c].cancelled)
        /\ jobs'[c].deadline = jobs[c].deadline
        /\ jobs'[c].said = jobs[c].said /\ (jobs'[c].told <=> jobs[c].told)
        /\ \/ jobs'[c].status = jobs[c].status
           \/ /\ jobs'[c].status = "DeadlineExceeded" /\ jobs[c].phase = "returned"
              /\ DeadlineExpired(jobs[c].deadline, clock)
    BY <1>0, <1>4, SentJob
  <2> QED
    BY <1>0, <2>1, <2>2 DEF Earned
<1>5. ASSUME NEW k \in Kind, NEW p \in Payload, StartJob(c, k, p)
      PROVE  Earned(c)'
  <2>1. PollRequest(c, k, p, FALSE)
    BY <1>5 DEF StartJob, CompleteAssembly
  <2>2. streams'[c].state = "final"
    BY <1>0, <2>1 DEF PollRequest, TypeOK, Closed
  <2>3. jobs'[c].phase = "running" /\ ~jobs'[c].cancelled
    BY <1>0, <1>5 DEF StartJob, TypeOK
  <2> QED
    BY <2>2, <2>3 DEF Earned
<1> QED
  BY <1>1, <1>2, <1>3, <1>4, <1>5, JobSteps

(* The result of a job names what happened to it: a cancel read while the  *)
(* handler ran wins over what the handler returned and over the deadline,  *)
(* and nothing else is reported but what the handler said, a cancel that   *)
(* was asked for, or a deadline that has passed                            *)
(* (module_runtime.go 196-221, 316-318, 348-350).                          *)
THEOREM EveryVerdictIsEarned == Spec => []VerdictIsEarned
<1>1. Init => VerdictInv
  BY DEF Init, VerdictInv
<1>2. IInv /\ VerdictInv /\ [Next]_vars => VerdictInv'
  BY EarnedStep DEF VerdictInv
<1>3. Spec => []IInv
  BY RuntimeInvariant, PTL DEF IInv
<1>4. VerdictInv => VerdictIsEarned
  BY DEF VerdictInv, Earned, VerdictIsEarned, Stopping
<1> QED
  BY <1>1, <1>2, <1>3, <1>4, PTL DEF Spec
-------------------------------------------------------------------------------
(* Every answer names a stage, and the loop has ended only for a reason    *)
(* that is not a caller's.                                                 *)
StopInv ==
  /\ reply # None => reply.stage # 0
  /\ \A c \in Corr : jobs[c] # None => jobs[c].stage # 0
  /\ pc = "shutdown" => ctxDone
  /\ StopsOnlyWhenTold

(* A request that is dispatched is answered for a stage. *)
LEMMA DispatchStage ==
  ASSUME IInv, DispatchRequest, reply' # None
  PROVE  reply' = reply \/ reply'.stage # 0
<1>1. PICK c \in Corr, k \in Kind, p \in Payload :
                      \/ \E more \in BOOLEAN : \/ RejectInvalid(c, k, p, more)
                                               \/ RejectTableFull(c, k, p, more)
                                               \/ RejectTooLarge(c, k, p, more)
                      \/ ExtendAssembly(c, k, p)
                      \/ RejectExpired(c, k, p)
                      \/ RejectAbsent(c, k, p)
                      \/ RejectJobsFull(c, k, p)
                      \/ StartJob(c, k, p)
  BY DEF DispatchRequest
<1>2. 0 \in Nat /\ replyStage(k) # 0 /\ (~invalid(c, k, p) => Stages[k] # 0)
  BY DEF replyStage, invalid
<1>3. ASSUME NEW more \in BOOLEAN,
             RejectInvalid(c, k, p, more) \/ RejectTableFull(c, k, p, more)
               \/ RejectTooLarge(c, k, p, more)
      PROVE  reply'.stage # 0
  BY <1>2, <1>3, StageType, replyType DEF RejectInvalid, RejectTableFull, RejectTooLarge
<1>4. CASE RejectExpired(c, k, p) \/ RejectAbsent(c, k, p) \/ RejectJobsFull(c, k, p)
  BY <1>2, <1>4, StageType, replyType
     DEF RejectExpired, RejectAbsent, RejectJobsFull, CompleteAssembly, Accepted
<1>5. CASE ExtendAssembly(c, k, p) \/ StartJob(c, k, p)
  BY <1>5 DEF ExtendAssembly, StartJob
<1> QED
  BY <1>1, <1>3, <1>4, <1>5

(* With room for fragments, every fragment fits into its slot. *)
LEMMA FragmentsFit ==
  ASSUME TypeOK, ReplyInv, pc = "reply", RoomForFragments
  PROVE  FitsSlot
<1>1. reply \in Reply /\ reply.len \in Nat /\ reply.offset \in Nat
  BY DEF TypeOK, ReplyInv, Reply
<1>2. /\ config.inlineBudget \in Nat /\ config.slotSize \in Nat
      /\ ModuleMessageHeaderLen \in Nat /\ HdrLen \in Nat
  BY RuntimeAssumption DEF TypeOK
<1>3. Part \in Int /\ Part <= config.inlineBudget - ModuleMessageHeaderLen
  BY <1>1, <1>2, SMT DEF Part, chunkCapacity
<1> QED
  BY <1>2, <1>3, SMT DEF FitsSlot, RoomForFragments

(* Every step keeps StopInv. *)
LEMMA StopStep == IInv /\ StopInv /\ [Next]_vars => StopInv'
<1> SUFFICES ASSUME IInv, StopInv, [Next]_vars
             PROVE  StopInv'
  OBVIOUS
<1>0. TypeOK /\ ReplyInv
  BY DEF IInv
<1>1. ASSUME NEW c \in Corr, jobs'[c] # None
      PROVE  jobs'[c].stage # 0
  <2>1. CASE jobs[c] # None /\ jobs'[c] = jobs[c]
    BY <2>1 DEF StopInv
  <2>2. CASE jobs[c] # None /\ jobs'[c] = [jobs[c] EXCEPT !.cancelled = TRUE]
    <3>1. jobs[c] \in Job /\ jobs[c].stage # 0
      BY <1>0, <2>2 DEF TypeOK, StopInv
    <3> QED
      BY <2>2, <3>1, FlaggedJob
  <2>3. ASSUME NEW outcome \in HandlerOutcome, HandlerReturn(c, outcome)
        PROVE  jobs'[c].stage # 0
    BY <1>0, <2>3, JobReturned, NoneAssumption DEF StopInv
  <2>4. CASE HandlerSend(c)
    BY <1>0, <2>4, SentJob DEF StopInv, HandlerSend
  <2>5. ASSUME NEW k \in Kind, NEW p \in Payload, StartJob(c, k, p)
        PROVE  jobs'[c].stage # 0
    BY <1>0, <2>5 DEF StartJob, CompleteAssembly, Accepted, invalid, TypeOK
  <2> QED
    BY <1>1, <2>1, <2>2, <2>3, <2>4, <2>5, JobSteps
<1>2. ASSUME reply' # None
      PROVE  reply'.stage # 0
  <2>1. CASE finishModuleWork
    <3>1. Head(done) \in Corr /\ jobs[Head(done)] # None /\ jobs[Head(done)].stage \in Stage
          /\ jobs[Head(done)].len \in Nat
      BY <2>1, HeadIsFinished DEF finishModuleWork, Finished, InFlight
    <3>2. jobs[Head(done)].stage # 0
      BY <3>1 DEF StopInv
    <3> QED
      BY <2>1, <3>1, <3>2, replyType DEF finishModuleWork
  <2>2. CASE ReplyFragment
    BY <1>0, <1>2, <2>2, ReplyPartStep DEF StopInv, ReplyFragment, ReplyInv, MayEmit
  <2>3. CASE DispatchRequest
    BY <1>2, <2>3, DispatchStage DEF StopInv
  <2>4. CASE \/ DrainEmpty \/ BeginShutdown \/ ShutdownReceive \/ ShutdownReturn
             \/ EpochReturn \/ LoopTop \/ PollNothing \/ PollOther
             \/ (\E d \in Corr : PollCancel(d))
             \/ ReplyBadBudget \/ ReplyError \/ ReplyWouldBlock
             \/ ReplyWaitCtx \/ ReplyWaitEpoch \/ ReplyRetry
             \/ (\E d \in Corr : Handler(d)) \/ Environment \/ UNCHANGED vars
    <3>1. reply' = reply
      BY <2>4 DEF DrainEmpty, BeginShutdown, ShutdownReceive, ShutdownReturn, EpochReturn,
         LoopTop, PollNothing, PollOther, PollCancel, ReplyBadBudget, ReplyError,
         ReplyWouldBlock, ReplyWaitCtx, ReplyWaitEpoch, ReplyRetry, Handler, HandlerReturn,
         HandlerSend, Environment, HostDrain, HostRestart, CtxCancel, Tick, vars, loopVars
    <3> QED
      BY <1>2, <3>1 DEF StopInv
  <2> QED
    BY <2>1, <2>2, <2>3, <2>4 DEF Next, Loop
<1>3. config' = config /\ (ctxDone => ctxDone') /\ (epochChanged => epochChanged')
  <2>1. CASE DispatchRequest
    BY <2>1, DispatchCases DEF PollRequest, envVars
  <2>2. CASE finishModuleWork \/ DrainEmpty \/ BeginShutdown \/ ShutdownReceive
             \/ ShutdownReturn \/ EpochReturn \/ LoopTop \/ PollNothing \/ PollOther
             \/ (\E d \in Corr : PollCancel(d))
    BY <2>2 DEF finishModuleWork, DrainEmpty, BeginShutdown, ShutdownReceive, ShutdownReturn,
       EpochReturn, LoopTop, PollNothing, PollOther, PollCancel, envVars
  <2>3. CASE ReplyBadBudget \/ ReplyError \/ ReplyFragment \/ ReplyWouldBlock
             \/ ReplyWaitCtx \/ ReplyWaitEpoch \/ ReplyRetry
    BY <2>3 DEF ReplyBadBudget, ReplyError, ReplyFragment, ReplyWouldBlock, ReplyWaitCtx,
       ReplyWaitEpoch, ReplyRetry, envVars
  <2>4. ASSUME NEW d \in Corr, Handler(d)
        PROVE  config' = config /\ ctxDone' = ctxDone /\ epochChanged' = epochChanged
    BY <2>4 DEF Handler, HandlerReturn, HandlerSend, envVars
  <2>7. CASE HostDrain \/ UNCHANGED vars
    BY <2>7 DEF HostDrain, vars, envVars
  <2>5. CASE HostRestart \/ Tick
    BY <2>5 DEF HostRestart, Tick
  <2>6. CASE CtxCancel
    BY <2>6 DEF CtxCancel
  <2> QED
    BY <2>1, <2>2, <2>3, <2>4, <2>5, <2>6, <2>7 DEF Next, Loop, Environment
<1>4. RoomForFragments' = RoomForFragments
  BY <1>3 DEF RoomForFragments
<1>5. CASE ReplyBadBudget \/ ReplyError
  <2>1. pc' = "exited" /\ UNCHANGED <<ctxDone, epochChanged>>
    BY <1>5 DEF ReplyBadBudget, ReplyError, Return, envVars
  <2>2. CASE ReplyBadBudget
    <3>1. config.inlineBudget \in Nat /\ ModuleMessageHeaderLen \in Nat
      BY <1>0, RuntimeAssumption DEF TypeOK
    <3>2. ~RoomForFragments
      BY <2>2, <3>1, SMT DEF ReplyBadBudget, RoomForFragments
    <3> QED
      BY <1>1, <1>2, <1>4, <2>1, <3>2 DEF StopInv, StopsOnlyWhenTold
  <2>3. CASE ReplyError
    <3>1. pc = "reply" /\ reply # None
      BY <1>0, <2>3 DEF ReplyError, ReplyInv
    <3>2. RoomForFragments => epochChanged
      BY <1>0, <2>3, <3>1, FragmentsFit DEF StopInv, ReplyError
    <3> QED
      BY <1>1, <1>2, <1>4, <2>1, <3>2 DEF StopInv, StopsOnlyWhenTold
  <2> QED
    BY <1>5, <2>2, <2>3
<1>6. CASE ShutdownReturn \/ EpochReturn \/ ReplyWaitCtx \/ ReplyWaitEpoch
  BY <1>1, <1>2, <1>3, <1>6 DEF StopInv, StopsOnlyWhenTold, ShutdownReturn, EpochReturn,
     ReplyWaitCtx, ReplyWaitEpoch, Return
<1>7. CASE UNCHANGED exit
  <2>1. pc' = "shutdown" => ctxDone'
    <3>1. CASE BeginShutdown
      BY <1>3, <3>1 DEF BeginShutdown
    <3>2. CASE pc' = pc
      BY <1>3, <3>2 DEF StopInv
    <3>3. CASE pc' \in {"drain", "top", "poll", "reply", "replywait", "exited"}
      BY <3>3
    <3>4. CASE finishModuleWork \/ DispatchRequest
      BY <3>3, <3>4, DispatchCases DEF finishModuleWork, replyModuleResult, DispatchAnswers,
         StartJob
    <3> QED
      BY <3>1, <3>2, <3>3, <3>4 DEF Next, Loop, DrainEmpty, ShutdownReceive, ShutdownReturn,
         EpochReturn, LoopTop, PollNothing, PollOther, PollCancel, ReplyBadBudget, ReplyError,
         ReplyFragment, ReplyWouldBlock, ReplyWaitCtx, ReplyWaitEpoch, ReplyRetry, Return,
         Handler, HandlerReturn, HandlerSend, Environment, HostDrain, HostRestart,
         CtxCancel, Tick, vars, loopVars
  <2> QED
    BY <1>1, <1>2, <1>3, <1>4, <1>7, <2>1 DEF StopInv, StopsOnlyWhenTold
<1>8. CASE finishModuleWork \/ DispatchRequest
  BY <1>7, <1>8, DispatchCases DEF finishModuleWork, PollRequest
<1>9. CASE \/ DrainEmpty \/ BeginShutdown \/ ShutdownReceive \/ LoopTop \/ PollNothing
           \/ PollOther \/ (\E d \in Corr : PollCancel(d))
           \/ ReplyFragment \/ ReplyWouldBlock \/ ReplyRetry
           \/ (\E d \in Corr : Handler(d)) \/ Environment \/ UNCHANGED vars
  <2>1. UNCHANGED exit
    BY <1>9 DEF DrainEmpty, BeginShutdown, ShutdownReceive, LoopTop, PollNothing, PollOther,
       PollCancel, ReplyFragment, ReplyWouldBlock, ReplyRetry, Handler, HandlerReturn,
       HandlerSend, Environment, HostDrain, HostRestart, CtxCancel, Tick, vars, loopVars
  <2> QED
    BY <1>7, <2>1
<1> QED
  BY <1>5, <1>6, <1>8, <1>9 DEF Next, Loop

(* The serving loop has returned only because the context ended or the     *)
(* host restarted, whatever requests, cancels and noise it was sent, if a  *)
(* full fragment fits into a slot (module_runtime.go 228-284, client.go    *)
(* 189-195).                                                               *)
THEOREM NoCallerStopsTheModule == Spec => []StopsOnlyWhenTold
<1>1. Init => StopInv
  BY DEF Init, StopInv, StopsOnlyWhenTold
<1>2. IInv /\ StopInv /\ [Next]_vars => StopInv'
  BY StopStep
<1>3. Spec => []IInv
  BY RuntimeInvariant, PTL DEF IInv
<1>4. StopInv => StopsOnlyWhenTold
  BY DEF StopInv
<1> QED
  BY <1>1, <1>2, <1>3, <1>4, PTL DEF Spec
===============================================================================
