----------------------------- MODULE ModuleRuntime -----------------------------
(***************************************************************************)
(* The serving loop of a module process: runModuleClient and the handler   *)
(* goroutines it starts (server-go/bus/module_runtime.go).                 *)
(*                                                                         *)
(* One goroutine runs the loop: it drains finished work from the buffered  *)
(* channel done and answers it, checks the context and the host epoch,     *)
(* heartbeats, polls one event, and either extends a request assembly,     *)
(* starts a handler goroutine or answers at once.  An answer is written    *)
(* fragment by fragment to the bounded outbound ring and waits while that  *)
(* is full.  The control state pc names the point the loop is at:          *)
(*   "drain"     about to receive from done                                *)
(*   "top"       about to check ctx.Done, the epoch and the clock          *)
(*   "poll"      about to call Poll                                        *)
(*   "reply"     about to call ReplyFragment                               *)
(*   "replywait" found the outbound ring full                              *)
(*   "shutdown"  receiving the results of cancelled jobs                   *)
(*   "exited"    returned                                                  *)
(*                                                                         *)
(* The host and the callers behind it are the environment: any event may   *)
(* be polled, the outbound ring is drained at any speed or never, the host *)
(* may restart (the epoch changes) and the context may end at any time.    *)
(* Bodies are counted in units; the shared rings are module Ring.          *)
(***************************************************************************)
EXTENDS ModuleProtocol, Integers, Sequences, FiniteSets

CONSTANTS
  Corr,              \* correlation ids
  None,              \* no assembly, no job, no reply
  moduleMaxInFlight, \* bound of assemblies and of jobs, 16 in the code
  Stages,            \* the stage table: event kind -> stage id, 0 for a kind not served
  Payload,           \* the payloads requests may carry
  Configs,           \* [handler, inlineBudget, slotSize] a process may run with
  ModuleMessageHeaderLen, HdrLen,   \* sizes, in body units
  OutCap,            \* slots of the outbound ring
  HandlerOutcome,    \* <<status, body length>> pairs a handler may return
  ClockMayFail,      \* clock_gettime may fail (monotonicNowNS returns 0)
  ReuseCorrelation,  \* callers may reuse an id and break the fragment protocol
  MaxEvents,         \* bound: events polled
  MaxTime            \* bound: last value of the clock

ASSUME RuntimeAssumption ==
  /\ IsFiniteSet(Corr)
  /\ None \notin Corr
  /\ moduleMaxInFlight \in Nat
  /\ OutCap \in Nat
  /\ MaxEvents \in Nat
  /\ MaxTime \in Nat /\ MaxTime >= 1
  /\ ModuleMessageHeaderLen \in Nat /\ HdrLen \in Nat
  /\ \A c \in Configs : c.inlineBudget \in Nat /\ c.slotSize \in Nat
  /\ \A p \in Payload : p.bodyLen \in Nat /\ p.deadline \in Nat
  /\ \A o \in HandlerOutcome : o[2] \in Nat
  /\ ClockMayFail \in BOOLEAN /\ ReuseCorrelation \in BOOLEAN

VARIABLES
  config,        \* what this process runs with; never changes
  pc,            \* where the loop is
  assemblies,    \* correlation -> request being assembled
  jobs,          \* correlation -> moduleWork and its goroutine
  done,          \* the channel: correlations of the results in it
  reply,         \* the answer being written
  outbound,      \* occupied slots of the outbound ring
  ctxDone,       \* the context has ended
  epochChanged,  \* the host has restarted
  exit,          \* what the loop returned
  clock,         \* CLOCK_MONOTONIC, from 1
  loopNow,       \* the loop's now: the clock as sampled at its top
  heartbeat,     \* the last time stamp written to the queue pair
  events,        \* events polled so far
  streams,       \* history: per correlation, what its caller has sent
  answers        \* history: per correlation, the answers written in full

loopVars == <<pc, assemblies, jobs, done, reply, outbound, exit, loopNow, heartbeat>>
envVars  == <<ctxDone, epochChanged, clock>>
history  == <<events, streams, answers>>
vars == <<config, loopVars, envVars, history>>

Kind == DOMAIN Stages
Deadline == {p.deadline : p \in Payload}
Trace == {p.trace : p \in Payload}
Stage == {Stages[k] : k \in Kind}

Pc == {"drain", "top", "poll", "reply", "replywait", "shutdown", "exited"}

Assembly == [kind : Kind, deadline : Deadline, trace : Trace, len : Nat]

(* phase: "running" (in the handler), "returned" (the cancel flag was not  *)
(* set when it returned), "cancelled" (it was), "done" (result in the      *)
(* channel).  The rest is history: got and sent are the units the handler  *)
(* was given and the units its caller had sent; said is what the handler   *)
(* made of it, and told whether the last frame of the caller that had been *)
(* read when it returned was a cancel.                                     *)
Job == [stage : Stage, deadline : Deadline, cancelled : BOOLEAN,
        phase : {"running", "returned", "cancelled", "done"},
        status : ModuleStatus, len : Nat, got : Nat, sent : Nat,
        said : ModuleStatus, told : BOOLEAN]

Reply == [corr : Corr, stage : Stage \cup {1}, status : ModuleStatus, len : Nat,
          offset : Nat, emitted : Nat]

(* None stands for an absent map entry, which is no value of the map. *)
ASSUME NoneAssumption == None \notin Assembly /\ None \notin Job /\ None \notin Reply

Stream == [state : {"fresh", "open", "final", "cancelled"}, sent : Nat,
           kind : Kind \cup {None}, payload : Payload \cup {None}]

Exit == {"none", "ctx", "epoch", "ctxError", "epochError", "payloadError",
         "runtimeError", "encodeError"}

(* Type correctness of the loop of module_runtime.go 293-429.  It includes *)
(* that every status stored or sent is one of the protocol, whatever a     *)
(* handler returns (module_runtime.go 198-209).                            *)
TypeOK ==
  /\ config \in Configs
  /\ pc \in Pc
  /\ assemblies \in [Corr -> Assembly \cup {None}]
  /\ jobs \in [Corr -> Job \cup {None}]
  /\ done \in Seq(Corr)
  /\ reply \in Reply \cup {None}
  /\ outbound \in 0 .. OutCap
  /\ ctxDone \in BOOLEAN
  /\ epochChanged \in BOOLEAN
  /\ exit \in Exit
  /\ clock \in 1 .. MaxTime
  /\ loopNow \in 0 .. MaxTime
  /\ heartbeat \in 0 .. MaxTime
  /\ events \in 0 .. MaxEvents
  /\ streams \in [Corr -> Stream]
  /\ answers \in [Corr -> Seq([status : ModuleStatus, whole : BOOLEAN])]

(* A correlation with no request in progress. *)
Closed(how) == [state |-> how, sent |-> 0, kind |-> None, payload |-> None]

InFlight == {c \in Corr : jobs[c] # None}
Finished == {c \in InFlight : jobs[c].phase = "done"}
Assembling == {c \in Corr : assemblies[c] # None}

(* monotonicNowNS: 0 when the clock cannot be read. *)
monotonicNowNS == IF ClockMayFail THEN {0, clock} ELSE {clock}

(* Heartbeat is skipped when the clock could not be read. *)
Beat(now) == heartbeat' = IF now # 0 THEN now ELSE heartbeat

-------------------------------------------------------------------------------
Init ==
  /\ config \in Configs
  /\ pc = "drain"
  /\ assemblies = [c \in Corr |-> None]
  /\ jobs = [c \in Corr |-> None]
  /\ done = <<>>
  /\ reply = None
  /\ outbound = 0
  /\ ctxDone = FALSE
  /\ epochChanged = FALSE
  /\ exit = "none"
  /\ clock = 1
  /\ loopNow = 0
  /\ heartbeat = 0
  /\ events = 0
  /\ streams = [c \in Corr |-> Closed("fresh")]
  /\ answers = [c \in Corr |-> <<>>]

Return(why) ==
  /\ pc' = "exited"
  /\ exit' = why

(* replyModuleResult is called: the outcome is normalised and the fragment *)
(* loop entered.  Both the drain loop and the event handling continue at   *)
(* the drain once it returns.                                              *)
replyModuleResult(c, stage, status, len) ==
  /\ reply' = [corr |-> c, stage |-> stage, status |-> NormalStatus(status, len),
               len |-> NormalLen(status, len), offset |-> 0, emitted |-> 0]
  /\ pc' = "reply"

-------------------------------------------------------------------------------
(* The inner loop: take a result from done, forget the job and answer it.  *)
finishModuleWork ==
  /\ pc = "drain"
  /\ done # <<>>
  /\ done' = Tail(done)
  /\ jobs' = [jobs EXCEPT ![Head(done)] = None]
  /\ replyModuleResult(Head(done), jobs[Head(done)].stage, jobs[Head(done)].status,
                       jobs[Head(done)].len)
  /\ UNCHANGED <<config, assemblies, outbound, exit, loopNow, heartbeat, envVars, history>>

DrainEmpty ==
  /\ pc = "drain"
  /\ done = <<>>
  /\ pc' = "top"
  /\ UNCHANGED <<config, assemblies, jobs, done, reply, outbound, exit, loopNow,
                 heartbeat, envVars, history>>

(* ctx.Done: every job's flag is set, then their results are awaited. *)
BeginShutdown ==
  /\ pc = "top"
  /\ ctxDone
  /\ jobs' = [c \in Corr |-> IF jobs[c] = None THEN None
                             ELSE [jobs[c] EXCEPT !.cancelled = TRUE]]
  /\ pc' = "shutdown"
  /\ UNCHANGED <<config, assemblies, done, reply, outbound, exit, loopNow, heartbeat,
                 envVars, history>>

(* A result received during the shutdown is dropped, not answered. *)
ShutdownReceive ==
  /\ pc = "shutdown"
  /\ InFlight # {}
  /\ done # <<>>
  /\ done' = Tail(done)
  /\ jobs' = [jobs EXCEPT ![Head(done)] = None]
  /\ UNCHANGED <<config, pc, assemblies, reply, outbound, exit, loopNow, heartbeat,
                 envVars, history>>

ShutdownReturn ==
  /\ pc = "shutdown"
  /\ InFlight = {}
  /\ Return("ctx")
  /\ UNCHANGED <<config, assemblies, jobs, done, reply, outbound, loopNow, heartbeat,
                 envVars, history>>

(* A changed epoch ends the loop at its top or inside Poll. *)
EpochReturn ==
  /\ \/ pc = "top" /\ ~ctxDone
     \/ pc = "poll"
  /\ epochChanged
  /\ Return("epoch")
  /\ UNCHANGED <<config, assemblies, jobs, done, reply, outbound, loopNow, heartbeat,
                 envVars, history>>

LoopTop ==
  /\ pc = "top"
  /\ ~ctxDone
  /\ ~epochChanged
  /\ \E now \in monotonicNowNS : loopNow' = now /\ Beat(now)
  /\ pc' = "poll"
  /\ UNCHANGED <<config, assemblies, jobs, done, reply, outbound, exit, envVars, history>>

(* Poll has nothing, or skips a frame that does not decode. *)
PollNothing ==
  /\ pc = "poll"
  /\ ~epochChanged
  /\ pc' = "drain"
  /\ UNCHANGED <<config, assemblies, jobs, done, reply, outbound, exit, loopNow,
                 heartbeat, envVars, history>>
-------------------------------------------------------------------------------
(* Poll returns an event.  A caller that keeps the fragment protocol       *)
(* (ModuleCaller.send) uses a correlation for one request, repeats its     *)
(* header on every fragment and sends nothing but a cancel after the last. *)
SameHeader(p, q) ==
  /\ p.stage = q.stage /\ p.deadline = q.deadline /\ p.trace = q.trace

KeepsProtocol(c, k, p) ==
  /\ DecodeModuleMessage(p) /\ p.op = "Invoke"
  /\ \/ streams[c].state = "fresh"
     \/ /\ streams[c].state = "open"
        /\ streams[c].kind = k
        /\ SameHeader(streams[c].payload, p)

Polled ==
  /\ pc = "poll"
  /\ ~epochChanged
  /\ events < MaxEvents
  /\ events' = events + 1

SentSoFar(c) == IF streams[c].state = "open" THEN streams[c].sent ELSE 0

(* A request frame arrives: kind k, payload p, FMore when more. *)
PollRequest(c, k, p, more) ==
  /\ Polled
  /\ ReuseCorrelation \/ KeepsProtocol(c, k, p)
  /\ streams' = [streams EXCEPT ![c] =
                   IF more
                   THEN [state |-> "open", sent |-> SentSoFar(c) + p.bodyLen,
                         kind |-> IF ReuseCorrelation THEN None ELSE k,
                         payload |-> IF ReuseCorrelation THEN None ELSE p]
                   ELSE Closed("final")]
  /\ UNCHANGED <<config, done, outbound, exit, loopNow, heartbeat, envVars, answers>>

(* Mutant of PollCancel: only the assembly is dropped. *)
PollCancelAssembly(c) ==
  /\ Polled
  /\ ReuseCorrelation \/ streams[c].state \in {"open", "final"}
  /\ streams' = [streams EXCEPT ![c] = Closed("cancelled")]
  /\ assemblies' = [assemblies EXCEPT ![c] = None]
  /\ pc' = "drain"
  /\ UNCHANGED <<config, jobs, done, reply, outbound, exit, loopNow, heartbeat, envVars,
                 answers>>

(* A cancel frame: flag the job if there is one, drop the assembly. *)
PollCancel(c) ==
  /\ Polled
  /\ ReuseCorrelation \/ streams[c].state \in {"open", "final"}
  /\ streams' = [streams EXCEPT ![c] = Closed("cancelled")]
  /\ jobs' = IF jobs[c] = None THEN jobs ELSE [jobs EXCEPT ![c].cancelled = TRUE]
  /\ assemblies' = [assemblies EXCEPT ![c] = None]
  /\ pc' = "drain"
  /\ UNCHANGED <<config, done, reply, outbound, exit, loopNow, heartbeat, envVars, answers>>

(* A frame that is neither a cancel nor a request is skipped. *)
PollOther ==
  /\ Polled
  /\ pc' = "drain"
  /\ UNCHANGED <<config, assemblies, jobs, done, reply, outbound, exit, loopNow,
                 heartbeat, envVars, streams, answers>>

(* The checks of a request, in the order of the code.  The stage of an     *)
(* assembly is the stage of its kind, so comparing kinds compares stages.  *)
invalid(c, k, p) ==
  \/ Stages[k] = 0
  \/ ~DecodeModuleMessage(p)
  \/ p.op # "Invoke"
  \/ p.stage # Stages[k]
  \/ jobs[c] # None
  \/ /\ assemblies[c] # None
     /\ \/ assemblies[c].kind # k
        \/ assemblies[c].deadline # p.deadline
        \/ assemblies[c].trace # p.trace

RoomToAssemble(c) ==
  assemblies[c] # None \/ ~(Cardinality(Assembling) >= moduleMaxInFlight)

Held(c) == IF assemblies[c] = None THEN 0 ELSE assemblies[c].len

BodyFits(c, p) == ~(Held(c) + p.bodyLen > ModuleMessageMaxBody)

(* Mutant of replyStage: a refusal names the stage of the kind, if any. *)
replyStageOfKind(k) == Stages[k]

(* invalidModuleRequest: an answer must name a stage, also to a kind that  *)
(* has none.                                                               *)
replyStage(k) == IF Stages[k] = 0 THEN 1 ELSE Stages[k]

RejectInvalid(c, k, p, more) ==
  /\ PollRequest(c, k, p, more)
  /\ invalid(c, k, p)
  /\ assemblies' = [assemblies EXCEPT ![c] = None]
  /\ replyModuleResult(c, replyStage(k), "InvalidRequest", 0)
  /\ UNCHANGED jobs

(* Mutant of RejectTableFull: the fragment is dropped without an answer. *)
RejectTableFullSilently(c, k, p, more) ==
  /\ PollRequest(c, k, p, more)
  /\ ~invalid(c, k, p)
  /\ ~RoomToAssemble(c)
  /\ pc' = "drain"
  /\ UNCHANGED <<assemblies, jobs, reply>>

RejectTableFull(c, k, p, more) ==
  /\ PollRequest(c, k, p, more)
  /\ ~invalid(c, k, p)
  /\ ~RoomToAssemble(c)
  /\ replyModuleResult(c, Stages[k], "Internal", 0)
  /\ UNCHANGED <<assemblies, jobs>>

RejectTooLarge(c, k, p, more) ==
  /\ PollRequest(c, k, p, more)
  /\ ~invalid(c, k, p)
  /\ RoomToAssemble(c)
  /\ ~BodyFits(c, p)
  /\ assemblies' = [assemblies EXCEPT ![c] = None]
  /\ replyModuleResult(c, Stages[k], "Internal", 0)
  /\ UNCHANGED jobs

Accepted(c, k, p) == ~invalid(c, k, p) /\ RoomToAssemble(c) /\ BodyFits(c, p)

(* FMore: the fragment's body joins the assembly. *)
ExtendAssembly(c, k, p) ==
  /\ PollRequest(c, k, p, TRUE)
  /\ Accepted(c, k, p)
  /\ assemblies' = [assemblies EXCEPT ![c] =
                      [kind |-> k, deadline |-> p.deadline, trace |-> p.trace,
                       len |-> Held(c) + p.bodyLen]]
  /\ pc' = "drain"
  /\ UNCHANGED <<jobs, reply>>

(* Mutant of CompleteAssembly: the complete assembly stays in the table. *)
CompleteAssemblyKept(c, k, p) ==
  /\ PollRequest(c, k, p, FALSE)
  /\ Accepted(c, k, p)
  /\ UNCHANGED assemblies

(* The last fragment: the assembly is complete and leaves the table. *)
CompleteAssembly(c, k, p) ==
  /\ PollRequest(c, k, p, FALSE)
  /\ Accepted(c, k, p)
  /\ assemblies' = [assemblies EXCEPT ![c] = None]

(* Mutant of RejectExpired: a late request is dropped without an answer. *)
RejectExpiredSilently(c, k, p) ==
  /\ CompleteAssembly(c, k, p)
  /\ DeadlineExpired(p.deadline, loopNow)
  /\ pc' = "drain"
  /\ UNCHANGED <<jobs, reply>>

(* The deadline is compared with the clock sampled at the loop's top. *)
RejectExpired(c, k, p) ==
  /\ CompleteAssembly(c, k, p)
  /\ DeadlineExpired(p.deadline, loopNow)
  /\ replyModuleResult(c, Stages[k], "DeadlineExceeded", 0)
  /\ UNCHANGED jobs

RejectAbsent(c, k, p) ==
  /\ CompleteAssembly(c, k, p)
  /\ ~DeadlineExpired(p.deadline, loopNow)
  /\ ~config.handler
  /\ replyModuleResult(c, Stages[k], "CapabilityAbsent", 0)
  /\ UNCHANGED jobs

(* Mutant of JobsFull: one job more than the channel has places. *)
JobsFullOffByOne == Cardinality(InFlight) > moduleMaxInFlight

JobsFull == Cardinality(InFlight) >= moduleMaxInFlight

(* Mutant of RejectJobsFull: the request is dropped without an answer. *)
RejectJobsFullSilently(c, k, p) ==
  /\ CompleteAssembly(c, k, p)
  /\ ~DeadlineExpired(p.deadline, loopNow)
  /\ config.handler
  /\ JobsFull
  /\ pc' = "drain"
  /\ UNCHANGED <<jobs, reply>>

RejectJobsFull(c, k, p) ==
  /\ CompleteAssembly(c, k, p)
  /\ ~DeadlineExpired(p.deadline, loopNow)
  /\ config.handler
  /\ JobsFull
  /\ replyModuleResult(c, Stages[k], "Internal", 0)
  /\ UNCHANGED jobs

StartJob(c, k, p) ==
  /\ CompleteAssembly(c, k, p)
  /\ ~DeadlineExpired(p.deadline, loopNow)
  /\ config.handler
  /\ ~JobsFull
  /\ jobs' = [jobs EXCEPT ![c] =
                [stage |-> Stages[k], deadline |-> p.deadline, cancelled |-> FALSE,
                 phase |-> "running", status |-> "OK", len |-> 0,
                 got |-> Held(c) + p.bodyLen, sent |-> SentSoFar(c) + p.bodyLen,
                 said |-> "OK", told |-> FALSE]]
  /\ pc' = "drain"
  /\ UNCHANGED reply

-------------------------------------------------------------------------------
(* The fragment loop of replyModuleResult, one ReplyFragment at a time. *)
chunkCapacity == config.inlineBudget - ModuleMessageHeaderLen

Part == IF reply.len - reply.offset > chunkCapacity
        THEN chunkCapacity ELSE reply.len - reply.offset

(* Mutant of More: the last fragment is announced one unit early. *)
MoreOffByOne == reply.offset + Part + 1 < reply.len

More == reply.offset + Part < reply.len

ReplyBadBudget ==
  /\ pc = "reply"
  /\ config.inlineBudget <= ModuleMessageHeaderLen
  /\ Return("runtimeError")
  /\ UNCHANGED <<config, assemblies, jobs, done, reply, outbound, loopNow, heartbeat,
                 envVars, history>>

(* ModuleMessage.Encode refuses stage 0 (the other rules it enforces hold  *)
(* of every normalised outcome).  Client.emit: a frame larger than a slot  *)
(* is refused, then the epoch is checked, then the ring.                   *)
FitsSlot == HdrLen + ModuleMessageHeaderLen + Part <= config.slotSize

ReplyError ==
  /\ pc = "reply"
  /\ config.inlineBudget > ModuleMessageHeaderLen
  /\ reply.stage = 0 \/ ~FitsSlot \/ epochChanged
  /\ Return(IF reply.stage = 0 THEN "encodeError"
            ELSE IF ~FitsSlot THEN "payloadError" ELSE "epochError")
  /\ UNCHANGED <<config, assemblies, jobs, done, reply, outbound, loopNow, heartbeat,
                 envVars, history>>

MayEmit ==
  /\ pc = "reply"
  /\ config.inlineBudget > ModuleMessageHeaderLen
  /\ reply.stage # 0
  /\ FitsSlot
  /\ ~epochChanged

ReplyFragment ==
  /\ MayEmit
  /\ outbound < OutCap
  /\ outbound' = outbound + 1
  /\ IF More
     THEN /\ reply' = [reply EXCEPT !.offset = @ + Part, !.emitted = @ + Part]
          /\ UNCHANGED <<pc, answers>>
     ELSE /\ reply' = None
          /\ pc' = "drain"
          /\ answers' = [answers EXCEPT ![reply.corr] =
                Append(@, [status |-> reply.status,
                           whole |-> reply.emitted + Part = reply.len])]
  /\ UNCHANGED <<config, assemblies, jobs, done, exit, loopNow, heartbeat, envVars,
                 events, streams>>

ReplyWouldBlock ==
  /\ MayEmit
  /\ outbound = OutCap
  /\ pc' = "replywait"
  /\ UNCHANGED <<config, assemblies, jobs, done, reply, outbound, exit, loopNow,
                 heartbeat, envVars, history>>

(* Mutant of ReplyWaitCtx: the end of the context does not stop the wait. *)
ReplyWaitCtxRetries ==
  /\ pc = "replywait"
  /\ ctxDone
  /\ pc' = "reply"
  /\ UNCHANGED <<config, assemblies, jobs, done, reply, outbound, exit, loopNow,
                 heartbeat, envVars, history>>

(* The select may see ctx.Done or the timer when both are ready. *)
ReplyWaitCtx ==
  /\ pc = "replywait"
  /\ ctxDone
  /\ Return("ctxError")
  /\ UNCHANGED <<config, assemblies, jobs, done, reply, outbound, loopNow, heartbeat,
                 envVars, history>>

ReplyWaitEpoch ==
  /\ pc = "replywait"
  /\ epochChanged
  /\ Return("epochError")
  /\ UNCHANGED <<config, assemblies, jobs, done, reply, outbound, loopNow, heartbeat,
                 envVars, history>>

(* Mutant of ReplyRetry: no heartbeat while the ring is full. *)
ReplyRetryNoBeat ==
  /\ pc = "replywait"
  /\ ~epochChanged
  /\ pc' = "reply"
  /\ UNCHANGED <<config, assemblies, jobs, done, reply, outbound, exit, loopNow,
                 heartbeat, envVars, history>>

ReplyRetry ==
  /\ pc = "replywait"
  /\ ~epochChanged
  /\ \E now \in monotonicNowNS : Beat(now)
  /\ pc' = "reply"
  /\ UNCHANGED <<config, assemblies, jobs, done, reply, outbound, exit, loopNow,
                 envVars, history>>

-------------------------------------------------------------------------------
(* runHandler.  The handler returns; its outcome is normalised and the     *)
(* cancel flag read ...                                                    *)
HandlerReturn(c, outcome) ==
  /\ jobs[c] # None
  /\ jobs[c].phase = "running"
  /\ LET status == NormalStatus(outcome[1], outcome[2])
         len    == NormalLen(outcome[1], outcome[2])
         stopped == jobs[c].cancelled
     IN  jobs' = [jobs EXCEPT ![c] =
                    [@ EXCEPT !.phase  = IF stopped THEN "cancelled" ELSE "returned",
                              !.status = IF stopped THEN "Cancelled" ELSE status,
                              !.len    = IF stopped THEN 0 ELSE len,
                              !.said   = status,
                              !.told   = streams[c].state = "cancelled"]]
  /\ UNCHANGED <<config, pc, assemblies, done, reply, outbound, exit, loopNow,
                 heartbeat, envVars, history>>

(* Mutant of HandlerSend: the deadline is looked at first. *)
HandlerSendDeadlineFirst(c) ==
  /\ jobs[c] # None
  /\ jobs[c].phase \in {"returned", "cancelled"}
  /\ Len(done) < moduleMaxInFlight
  /\ \E now \in monotonicNowNS :
       LET late == now # 0 /\ DeadlineExpired(jobs[c].deadline, now)
       IN  jobs' = [jobs EXCEPT ![c].phase = "done",
                      ![c].status = IF late THEN "DeadlineExceeded" ELSE @,
                      ![c].len    = IF late THEN 0 ELSE @]
  /\ done' = Append(done, c)
  /\ UNCHANGED <<config, pc, assemblies, reply, outbound, exit, loopNow, heartbeat,
                 envVars, history>>

(* ... then, unless it was cancelled, the deadline is compared with the    *)
(* clock and the result sent to the channel, which has moduleMaxInFlight   *)
(* places.                                                                 *)
HandlerSend(c) ==
  /\ jobs[c] # None
  /\ jobs[c].phase \in {"returned", "cancelled"}
  /\ Len(done) < moduleMaxInFlight
  /\ \E now \in monotonicNowNS :
       LET late == /\ jobs[c].phase = "returned"
                   /\ now # 0
                   /\ DeadlineExpired(jobs[c].deadline, now)
       IN  jobs' = [jobs EXCEPT ![c].phase = "done",
                      ![c].status = IF late THEN "DeadlineExceeded" ELSE @,
                      ![c].len    = IF late THEN 0 ELSE @]
  /\ done' = Append(done, c)
  /\ UNCHANGED <<config, pc, assemblies, reply, outbound, exit, loopNow, heartbeat,
                 envVars, history>>

-------------------------------------------------------------------------------
(* The environment. *)
HostDrain ==
  /\ outbound > 0
  /\ outbound' = outbound - 1
  /\ UNCHANGED <<config, pc, assemblies, jobs, done, reply, exit, loopNow, heartbeat,
                 envVars, history>>

HostRestart ==
  /\ ~epochChanged
  /\ epochChanged' = TRUE
  /\ UNCHANGED <<config, loopVars, ctxDone, clock, history>>

CtxCancel ==
  /\ ~ctxDone
  /\ ctxDone' = TRUE
  /\ UNCHANGED <<config, loopVars, epochChanged, clock, history>>

Tick ==
  /\ clock < MaxTime
  /\ clock' = clock + 1
  /\ UNCHANGED <<config, loopVars, ctxDone, epochChanged, history>>

-------------------------------------------------------------------------------
DispatchRequest ==
  \E c \in Corr, k \in Kind, p \in Payload :
    \/ \E more \in BOOLEAN : \/ RejectInvalid(c, k, p, more)
                             \/ RejectTableFull(c, k, p, more)
                             \/ RejectTooLarge(c, k, p, more)
    \/ ExtendAssembly(c, k, p)
    \/ RejectExpired(c, k, p)
    \/ RejectAbsent(c, k, p)
    \/ RejectJobsFull(c, k, p)
    \/ StartJob(c, k, p)

Loop ==
  \/ finishModuleWork \/ DrainEmpty
  \/ BeginShutdown \/ ShutdownReceive \/ ShutdownReturn
  \/ EpochReturn \/ LoopTop \/ PollNothing
  \/ (\E c \in Corr : PollCancel(c)) \/ PollOther \/ DispatchRequest
  \/ ReplyBadBudget \/ ReplyError \/ ReplyFragment \/ ReplyWouldBlock
  \/ ReplyWaitCtx \/ ReplyWaitEpoch \/ ReplyRetry

Handler(c) == (\E outcome \in HandlerOutcome : HandlerReturn(c, outcome)) \/ HandlerSend(c)

Environment == HostDrain \/ HostRestart \/ CtxCancel \/ Tick

Next == Loop \/ (\E c \in Corr : Handler(c)) \/ Environment

Spec == Init /\ [][Next]_vars

(* The Go scheduler runs every goroutine that can run, a handler returns   *)
(* in the end, and a select with both cases ready picks one at random, so  *)
(* it does not ignore ctx.Done for ever.  Nothing is assumed of the host.  *)
FairSpec == /\ Spec
            /\ WF_vars(Loop)
            /\ SF_vars(ReplyWaitCtx)
            /\ \A c \in Corr : WF_vars(Handler(c))
-------------------------------------------------------------------------------
Serving == exit = "none" /\ pc # "shutdown"

(* Sending to done never blocks a handler goroutine: its capacity equals   *)
(* the job limit and a job is forgotten only when its result is received   *)
(* (module_runtime.go 300, 288, 321 and 414).  Otherwise a goroutine whose *)
(* loop has returned would be stuck in runHandler for ever.                *)
HandlerNeverBlocks ==
  \A c \in Corr : jobs[c] # None /\ jobs[c].phase \in {"returned", "cancelled"}
                    => Len(done) < moduleMaxInFlight

(* The channel holds every finished job exactly once and nothing else, and *)
(* neither table outgrows its limit: the accounting HandlerNeverBlocks     *)
(* rests on.                                                               *)
JobAccounting ==
  /\ \A i \in 1 .. Len(done) : done[i] \in Finished
  /\ \A i, j \in 1 .. Len(done) : done[i] = done[j] => i = j
  /\ Len(done) = Cardinality(Finished)
  /\ Cardinality(InFlight) <= moduleMaxInFlight
  /\ Cardinality(Assembling) <= moduleMaxInFlight

(* A request whose last fragment has been read is never forgotten: while   *)
(* the loop serves, it is in a handler, being answered, or answered        *)
(* (every branch of module_runtime.go 368-427 answers or starts a job).    *)
NoSilentDrop ==
  \A c \in Corr : streams[c].state = "final" /\ Serving
    => \/ answers[c] # <<>>
       \/ jobs[c] # None
       \/ reply # None /\ reply.corr = c

(* If a handler runs on less than its caller sent (fragments were refused  *)
(* on the way, module_runtime.go 376-394), the caller was told of a        *)
(* failure first: the outcome of a truncated request is never its answer.  *)
TruncatedOnlyAfterFailure ==
  \A c \in Corr : jobs[c] # None /\ jobs[c].got # jobs[c].sent
    => answers[c] # <<>> /\ answers[c][1].status # "OK"

(* The fragments of an answer add up to the body it announces, for every   *)
(* inline budget and however often the ring was full in between            *)
(* (module_runtime.go 235-273).                                            *)
AnswersAreWhole == \A c \in Corr : \A i \in 1 .. Len(answers[c]) : answers[c][i].whole

(* A result names what happened to its job.  A cancel that was read while  *)
(* the handler ran is honoured, whatever the handler returned and even if  *)
(* the deadline has passed as well; otherwise the result is what the       *)
(* handler said, unless the job was told to stop, by its caller or by the  *)
(* end of the process, or is late (module_runtime.go 196-221, 316-318,     *)
(* 348-350).                                                               *)
VerdictIsEarned ==
  \A c \in Corr : jobs[c] # None /\ jobs[c].phase = "done" =>
    LET job == jobs[c]
    IN  /\ job.told => job.status = "Cancelled"
        /\ \/ job.status = job.said
           \/ job.status = "Cancelled"
                /\ (job.told \/ pc \in {"shutdown", "exited"} \/ ReuseCorrelation)
           \/ job.status = "DeadlineExceeded" /\ DeadlineExpired(job.deadline, clock)

(* The inline budget leaves room for a body, and a full fragment fits into *)
(* a slot.                                                                 *)
RoomForFragments ==
  /\ config.inlineBudget > ModuleMessageHeaderLen
  /\ HdrLen + config.inlineBudget <= config.slotSize

(* No caller can stop the process, whatever it sends: every error of a     *)
(* reply but those of a restart or of the context ends the loop            *)
(* (module_runtime.go 228-271), and none can arise if full fragments fit   *)
(* into the slots of the rings, which attaching does not ensure (a budget  *)
(* up to the slot size is accepted, region.go 66-70, but client.go 193     *)
(* adds the frame header).                                                 *)
StopsOnlyWhenTold ==
  exit # "none" => ctxDone \/ epochChanged \/ ~RoomForFragments

(* Ending the context ends the process, even when the host has stopped     *)
(* draining replies, and so does a restart of the host                     *)
(* (module_runtime.go 259-266, 314-324, 326 and 336).                      *)
StopsWhenTold == ctxDone \/ epochChanged ~> exit # "none"

(* The heartbeat catches up with the clock even while a reply waits for a  *)
(* host that never drains the ring (module_runtime.go 267-270, 329-332).   *)
HeartbeatCatchesUp ==
  \A t \in 1 .. MaxTime :
    clock = t ~> heartbeat >= t \/ pc = "shutdown" \/ exit # "none"

(* If the host keeps draining the outbound ring, every complete request is *)
(* answered unless the process ends first.                                 *)
EveryRequestAnswered ==
  WF_vars(HostDrain) =>
    \A c \in Corr : streams[c].state = "final" ~> answers[c] # <<>> \/ ~Serving
===============================================================================
