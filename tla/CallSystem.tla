------------------------------- MODULE CallSystem -------------------------------
(***************************************************************************)
(* A caller and a serving module on one bus: ModuleCaller and              *)
(* ModuleRuntime composed.  What each of them treats as its environment is *)
(* the other one here: the frames a caller sends are the events the module *)
(* polls, and the fragments the module replies with are the events the     *)
(* caller polls.  Between them the host, which is external, moves frames   *)
(* from ring to ring in order; it refuses requests when there is no module *)
(* any more, and it may restart.                                           *)
(*                                                                         *)
(* Four bounded rings: callerOut -> toModule, fromModule -> callerIn.  All *)
(* bodies are cut into fragments of one unit, and both clocks are the      *)
(* CLOCK_MONOTONIC of one machine.                                         *)
(***************************************************************************)
EXTENDS Integers, Sequences, FiniteSets

CONSTANTS
  MaxCalls, RequestLen, ModuleMessageMaxBody, moduleMaxInFlight,
  HandlerOutcome,
  RingCap,     \* slots of each ring
  Expiry,      \* the deadline of calls that have one
  MaxFaults,   \* bound: restarts, stops of the module, contexts of calls ended
  MaxTime,
  None

ASSUME SystemAssumption ==
  /\ MaxCalls \in Nat /\ RingCap \in Nat /\ MaxFaults \in Nat /\ MaxTime \in Nat
  /\ moduleMaxInFlight \in Nat
  /\ Expiry \in 1 .. MaxTime
  /\ RequestLen \subseteq Nat \ {0}
  /\ ModuleMessageMaxBody \in Nat \ {0}
  /\ \A o \in HandlerOutcome : o[2] \in Nat

VARIABLES
  callerPc, correlation, call, body, why, results, lost,   \* the caller
  modulePc, assemblies, jobs, done, reply, exit, loopNow, heartbeat, events, streams,
  answers, ctxDone,                                         \* the module
  callerOut, toModule, fromModule, callerIn,                \* the rings
  callerHeld, moduleHeld,  \* pendingRead of the two: slots of what they read last
  epochChanged, clock,
  faults,      \* of those so far
  request,     \* history: per call, length and deadline of its request
  runs         \* history: per call, the handler runs on its whole request

Calls == 1 .. MaxCalls

Caller == INSTANCE ModuleCaller WITH
  Configs <- {}, ModuleMessageHeaderLen <- 1, HdrLen <- 1, OutCap <- RingCap,
  InCap <- RingCap, Answer <- {}, MaxAnswers <- 0, MaxNoise <- 0,
  config <- [inlineBudget |-> 2, slotSize |-> 3], pc <- callerPc, outbound <- callerOut,
  inbound <- callerIn, pendingRead <- callerHeld, noise <- 0, peer <- <<>>

(* The payload of a fragment, as ModuleCaller.send writes it. *)
Invoke(deadline) ==
  [prefixOK |-> TRUE, op |-> "Invoke", status |-> "OK", stage |-> 7, flags |-> 0,
   bodyLen |-> 1, avail |-> 1, deadline |-> deadline, trace |-> 1]

kind == 6401

Module == INSTANCE ModuleRuntime WITH
  Corr <- Calls, Stages <- [k \in {kind} |-> 7],
  Payload <- {Invoke(0), Invoke(Expiry)}, Configs <- {}, ModuleMessageHeaderLen <- 1,
  HdrLen <- 1, OutCap <- RingCap, ClockMayFail <- FALSE, ReuseCorrelation <- FALSE,
  MaxEvents <- MaxCalls * (ModuleMessageMaxBody + 1),
  config <- [handler |-> TRUE, inlineBudget |-> 2, slotSize |-> 3], pc <- modulePc,
  outbound <- Len(fromModule)

(* As in ModuleRuntime, None stands for an absent map entry. *)
ASSUME NoneAssumption ==
  None \notin Module!Assembly /\ None \notin Module!Job /\ None \notin Module!Reply

callerVars == <<callerPc, correlation, call, body, why, results, lost>>
moduleVars == <<modulePc, assemblies, jobs, done, reply, exit, loopNow, heartbeat, events,
                streams, answers, ctxDone>>
rings == <<callerOut, toModule, fromModule, callerIn, callerHeld, moduleHeld>>
vars == <<callerVars, moduleVars, rings, epochChanged, clock, faults, request, runs>>

Init ==
  /\ callerPc = "idle" /\ correlation = 0 /\ call = Caller!NoCall
  /\ body = <<>> /\ why = "none"
  /\ results = [c \in Calls |-> "none"] /\ lost = {}
  /\ modulePc = "drain" /\ exit = "none" /\ reply = None /\ done = <<>>
  /\ assemblies = [c \in Calls |-> None] /\ jobs = [c \in Calls |-> None]
  /\ loopNow = 0 /\ heartbeat = 0 /\ events = 0 /\ ctxDone = FALSE
  /\ streams = [c \in Calls |-> Module!Closed("fresh")]
  /\ answers = [c \in Calls |-> <<>>]
  /\ callerOut = <<>> /\ toModule = <<>> /\ fromModule = <<>> /\ callerIn = <<>>
  /\ callerHeld = 0 /\ moduleHeld = 0
  /\ epochChanged = FALSE /\ clock = 1 /\ faults = 0
  /\ request = [c \in Calls |-> [len |-> 0, deadline |-> 0]]
  /\ runs = [c \in Calls |-> 0]

-------------------------------------------------------------------------------
(* Steps of the caller. *)
MakeCall(len, deadline) ==
  /\ Caller!Call(len, TRUE, deadline)
  /\ request' = [request EXCEPT ![correlation'] =
                   [len |-> len, deadline |-> IF deadline THEN Expiry ELSE 0]]
  /\ UNCHANGED <<moduleVars, toModule, fromModule, moduleHeld, clock, faults, runs>>

CallerSteps ==
  /\ Caller!InCall
  /\ UNCHANGED <<moduleVars, toModule, fromModule, moduleHeld, clock, faults, request, runs>>

(* The caller's expiry is taken after the request's deadline. *)
CallerExpires ==
  /\ clock >= Expiry
  /\ Caller!Expire
  /\ UNCHANGED <<moduleVars, toModule, fromModule, moduleHeld, clock, faults, request, runs>>

CallerGivesUp ==
  /\ faults < MaxFaults
  /\ faults' = faults + 1
  /\ Caller!CtxCancel
  /\ UNCHANGED <<moduleVars, toModule, fromModule, moduleHeld, clock, request, runs>>

-------------------------------------------------------------------------------
(* Steps of the module.  Polling gives back the slot of the frame read     *)
(* last and takes the next one of its ring.                                *)
ModuleReleases ==
  /\ modulePc = "poll"
  /\ ~epochChanged
  /\ moduleHeld = 1
  /\ moduleHeld' = 0
  /\ UNCHANGED <<moduleVars, toModule, fromModule, epochChanged, clock, runs>>

ModulePolls ==
  /\ moduleHeld = 0
  /\ toModule # <<>>
  /\ toModule' = Tail(toModule)
  /\ moduleHeld' = 1
  /\ UNCHANGED fromModule
  /\ LET f == Head(toModule)
         p == Invoke(request[f.corr].deadline)
         more == f.type = "more"
     IN  \/ f.type = "cancel" /\ Module!PollCancel(f.corr)
         \/ f.type # "cancel" /\ \/ Module!RejectInvalid(f.corr, kind, p, more)
                                 \/ Module!RejectTableFull(f.corr, kind, p, more)
                                 \/ Module!RejectTooLarge(f.corr, kind, p, more)
         \/ f.type = "more" /\ Module!ExtendAssembly(f.corr, kind, p)
         \/ f.type = "final" /\ \/ Module!RejectExpired(f.corr, kind, p)
                                \/ Module!RejectJobsFull(f.corr, kind, p)
                                \/ Module!StartJob(f.corr, kind, p)
  /\ runs' = [c \in Calls |-> IF jobs[c] = None /\ jobs'[c] # None /\ jobs'[c].got = request[c].len
                              THEN runs[c] + 1 ELSE runs[c]]

(* A reply fragment: number i of n of the answer to its correlation. *)
ReplyEvent ==
  Caller!Fragment(reply.corr, Len(answers[reply.corr]), reply.offset + 1,
                  [status |-> IF reply.status = "OK" THEN "OK" ELSE "Failure",
                   n |-> IF reply.len = 0 THEN 1 ELSE reply.len])

ModuleReplies ==
  /\ reply # None
  /\ fromModule' = Append(fromModule, ReplyEvent)
  /\ Module!ReplyFragment
  /\ UNCHANGED <<toModule, moduleHeld, runs>>

ModuleRuns ==
  /\ UNCHANGED <<fromModule, toModule, moduleHeld, runs>>
  /\ \/ Module!finishModuleWork \/ Module!DrainEmpty
     \/ Module!BeginShutdown \/ Module!ShutdownReceive \/ Module!ShutdownReturn
     \/ Module!EpochReturn \/ Module!LoopTop
     \/ moduleHeld = 0 /\ toModule = <<>> /\ Module!PollNothing
     \/ Module!ReplyError \/ Module!ReplyWouldBlock
     \/ Module!ReplyWaitCtx \/ Module!ReplyWaitEpoch \/ Module!ReplyRetry

ModuleSteps ==
  /\ ModuleReleases \/ ModulePolls \/ ModuleReplies \/ ModuleRuns
  /\ UNCHANGED <<callerVars, callerOut, callerIn, callerHeld, faults, request>>

HandlerSteps(c) ==
  /\ UNCHANGED <<rings, runs, callerVars, faults, request>>
  /\ Module!Handler(c)

ModuleStops ==
  /\ faults < MaxFaults
  /\ faults' = faults + 1
  /\ UNCHANGED <<rings, runs, callerVars, request>>
  /\ Module!CtxCancel

-------------------------------------------------------------------------------
(* The host and the clock.  An event that is in use occupies its slot. *)
RoomAtModule == Len(toModule) + moduleHeld < RingCap

HostForwards ==
  /\ ~epochChanged
  /\ callerOut # <<>>
  /\ callerOut' = Tail(callerOut)
  /\ IF exit = "none"
     THEN /\ RoomAtModule
          /\ toModule' = Append(toModule, Head(callerOut))
          /\ UNCHANGED callerIn
     ELSE /\ Caller!Occupied < RingCap
          /\ callerIn' = IF Head(callerOut).type = "cancel" THEN callerIn
                         ELSE Append(callerIn, Caller!Noise("absent", Head(callerOut).corr))
          /\ UNCHANGED toModule
  /\ UNCHANGED <<callerVars, moduleVars, fromModule, callerHeld, moduleHeld, epochChanged,
                 clock, faults, request, runs>>

HostDelivers ==
  /\ ~epochChanged
  /\ fromModule # <<>>
  /\ Caller!Occupied < RingCap
  /\ callerIn' = Append(callerIn, Head(fromModule))
  /\ fromModule' = Tail(fromModule)
  /\ UNCHANGED <<callerVars, moduleVars, callerOut, toModule, callerHeld, moduleHeld,
                 epochChanged, clock, faults, request, runs>>

HostRestart ==
  /\ ~epochChanged
  /\ faults < MaxFaults
  /\ epochChanged' = TRUE
  /\ faults' = faults + 1
  /\ UNCHANGED <<callerVars, moduleVars, rings, clock, request, runs>>

Tick ==
  /\ clock < MaxTime
  /\ clock' = clock + 1
  /\ UNCHANGED <<callerVars, moduleVars, rings, epochChanged, faults, request, runs>>

-------------------------------------------------------------------------------
Next ==
  \/ \E len \in RequestLen, deadline \in BOOLEAN : MakeCall(len, deadline)
  \/ CallerSteps \/ CallerExpires \/ CallerGivesUp
  \/ ModuleSteps \/ (\E c \in Calls : HandlerSteps(c)) \/ ModuleStops
  \/ HostForwards \/ HostDelivers \/ HostRestart \/ Tick

Spec == Init /\ [][Next]_vars

(* Both processes and their goroutines run, handlers return, and the host  *)
(* moves a frame for which there is room.                                  *)
FairSpec ==
  /\ Spec
  /\ WF_vars(CallerSteps) /\ WF_vars(ModuleSteps)
  /\ \A c \in Calls : WF_vars(HandlerSteps(c))
  /\ WF_vars(HostForwards) /\ WF_vars(HostDelivers)
-------------------------------------------------------------------------------
InTransit(c, type) ==
  \E ring \in {callerOut, toModule} : \E i \in 1 .. Len(ring) :
    ring[i].corr = c /\ ring[i].type = type

(* The caller never sends what run runtime_callers excludes of the peers   *)
(* of a module: a correlation is used for one request, whose fragments     *)
(* repeat one header, and nothing but a cancel follows the last of them    *)
(* (module_caller.go 105-106, 141-163).                                    *)
CallerKeepsProtocol ==
  toModule # <<>> =>
    LET f == Head(toModule)
    IN  IF f.type = "cancel"
        THEN streams[f.corr].state \in {"open", "final"}
        ELSE Module!KeepsProtocol(f.corr, kind, Invoke(request[f.corr].deadline))

(* Seen from its caller, the stage is a remote call: run at most once, on  *)
(* the whole request, and successful only with the outcome of that run,    *)
(* however cancels, deadlines, refusals and late replies interleave        *)
(* (module_caller.go 96-130, module_runtime.go 293-429).                   *)
phase == [c \in Calls |-> CASE results[c] = "OK" -> "ok"
                            [] results[c] \notin {"OK", "none"} -> "failed"
                            [] results[c] = "none" /\ c <= correlation -> "open"
                            [] OTHER -> "none"]
Abstract == INSTANCE RemoteCall
RefinesRemoteCall == Abstract!Spec

(* A job whose call was given up is told to stop: its flag is set or the   *)
(* cancel is on its way, unless there was no room for the cancel, the host *)
(* has restarted or the module has stopped (module_caller.go 91-95 and     *)
(* 123-128, module_runtime.go 345-352).                                    *)
GivenUpWorkStops ==
  \A c \in Calls : results[c] \in Caller!AwaitErrors /\ jobs[c] # None =>
    \/ jobs[c].cancelled \/ InTransit(c, "cancel")
    \/ c \in lost \/ epochChanged \/ exit # "none"

(* An assembly outlives its call only if the rest of the request is still  *)
(* on its way, or if the call ended in the middle of sending: then nothing *)
(* will ever remove it (module_caller.go 157-159, module_runtime.go        *)
(* 345-352 and 399).                                                       *)
NoForgottenAssembly ==
  \A c \in Calls : assemblies[c] # None /\ exit = "none" =>
    results[c] \in {"none", "PartlySent", "SendEpoch"} \/ InTransit(c, "final")

(* The answers to calls given up fill the caller's own ring, and no call   *)
(* is there to read them (module_caller.go 115-117).                       *)
AnswersUnread == callerPc = "idle" /\ Caller!Occupied >= RingCap

(* A call returns, also one without a deadline, as long as the module      *)
(* serves: no ring that is full of late replies and no refusal can keep    *)
(* the two waiting for each other.  And what a caller has sent moves on,   *)
(* so that a later call finds room, unless answers for it that it does not *)
(* read fill its own ring: a caller polls only while it waits for a reply, *)
(* and a call that is refused for want of room never gets that far         *)
(* (module_caller.go 115-117, module_runtime.go 251-271).                  *)
EveryCallReturns ==
  /\ callerPc # "idle" ~> callerPc = "idle" \/ exit # "none"
  /\ callerOut # <<>> ~> callerOut = <<>> \/ AnswersUnread \/ epochChanged \/ exit # "none"
===============================================================================
