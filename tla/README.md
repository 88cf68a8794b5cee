# Verification of aimee-module-routing

TLA+ models of the routing module: how its process gets onto the shared-memory
bus and off it, the bytes it exchanges there, the serving loop, the calling side
and the two composed, the route-selection stage, and the eligibility and policy
router in C. TLC checks the models on small instances; TLAPS proves every safety property
and both refinements that the runs check for every value of the constants.
`PROJECT.json` holds the machine-readable side: which definition models which
lines, the runs, the mutants, the hazards and the theorems.

## The system

| Component | Source | State | Operations | Hard part |
|---|---|---|---|---|
| Shared-memory ring | `server-go/bus/ring.go` | two wrapping counters, slots in shared memory | attach, begin/commit on both sides | two processes, no locks, wrap-around |
| Message envelope | `bus/module_protocol.go` | none | encode, decode, deadline | what is accepted decides what the loop runs |
| Client data path | `bus/client.go` | pending read, attached epoch | emit, Poll, Cancel | the host restarts at any time |
| Serving loop | `bus/module_runtime.go` | assemblies, jobs, result channel, the answer being written | serve, finish, shut down | one loop, many handler goroutines, a bounded ring that may stay full |
| Caller | `bus/module_caller.go` | correlation, response so far | Call (send, await, cancel) | stale fragments, timeouts, lost cancels |
| Route selection | `modules/routing/routing.go`, `module_adapter.c`, `module_api.h` | one atomic cursor | Handle | concurrent invocations and cancels |
| Router | `src/modules/routing/routing.c` | roster (`enabled` is modified during a route), registered filters | route, route with capabilities, route at tier, escalation target, delegate pick, named pick | several passes over live health; many paths that must all honour the same gates |
| Attach and lifecycle | `bus/client.go`, `client_connect.go` | descriptors, mappings, heartbeat goroutine | connect, attach, detach, keepAlive | partial failure, use after unmap |
| Frame codec | `bus/wire.go` | none | validate, encode, decode, check placement | old bytes in a slot, sums that wrap, rules repeated in front of it |
| Regions | `bus/region.go` | mapped control and queue-pair headers | attach, heartbeat | headers that promise more than was mapped |
| Process entry | `runtime/main.go` | signal context | main | must end when told to |

How they interact: the server asks its registered route-selection provider to
pick among equally eligible seats (`agent_pick_balanced`, `delegate_pick_for_role`
in `routing.c`). The provider calls the routing process over the bus: a caller
writes request fragments to its outbound ring, the host forwards them, the
serving loop assembles them, starts `Selector.Handle` in a goroutine, takes its
result from a channel and writes answer fragments to its own outbound ring. The
caller polls its inbound ring for them. Context end, host restart (a changed
epoch), full rings, cancels and deadlines cut across all of it.

What makes each part correct: the ring is a FIFO of whole messages; the loop
answers every complete request, with a status that says what happened to it,
never blocks a handler, and stops when told to and only then; a call returns
only its own answer and always returns; caller and module together are a remote
call that runs at most once; connecting leaves nothing behind when it fails; a
frame is read as it was meant; a selection is in range and fair; a route never
goes past a scope ceiling or a hard capability, fails only if no seat could take
it, and leaves the roster as it was.

## Modules

| Module | Models | Composition |
|---|---|---|
| `BoundedQueue` | abstract: what one direction of a queue pair promises | refined by `Ring` |
| `Ring` | `ring.go` and the slot accesses of `Client.emit` and `Client.Poll` | refinement `Queue == INSTANCE BoundedQueue` |
| `ModuleProtocol` | AMOD header rules, normalisation of outcomes | extended by `ModuleRuntime` |
| `ModuleRuntime` | `runModuleClient`, `replyModuleResult`, `runHandler` | host, callers, clock and context are its environment |
| `ModuleCaller` | `Call`, `send`, `awaitReply` | host and module are its environment |
| `RemoteCall` | abstract: what a caller may rely on | refined by `CallSystem` |
| `CallSystem` | caller, host and serving loop on four rings | instantiates `ModuleCaller` and `ModuleRuntime`; each is the environment of the other |
| `Regions` | layout and validation of the mapped regions, in bytes | extended by `ClientLifecycle` |
| `ClientLifecycle` | `main`, `RunModuleProcess`, `connectModule`, `ConnectClient`, `AttachAs`, `Detach`, `keepAlive` | the host's socket, replies and restarts are its environment |
| `Wire` | the frame codec over 64 header bytes | extended by `FramePath` |
| `FramePath` | `emit`, `Publish`, `Request`, `Reply`, `Cancel`, `Poll` as bytes | a routing host is its environment |
| `Selector` | `Selector.Handle` | the loop's goroutines and cancels are its environment |
| `AgentRouting` | `routing.c` | health changes and the provider are its environment |
| `MC*` | instances for TLC | |
| `*Proofs` | theorems about `Ring`, `ModuleRuntime`, `ModuleCaller`, `CallSystem`, `ClientLifecycle`, `FramePath` and `Wire` (`FrameProofs`), `AgentRouting`, `Selector` | each extends its model |

Correspondence of state and actions:

* `Ring`. `head`, `tail` and `slots` are the shared words; `producer` and
  `consumer` say where `emit` and `Poll` are between begin and commit. Filling a
  slot takes two steps, in between the slot is `Torn`. `Init` is what
  `AttachRing` accepts: any counters within one capacity of each other.
* `ModuleRuntime`. `pc` is the point the loop is at; each branch of the dispatch
  is an action of its own, in the order of the code, and a reply is written one
  fragment per step. A job's phase follows `runHandler`: the outcome and the
  cancel flag are read in one step, the clock and the channel in a later one.
  `streams` and `answers` are history: what callers sent and what was answered;
  so are a job's `said`, what its handler made of the request, and `told`,
  whether its caller had cancelled by then. A job and its reply carry the stage
  of the request, which the encoder checks again. Bodies are counted in units; 40 and 64 byte headers are one unit each.
* `ModuleCaller`. One action per exit of `awaitReply`; the context and the
  deadline are looked at only after an empty poll, as in the code. The module
  behind the host may answer late, after a cancel, or fail a request it has only
  part of. `pendingRead` is `Client.pendingRead`: the slot of the event read last
  stays occupied until the next poll gives it back.
* `CallSystem`. The caller's outbound queue is forwarded frame by frame to the
  queue the module polls, and the reply fragments of the module to the queue the
  caller polls. Both processes take the steps of their own modules; only the
  environment actions of these are replaced; `callerHeld` and `moduleHeld` are the
  slots that the last poll of either still holds. `request` and `runs` are history.
  One caller is composed: that two callers do not see each other's correlation
  ids is the host's business.
* `ClientLifecycle`. `pc` follows the connecting goroutine from `main` through
  the system calls of `AttachAs`, one step each, so that each can fail and the
  host can restart in between. Descriptors and mappings are sets; `maps` is what
  the kernel has mapped, `held` what the client would unmap. The two roles are a
  serving module and a caller with its `keepAlive` goroutine, whose owner may
  detach at any time.
* `Regions`, `Wire`. Pure operators with the constants, offsets and widths of
  the code. A byte of a number has `Radix` values instead of 256, so that a
  64-bit sum wraps within TLC's integers; flags keep their bits.
* `FramePath`. One slot each way that keeps the bytes of its last frame. The
  slot size announced at attach and that of the ring header are taken as one
  here.
* `Selector`. One action per return of `Handle`; the addition to the cursor is
  atomic, reading the cancel flag is a step of its own, twice. A passed deadline
  counts as a cancel, as in `ModuleInvocation.Cancelled`.
* `AgentRouting`. One step per loop over the roster. The live verdicts (`down`,
  `degraded`) may change between two steps, never within one. `Settle` is what
  the callers of a pass make of its result: refuse a ceiling-barred seat and
  withhold, relax modalities, escalate. A seat's catalog entry, credentials and
  command are data; the registered policy filter is external.

## Runs

| Run | Instance | Shows |
|---|---|---|
| `ring` | 4 slots, counters modulo 8, 2 messages, all attachable states | invariant, whole and stable views, refinement of `BoundedQueue` |
| `wire` | radix 4 (64 bits wrap at 65536), slots of 32, 66 and 67 bytes, payloads up to 3 bytes around `MaxPayload` = 2, about 100 host frames around each rule and bound, 2 frames | a frame is read as it was meant, whatever the slots held; the encoder never refuses a legal operation; `Poll`'s bounds agree with `CheckPlacement` |
| `lifecycle` | both roles, 4 configurations to refuse, 27 attach replies, 1 restart, fairness | nothing leaks, attached rings lie in the mapping, where heartbeats go, context end ends the process, clients stay alive |
| `lifecycle_hang` | a good configuration | violation: a silent host holds the process |
| `runtime_callers` | 2 correlations, 1 assembly, 1 job, 1 outbound slot, an unserved kind, with and without handler, failing clock, 5 events, clock 1..2 | requests accounted for, answers whole, truncated only after a failure, a status that says what happened to the job |
| `runtime_live` | any payloads and reused correlations, three geometries, bad handlers, 2 events, fairness | job accounting, handlers never block, no caller can stop the loop, context end and restart do, heartbeat, every request answered |
| `caller` | 2 calls, rings of 1 slot, three geometries, 1 noise event, fairness | own reply, cancel sent, a refusal is heard, deadline and context end a call |
| `call_system` | 2 calls of 2 fragments, four rings of 1 slot, 1 job, 1 fault (restart, stop or given-up call), deadlines, fairness | refinement of `RemoteCall`, given-up work is told, no forgotten assembly, every call returns and its frames move on, and the caller is the peer `runtime_callers` assumes |
| `selector` | 2 goroutines, cursor modulo 4, lists of 2 and 3, 4 picks | range, rotation |
| `routing` | all rosters of 3 of 8 kinds of seats, 4 defaults each, 24 requests, 1 health change, provider that may fail | ceiling, hard capabilities, roster restored, preferences never exclude, passes agree with one definition, a flip in mid-route loses a steady seat only to one as cheap, and only without capability routing |
| `routing_fail_closed` | capability requests, provider may fail | violation: a failed reply escalates |
| `routing_primary` | plain requests | violation: primary turn goes to neither default nor session |

`runtime_callers` assumes that peers keep the fragment protocol (one request per
correlation, one header for all its fragments, nothing but a cancel after the
last one). `CallerKeepsProtocol` discharges that assumption for the only client
of the repository that sends requests; `ProtocolAlwaysKept` proves it for every size.

Bounds and why they are enough:

* Every limit of the code is set to 1 or 2 (`moduleMaxInFlight`, `OutCap`,
  `InCap`, `Cap`), so that with two actors it is met, exceeded and freed again
  within a few steps. All code paths at a limit compare a count with it and
  nothing else.
* `IndexMod` is twice the capacity and every starting position is tried;
  `CursorMod` is 4, which lists of 2 divide and lists of 3 do not, and four picks
  go round it.
* `MaxEvents`, `MaxCalls`, `MaxPicks`, `MaxNoise`, `MaxAnswers` bound histories.
  Five events are two requests of two fragments and a cancel: the shortest
  truncation needs four. `MaxTime = 2` gives a deadline that is ahead and then
  passed.
* One health change is the shortest that separates two passes, and every pass
  boundary is tried. Three seats are the shortest roster in which a default, a
  cheaper peer and a session differ; the kinds differ in every field a gate or a
  preference reads.
* The attach replies differ from a good one in one field each; every check of
  `AttachAs`, `AttachControl`, `AttachQueuePair` and `AttachRing` that a mapping
  of this size can meet has a reply that it refuses, and three replies validate although their layout is not
  the announced one. Bytes there are real numbers of bytes.
* The composition has one fault: each of restart, stop and given-up call is
  tried at every point, pairs of them in the modules of the parts.
* Correlations and goroutines are symmetric in the safety runs; liveness runs
  use no symmetry.

Deadlock checking is off where the modelled program stops: the loop returns, a
route is done, the callers have used up their calls. `ring` never stops and
checks it.

Fairness: `ring` has none: a client polls when it likes, and not at all outside
a call. `runtime_live` assumes that the loop and each handler goroutine keep running (the Go scheduler) and
that a `select` with two ready cases does not ignore `ctx.Done` for ever (Go
picks at random); nothing is assumed of the host, except, in
`EveryRequestAnswered` and as its premise, that it drains the ring. `caller`
assumes that the calling goroutine keeps running and that time passes; nothing
of the host or the module. `lifecycle` assumes that both goroutines run and that
a `select` that finds `ctx.Done` ready again and again takes it in the end
(strong fairness of `RetryCtx` and `KeepAliveStops`); `StopEndsProcess` has as
its premise that the host answers an attach request or hangs up. `call_system`
assumes that caller, module and handlers run and that the host moves a frame for
which there is room.

Every property of a passing run has a mutant: a second operator, next to the
definition it varies and marked as a mutant in its comment, that changes one
guard or assignment the way a slip in the code would. With the mutant in place
TLC refutes the property.

## What the violations show

1. `lifecycle_hang`: the context is looked at between refused connections and in
   the serving loop, not in the blocking `Recvmsg` of the handshake. A signal then
   does not end the process, because `signal.NotifyContext` has taken it.
   `StopEndsProcess` shows that this wait is the only obstacle.
2. `routing_fail_closed`: a failed provider and an empty field are the same NULL
   to the capability path, which then escalates.
3. `routing_primary`: the session test uses eligibility with an unset scope
   (ceilings count as whole-task), the plain pass ignores ceilings.

Behaviour worth knowing that contradicts no document, and which the properties
are stated around:

* Fragments refused at a full assembly table are forgotten, and a later fragment
  of the same request can start a new assembly, so a handler may see the tail of
  a request. `TruncatedOnlyAfterFailure`: its caller has been told `Internal`
  first; `RefinesRemoteCall`: it never takes the outcome.
* `send` neither waits for room nor cancels. A request cut off by a full ring
  holds one of the module's 16 assemblies until the module restarts.
  `NoForgottenAssembly` names this as the only way.
* The tier found in the first pass of a plain route is kept although health is
  asked again in the second: a flip in between gives NULL although other seats
  remain. `SteadySeatIsFound` says when: only without capability routing, and
  only if the seat that flipped was as cheap as those that stayed.
* `AttachQueuePair` accepts an inline budget up to the slot size, `emit` adds the
  frame header to it. With a budget in between, the first full fragment is
  refused by the encoder and ends the module; `StopsOnlyWhenTold` names this as
  the only way a request can stop it.
* A caller polls only while it waits for a reply, and `send` gives up when the
  ring is full. Answers to calls given up can fill its inbound ring, and if its
  outbound ring is full behind them, it never polls again. The second half of
  `EveryCallReturns` names this (`AnswersUnread`) as the only way a frame stays.
* `Selector.Handle` looks at the cancel flag before it draws from the cursor and
  before it answers, not as it answers: a cancel in between is answered OK by
  the stage, and made `Cancelled` by `runHandler` (`VerdictIsEarned`).
* `keepAlive` and `Detach` are not joined: an owner that detaches a caller's
  client while the process lives may have a heartbeat written to memory that is
  no longer mapped. Ending the context first does not exclude it.
* `AttachQueuePair` does not compare the headers with the attach reply nor the
  rings with each other; `AttachedRingsAreSound` holds all the same.
* An inline frame whose reference and length wrap 64 bits passes `Poll`'s bounds
  test and stops the slice; `PollBoundsAgree` shows that nothing else does.

## Proofs

| Module | Theorems | Argument |
|---|---|---|
| `RingProofs` | `RingInvariant`, `ConsumerNeverSeesTornSlot`, `HeldViewStays`, `RingRefinesQueue` | `IInv == TypeOK /\ RingInv`. `ViewIsWhole` is not inductive: that a held slot is whole needs every occupied slot to be whole and the producer to own a free one, which `RingInv` says. Lemmas on wrapping subtraction and on `slot` do the arithmetic; the refinement maps the occupied slots to the queue. |
| `ModuleRuntimeProofs` | `RuntimeInvariant`, `HandlersNeverBlock`, `EveryAnswerIsWhole`, `RequestsAreNotDropped`, `EveryVerdictIsEarned`, `NoCallerStopsTheModule`, `TruncationIsTold` | `IInv == TypeOK /\ ReplyInv /\ JobAccounting`. `HandlerNeverBlocks` needs that the channel holds exactly the finished jobs, once each, and that jobs are bounded; a finished job and a returned one are then different members of a set of at most `moduleMaxInFlight`. `ReplyInv` ties the offset of an answer to what was emitted. `TruncationIsTold` adds `TruncInv`: what is held of a request is all that was sent of it, or a failure was answered first; it assumes `~ReuseCorrelation`, without which it is false. `EveryVerdictIsEarned`: the flag that `runHandler` has read is in the job, a stream once cancelled stays so, and as the clock only grows a job that was late stays late (`EarnedStep`). `NoCallerStopsTheModule`: every reply on its way has a stage the encoder takes (`StopInv`) and fragments that fit the slot (`FragmentsFit`), so that only a restart or the context is left to end the loop. |
| `CallerProofs` | `CallerInvariant`, `ReplyIsAlwaysOwn`, `ModuleIsAlwaysTold`, `RefusalIsAlwaysHeard` | That a reply is whole is a fact about what was read, what is in the ring and what the module sends next, together: `StreamInv` says that the fragments of the current call continue each other across the three, `BodyInv` that those read are 1 up to their number. Stale fragments are harmless because a correlation is used once (`CallInv`). `CancelInv`, a cancel is the last frame of its correlation, makes `ModuleIsTold` inductive. `RefusalIsAlwaysHeard` needs `PastInv`: of the calls made so far only the one in progress has no result, so that a refusal that is read is read by the call it is for. |
| `CallSystemProofs` | `CallSystemInvariant`, `ProtocolAlwaysKept`, `GivenUpWorkIsStopped`, `AssembliesAreFinished`, `CallSystemRefinesRemoteCall` | See below. |
| `LifecycleProofs` | `LifecycleInvariant`, `AttachLeaksNothing`, `RingsLieInMapping`, `HeartbeatsHitTheMapping` | `NothingLeaks` speaks of the ways out; `ProgressInv` records, for each point on the way in, which descriptors are open, what is mapped and what would be unmapped. `RingsLieInMapping` is arithmetic: an index modulo the capacity times the slot size stays below what validation compared with the mapping. `BeatInv`: only an attached caller has a heartbeat goroutine. |
| `FrameProofs` | `CodecRoundTrip`, `PathInvariant`, `FramesReadAsMeant`, `EncoderRefusesNothingElse`, `PollBoundsAlwaysAgree` | A number is the sum of the digits taken from it, flags come back bit by bit and no two fields share a byte, hence the round trip over any old bytes. `PathInv` says what a committed slot means (`OutInv`, `InInv`) and what an event is of its slot (`EventInv`). The bounds are a case split on whether reference plus length wraps. |
| `RoutingProofs` | `RoutingInvariant`, `CeilingAlwaysBinds`, `HardCapsAlwaysBind`, `RosterAlwaysRestored`, `SteadySeatAlwaysFound`, `PreferencesNeverEmptyTheField`, `RouteIsCheapestCapable` | `EnabledInv`: exactly the barred seats are withheld, and only by a route on its way. `CapsInv`: at each point the request carries its capabilities or the hard ones. With these the gates bind at every pass, whatever health does in between. `SteadySeatAlwaysFound` is about health that flips in mid-route: between the two plain passes `SteadyInv` carries that the tier found is at most that of every routable seat which has not moved, and that the seat it was found at has moved or is routable still. The last two theorems hold while health stands still and the provider answers; `PassesAreRight` (`StillInv`) carries what each pass found to the next, and `LargestExists` and `MinTierIsLeast` give, for rosters of every length, that the best of the seats exists, because strict inclusion of finite sets is well founded. |
| `SelectorProofs` | `SelectorInvariant`, `SelectionsAreInRange`, `BalancedPicksRotate` | the invariant records that the i-th pick was made with the cursor at (i - 1) modulo its range; rotation is then a fact about remainders. |

The composition. A step of `CallSystem` is a step of `ModuleCaller` or
`ModuleRuntime` under a substitution; `Moves` reduces each to one of a few moves
on the state the proof speaks of, so that the model's definitions are expanded
once. The invariant has these parts:

* `CallInv`: calls are made one after the other, and results are final.
* `RequestInv`: over both rings of the request path the frames of a call are in
  order, the last fragment after the others and a cancel after that (`Sorted`),
  and fit both what the caller has done and what the module has seen
  (`StreamFits`, `RequestFits`, `CancelFits`). `CallerKeepsProtocol` alone is not
  inductive: it is about the first frame of one ring.
* `CountInv`: the fragments seen and those on their way add up to what was sent.
  With the order this says that a final fragment completes the request.
* `ModuleInv`: assemblies and jobs fit what was seen.
* `AnswerInv`: on the way back, over both rings, a success is preceded by a
  failure unless the stage has run on the whole request (`Truthful`), and a job
  that lacks a part of its request has its failure on the way (`AnswerFits`).

`ProtocolAlwaysKept` follows from the order, `GivenUpWorkIsStopped` and
`AssembliesAreFinished` from what fits what. In the refinement the caller's
success is the one step that needs `AnswerInv`: the first event for the open
call is a success, no failure precedes it, so the stage has run.
The invariant was model-checked before it was proved, with rings of one and of
two slots and up to two faults.

Assumptions: only the named `ASSUME`s of the modules (`RingAssumption`,
`MaxBodyAssumption`, `RuntimeAssumption`, `CallerAssumption`,
`SystemAssumption`, `LifecycleAssumption`, `WireAssumption`, `PathAssumption`,
`RoutingAssumption`, `SelectorAssumption` and `NoneAssumption`), which TLC
evaluates in every run. They say that sizes and bounds are natural numbers, that
the ring's capacity divides the counters' range, that the set of correlations is
finite, that requests are not empty in `CallSystem` (an empty one is a
single fragment too and takes the path of a request of one unit), that a byte has at least four
values and kinds and correlations fit their fields, that the data a module is
given has its form, and that the marker values are not data.

Only model-checked: liveness (`StopsWhenTold`,
`HeartbeatCatchesUp`, `EveryRequestAnswered`, `CallEnds`, `EveryCallReturns`,
`StopEndsProcess`, `StaysAlive`), which is about fairness and `ENABLED`, out of
the prover's reach; absence of deadlock in `ring`, for the same reason; and the
three violations, which are counterexamples. The caller in `CallerProofs` and
the module in `ModuleRuntimeProofs` have a free environment; that the other part
stays within it is proved for the protocol of the requests (`ProtocolAlwaysKept`); the
rest of either environment does anything the other part could, which is not
stated as a theorem yet.

## Not modelled

* Persona and exec-role predicates, `agent_default_primary` and
  `agent_any_delegate_available` of `routing.c`: stateless, used by no modelled
  route.
* The byte layout of the AMOD header inside a payload (`module_protocol.go`
  58-75): the decoder's rules are modelled on its fields.
* The accessors of the control region and `ControlLost`: nothing in the
  repository calls them.
* The arithmetic of `mix64`: a constant function of the trace id.
* The host, the server's adapter and the health catalog are not in this
  repository and appear as environments.

## Plan

Done: the ring and its refinement; the serving loop; the selector; the caller;
the router; lifecycle, regions, codec and data path; the composition and its
refinement of a remote call; proofs of every safety property and refinement the
runs check.

Next:

1. That the steps of `CallSystem` are steps of `ModuleCaller` and of
   `ModuleRuntime` under their environments, as theorems, so that what is proved
   of the parts carries over to the composition by name.
2. `RoundRobin` over a list that changes between picks, and which seat a route
   takes when health flips in mid-route (`SteadySeatIsFound` says only that it
   takes one), if a statement is found that the code keeps.
