---------------------------- MODULE ClientLifecycle ----------------------------
(***************************************************************************)
(* How a process gets onto the bus and off it again: the configuration     *)
(* check, the connect loop with its retries, the attach handshake that     *)
(* receives three descriptors and maps them, the validation of the mapped  *)
(* regions, Detach, and the heartbeat of a client that only calls          *)
(* (server-go/bus/client.go, client_connect.go, region.go, the first part  *)
(* of module_runtime.go and runtime/main.go).                              *)
(*                                                                         *)
(* A process plays one of two roles.  A "module" runs RunModuleProcess: it *)
(* serves once attached (module ModuleRuntime; here only its heartbeat and *)
(* its return) and detaches when it stops.  A "caller" runs ConnectClient, *)
(* which leaves a keepAlive goroutine behind; its owner may Detach.        *)
(*                                                                         *)
(* The host is the environment: its socket is missing, refuses (the stale  *)
(* path of a host that went away) or listens; it answers an attach         *)
(* request, hangs up or does neither; it restarts; it may lay out regions  *)
(* that do not validate.  Any system call may fail.                        *)
(***************************************************************************)
EXTENDS Regions, Sequences

CONSTANTS
  Configs,      \* the roles and configurations a process may start with
  Replies,      \* the attach replies a host may send
  NoReply,      \* nothing to read from the socket
  HangUp,       \* the host has closed the connection
  MaxRestarts,  \* bound: restarts of the host
  MaxTime       \* bound: last value of the clock

Region == {"ctl", "arena", "qp"}
AttachStatus == {"OK", "DeniedPolicy", "DeniedVersion", "DeniedNoSlot", "Protocol"}

ASSUME LifecycleAssumption ==
  /\ IndexMod \in Nat \ {0}
  /\ MaxRestarts \in Nat /\ MaxTime \in Nat
  /\ \A c \in Configs : c.role \in {"module", "caller"}
  /\ \A r \in Replies :
       /\ r.status \in AttachStatus /\ r.fds \in Nat
       /\ r.slot \in Nat /\ r.cap \in Nat
       /\ r.qp.inOff \in Nat /\ r.qp.outOff \in Nat
       /\ \A off \in DOMAIN r.qp.rings :
            r.qp.rings[off].slot \in Nat /\ r.qp.rings[off].cap \in Nat
  /\ NoReply \notin Replies /\ HangUp # NoReply

VARIABLES
  config,        \* role and configuration; never changes
  pc,            \* where the connecting goroutine is
  sock,          \* the attach socket: "closed", "open" or "connected"
  fds,           \* received descriptors that are open
  reply,         \* the attach reply that was read
  maps,          \* regions mapped into the process
  held,          \* regions the client records as mapped (ctlMem, arena, qpMem)
  err,           \* error of AttachAs or of connecting
  exit,          \* what main or ConnectClient ended with
  beating,       \* the keepAlive goroutine runs
  faulted,       \* history: a heartbeat was written to memory that is not mapped
  heartbeat,     \* last heartbeat written
  attachedEpoch, \* the epoch of the attach reply
  ctxDone,       \* the context has ended
  clock,         \* CLOCK_MONOTONIC
  listener,      \* the host's socket path
  inbox,         \* what the host has sent on the attach socket, and its epoch then
  epoch          \* restarts of the host so far

procVars == <<pc, sock, fds, reply, maps, held, err, exit, attachedEpoch>>
beatVars == <<beating, faulted, heartbeat>>
hostVars == <<listener, inbox, epoch>>
vars == <<config, procVars, beatVars, ctxDone, clock, hostVars>>

Error == {"none", "Config", "System", "Protocol", "Denied", "Region", "Context"}

Attaching == {"send", "recv", "check", "map", "validate"}

TypeOK ==
  /\ config \in Configs
  /\ pc \in Attaching \cup {"start", "dial", "connect", "retry", "returned", "serving",
                            "using", "detach", "detached", "done"}
  /\ sock \in {"closed", "open", "connected"}
  /\ fds \subseteq Nat
  /\ reply \in Replies \cup {NoReply}
  /\ inbox \in [reply : Replies, epoch : 0 .. MaxRestarts] \cup {NoReply, HangUp}
  /\ maps \subseteq Region /\ held \subseteq Region
  /\ err \in Error
  /\ exit \in {"none", "ok", "failed"}
  /\ beating \in BOOLEAN /\ faulted \in BOOLEAN
  /\ heartbeat \in 0 .. MaxTime /\ clock \in 0 .. MaxTime
  /\ ctxDone \in BOOLEAN
  /\ listener \in {"missing", "refusing", "listening"}
  /\ epoch \in 0 .. MaxRestarts /\ attachedEpoch \in 0 .. MaxRestarts

Init ==
  /\ config \in Configs
  /\ pc = "start"
  /\ sock = "closed"
  /\ fds = {}
  /\ reply = NoReply
  /\ maps = {} /\ held = {}
  /\ err = "none"
  /\ exit = "none"
  /\ beating = FALSE
  /\ faulted = FALSE
  /\ heartbeat = 0
  /\ attachedEpoch = 0
  /\ ctxDone = FALSE
  /\ clock = 0
  /\ listener \in {"missing", "refusing", "listening"}
  /\ inbox = NoReply
  /\ epoch = 0

-------------------------------------------------------------------------------
(* validateModuleConfig and main's check of its argument: everything is    *)
(* named and the stages are a table, one stage for each event kind.  A     *)
(* caller needs a socket path only.                                        *)
validateModuleConfig(c) ==
  /\ c.named
  /\ c.role = "module" =>
       /\ c.stages # <<>>
       /\ \A i \in 1 .. Len(c.stages) : c.stages[i].kind # 0 /\ c.stages[i].stage # 0
       /\ \A i, j \in 1 .. Len(c.stages) : c.stages[i].kind = c.stages[j].kind => i = j

Start ==
  /\ pc = "start"
  /\ IF validateModuleConfig(config)
     THEN pc' = "dial" /\ UNCHANGED <<err, exit>>
     ELSE pc' = "done" /\ err' = "Config" /\ exit' = "failed"
  /\ UNCHANGED <<config, sock, fds, reply, maps, held, attachedEpoch, beatVars, ctxDone,
                 clock, hostVars>>

(* One turn of the connect loop.  A socket that cannot be made ends it. *)
Dial ==
  /\ pc = "dial"
  /\ \/ sock' = "open" /\ pc' = "connect" /\ UNCHANGED err
     \/ err' = "System" /\ pc' = "returned" /\ UNCHANGED sock
  /\ UNCHANGED <<config, fds, reply, maps, held, exit, attachedEpoch, beatVars, ctxDone,
                 clock, hostVars>>

Connected ==
  /\ pc = "connect"
  /\ listener = "listening"
  /\ sock' = "connected"
  /\ pc' = "send"
  /\ UNCHANGED <<config, fds, reply, maps, held, err, exit, attachedEpoch, beatVars,
                 ctxDone, clock, hostVars>>

(* ECONNREFUSED is the only error that is retried. *)
Refused ==
  /\ pc = "connect"
  /\ listener = "refusing"
  /\ sock' = "closed"
  /\ pc' = "retry"
  /\ UNCHANGED <<config, fds, reply, maps, held, err, exit, attachedEpoch, beatVars,
                 ctxDone, clock, hostVars>>

ConnectFails ==
  /\ pc = "connect"
  /\ sock' = "closed"
  /\ err' = "System"
  /\ pc' = "returned"
  /\ UNCHANGED <<config, fds, reply, maps, held, exit, attachedEpoch, beatVars, ctxDone,
                 clock, hostVars>>

(* Mutant of RetryCtx: the end of the context cuts the pause short only. *)
RetryCtxRedials ==
  /\ pc = "retry"
  /\ ctxDone
  /\ pc' = "dial"
  /\ UNCHANGED <<config, sock, fds, reply, maps, held, err, exit, attachedEpoch, beatVars,
                 ctxDone, clock, hostVars>>

RetryCtx ==
  /\ pc = "retry"
  /\ ctxDone
  /\ err' = "Context"
  /\ pc' = "returned"
  /\ UNCHANGED <<config, sock, fds, reply, maps, held, exit, attachedEpoch, beatVars,
                 ctxDone, clock, hostVars>>

(* The timer; the select may take it even when the context has ended. *)
RetryTimer ==
  /\ pc = "retry"
  /\ pc' = "dial"
  /\ UNCHANGED <<config, sock, fds, reply, maps, held, err, exit, attachedEpoch, beatVars,
                 ctxDone, clock, hostVars>>

-------------------------------------------------------------------------------
(* AttachAs returns the error e, having closed the received descriptors.   *)
AttachFails(e) ==
  /\ err' = e
  /\ fds' = {}
  /\ pc' = "returned"

SendRequest ==
  /\ pc = "send"
  /\ \/ pc' = "recv" /\ UNCHANGED <<err, fds>>
     \/ AttachFails("System")
  /\ UNCHANGED <<config, sock, reply, maps, held, exit, attachedEpoch, beatVars, ctxDone,
                 clock, hostVars>>

(* Recvmsg waits until the host has sent something: neither a deadline nor *)
(* the context ends the wait.                                              *)
ReceiveReply ==
  /\ pc = "recv"
  /\ inbox # NoReply
  /\ inbox' = NoReply
  /\ IF inbox = HangUp
     THEN /\ \E e \in {"Protocol", "System"} : AttachFails(e)
          /\ UNCHANGED <<reply, attachedEpoch>>
     ELSE /\ reply' = inbox.reply
          /\ fds' = 1 .. inbox.reply.fds
          /\ attachedEpoch' = inbox.epoch
          /\ pc' = "check"
          /\ UNCHANGED err
  /\ UNCHANGED <<config, sock, maps, held, exit, beatVars, ctxDone, clock, listener, epoch>>

CheckReply ==
  /\ pc = "check"
  /\ LET malformed == ~reply.whole \/ ~reply.magicOK
         denied    == ~malformed /\ reply.status # "OK"
         short     == ~malformed /\ ~denied /\ reply.fds # 3
     IN  \/ (malformed \/ short) /\ AttachFails("Protocol")
         \/ denied /\ AttachFails("Denied")
         \/ /\ ~malformed /\ ~denied /\ ~short
            /\ pc' = "map"
            /\ UNCHANGED <<err, fds>>
  /\ UNCHANGED <<config, sock, reply, maps, held, exit, attachedEpoch, beatVars, ctxDone,
                 clock, hostVars>>

(* The regions are mapped in this order. *)
NextRegion == CASE maps = {} -> "ctl"
                [] maps = {"ctl"} -> "arena"
                [] OTHER -> "qp"

(* When the last one is mapped the descriptors are closed and the client   *)
(* records the three regions.                                              *)
MapRegion ==
  /\ pc = "map"
  /\ maps' = maps \cup {NextRegion}
  /\ IF NextRegion = "qp"
     THEN pc' = "validate" /\ fds' = {} /\ held' = Region
     ELSE UNCHANGED <<pc, fds, held>>
  /\ UNCHANGED <<config, sock, reply, err, exit, attachedEpoch, beatVars, ctxDone, clock,
                 hostVars>>

(* Mutant of MapFails: only the region before the failing one is unmapped. *)
MapFailsOneUnmapped ==
  /\ pc = "map"
  /\ maps' = maps \ {"arena"}
  /\ AttachFails("System")
  /\ UNCHANGED <<config, sock, reply, held, exit, attachedEpoch, beatVars, ctxDone, clock,
                 hostVars>>

MapFails ==
  /\ pc = "map"
  /\ maps' = {}
  /\ AttachFails("System")
  /\ UNCHANGED <<config, sock, reply, held, exit, attachedEpoch, beatVars, ctxDone, clock,
                 hostVars>>

(* Client.Detach: every recorded region is unmapped and forgotten. *)
Detach ==
  /\ maps' = maps \ held
  /\ held' = {}

MappedBytes == qpairBytes(reply.slot, reply.cap)
RegionsValid == AttachControl(reply.ctl) /\ AttachQueuePair(reply.qp, MappedBytes)

Validate ==
  /\ pc = "validate"
  /\ pc' = "returned"
  /\ IF RegionsValid
     THEN UNCHANGED <<maps, held, err>>
     ELSE Detach /\ err' = "Region"
  /\ UNCHANGED <<config, sock, fds, reply, exit, attachedEpoch, beatVars, ctxDone, clock,
                 hostVars>>
-------------------------------------------------------------------------------
(* Mutants of ConnectReturns: no heartbeat for an idle caller; a heartbeat *)
(* for a client that was not attached.                                     *)
ConnectReturnsNoBeat ==
  /\ pc = "returned"
  /\ sock' = "closed"
  /\ pc' = IF err # "none" THEN "done" ELSE IF config.role = "module" THEN "serving" ELSE "using"
  /\ exit' = IF err = "none" THEN "none"
             ELSE IF config.role = "module" /\ ctxDone THEN "ok" ELSE "failed"
  /\ UNCHANGED <<config, fds, reply, maps, held, err, attachedEpoch, beatVars, ctxDone,
                 clock, hostVars>>

ConnectReturnsBeatsAnyway ==
  /\ pc = "returned"
  /\ sock' = "closed"
  /\ pc' = IF err # "none" THEN "done" ELSE IF config.role = "module" THEN "serving" ELSE "using"
  /\ exit' = IF err = "none" THEN "none"
             ELSE IF config.role = "module" /\ ctxDone THEN "ok" ELSE "failed"
  /\ beating' = (config.role = "caller")
  /\ UNCHANGED <<config, fds, reply, maps, held, err, attachedEpoch, faulted, heartbeat,
                 ctxDone, clock, hostVars>>

(* connectModule and ConnectClient close the socket and return.  An error  *)
(* of a module whose context has ended is a clean exit; a caller gets the  *)
(* error as it is.  An attached caller is kept alive by a goroutine.       *)
ConnectReturns ==
  /\ pc = "returned"
  /\ sock' = "closed"
  /\ IF err # "none"
     THEN /\ pc' = "done"
          /\ exit' = IF config.role = "module" /\ ctxDone THEN "ok" ELSE "failed"
          /\ UNCHANGED beating
     ELSE /\ pc' = IF config.role = "module" THEN "serving" ELSE "using"
          /\ beating' = (config.role = "caller")
          /\ UNCHANGED exit
  /\ UNCHANGED <<config, fds, reply, maps, held, err, attachedEpoch, faulted, heartbeat,
                 ctxDone, clock, hostVars>>

(* Client.Heartbeat writes to the queue pair, mapped or not. *)
Heartbeat ==
  /\ heartbeat' = clock
  /\ faulted' = (faulted \/ "qp" \notin maps)

(* The serving loop: it beats on every pass (module ModuleRuntime) ...     *)
ServeBeat ==
  /\ pc = "serving"
  /\ ~ctxDone
  /\ epoch = attachedEpoch
  /\ Heartbeat
  /\ UNCHANGED <<config, procVars, beating, ctxDone, clock, hostVars>>

(* ... and returns when the context ends or the host restarts ...          *)
ServeStops ==
  /\ pc = "serving"
  /\ ctxDone \/ epoch # attachedEpoch
  /\ exit' = "ok"
  /\ pc' = "detach"
  /\ UNCHANGED <<config, sock, fds, reply, maps, held, err, attachedEpoch, beatVars,
                 ctxDone, clock, hostVars>>

(* ... or at any time with the error of a reply it could not write.        *)
ServeFails ==
  /\ pc = "serving"
  /\ exit' = "failed"
  /\ pc' = "detach"
  /\ UNCHANGED <<config, sock, fds, reply, maps, held, err, attachedEpoch, beatVars,
                 ctxDone, clock, hostVars>>

(* The deferred Detach of RunModuleProcess, after which main exits. *)
ModuleDetach ==
  /\ pc = "detach"
  /\ Detach
  /\ pc' = "done"
  /\ UNCHANGED <<config, sock, fds, reply, err, exit, attachedEpoch, beatVars, ctxDone,
                 clock, hostVars>>

-------------------------------------------------------------------------------
(* keepAlive: the ticker or the context; the select takes either when both *)
(* are ready.                                                              *)
KeepAliveTick ==
  /\ beating
  /\ heartbeat # clock
  /\ Heartbeat
  /\ UNCHANGED <<config, procVars, beating, ctxDone, clock, hostVars>>

KeepAliveStops ==
  /\ beating
  /\ ctxDone
  /\ beating' = FALSE
  /\ UNCHANGED <<config, procVars, faulted, heartbeat, ctxDone, clock, hostVars>>

(* The owner of a caller's client is outside the repository. *)
OwnerDetach ==
  /\ pc = "using"
  /\ Detach
  /\ pc' = "detached"
  /\ UNCHANGED <<config, sock, fds, reply, err, exit, attachedEpoch, beatVars, ctxDone,
                 clock, hostVars>>

-------------------------------------------------------------------------------
(* The environment: the host, the context and the clock. *)
HostReply(r) ==
  /\ pc = "recv"
  /\ inbox = NoReply
  /\ inbox' = [reply |-> r, epoch |-> epoch]
  /\ UNCHANGED <<config, procVars, beatVars, ctxDone, clock, listener, epoch>>

HostHangsUp ==
  /\ pc \in {"send", "recv"}
  /\ inbox = NoReply
  /\ inbox' = HangUp
  /\ UNCHANGED <<config, procVars, beatVars, ctxDone, clock, listener, epoch>>

(* The host goes away and leaves its socket path behind, or not. *)
HostStops ==
  /\ listener = "listening"
  /\ epoch < MaxRestarts
  /\ epoch' = epoch + 1
  /\ listener' \in {"refusing", "missing"}
  /\ inbox' = IF pc \in {"send", "recv"} /\ inbox = NoReply THEN HangUp ELSE inbox
  /\ UNCHANGED <<config, procVars, beatVars, ctxDone, clock>>

HostListens ==
  /\ listener # "listening"
  /\ listener' = "listening"
  /\ UNCHANGED <<config, procVars, beatVars, ctxDone, clock, inbox, epoch>>

CtxCancel ==
  /\ ~ctxDone
  /\ ctxDone' = TRUE
  /\ UNCHANGED <<config, procVars, beatVars, clock, hostVars>>

Tick ==
  /\ clock < MaxTime
  /\ clock' = clock + 1
  /\ UNCHANGED <<config, procVars, beatVars, ctxDone, hostVars>>

-------------------------------------------------------------------------------
Connect == Start \/ Dial \/ Connected \/ Refused \/ ConnectFails \/ RetryCtx \/ RetryTimer
AttachAs == SendRequest \/ ReceiveReply \/ CheckReply \/ MapRegion \/ MapFails \/ Validate
Process == Connect \/ AttachAs \/ ConnectReturns \/ ServeBeat \/ ServeStops \/ ModuleDetach
KeepAlive == KeepAliveTick \/ KeepAliveStops

HostAnswers == HostHangsUp \/ \E r \in Replies : HostReply(r)

Next ==
  \/ Process \/ ServeFails \/ KeepAlive \/ OwnerDetach
  \/ HostAnswers \/ HostStops \/ HostListens \/ CtxCancel \/ Tick

Spec == Init /\ [][Next]_vars

(* Every goroutine that can run does, and a select whose two cases are     *)
(* both ready time and again takes each of them in the end.  Nothing is    *)
(* assumed of the host.                                                    *)
FairSpec == /\ Spec
            /\ WF_vars(Process) /\ WF_vars(KeepAlive)
            /\ SF_vars(RetryCtx) /\ SF_vars(KeepAliveStops)
-------------------------------------------------------------------------------
(* Nothing is left behind on any of the ways out of connecting and         *)
(* attaching (client.go 79-159, client_connect.go 28-52, module_runtime.go *)
(* 130-157): outside of AttachAs no received descriptor is open and a      *)
(* region is mapped exactly if the client will unmap it; the socket is     *)
(* closed before a retry and after the last turn; all three regions are    *)
(* there for a client in use and none for an error or a process that ended.*)
NothingLeaks ==
  /\ pc \notin Attaching => fds = {} /\ maps = held
  /\ pc \notin Attaching \cup {"connect", "returned"} => sock = "closed"
  /\ pc = "map" => held = {} /\ fds = 1 .. 3
  /\ pc \in {"serving", "using"} => maps = Region
  /\ err # "none" \/ pc \in {"done", "detached"} => maps = {} /\ fds = {}

(* Whatever the host has written into the headers, and whatever it has    *)
(* announced in the attach reply, every slot of both rings of an attached  *)
(* client lies within the bytes that were mapped (ring.go 46-75 and 88-91, *)
(* region.go 92-113, client.go 329-335).  That the two rings do not        *)
(* overlap is left to the host: nothing checks it.                         *)
AttachedRingsAreSound ==
  pc \in {"serving", "using"} =>
    \A off \in {reply.qp.inOff, reply.qp.outOff}, index \in 0 .. 2 * reply.cap :
      /\ SlotFirst(reply.qp, off, index) >= off + ringHdrBytes
      /\ SlotEnd(reply.qp, off, index) <= MappedBytes

(* A heartbeat is written into unmapped memory only if the owner of a      *)
(* caller's client has detached it: never by a serving module, whose       *)
(* Detach comes after its loop, and never for a client that was not        *)
(* attached (client_connect.go 37-40 and 67-82, module_runtime.go 177-178).*)
HeartbeatHitsMapping == faulted => config.role = "caller" /\ pc = "detached"

Stopped == pc \in {"using", "detached", "done"} /\ ~beating

(* Ending the context ends the process, or the connecting and the          *)
(* heartbeat of a caller, from wherever it is, if the host answers or      *)
(* hangs up on every attach request (module_runtime.go 148-155 and 170-178,*)
(* client_connect.go 46-50 and 72-74).                                     *)
StopEndsProcess == WF_vars(HostAnswers) => (ctxDone ~> Stopped)

(* The comment of RunModuleProcess (module_runtime.go 159-160): it serves  *)
(* until ctx is cancelled; whatever the host does.                         *)
CtxEndsProcess == ctxDone ~> Stopped

(* The host reaps a client whose heartbeat stops, so the heartbeat of an   *)
(* attached client catches up with the clock, also when it is idle         *)
(* (client_connect.go 58-82, module_runtime.go 329-332).                   *)
StaysAlive ==
  \A t \in 1 .. MaxTime :
    clock = t /\ pc \in {"serving", "using"}
      ~> heartbeat >= t \/ ctxDone \/ pc \in {"detach", "detached", "done"}
===============================================================================
