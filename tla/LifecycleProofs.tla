---------------------------- MODULE LifecycleProofs ----------------------------
(***************************************************************************)
(* Proofs about ClientLifecycle, for any configurations, attach replies    *)
(* and region headers, and any number of restarts.                         *)
(*                                                                         *)
(* NothingLeaks speaks of the ways out of attaching; that they are clean   *)
(* depends on what is open and mapped at each point on the way in, which   *)
(* is what ProgressInv records.                                            *)
(***************************************************************************)
EXTENDS ClientLifecycle, TLAPS

Usable == {"serving", "using", "detach"}
Early == {"start", "dial", "connect", "retry", "send", "recv", "check"}

Attached == maps = Region /\ held = Region /\ reply \in Replies /\ RegionsValid
Clear == maps = {} /\ held = {}

(* What is open and mapped at each point of connecting and attaching. *)
ProgressInv ==
  /\ pc \in Early => Clear /\ err = "none"
  /\ pc \notin {"check", "map"} => fds = {}
  /\ pc = "check" => reply \in Replies /\ fds = 1 .. reply.fds
  /\ pc = "map" => /\ reply \in Replies /\ fds = 1 .. 3 /\ held = {} /\ err = "none"
                   /\ maps \in {{}, {"ctl"}, {"ctl", "arena"}}
  /\ pc = "validate" => maps = Region /\ held = Region /\ reply \in Replies /\ err = "none"
  /\ pc = "returned" => IF err = "none" THEN Attached ELSE Clear
  /\ pc \in Usable => Attached /\ err = "none"
  /\ pc \in {"done", "detached"} => Clear

SocketInv == pc \notin Attaching \cup {"connect", "returned"} => sock = "closed"

(* Only an attached caller has a heartbeat goroutine. *)
BeatInv ==
  /\ beating => config.role = "caller" /\ pc \in {"using", "detached"}
  /\ pc \in {"using", "detached"} => config.role = "caller"
  /\ HeartbeatHitsMapping

IInv == TypeOK /\ ProgressInv /\ SocketInv /\ BeatInv

-------------------------------------------------------------------------------
(* An accepted ring, seen from its base: each slot lies behind the header  *)
(* and within the bytes that were compared (ring.go 62-65 and 88-91).      *)
LEMMA SlotInRing ==
  ASSUME NEW slot \in Nat, NEW cap \in Nat, NEW index \in Nat, cap >= 2
  PROVE  /\ (index % cap) * slot \in Nat
         /\ (index % cap) * slot + slot <= slot * cap
<1> DEFINE k == index % cap
<1>1. k \in Nat /\ k <= cap - 1
  BY Z3
<1> HIDE DEF k
<1>2. k * slot \in Nat
  BY <1>1
<1>3. (cap - k - 1) * slot >= 0
  BY <1>1
<1>4. slot * cap - (k * slot + slot) = (cap - k - 1) * slot
  BY <1>1
<1>5. k * slot + slot <= slot * cap
  BY <1>1, <1>2, <1>3, <1>4
<1> QED BY <1>2, <1>5 DEF k

(* Whatever its headers say, every slot of an accepted queue pair lies in  *)
(* the mapping, for every value of the free-running counters.              *)
LEMMA AcceptedSlots ==
  ASSUME NEW qp, NEW bytes \in Nat, NEW off \in {qp.inOff, qp.outOff}, NEW index \in Nat,
         off \in Nat, AttachQueuePair(qp, bytes),
         qp.rings[off].slot \in Nat, qp.rings[off].cap \in Nat
  PROVE  /\ SlotFirst(qp, off, index) >= off + ringHdrBytes
         /\ SlotEnd(qp, off, index) <= bytes
<1> DEFINE slot == qp.rings[off].slot
           cap  == qp.rings[off].cap
           k    == index % cap
<1>1. AttachRing(qp.rings[off], bytes - off)
  BY DEF AttachQueuePair
<1>2. /\ cap >= 2
      /\ qp.rings[off].mask = cap - 1
      /\ qp.rings[off].slotsOff = ringHdrBytes
      /\ ~(bytes - off < ringHdrBytes + slot * cap)
  BY <1>1 DEF AttachRing
<1>3. slot \in Nat /\ cap \in Nat
  OBVIOUS
<1>4. qp.rings[off].mask + 1 = cap
  BY <1>2, <1>3
<1>5. SlotFirst(qp, off, index) = off + ringHdrBytes + k * slot
  BY <1>2, <1>4 DEF SlotFirst
<1>6. SlotEnd(qp, off, index) = off + ringHdrBytes + k * slot + slot
  BY <1>5 DEF SlotEnd
<1>7. k * slot \in Nat /\ k * slot + slot <= slot * cap
  <2> HIDE DEF slot, cap
  <2> QED BY <1>2, <1>3, SlotInRing
<1>8. slot * cap \in Nat
  BY <1>3
<1> QED
  <2> DEFINE a == k * slot
             b == slot * cap
  <2>1. a \in Nat /\ b \in Nat /\ a + slot <= b /\ ~(bytes - off < ringHdrBytes + b)
    BY <1>2, <1>7, <1>8
  <2> HIDE DEF a, b, slot
  <2>2. slot \in Nat
    BY <1>3
  <2>3. off + ringHdrBytes + a >= off + ringHdrBytes /\ off + ringHdrBytes + a + slot <= bytes
    BY <2>1, <2>2 DEF ringHdrBytes
  <2> QED BY <2>3, <1>5, <1>6 DEF a

(* The bytes mapped for a queue pair are a natural number. *)
LEMMA MappedBytesType ==
  ASSUME reply \in Replies
  PROVE  MappedBytes \in Nat
<1>1. reply.slot \in Nat /\ reply.cap \in Nat
  BY LifecycleAssumption
<1> DEFINE b == reply.slot * reply.cap
<1>2. b \in Nat
  BY <1>1
<1> HIDE DEF b
<1>3. \A n \in Nat : align64(n) \in Nat
  BY DEF align64
<1>4. ringBytes(reply.slot, reply.cap) \in Nat
  BY <1>2 DEF ringBytes, ringHdrBytes, b
<1>5. inboundOff \in Nat
  BY <1>3 DEF inboundOff, qpBytes
<1>6. outboundOff(reply.slot, reply.cap) \in Nat
  BY <1>3, <1>4, <1>5 DEF outboundOff
<1> QED BY <1>4, <1>6 DEF MappedBytes, qpairBytes

-------------------------------------------------------------------------------
LEMMA InitInv == Init => IInv
<1> SUFFICES ASSUME Init PROVE IInv
  OBVIOUS
<1> USE DEF Init
<1>1. TypeOK
  <2>1. MaxRestarts \in Nat /\ MaxTime \in Nat
    BY LifecycleAssumption
  <2>2. 0 \in 0 .. MaxTime /\ 0 \in 0 .. MaxRestarts
    BY <2>1
  <2> QED BY <2>2 DEF TypeOK, Error, Attaching
<1>2. ProgressInv
  BY DEF ProgressInv, Early, Usable, Clear
<1>3. SocketInv
  BY DEF SocketInv
<1>4. BeatInv
  BY DEF BeatInv, HeartbeatHitsMapping
<1> QED BY <1>1, <1>2, <1>3, <1>4 DEF IInv

(* Every step of the process, its goroutine and its environment preserves  *)
(* the invariant.                                                          *)
LEMMA StepInv == IInv /\ [Next]_vars => IInv'
<1> SUFFICES ASSUME IInv, [Next]_vars PROVE IInv'
  OBVIOUS
<1> USE LifecycleAssumption
    DEF IInv, TypeOK, ProgressInv, SocketInv, BeatInv, HeartbeatHitsMapping, Early, Usable,
        Clear, Attached, Attaching, Region, Error
<1>1. CASE Start
  BY <1>1 DEF Start, beatVars, hostVars, RegionsValid, MappedBytes
<1>2. CASE Dial
  BY <1>2 DEF Dial, beatVars, hostVars, RegionsValid, MappedBytes
<1>3. CASE Connected
  BY <1>3 DEF Connected, beatVars, hostVars, RegionsValid, MappedBytes
<1>4. CASE Refused
  BY <1>4 DEF Refused, beatVars, hostVars, RegionsValid, MappedBytes
<1>5. CASE ConnectFails
  BY <1>5 DEF ConnectFails, beatVars, hostVars, RegionsValid, MappedBytes
<1>6. CASE RetryCtx
  BY <1>6 DEF RetryCtx, beatVars, hostVars, RegionsValid, MappedBytes
<1>7. CASE RetryTimer
  BY <1>7 DEF RetryTimer, beatVars, hostVars, RegionsValid, MappedBytes
<1>8. CASE SendRequest
  <2>1. CASE pc' = "recv" /\ UNCHANGED <<err, fds>>
    BY <1>8, <2>1 DEF SendRequest, beatVars, hostVars, RegionsValid, MappedBytes
  <2>2. CASE AttachFails("System")
    BY <1>8, <2>2 DEF SendRequest, AttachFails, beatVars, hostVars, RegionsValid, MappedBytes
  <2> QED BY <1>8, <2>1, <2>2 DEF SendRequest
<1>9. CASE ReceiveReply
  BY <1>9 DEF ReceiveReply, AttachFails, beatVars, hostVars, RegionsValid, MappedBytes
<1>10. CASE CheckReply
  <2> USE <1>10 DEF CheckReply, beatVars, hostVars, RegionsValid, MappedBytes
  <2>1. CASE AttachFails("Protocol")
    BY <2>1 DEF AttachFails
  <2>2. CASE AttachFails("Denied")
    BY <2>2 DEF AttachFails
  <2>3. CASE pc' = "map" /\ reply.fds = 3 /\ UNCHANGED <<err, fds>>
    BY <2>3
  <2> QED BY <2>1, <2>2, <2>3
<1>11. CASE MapRegion
  BY <1>11 DEF MapRegion, NextRegion, beatVars, hostVars, RegionsValid, MappedBytes
<1>12. CASE MapFails
  BY <1>12 DEF MapFails, AttachFails, beatVars, hostVars, RegionsValid, MappedBytes
<1>13. CASE Validate
  BY <1>13 DEF Validate, Detach, beatVars, hostVars, RegionsValid, MappedBytes
<1>14. CASE ConnectReturns
  <2>1. CASE err # "none"
    BY <1>14, <2>1 DEF ConnectReturns, beatVars, hostVars, RegionsValid, MappedBytes
  <2>2. CASE err = "none" /\ config.role = "module"
    BY <1>14, <2>2 DEF ConnectReturns, beatVars, hostVars, RegionsValid, MappedBytes
  <2>3. CASE err = "none" /\ config.role = "caller"
    BY <1>14, <2>3 DEF ConnectReturns, beatVars, hostVars, RegionsValid, MappedBytes
  <2> QED BY <2>1, <2>2, <2>3
<1>15. CASE ServeBeat
  BY <1>15 DEF ServeBeat, Heartbeat, procVars, hostVars, RegionsValid, MappedBytes
<1>16. CASE ServeStops
  BY <1>16 DEF ServeStops, beatVars, hostVars, RegionsValid, MappedBytes
<1>17. CASE ServeFails
  BY <1>17 DEF ServeFails, beatVars, hostVars, RegionsValid, MappedBytes
<1>18. CASE ModuleDetach
  BY <1>18 DEF ModuleDetach, Detach, beatVars, hostVars, RegionsValid, MappedBytes
<1>19. CASE KeepAliveTick
  BY <1>19 DEF KeepAliveTick, Heartbeat, procVars, hostVars, RegionsValid, MappedBytes
<1>20. CASE KeepAliveStops
  <2> USE <1>20 DEF KeepAliveStops, procVars, hostVars
  <2>1. TypeOK'
    <3>1. beating' \in BOOLEAN
      BY Zenon
    <3>2. UNCHANGED <<config, pc, sock, fds, reply, maps, held, err, exit, attachedEpoch,
                      faulted, heartbeat, ctxDone, clock, listener, inbox, epoch>>
      OBVIOUS
    <3> QED BY <3>1, <3>2, Zenon DEF TypeOK
  <2>2. ProgressInv'
    BY DEF RegionsValid, MappedBytes
  <2>3. SocketInv' /\ BeatInv'
    OBVIOUS
  <2> QED BY <2>1, <2>2, <2>3
<1>21. CASE OwnerDetach
  BY <1>21 DEF OwnerDetach, Detach, beatVars, hostVars, RegionsValid, MappedBytes
<1>22. ASSUME NEW r \in Replies, HostReply(r) PROVE IInv'
  BY <1>22 DEF HostReply, procVars, beatVars, RegionsValid, MappedBytes
<1>23. CASE HostHangsUp
  BY <1>23 DEF HostHangsUp, procVars, beatVars, RegionsValid, MappedBytes
<1>24. CASE HostStops
  BY <1>24 DEF HostStops, procVars, beatVars, RegionsValid, MappedBytes
<1>25. CASE HostListens
  BY <1>25 DEF HostListens, procVars, beatVars, RegionsValid, MappedBytes
<1>26. CASE CtxCancel
  BY <1>26 DEF CtxCancel, procVars, beatVars, hostVars, RegionsValid, MappedBytes
<1>27. CASE Tick
  BY <1>27 DEF Tick, procVars, beatVars, hostVars, RegionsValid, MappedBytes
<1>28. CASE UNCHANGED vars
  BY <1>28 DEF vars, procVars, beatVars, hostVars, RegionsValid, MappedBytes
<1> QED
  BY <1>1, <1>2, <1>3, <1>4, <1>5, <1>6, <1>7, <1>8, <1>9, <1>10, <1>11, <1>12, <1>13, <1>14,
     <1>15, <1>16, <1>17, <1>18, <1>19, <1>20, <1>21, <1>22, <1>23, <1>24, <1>25, <1>26, <1>27,
     <1>28
  DEF Next, Process, Connect, AttachAs, KeepAlive, HostAnswers

(* The inductive invariant: types, what is open and mapped at each point,  *)
(* and who has a heartbeat goroutine.                                      *)
THEOREM LifecycleInvariant == Spec => []IInv
  BY InitInv, StepInv, PTL DEF Spec

-------------------------------------------------------------------------------
(* Nothing is left behind on any way out of connecting and attaching       *)
(* (client.go 79-159, client_connect.go 28-52, module_runtime.go 130-157): *)
(* descriptors, mappings and the socket, whichever system call fails and   *)
(* whatever the host replies.                                              *)
THEOREM AttachLeaksNothing == Spec => []NothingLeaks
<1>1. IInv => NothingLeaks
  <2> SUFFICES ASSUME IInv PROVE NothingLeaks
    OBVIOUS
  <2>1. pc \in Attaching \cup {"start", "dial", "connect", "retry", "returned", "serving",
                               "using", "detach", "detached", "done"}
    BY DEF IInv, TypeOK
  <2> QED
    BY <2>1 DEF IInv, ProgressInv, SocketInv, NothingLeaks, Early, Usable, Clear, Attached,
                Attaching
<1> QED BY <1>1, LifecycleInvariant, PTL

(* Every slot of both rings of an attached client lies in its mapping      *)
(* (ring.go 46-75 and 88-91, region.go 92-113, client.go 329-335), for all *)
(* headers that the checks let through.                                    *)
THEOREM RingsLieInMapping == Spec => []AttachedRingsAreSound
<1>1. IInv => AttachedRingsAreSound
  <2> SUFFICES ASSUME IInv, pc \in {"serving", "using"},
                      NEW off \in {reply.qp.inOff, reply.qp.outOff}, NEW index \in 0 .. 2 * reply.cap
               PROVE  /\ SlotFirst(reply.qp, off, index) >= off + ringHdrBytes
                      /\ SlotEnd(reply.qp, off, index) <= MappedBytes
    BY DEF AttachedRingsAreSound
  <2>1. reply \in Replies /\ AttachQueuePair(reply.qp, MappedBytes)
    BY DEF IInv, ProgressInv, Usable, Attached, RegionsValid
  <2>2. MappedBytes \in Nat
    BY <2>1, MappedBytesType
  <2>3. off \in DOMAIN reply.qp.rings
    BY <2>1 DEF AttachQueuePair
  <2>4. /\ off \in Nat
        /\ reply.qp.rings[off].slot \in Nat /\ reply.qp.rings[off].cap \in Nat
    BY <2>1, <2>3, LifecycleAssumption
  <2>5. index \in Nat
    BY <2>1, LifecycleAssumption
  <2> QED BY <2>1, <2>2, <2>4, <2>5, AcceptedSlots
<1> QED BY <1>1, LifecycleInvariant, PTL

(* A heartbeat goes to unmapped memory only for a caller whose owner has   *)
(* detached it (client_connect.go 37-40 and 67-82, module_runtime.go       *)
(* 177-178).                                                               *)
THEOREM HeartbeatsHitTheMapping == Spec => []HeartbeatHitsMapping
<1>1. IInv => HeartbeatHitsMapping
  BY DEF IInv, BeatInv
<1> QED BY <1>1, LifecycleInvariant, PTL
===============================================================================
