------------------------------- MODULE Selector --------------------------------
(***************************************************************************)
(* The route-selection stage: Selector.Handle                              *)
(* (server-go/modules/routing/routing.go), the C adapter it mirrors        *)
(* (src/modules/routing/module_adapter.c) and the wire contract both use   *)
(* (include/aimee/routing/module_api.h).                                   *)
(*                                                                         *)
(* The serving loop runs every invocation in a goroutine of its own, so    *)
(* any number of them are in Handle at once.  They share one atomic cursor *)
(* of CursorMod values, and each has a cancel flag its caller may set at   *)
(* any moment.  The flag is read twice: on entry, before the body is       *)
(* decoded, and after the pick.  Reading it and acting on what was read    *)
(* are two steps, so a cancel in between goes unseen here (runHandler      *)
(* reads the flag once more, see ModuleRuntime).  A passed deadline counts *)
(* as a cancel (ModuleInvocation.Cancelled): the flag stands for either.   *)
(***************************************************************************)
EXTENDS Integers, Sequences

CONSTANTS
  Calls,        \* the goroutines that run invocations, one after the other
  Request,      \* the bodies callers may send
  Trace,        \* trace ids
  mix64,        \* the scrambling of a trace id, a fixed function
  CursorMod,    \* values of the cursor, 2^32 in the code
  MaxPicks      \* bound: no invocation starts after this many balanced picks

ASSUME SelectorAssumption ==
  /\ CursorMod \in Nat \ {0}
  /\ MaxPicks \in Nat
  /\ mix64 \in [Trace -> Nat]
  /\ \A r \in Request : r.count \in Nat

VARIABLES
  cursor,   \* the process-wide cursor
  call,     \* per goroutine: its invocation and where that is in Handle
  picks     \* history: the balanced picks, in the order the cursor served them

vars == <<cursor, call, picks>>

(* pc: "idle", "called" (about to check the stage and read the flag),      *)
(* "entered" (the flag was not set), "picked" (about to read it again),    *)
(* "passed" (it was still not set), "returned".                            *)
Pc == {"idle", "called", "entered", "picked", "passed", "returned"}
Status == {"none", "OK", "Cancelled", "InvalidRequest"}

Call == [pc : Pc, req : Request, stageOK : BOOLEAN, trace : Trace, cancelled : BOOLEAN,
         selected : Nat, status : Status]

(* Type correctness: the cursor keeps its width and every invocation is at *)
(* a point of Handle (routing.go 44-76).                                   *)
TypeOK ==
  /\ cursor \in 0 .. CursorMod - 1
  /\ call \in [Calls -> Call]
  /\ picks \in Seq([count : Nat, selected : Nat])

(* aimee_routing_request_decode and its Go twin: the length, magic and     *)
(* version (framed) first, then the mode and the count.                    *)
Decodes(r) ==
  /\ r.framed
  /\ r.count # 0
  /\ r.mode \in {"Balanced", "Randomized"}

(* Mutant of BalancedPick: the index counts from one. *)
BalancedPickFromOne(n) == (cursor % n) + 1

(* cursor.Add(1) - 1 is the value before the addition, which wraps. *)
BalancedPick(n) == cursor % n

(* Mutant of AdvanceCursor: it is read and not advanced. *)
CursorOnlyRead == UNCHANGED cursor

AdvanceCursor == cursor' = (cursor + 1) % CursorMod

RandomizedPick(t, n) == mix64[t] % n

Finish(c, status) ==
  call' = [call EXCEPT ![c].pc = "returned", ![c].status = status]

-------------------------------------------------------------------------------
Invocation(r, stageOK, t) ==
  [pc |-> "called", req |-> r, stageOK |-> stageOK, trace |-> t, cancelled |-> FALSE,
   selected |-> 0, status |-> "none"]

Init ==
  /\ cursor = 0
  /\ \E r \in Request, t \in Trace :
       call = [c \in Calls |-> [Invocation(r, TRUE, t) EXCEPT !.pc = "idle"]]
  /\ picks = <<>>

Invoke(c, r, stageOK, t) ==
  /\ call[c].pc \in {"idle", "returned"}
  /\ Len(picks) < MaxPicks
  /\ call' = [call EXCEPT ![c] = Invocation(r, stageOK, t)]
  /\ UNCHANGED <<cursor, picks>>

(* A request for another stage is refused before anything else. *)
RejectStage(c) ==
  /\ call[c].pc = "called"
  /\ ~call[c].stageOK
  /\ Finish(c, "InvalidRequest")
  /\ UNCHANGED <<cursor, picks>>

CancelledOnEntry(c) ==
  /\ call[c].pc = "called"
  /\ call[c].stageOK
  /\ call[c].cancelled
  /\ Finish(c, "Cancelled")
  /\ UNCHANGED <<cursor, picks>>

Enter(c) ==
  /\ call[c].pc = "called"
  /\ call[c].stageOK
  /\ ~call[c].cancelled
  /\ call' = [call EXCEPT ![c].pc = "entered"]
  /\ UNCHANGED <<cursor, picks>>

RejectBody(c) ==
  /\ call[c].pc = "entered"
  /\ ~Decodes(call[c].req)
  /\ Finish(c, "InvalidRequest")
  /\ UNCHANGED <<cursor, picks>>

(* Decoding touches nothing shared; one atomic addition gives the ticket. *)
PickBalanced(c) ==
  /\ call[c].pc = "entered"
  /\ Decodes(call[c].req)
  /\ call[c].req.mode = "Balanced"
  /\ LET selected == BalancedPick(call[c].req.count)
     IN  /\ call' = [call EXCEPT ![c].pc = "picked", ![c].selected = selected]
         /\ picks' = Append(picks, [count |-> call[c].req.count, selected |-> selected])
  /\ AdvanceCursor

PickRandomized(c) ==
  /\ call[c].pc = "entered"
  /\ Decodes(call[c].req)
  /\ call[c].req.mode = "Randomized"
  /\ call' = [call EXCEPT ![c].pc = "picked",
                ![c].selected = RandomizedPick(call[c].trace, call[c].req.count)]
  /\ UNCHANGED <<cursor, picks>>

(* A call cancelled after its pick keeps the ticket it took. *)
CancelledAfterPick(c) ==
  /\ call[c].pc = "picked"
  /\ call[c].cancelled
  /\ Finish(c, "Cancelled")
  /\ UNCHANGED <<cursor, picks>>

PassFlag(c) ==
  /\ call[c].pc = "picked"
  /\ ~call[c].cancelled
  /\ call' = [call EXCEPT ![c].pc = "passed"]
  /\ UNCHANGED <<cursor, picks>>

Respond(c) ==
  /\ call[c].pc = "passed"
  /\ Finish(c, "OK")
  /\ UNCHANGED <<cursor, picks>>

(* The serving loop sets the flag of a running job (module_runtime.go 348), *)
(* or the job's deadline passes.                                           *)
Cancel(c) ==
  /\ call[c].pc \notin {"idle", "returned"}
  /\ ~call[c].cancelled
  /\ call' = [call EXCEPT ![c].cancelled = TRUE]
  /\ UNCHANGED <<cursor, picks>>

Handle(c) ==
  \/ RejectStage(c) \/ CancelledOnEntry(c) \/ Enter(c) \/ RejectBody(c)
  \/ PickBalanced(c) \/ PickRandomized(c) \/ CancelledAfterPick(c) \/ PassFlag(c)
  \/ Respond(c)

Next ==
  \E c \in Calls :
    \/ \E r \in Request, stageOK \in BOOLEAN, t \in Trace : Invoke(c, r, stageOK, t)
    \/ Handle(c)
    \/ Cancel(c)

Spec == Init /\ [][Next]_vars
-------------------------------------------------------------------------------
(* An OK answer names one of the caller's candidates, which is what        *)
(* aimee_routing_response_decode (module_api.h 99) insists on: no          *)
(* interleaving of picks, wraps and cancels gives an index past the end.   *)
SelectedInRange ==
  \A c \in Calls : call[c].status = "OK" => call[c].selected < call[c].req.count

SameLap(i, j) == (i - 1) \div CursorMod = (j - 1) \div CursorMod

(* Round robin (routing.go 23, 65): of any n balanced picks in a row, two  *)
(* over n candidates never select the same one, whoever made the picks in  *)
(* between and however the calls interleave.  Where the cursor wraps       *)
(* between the two, this holds only if n divides its range.                *)
RoundRobin ==
  \A i, j \in 1 .. Len(picks) :
    /\ i < j
    /\ picks[i].count = picks[j].count
    /\ j - i < picks[i].count
    /\ SameLap(i, j) \/ CursorMod % picks[i].count = 0
    => picks[i].selected # picks[j].selected
===============================================================================
