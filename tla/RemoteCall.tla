------------------------------- MODULE RemoteCall -------------------------------
(***************************************************************************)
(* What a caller of a module stage may rely on, whatever the bus between   *)
(* the two does: calls are made one after the other, the stage runs at     *)
(* most once for each, on the whole request, and a call succeeds only with *)
(* the outcome of that run.  A call may fail at any time, before or after  *)
(* its run; the stage may still run for a call that has failed.            *)
(***************************************************************************)
EXTENDS Naturals

CONSTANT Calls

VARIABLES
  phase,   \* per call: "none", "open", "ok" or "failed"
  runs     \* per call: runs of the stage on the whole request

vars == <<phase, runs>>

Init == phase = [c \in Calls |-> "none"] /\ runs = [c \in Calls |-> 0]

Invoke(c) ==
  /\ phase[c] = "none"
  /\ \A d \in Calls : phase[d] # "open"
  /\ phase' = [phase EXCEPT ![c] = "open"]
  /\ UNCHANGED runs

Run(c) ==
  /\ phase[c] # "none"
  /\ runs[c] = 0
  /\ runs' = [runs EXCEPT ![c] = 1]
  /\ UNCHANGED phase

Succeed(c) ==
  /\ phase[c] = "open"
  /\ runs[c] = 1
  /\ phase' = [phase EXCEPT ![c] = "ok"]
  /\ UNCHANGED runs

Fail(c) ==
  /\ phase[c] = "open"
  /\ phase' = [phase EXCEPT ![c] = "failed"]
  /\ UNCHANGED runs

Next == \E c \in Calls : Invoke(c) \/ Run(c) \/ Succeed(c) \/ Fail(c)

Spec == Init /\ [][Next]_vars
===============================================================================
