---------------------------- MODULE MCModuleRuntime ----------------------------
(***************************************************************************)
(* Small instances of ModuleRuntime.  Sizes are in body units: a one-unit  *)
(* AMOD header, a one-unit frame header, an inline budget of two units (so *)
(* one body unit per fragment) and bodies of at most two units.            *)
(***************************************************************************)
EXTENDS ModuleRuntime, TLC

CONSTANTS k1, kx

(* One kind that is served, and one that is not. *)
MCStages == k1 :> 7 @@ kx :> 0

Msg(op, stage, len, deadline) ==
  [prefixOK |-> TRUE, op |-> op, status |-> "OK", stage |-> stage, flags |-> 0,
   bodyLen |-> len, avail |-> len, deadline |-> deadline, trace |-> 1]

(* What ModuleCaller.send writes: with and without a deadline. *)
CallerPayload == {Msg("Invoke", 7, 1, 0), Msg("Invoke", 7, 1, 2)}

(* Anything else a peer may put into a request. *)
WildPayload == {Msg("Invoke", 7, 1, 0), Msg("Invoke", 7, 2, 1), Msg("Result", 7, 1, 0)}

Good == [handler |-> TRUE, inlineBudget |-> 2, slotSize |-> 3]
NoHandler == [Good EXCEPT !.handler = FALSE]
TinyBudget == [Good EXCEPT !.inlineBudget = 1]
TightSlot == [Good EXCEPT !.slotSize = 2]

CallConfigs == {Good, NoHandler}
LiveConfigs == {Good, TinyBudget, TightSlot}

(* A whole body, a body that is too long, and a status outside the protocol. *)
LiveOutcomes == {<<"OK", 2>>, <<"OK", 3>>, <<"Unknown", 0>>}

(* A whole body, and a handler that reports a cancellation by itself, with *)
(* a detail that is not to be sent.                                        *)
CallOutcomes == {<<"OK", 2>>, <<"Cancelled", 1>>}

CorrSymmetry == Permutations(Corr)
===============================================================================
