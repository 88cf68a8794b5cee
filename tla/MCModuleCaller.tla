---------------------------- MODULE MCModuleCaller -----------------------------
(* Small instances of ModuleCaller: one body unit per fragment. *)
EXTENDS ModuleCaller

Good == [inlineBudget |-> 2, slotSize |-> 3]
OneConfig == {Good}
AllConfigs == {Good, [Good EXCEPT !.inlineBudget = 1], [Good EXCEPT !.slotSize = 2]}

(* An answer of two fragments, one that is too long for the caller, and a  *)
(* failure.                                                                *)
MCAnswer == {[status |-> "OK", n |-> 2],
             [status |-> "OK", n |-> 3], [status |-> "Failure", n |-> 1]}
===============================================================================
