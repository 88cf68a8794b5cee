------------------------------ MODULE MCSelector -------------------------------
(* Small instances of Selector: a cursor of four values, which three does  *)
(* not divide, so the calls of a run go round it.                          *)
EXTENDS Selector, TLC

Body(mode, n) == [framed |-> TRUE, mode |-> mode, count |-> n]

MCTrace == {1, 2}
MCMix == 1 :> 6 @@ 2 :> 13
MCRequest ==
  {Body("Balanced", 2), Body("Balanced", 3), Body("Randomized", 3), Body("Balanced", 0),
   [Body("Balanced", 2) EXCEPT !.framed = FALSE], Body("Unknown", 2)}

CallSymmetry == Permutations(Calls)
===============================================================================
