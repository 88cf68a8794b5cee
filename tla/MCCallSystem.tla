------------------------------ MODULE MCCallSystem ------------------------------
(* Two calls against a module with one assembly and one job. *)
EXTENDS CallSystem

MCOutcome == {<<"OK", 2>>}
===============================================================================
