-------------------------------- MODULE MCRing --------------------------------
(* Four slots, counters that wrap after eight: every wrap is reached.      *)
EXTENDS Ring
===============================================================================
