---------------------------- MODULE MCPrecharge ----------------------------
(* Precharge with the thresholds of config.h and one reading on each side  *)
(* of every comparison the task makes.                                     *)
EXTENDS Precharge

MCReadings ==
  [array : {0, 100000, 110000, 134000}, battery : {120000}]
    \union {[array |-> 130000, battery |-> 140000],    \* battery too high
            [array |-> 0,      battery |-> 80000],     \* battery too low
            [array |-> 75000,  battery |-> 80000]}
=============================================================================
