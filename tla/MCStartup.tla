----------------------------- MODULE MCStartup -----------------------------
(* Startup with the two high-voltage contactors, one or two sensor monitors *)
(* and one fault of each origin; the timer service task outranks Task_Init. *)
EXTENDS Startup
=============================================================================
