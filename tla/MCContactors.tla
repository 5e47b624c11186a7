---------------------------- MODULE MCContactors ----------------------------
(* Contactors with one contactor that two tasks command at once; Startup   *)
(* has two contactors and one task.                                        *)
EXTENDS Contactors
=============================================================================
