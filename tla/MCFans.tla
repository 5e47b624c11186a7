------------------------------- MODULE MCFans -------------------------------
(* The fans on their own, with the speeds of EMC2305_Driver.h and          *)
(* FanControllerTask.c.                                                    *)
EXTENDS Fans
=============================================================================
