---------------------------- MODULE MCCanStatus ----------------------------
(* CanStatus with faults the message names, one it names like another, and *)
(* one it does not name.                                                   *)
EXTENDS CanStatus

MCFaults == {"CELL_OVERVOLTAGE_FAULT", "BQ_CHIP_FAULT",
             "VOLTTEMP_WATCHDOG_FAULT", "ADC_ERROR"}
=============================================================================
