---------------------------- MODULE MCComponents ----------------------------
(* The components of the board with short queues, narrow counters and a    *)
(* few readings of each kind.                                              *)
EXTENDS Components

MCCurrents == {-40000, -1000, 0, 70000}
MCCharge == -38000
MCCharging == -50
MCFaults == {"CELL_OVERTEMP_FAULT", "ADC_ERROR"}
MCTapValues == {-2, 1}
=============================================================================
