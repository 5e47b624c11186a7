-------------------------- MODULE MCVoltageMonitor --------------------------
(* VoltageMonitor with the thresholds of config.h and a voltage on each    *)
(* side of all three.                                                      *)
EXTENDS VoltageMonitor
=============================================================================
