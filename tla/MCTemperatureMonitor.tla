----------------------- MODULE MCTemperatureMonitor -----------------------
(* TemperatureMonitor with the thresholds of config.h and a temperature on *)
(* each side of both; an entry of the histogram wraps soon after the       *)
(* threshold instead of at 256.                                            *)
EXTENDS TemperatureMonitor
=============================================================================
