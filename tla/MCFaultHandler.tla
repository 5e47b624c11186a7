--------------------------- MODULE MCFaultHandler ---------------------------
(* An instance of FaultHandler small enough for TLC: three faults over two *)
(* event groups, as the 32 faults of fault_bit_t span two groups of 24.    *)
EXTENDS FaultHandler
=============================================================================
