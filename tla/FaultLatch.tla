----------------------------- MODULE FaultLatch -----------------------------
(***************************************************************************)
(* What the fault latch promises to the rest of the car.  The system is    *)
(* armed; some fault trips it, for good, and that fault is the root cause; *)
(* once tripped it is made safe, in the name of the root cause.            *)
(***************************************************************************)
CONSTANTS Faults, NoFault

VARIABLES
  mode,     (* "armed", "faulted" or "safe"                                *)
  cause,    (* the root cause, NoFault while armed                         *)
  handled   (* the fault in whose name the system was made safe            *)

latch == <<mode, cause, handled>>

Init == mode = "armed" /\ cause = NoFault /\ handled = NoFault

Trip(fault) ==
  /\ mode = "armed"
  /\ mode' = "faulted"
  /\ cause' = fault
  /\ UNCHANGED handled

MakeSafe ==
  /\ mode = "faulted"
  /\ mode' = "safe"
  /\ handled' = cause
  /\ UNCHANGED cause

Next == (\E fault \in Faults : Trip(fault)) \/ MakeSafe

Safety == Init /\ [][Next]_latch
Spec   == Safety /\ WF_latch(MakeSafe)
=============================================================================
