---------------------------- MODULE TapWatchdog ----------------------------
(***************************************************************************)
(* The watchdog over the measuring taps, as Task_Voltage_Monitor and       *)
(* Task_Temperature_Monitor each keep one: every message from a tap sets   *)
(* its bit, an auto-reload timer looks once per second whether every bit   *)
(* is set and clears them all.  Both share mod_fault_num, the first module *)
(* anyone blames.                                                          *)
(*                                                                         *)
(* The task sets a bit and the callback reads and clears the bitmap inside *)
(* critical sections, so each is one step.  VoltageMonitor composes these  *)
(* steps with the pass of its task; the temperature monitor's watchdog is  *)
(* the same code with other names.                                         *)
(***************************************************************************)
EXTENDS Naturals

CONSTANTS NUM_TAPS,              (* NUM_VOLTAGE_SENSORS, NUM_TEMPERATURE_.. *)
          MODULES_PER_SEGMENT

ASSUME TapAssumption ==
  /\ NUM_TAPS \in Nat \ {0}
  /\ MODULES_PER_SEGMENT \in Nat \ {0}

Taps == 0..(NUM_TAPS - 1)
(* mod_fault_num with its latch bit clear. *)
NoModule == NUM_TAPS

VARIABLES
  watchdog_bitmap,          (* the taps heard of since the last look       *)
  exposed_watchdog_bitmap,  (* what the last look that failed had found    *)
  mod_fault_num,
  watchdog_fault,           (* VOLTTEMP_WATCHDOG_FAULT raised by this one  *)
  guilty                    (* history: the modules the first one to blame *)
                            (* any had found                               *)

bitmaps == <<watchdog_bitmap, exposed_watchdog_bitmap>>
blame   == <<mod_fault_num, guilty>>
wdVars  == <<bitmaps, blame, watchdog_fault>>

WatchdogInit ==
  /\ watchdog_bitmap = {}
  /\ exposed_watchdog_bitmap = Taps
  /\ mod_fault_num = NoModule
  /\ watchdog_fault = FALSE
  /\ guilty = {}

FirstBlame(modules) == guilty' = IF guilty = {} THEN modules ELSE guilty

(* Mutant of latch_mod_fault: the latch bit is not looked at.              *)
LatchLastModule(m) == mod_fault_num' = m

(* Only the first module blamed is remembered. *)
latch_mod_fault(m) ==
  mod_fault_num' = IF mod_fault_num = NoModule THEN m ELSE mod_fault_num

(* The first tap whose bit is clear. *)
get_mod_fault_num(bitmap) ==
  CHOOSE t \in Taps \ bitmap : \A u \in Taps \ bitmap : t <= u

(* The end of volt_can_unpack and temp_can_unpack. *)
Hear(t) ==
  /\ watchdog_bitmap' = watchdog_bitmap \union {t}
  /\ UNCHANGED <<exposed_watchdog_bitmap, blame, watchdog_fault>>

(* Mutants of WatchdogCallback: the bitmap is only cleared when a tap was  *)
(* silent; the exposed bitmap follows every look.                          *)
ClearAfterFaultOnly ==
  \/ watchdog_bitmap = Taps /\ UNCHANGED wdVars
  \/ /\ watchdog_bitmap # Taps
     /\ exposed_watchdog_bitmap' = watchdog_bitmap
     /\ latch_mod_fault(get_mod_fault_num(watchdog_bitmap))
     /\ FirstBlame(Taps \ watchdog_bitmap)
     /\ watchdog_fault' = TRUE
     /\ watchdog_bitmap' = {}
ExposeEveryLook ==
  /\ exposed_watchdog_bitmap' = watchdog_bitmap
  /\ watchdog_fault' = (watchdog_fault \/ watchdog_bitmap # Taps)
  /\ watchdog_bitmap' = {}
  /\ UNCHANGED blame

(* vVoltageWatchdogCallback and vTemperatureWatchdogCallback. *)
WatchdogCallback ==
  /\ \/ /\ watchdog_bitmap # Taps
        /\ exposed_watchdog_bitmap' = watchdog_bitmap
        /\ latch_mod_fault(get_mod_fault_num(watchdog_bitmap))
        /\ FirstBlame(Taps \ watchdog_bitmap)
        /\ watchdog_fault' = TRUE
     \/ /\ watchdog_bitmap = Taps
        /\ UNCHANGED <<exposed_watchdog_bitmap, blame, watchdog_fault>>
  /\ watchdog_bitmap' = {}

(* A check of a tap's value, by this monitor or the other one, or the      *)
(* other one's watchdog, blames module m.                                  *)
Blame(m) ==
  /\ latch_mod_fault(m)
  /\ FirstBlame({m})
  /\ UNCHANGED <<bitmaps, watchdog_fault>>

-----------------------------------------------------------------------------
(* "confirm readings are coming in", of get_volt_segment_status and        *)
(* get_temp_segment_status.                                                *)
Segments == 0..((NUM_TAPS - 1) \div MODULES_PER_SEGMENT)
InSegment(s) == {t \in Taps : t \div MODULES_PER_SEGMENT = s}
ReadingsComeIn(s) == InSegment(s) \subseteq exposed_watchdog_bitmap

WatchdogTypeOK ==
  /\ watchdog_bitmap \subseteq Taps /\ exposed_watchdog_bitmap \subseteq Taps
  /\ mod_fault_num \in Taps \union {NoModule}
  /\ watchdog_fault \in BOOLEAN
  /\ guilty \subseteq Taps
=============================================================================
