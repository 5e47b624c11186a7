--------------------------- MODULE VoltageMonitor ---------------------------
(***************************************************************************)
(* Task_Voltage_Monitor with the watchdog over its taps: every pass takes  *)
(* in the messages the taps have sent, then checks the last value of every *)
(* tap in turn and at once reports one that is out of range.  A tap that   *)
(* never spoke has 0 mV.                                                   *)
(*                                                                         *)
(* The timer service task may run the watchdog's callback, the temperature *)
(* monitor may blame a module, and Task_Can_Status may look at the taps    *)
(* (get_volt_segment_status), between any two steps.                       *)
(***************************************************************************)
EXTENDS Naturals, TapWatchdog

CONSTANTS
  Voltages,                              (* what a tap may report, in mV    *)
  CELL_OVERVOLTAGE_THRESHOLD_MV, CELL_UNDERVOLTAGE_THRESHOLD_MV,
  CELL_CHARGING_VOLTAGE_THRESHOLD_MV

ASSUME VoltageAssumption ==
  /\ Voltages \subseteq Nat
  /\ CELL_OVERVOLTAGE_THRESHOLD_MV \in Nat
  /\ CELL_UNDERVOLTAGE_THRESHOLD_MV \in Nat \ {0}
  /\ CELL_UNDERVOLTAGE_THRESHOLD_MV <= CELL_OVERVOLTAGE_THRESHOLD_MV
  /\ CELL_CHARGING_VOLTAGE_THRESHOLD_MV \in Nat

VARIABLES
  data,           (* BPS_Voltage_Tap_Data of each tap, 0 at first          *)
  tap_fault,      (* the taps whose BPS_Voltage_Tap_Fault is not OK        *)
  good,           (* state bit VOLTAGE_MONITOR_GOOD                        *)
  ok_to_charge,   (* state bit VOLT_OK_FOR_CHARGING                        *)
  raised,         (* the faults raised by the checks                       *)
  pc,             (* "receive" or "check"                                  *)
  i, max_voltage, all_voltage_good,   (* local variables of the task       *)
  heard,          (* history: the taps that have sent a message            *)
  unchecked       (* history: those heard of after their last check        *)

taps    == <<data, tap_fault>>
bits    == <<good, ok_to_charge>>
locals  == <<i, max_voltage, all_voltage_good>>
history == <<heard, unchecked>>
monVars == <<taps, bits, raised, pc, locals, history>>
vars    == <<monVars, wdVars>>

Init ==
  /\ WatchdogInit
  /\ data = [t \in Taps |-> 0]
  /\ tap_fault = {}
  /\ good = FALSE /\ ok_to_charge = FALSE
  /\ raised = {}
  /\ pc = "receive"
  /\ i = 0 /\ max_voltage = 0 /\ all_voltage_good = TRUE
  /\ heard = {} /\ unchecked = Taps

-----------------------------------------------------------------------------
(* can_recv_all_taps and volt_can_unpack: a message of tap t, which says   *)
(* that it has mv and whether it is well.  A pass takes in any messages,   *)
(* in any order, or none.                                                  *)
Receive(t, mv, ok) ==
  /\ pc = "receive"
  /\ data' = [data EXCEPT ![t] = mv]
  /\ tap_fault' = IF ok THEN tap_fault \ {t} ELSE tap_fault \union {t}
  /\ Hear(t)
  /\ heard' = heard \union {t}
  /\ unchecked' = unchecked \union {t}
  /\ UNCHANGED <<bits, raised, pc, locals>>

(* The last bps_can_recv has returned, with a message or without. *)
BeginChecks ==
  /\ pc = "receive"
  /\ pc' = "check"
  /\ UNCHANGED <<taps, bits, raised, locals, history, wdVars>>

High(mv) == mv > CELL_OVERVOLTAGE_THRESHOLD_MV
(* Mutant of Low: a tap that shows nothing is left to the watchdog.        *)
LowButSomething(mv) == mv > 0 /\ mv < CELL_UNDERVOLTAGE_THRESHOLD_MV
Low(mv)  == mv < CELL_UNDERVOLTAGE_THRESHOLD_MV

(* One round of the checking loop. *)
Checking ==
  /\ pc = "check" /\ i \in Taps
  /\ i' = i + 1
  /\ max_voltage' = IF data[i] > max_voltage THEN data[i] ELSE max_voltage
  /\ unchecked' = unchecked \ {i}
  /\ UNCHANGED <<data, bits, pc, heard>>

OutOfRange(fault) ==
  /\ raised' = raised \union {fault}
  /\ tap_fault' = tap_fault \union {i}
  /\ all_voltage_good' = FALSE

(* The tap has spoken, for it is not at 0: its BPS_Tap_idx is its own. *)
CheckHigh ==
  /\ Checking /\ High(data[i])
  /\ OutOfRange("CELL_OVERVOLTAGE")
  /\ Blame(i)

(* Mutant of CheckLow: the tap is not marked.                              *)
CheckLowUnmarked ==
  /\ Checking /\ ~High(data[i]) /\ Low(data[i])
  /\ raised' = raised \union {"CELL_UNDERVOLTAGE"}
  /\ all_voltage_good' = FALSE
  /\ UNCHANGED <<tap_fault, wdVars>>

(* This branch names no module. *)
CheckLow ==
  /\ Checking /\ ~High(data[i]) /\ Low(data[i])
  /\ OutOfRange("CELL_UNDERVOLTAGE")
  /\ UNCHANGED wdVars

CheckInRange ==
  /\ Checking /\ ~High(data[i]) /\ ~Low(data[i])
  /\ UNCHANGED <<raised, tap_fault, all_voltage_good, wdVars>>

(* The end of the pass: the state bits. *)
EndPass ==
  /\ pc = "check" /\ i = NUM_TAPS
  /\ ok_to_charge' = (max_voltage < CELL_CHARGING_VOLTAGE_THRESHOLD_MV)
  /\ good' = (good \/ all_voltage_good)
  /\ pc' = "receive"
  /\ i' = 0 /\ max_voltage' = 0 /\ all_voltage_good' = TRUE
  /\ UNCHANGED <<taps, raised, history, wdVars>>

Next ==
  \/ \E t \in Taps, mv \in Voltages, ok \in BOOLEAN : Receive(t, mv, ok)
  \/ BeginChecks \/ CheckHigh \/ CheckLow \/ CheckInRange \/ EndPass
  \/ WatchdogCallback /\ UNCHANGED monVars
  \/ \E m \in Taps : Blame(m) /\ UNCHANGED monVars

(* The watchdog's timer reloads itself; no tap is obliged to speak. *)
Spec == Init /\ [][Next]_vars /\ WF_vars(WatchdogCallback /\ UNCHANGED monVars)

-----------------------------------------------------------------------------
get_volt_segment_status(s) == ReadingsComeIn(s) /\ InSegment(s) \intersect tap_fault = {}

(* The variables stay in their types. *)
TypeOK ==
  /\ WatchdogTypeOK
  /\ data \in [Taps -> Voltages \union {0}]
  /\ tap_fault \subseteq Taps
  /\ good \in BOOLEAN /\ ok_to_charge \in BOOLEAN
  /\ raised \subseteq {"CELL_OVERVOLTAGE", "CELL_UNDERVOLTAGE"}
  /\ pc \in {"receive", "check"}
  /\ i \in 0..NUM_TAPS
  /\ max_voltage \in Voltages \union {0}
  /\ all_voltage_good \in BOOLEAN
  /\ heard \subseteq Taps /\ unchecked \subseteq Taps

(* Task_Init closes the contactors on VOLTAGE_MONITOR_GOOD only after      *)
(* every tap of the pack has reported: no flag says so, it rests on the    *)
(* values the taps have before their first message.                        *)
GoodIsMeasured == good => heard = Taps

(* What CAN status shows of a segment can be wrong only between a message  *)
(* of a tap and the tap's next check: from then on a segment with a tap    *)
(* out of range shows as faulted, whatever messages its other taps send,   *)
(* and the fault behind it has been raised.                                *)
RangeIsShown ==
  \A s \in Segments : \A t \in InSegment(s) \ unchecked :
    /\ High(data[t]) => ~get_volt_segment_status(s) /\ "CELL_OVERVOLTAGE" \in raised
    /\ Low(data[t])  => ~get_volt_segment_status(s) /\ "CELL_UNDERVOLTAGE" \in raised

(* The module that CAN status shows is one of those the first finding was  *)
(* about, whatever the watchdogs and the checks of both monitors find      *)
(* later; and a watchdog or an overvoltage fault always has a module.      *)
ModuleIsGuilty ==
  /\ mod_fault_num \in IF guilty = {} THEN {NoModule} ELSE guilty
  /\ watchdog_fault \/ "CELL_OVERVOLTAGE" \in raised => guilty # {}

(* After a watchdog fault some segment shows as not reporting for ever:    *)
(* later windows in which every tap speaks do not hide it.                 *)
FaultStaysVisible == watchdog_fault <=> \E s \in Segments : ~ReadingsComeIn(s)

(* A tap that falls silent is found out, though the others keep talking.   *)
SilentTapReported ==
  \A t \in Taps : []<><<Hear(t) /\ t \notin watchdog_bitmap>>_wdVars \/ <>watchdog_fault
=============================================================================
