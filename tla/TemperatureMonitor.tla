------------------------- MODULE TemperatureMonitor -------------------------
(***************************************************************************)
(* Task_Temperature_Monitor: every pass takes in the messages the taps     *)
(* have sent, then checks the last value of every tap in turn.  A tap is   *)
(* reported when it has been too hot OTEMP_FAULT_THRESHOLD passes in a     *)
(* row; what is too hot depends on a state bit that Task_Amperes_Monitor,  *)
(* of the same priority, may change between any two checks.                *)
(*                                                                         *)
(* The watchdog over the taps is the one TapWatchdog describes; it touches *)
(* nothing the checks read, and is left out here.                          *)
(***************************************************************************)
EXTENDS Naturals, FiniteSets

CONSTANTS
  NUM_TEMPERATURE_SENSORS,
  Temperatures,                          (* what a tap may report, in mC    *)
  OVERTEMP_THRESHOLD_CHARGING_MC, OVERTEMP_THRESHOLD_DISCHARGING_MC,
  CELL_CHARGING_TEMP_THRESHOLD_MC,
  OTEMP_FAULT_THRESHOLD,
  HISTOGRAM_RANGE                        (* of an entry, 2^8                *)

ASSUME TemperatureAssumption ==
  /\ NUM_TEMPERATURE_SENSORS \in Nat \ {0}
  /\ Temperatures \subseteq Nat
  /\ OVERTEMP_THRESHOLD_CHARGING_MC \in Nat
  /\ OVERTEMP_THRESHOLD_DISCHARGING_MC \in Nat
  /\ CELL_CHARGING_TEMP_THRESHOLD_MC \in Nat
  /\ OTEMP_FAULT_THRESHOLD \in Nat \ {0}
  /\ HISTOGRAM_RANGE \in Nat /\ OTEMP_FAULT_THRESHOLD < HISTOGRAM_RANGE

Taps == 0..(NUM_TEMPERATURE_SENSORS - 1)
NoModule == NUM_TEMPERATURE_SENSORS   (* mod_fault_num, nobody blamed *)

VARIABLES
  data,          (* BPS_Temperature_Tap_Data of each tap, 0 at first       *)
  heard,         (* the taps that have sent a message: BPS_Tap_idx of the  *)
                 (* others is still 0                                      *)
  tap_fault,     (* the taps whose BPS_Temperature_Tap_Fault is not OK     *)
  histogram,     (* temp_module_fault_histogram                            *)
  charging,      (* state bit CHARGING_BATT_STATE                          *)
  good,          (* state bit TEMPERATURE_MONITOR_GOOD                     *)
  ok_to_charge,  (* state bit TEMP_OK_FOR_CHARGING                         *)
  overtemp,      (* CELL_OVERTEMP_FAULT raised                             *)
  mod_fault_num, (* the module blamed first                                *)
  pc,            (* "receive" or "check"                                   *)
  i, max_temp, all_temp_good,   (* local variables of the task             *)
  streak,        (* history: checks in a row that found the tap too hot    *)
  messages,      (* history: messages of the tap during its streak         *)
  tripped        (* history: the taps whose streak has been long enough    *)

taps     == <<data, heard, tap_fault>>
bits     == <<charging, good, ok_to_charge>>
verdict  == <<overtemp, mod_fault_num>>
locals   == <<i, max_temp, all_temp_good>>
history  == <<streak, messages, tripped>>
vars == <<taps, histogram, bits, verdict, pc, locals, history>>

Saturated(n, limit) == IF n < limit THEN n + 1 ELSE limit

Init ==
  /\ data = [t \in Taps |-> 0]
  /\ heard = {}
  /\ tap_fault = {}
  /\ histogram = [t \in Taps |-> 0]
  /\ charging = FALSE /\ good = FALSE /\ ok_to_charge = FALSE
  /\ overtemp = FALSE /\ mod_fault_num = NoModule
  /\ pc = "receive"
  /\ i = 0 /\ max_temp = 0 /\ all_temp_good = TRUE
  /\ streak = [t \in Taps |-> 0]
  /\ messages = [t \in Taps |-> 0]
  /\ tripped = {}

-----------------------------------------------------------------------------
(* can_recv_all_taps and temp_can_unpack: a message of tap t, which says   *)
(* that it has the temperature mc and whether it is well.  A pass takes in *)
(* any messages, in any order, or none.                                    *)
Receive(t, mc, ok) ==
  /\ pc = "receive"
  /\ data' = [data EXCEPT ![t] = mc]
  /\ heard' = heard \union {t}
  /\ tap_fault' = IF ok THEN tap_fault \ {t} ELSE tap_fault \union {t}
  /\ messages' = [messages EXCEPT ![t] = Saturated(@, 2)]
  /\ UNCHANGED <<histogram, bits, verdict, pc, locals, streak, tripped>>

(* The last bps_can_recv has returned, with a message or without. *)
BeginChecks ==
  /\ pc = "receive"
  /\ pc' = "check"
  /\ UNCHANGED <<taps, histogram, bits, verdict, locals, history>>

get_temp_threshold ==
  IF charging THEN OVERTEMP_THRESHOLD_CHARGING_MC
              ELSE OVERTEMP_THRESHOLD_DISCHARGING_MC

TooHot(t) == data[t] > get_temp_threshold

(* The entry of the histogram the code uses for tap t. *)
BPS_Tap_idx(t) == IF t \in heard THEN t ELSE 0

(* One round of the checking loop. *)
Checking ==
  /\ pc = "check" /\ i \in Taps
  /\ i' = i + 1
  /\ max_temp' = IF data[i] > max_temp THEN data[i] ELSE max_temp
  /\ UNCHANGED <<data, heard, bits, pc>>

latch_mod_fault(m) ==
  mod_fault_num' = IF mod_fault_num = NoModule THEN m ELSE mod_fault_num

(* The count after this round, one byte. *)
Counted == (histogram[BPS_Tap_idx(i)] + 1) % HISTOGRAM_RANGE

(* The fault the code notes for the tap also says which threshold it       *)
(* missed; here only that it is not OK.                                    *)
CheckHot ==
  /\ Checking /\ TooHot(i)
  /\ histogram' = [histogram EXCEPT ![BPS_Tap_idx(i)] = Counted]
  /\ \/ /\ Counted >= OTEMP_FAULT_THRESHOLD
        /\ latch_mod_fault(BPS_Tap_idx(i))
        /\ overtemp' = TRUE /\ all_temp_good' = FALSE
     \/ /\ Counted < OTEMP_FAULT_THRESHOLD
        /\ UNCHANGED <<verdict, all_temp_good>>
  /\ tap_fault' = tap_fault \union {i}
  /\ streak' = [streak EXCEPT ![i] = Saturated(@, OTEMP_FAULT_THRESHOLD)]
  /\ tripped' = tripped \union {t \in {i} : streak'[t] = OTEMP_FAULT_THRESHOLD}
  /\ UNCHANGED messages

(* Mutants of CheckCool: the count is left; every count is reset.          *)
CheckCoolKeepingCount ==
  /\ Checking /\ ~TooHot(i)
  /\ streak' = [streak EXCEPT ![i] = 0]
  /\ messages' = [messages EXCEPT ![i] = 0]
  /\ UNCHANGED <<tap_fault, histogram, verdict, all_temp_good, tripped>>
CheckCoolResettingAll ==
  /\ Checking /\ ~TooHot(i)
  /\ histogram' = [t \in Taps |-> 0]
  /\ streak' = [streak EXCEPT ![i] = 0]
  /\ messages' = [messages EXCEPT ![i] = 0]
  /\ UNCHANGED <<tap_fault, verdict, all_temp_good, tripped>>

CheckCool ==
  /\ Checking /\ ~TooHot(i)
  /\ histogram' = [histogram EXCEPT ![BPS_Tap_idx(i)] = 0]
  /\ streak' = [streak EXCEPT ![i] = 0]
  /\ messages' = [messages EXCEPT ![i] = 0]
  /\ UNCHANGED <<tap_fault, verdict, all_temp_good, tripped>>

(* The end of the pass: the state bits. *)
EndPass ==
  /\ pc = "check" /\ i = NUM_TEMPERATURE_SENSORS
  /\ ok_to_charge' = (max_temp < CELL_CHARGING_TEMP_THRESHOLD_MC)
  /\ good' = (good \/ all_temp_good)
  /\ pc' = "receive"
  /\ i' = 0 /\ max_temp' = 0 /\ all_temp_good' = TRUE
  /\ UNCHANGED <<taps, histogram, charging, verdict, history>>

(* Task_Amperes_Monitor finds the direction of the current changed. *)
ChargingChanges ==
  /\ charging' = ~charging
  /\ UNCHANGED <<taps, histogram, good, ok_to_charge, verdict, pc, locals,
                 history>>

Next ==
  \/ \E t \in Taps, mc \in Temperatures, ok \in BOOLEAN : Receive(t, mc, ok)
  \/ BeginChecks \/ CheckHot \/ CheckCool \/ EndPass
  \/ ChargingChanges

Spec == Init /\ [][Next]_vars

-----------------------------------------------------------------------------
(* The variables stay in their types. *)
TypeOK ==
  /\ data \in [Taps -> Temperatures \union {0}]
  /\ heard \subseteq Taps /\ tap_fault \subseteq Taps
  /\ histogram \in [Taps -> 0..(HISTOGRAM_RANGE - 1)]
  /\ charging \in BOOLEAN /\ good \in BOOLEAN /\ ok_to_charge \in BOOLEAN
  /\ overtemp \in BOOLEAN /\ mod_fault_num \in Taps \union {NoModule}
  /\ pc \in {"receive", "check"}
  /\ i \in 0..NUM_TEMPERATURE_SENSORS
  /\ max_temp \in Temperatures \union {0}
  /\ all_temp_good \in BOOLEAN
  /\ streak \in [Taps -> 0..OTEMP_FAULT_THRESHOLD]
  /\ messages \in [Taps -> 0..2]
  /\ tripped \subseteq Taps

(* CELL_OVERTEMP_FAULT is raised by a tap that was too hot for             *)
(* OTEMP_FAULT_THRESHOLD passes in a row, under whichever threshold held   *)
(* at each check, never by several taps together; and such a tap is the    *)
(* module it blames.                                                       *)
OvertempIsOneTap == overtemp => mod_fault_num \in tripped

(* And it is raised by every such tap but tap 0, whose count every tap     *)
(* that has not sent a message yet resets in each pass: BPS_Tap_idx of     *)
(* those is still 0.                                                       *)
HotTapIsReported == tripped \ {0} # {} => overtemp

(* TempatureMonitoringTask.c:316 "only fault the BPS if a singular module  *)
(* has consecutively otemp'd a certain number of times to filter single    *)
(* abnormal readings from actual faults": one message is not enough.       *)
OneReadingIsFiltered ==
  [][~overtemp /\ overtemp' => messages[i] > 1]_vars
=============================================================================
