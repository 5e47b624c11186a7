--------------------------- MODULE AmperesMonitor ---------------------------
(***************************************************************************)
(* Task_Amperes_Monitor and its watchdog callback: the pack current, the   *)
(* faults it and its sensor may raise, and the two state bits that tell    *)
(* whether the battery is charging.  The bits are set one after the other; *)
(* other tasks may look between, and the timer service task may run the    *)
(* callback, at any moment.                                                *)
(***************************************************************************)
EXTENDS Integers

CONSTANTS
  Currents,                       (* what the sensor may report, in mA      *)
  OVERCURRENT_CHARGE_THRESHOLD_mA, OVERCURRENT_DISCHARGE_THRESHOLD_mA,
  CHARGING_THRESHOLD_MA

ASSUME AmperesAssumption ==
  /\ Currents \subseteq Int
  /\ OVERCURRENT_CHARGE_THRESHOLD_mA \in Int
  /\ OVERCURRENT_DISCHARGE_THRESHOLD_mA \in Int
  /\ CHARGING_THRESHOLD_MA \in Int
  /\ CHARGING_THRESHOLD_MA < 0          \* the current is 0 at first

VARIABLES
  current, sensor_fault,          (* AmperesData                            *)
  recv_amp_data,
  is_charging,                    (* local variable of the task             *)
  xStateBits,                     (* the state bits the task sets           *)
  raised,                         (* the faults raised                      *)
  pc,                             (* where the pass stands                  *)
  quiet                           (* history: no message since the last     *)
                                  (* call of the callback                   *)

data == <<current, sensor_fault>>
vars == <<data, recv_amp_data, is_charging, xStateBits, raised, pc, quiet>>

SensorFaults == {"OK", "OUT_OF_BOUNDS", "OVER_CURRENT_DISCHARGE",
                 "OVER_CURRENT_CHARGE", "MESSAGE_WATCHDOG"}

Init ==
  /\ current = 0 /\ sensor_fault = "OK"
  /\ recv_amp_data = FALSE
  /\ is_charging = FALSE
  /\ xStateBits = {}
  /\ raised = {}
  /\ pc = "receive"
  /\ quiet = TRUE

-----------------------------------------------------------------------------
(* bps_can_recv: a message, or none in time. *)
Receive ==
  /\ pc = "receive"
  /\ current' \in Currents /\ sensor_fault' \in SensorFaults
  /\ recv_amp_data' = TRUE /\ quiet' = FALSE
  /\ pc' = "check"
  /\ UNCHANGED <<is_charging, xStateBits, raised>>

(* Mutant of ReceiveNothing: the flag is assigned the result of the call.  *)
AssignResult ==
  /\ pc = "receive"
  /\ recv_amp_data' = FALSE
  /\ pc' = "check"
  /\ UNCHANGED <<data, is_charging, xStateBits, raised, quiet>>

ReceiveNothing ==
  /\ pc = "receive"
  /\ pc' = "check"
  /\ UNCHANGED <<data, recv_amp_data, is_charging, xStateBits, raised, quiet>>

(* The fault the pass raises, and the one each report of the sensor stands *)
(* for; the current itself comes first.                                    *)
FaultReported ==
  [OUT_OF_BOUNDS          |-> "AMPERES_WATCHDOG_FAULT",
   OVER_CURRENT_DISCHARGE |-> "PACK_OVERCURRENT_DISCHARGING_FAULT",
   OVER_CURRENT_CHARGE    |-> "PACK_OVERCURRENT_CHARGING_FAULT",
   MESSAGE_WATCHDOG       |-> "AMPERES_WATCHDOG_FAULT"]

FaultsFound ==
  CASE current < OVERCURRENT_CHARGE_THRESHOLD_mA    -> {"PACK_OVERCURRENT_CHARGING_FAULT"}
    [] current > OVERCURRENT_DISCHARGE_THRESHOLD_mA -> {"PACK_OVERCURRENT_DISCHARGING_FAULT"}
    [] OTHER -> {FaultReported[f] : f \in {sensor_fault} \ {"OK"}}

Check ==
  /\ pc = "check"
  /\ raised' = raised \union FaultsFound
  /\ xStateBits' = xStateBits \union
                     {b \in {"AMPERES_MONITOR_GOOD"} : FaultsFound = {}}
  /\ pc' = "direction"
  /\ UNCHANGED <<data, recv_amp_data, is_charging, quiet>>

Charges == current <= CHARGING_THRESHOLD_MA

(* The state bits follow is_charging when it changes: DISCHARGING first. *)
SameDirection ==
  /\ pc = "direction" /\ (Charges <=> is_charging)
  /\ pc' = "receive"
  /\ UNCHANGED <<data, recv_amp_data, is_charging, xStateBits, raised, quiet>>

NewDirection ==
  /\ pc = "direction" /\ (Charges <=> ~is_charging)
  /\ xStateBits' = IF Charges THEN xStateBits \ {"DISCHARGING_BATT_STATE"}
                              ELSE xStateBits \union {"DISCHARGING_BATT_STATE"}
  /\ pc' = "second_bit"
  /\ UNCHANGED <<data, recv_amp_data, is_charging, raised, quiet>>

(* Mutant of SecondBit: is_charging only ever becomes TRUE.                *)
ForgetDischarging ==
  /\ pc = "second_bit"
  /\ xStateBits' = IF Charges THEN xStateBits \union {"CHARGING_BATT_STATE"}
                              ELSE xStateBits \ {"CHARGING_BATT_STATE"}
  /\ is_charging' = TRUE
  /\ pc' = "receive"
  /\ UNCHANGED <<data, recv_amp_data, raised, quiet>>

SecondBit ==
  /\ pc = "second_bit"
  /\ xStateBits' = IF Charges THEN xStateBits \union {"CHARGING_BATT_STATE"}
                              ELSE xStateBits \ {"CHARGING_BATT_STATE"}
  /\ is_charging' = Charges
  /\ pc' = "receive"
  /\ UNCHANGED <<data, recv_amp_data, raised, quiet>>

Pass == Receive \/ ReceiveNothing \/ Check \/ SameDirection \/ NewDirection \/ SecondBit

(* Mutant of Callback: the flag stays set.                                 *)
NeverCleared ==
  /\ raised' = raised \union {f \in {"silence"} : ~recv_amp_data}
  /\ quiet' = TRUE
  /\ UNCHANGED <<data, recv_amp_data, is_charging, xStateBits, pc>>

(* vAmperesWatchdogCallback; "silence" is the AMPERES_WATCHDOG_FAULT it    *)
(* raises, told apart from the one of Check.                               *)
Callback ==
  /\ raised' = raised \union {f \in {"silence"} : ~recv_amp_data}
  /\ recv_amp_data' = FALSE
  /\ quiet' = TRUE
  /\ UNCHANGED <<data, is_charging, xStateBits, pc>>

Next == Pass \/ Callback

Spec == Init /\ [][Next]_vars

(* The task runs every 90 ms, the timer every 500 ms; the sensor need not  *)
(* speak.                                                                  *)
FairSpec == Spec /\ WF_vars(Pass) /\ WF_vars(Callback)

-----------------------------------------------------------------------------
(* The variables stay in their types. *)
TypeOK ==
  /\ current \in Currents \union {0}
  /\ sensor_fault \in SensorFaults
  /\ recv_amp_data \in BOOLEAN /\ is_charging \in BOOLEAN /\ quiet \in BOOLEAN
  /\ xStateBits \subseteq {"AMPERES_MONITOR_GOOD", "CHARGING_BATT_STATE",
                           "DISCHARGING_BATT_STATE"}
  /\ raised \subseteq {"PACK_OVERCURRENT_CHARGING_FAULT", "silence",
                       "PACK_OVERCURRENT_DISCHARGING_FAULT",
                       "AMPERES_WATCHDOG_FAULT"}
  /\ pc \in {"receive", "check", "direction", "second_bit"}

(* The over-temperature threshold other tasks choose by the state bit is   *)
(* the one for the direction the current had at the last pass, however     *)
(* often it has turned: the local variable that avoids writing the bits    *)
(* never disagrees with them outside the two writes.                       *)
ChargingBitFollowsCurrent ==
  pc = "receive" => ("CHARGING_BATT_STATE" \in xStateBits <=> Charges)

(* The callback reports silence exactly when a whole period of the timer   *)
(* brought no message, at whatever point of a pass it runs.                *)
SilenceIsReal ==
  [][Callback => ("silence" \in raised' <=> quiet \/ "silence" \in raised)]_vars

(* A sensor that falls silent is reported. *)
SilenceIsReported == []<><<Receive>>_vars \/ <>("silence" \in raised)
=============================================================================
