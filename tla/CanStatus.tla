----------------------------- MODULE CanStatus -----------------------------
(***************************************************************************)
(* Task_Can_Status: the message that tells the rest of the car how the     *)
(* battery is, put together from variables that other tasks write while it *)
(* does.  Followed here are the cause of a fault and the two permissions   *)
(* that depend on it; voltage, temperature, contactors and segments are    *)
(* copied into the message as they are.                                    *)
(*                                                                         *)
(* Of the fault handler only what the task reads is modelled: the latch,   *)
(* which FaultHandler shows to be final, and whether any event bit is set, *)
(* which FaultRegister of FaultHandler allows only behind the latch, later *)
(* than it or never.                                                       *)
(***************************************************************************)
EXTENDS Naturals

CONSTANTS Faults,       (* the members of fault_bit_t that may be raised   *)
          NoFault

ASSUME CanStatusAssumption == NoFault \notin Faults

VARIABLES
  system_has_faulted, first_fault_id,
  faultBits,            (* some bit of the event groups is set             *)
  xStateBits,           (* VOLT_OK_FOR_CHARGING, TEMP_OK_FOR_CHARGING      *)
  pc,                   (* where the pass stands                           *)
  msg,                  (* bps_status_message                              *)
  sent,                 (* the last message sent                           *)
  faultedAtStart,       (* history: the latch when the pass began          *)
  wrong                 (* history: messages sent after a fault that show  *)
                        (* something else than its cause                   *)

latch == <<system_has_faulted, first_fault_id>>
vars == <<latch, faultBits, xStateBits, pc, msg, sent, faultedAtStart, wrong>>

(* What the switch of get_bps_status_information makes of first_fault_id;  *)
(* every other fault is an INTERNAL_WATCHDOG.                              *)
ShownAs ==
  [CELL_OVERVOLTAGE_FAULT             |-> "OVERVOLTAGE",
   CELL_UNDERVOLTAGE_FAULT            |-> "UNDERVOLTAGE",
   REGEN_FAULT                        |-> "REGEN",
   CELL_OVERTEMP_FAULT                |-> "OVERTEMPERATURE",
   ELCON_FAULT                        |-> "ELCON",
   PRECHARGE_TIMEOUT_FAULT            |-> "ARRAY_PRECHARGE_TIMEOUT",
   RTOS_WATCHDOG_ERROR                |-> "INTERNAL_WATCHDOG",
   BQ_CHIP_FAULT                      |-> "SEGMENT_WATCHDOG",
   VOLTTEMP_WATCHDOG_FAULT            |-> "SEGMENT_WATCHDOG",
   CONTACTOR_HV_PLUS_FAULT            |-> "HV_PLUS_CONTACTOR_SENSE",
   CONTACTOR_HV_MINUS_FAULT           |-> "HV_MINUS_CONTACTOR_SENSE",
   CONTACTOR_ARRAY_FAULT              |-> "ARRAY_CONTACTOR_SENSE",
   CONTACTOR_ARRAY_PRE_FAULT          |-> "ARRAY_PCHG_CONTACTOR_SENSE",
   BPS_ESTOP1_FAULT                   |-> "ESTOP_1",
   BPS_ESTOP2_FAULT                   |-> "ESTOP_2",
   BPS_ESTOP3_FAULT                   |-> "ESTOP_3",
   PACK_OVERCURRENT_CHARGING_FAULT    |-> "CHARGING_OVERCURRENT",
   PACK_OVERCURRENT_DISCHARGING_FAULT |-> "DISCHARGING_OVERCURRENT",
   AMPERES_WATCHDOG_FAULT             |-> "AMPERES_WATCHDOG"]
Shown(fault) ==
  IF fault \in DOMAIN ShownAs THEN ShownAs[fault] ELSE "INTERNAL_WATCHDOG"

(* bps_status_message = {0}; 0 is also BPS_STATUS_BPS_FAULT_OK. *)
NoMessage == [BPS_Fault |-> "OK", BPS_Charge_OK |-> FALSE, BPS_Regen_OK |-> FALSE]

Init ==
  /\ system_has_faulted = FALSE /\ first_fault_id = NoFault
  /\ faultBits = FALSE
  /\ xStateBits = {}
  /\ pc = "asleep"
  /\ msg = NoMessage /\ sent = NoMessage
  /\ faultedAtStart = FALSE
  /\ wrong = 0

-----------------------------------------------------------------------------
Wake ==
  /\ pc = "asleep"
  /\ pc' = "look"
  /\ faultedAtStart' = system_has_faulted
  /\ UNCHANGED <<latch, faultBits, xStateBits, msg, sent, wrong>>

(* Mutant of ShowCause: a message that already shows a fault keeps it.     *)
ShowFirstSeen ==
  /\ pc = "look" /\ system_has_faulted
  /\ msg' = [msg EXCEPT !.BPS_Fault = IF @ = "OK" THEN Shown(first_fault_id) ELSE @]
  /\ pc' = "charge"
  /\ UNCHANGED <<latch, faultBits, xStateBits, sent, faultedAtStart, wrong>>

(* if (system_has_faulted) switch (first_fault_id) *)
ShowCause ==
  /\ pc = "look" /\ system_has_faulted
  /\ msg' = [msg EXCEPT !.BPS_Fault = Shown(first_fault_id)]
  /\ pc' = "charge"
  /\ UNCHANGED <<latch, faultBits, xStateBits, sent, faultedAtStart, wrong>>

LookFurther ==
  /\ pc = "look" /\ ~system_has_faulted
  /\ pc' = "bits"
  /\ UNCHANGED <<latch, faultBits, xStateBits, msg, sent, faultedAtStart, wrong>>

(* else, is_fault_set(NUM_FAULTS) *)
LookAtBits ==
  /\ pc = "bits"
  /\ msg' = [msg EXCEPT !.BPS_Fault = IF faultBits THEN "INTERNAL_WATCHDOG" ELSE "OK"]
  /\ pc' = "charge"
  /\ UNCHANGED <<latch, faultBits, xStateBits, sent, faultedAtStart, wrong>>

(* Mutant of Permit: the permissions are only ever given.                  *)
PermitForGood ==
  /\ pc = "charge"
  /\ msg' = [msg EXCEPT
       !.BPS_Charge_OK = @ \/ (msg.BPS_Fault = "OK" /\
           {"VOLT_OK_FOR_CHARGING", "TEMP_OK_FOR_CHARGING"} \subseteq xStateBits),
       !.BPS_Regen_OK = @ \/ msg.BPS_Fault = "OK"]
  /\ pc' = "send"
  /\ UNCHANGED <<latch, faultBits, xStateBits, sent, faultedAtStart, wrong>>

(* The two state bits are those of two tasks, neither of which depends on  *)
(* the other: reading both is one step.                                    *)
Permit ==
  /\ pc = "charge"
  /\ msg' = [msg EXCEPT
       !.BPS_Charge_OK = msg.BPS_Fault = "OK" /\
           {"VOLT_OK_FOR_CHARGING", "TEMP_OK_FOR_CHARGING"} \subseteq xStateBits,
       !.BPS_Regen_OK = msg.BPS_Fault = "OK"]
  /\ pc' = "send"
  /\ UNCHANGED <<latch, faultBits, xStateBits, sent, faultedAtStart, wrong>>

(* car_can_send, whose result is not looked at: the message may be lost. *)
ShowsCause(m) == system_has_faulted => m.BPS_Fault = Shown(first_fault_id)
Send ==
  /\ pc = "send"
  /\ sent' = msg
  /\ wrong' = IF ShowsCause(msg) \/ wrong = 2 THEN wrong ELSE wrong + 1
  /\ pc' = "asleep"
  /\ UNCHANGED <<latch, faultBits, xStateBits, msg, faultedAtStart>>

SendFails ==
  /\ pc = "send"
  /\ pc' = "asleep"
  /\ UNCHANGED <<latch, faultBits, xStateBits, msg, sent, faultedAtStart, wrong>>

Pass ==
  \/ Wake \/ ShowCause \/ LookFurther \/ LookAtBits \/ Permit \/ Send \/ SendFails

-----------------------------------------------------------------------------
(* Others: the critical section of set_faultBit, an event bit of a fault   *)
(* raised before, the voltage and temperature monitors.                    *)
Latch(fault) ==
  /\ system_has_faulted' = TRUE
  /\ first_fault_id' = IF system_has_faulted THEN first_fault_id ELSE fault
  /\ UNCHANGED <<faultBits, xStateBits, pc, msg, sent, faultedAtStart, wrong>>

SetBits ==
  /\ system_has_faulted
  /\ faultBits' = TRUE
  /\ UNCHANGED <<latch, xStateBits, pc, msg, sent, faultedAtStart, wrong>>

StateBitChanges ==
  /\ xStateBits' \in SUBSET {"VOLT_OK_FOR_CHARGING", "TEMP_OK_FOR_CHARGING"}
  /\ UNCHANGED <<latch, faultBits, pc, msg, sent, faultedAtStart, wrong>>

Next == Pass \/ (\E fault \in Faults : Latch(fault)) \/ SetBits \/ StateBitChanges

Spec == Init /\ [][Next]_vars

(* The task runs every CAN_STATUS_TASK_DELAY_MS, also beside Fault_Loop,   *)
(* and a bus that keeps taking messages takes one of its.                  *)
FairSpec == Spec /\ WF_vars(Pass) /\ SF_vars(Send)

-----------------------------------------------------------------------------
(* The variables stay in their types, and no event bit is seen before the  *)
(* latch.                                                                  *)
TypeOK ==
  /\ system_has_faulted \in BOOLEAN /\ first_fault_id \in Faults \union {NoFault}
  /\ system_has_faulted <=> first_fault_id # NoFault
  /\ faultBits \in BOOLEAN /\ faultBits => system_has_faulted
  /\ xStateBits \subseteq {"VOLT_OK_FOR_CHARGING", "TEMP_OK_FOR_CHARGING"}
  /\ pc \in {"asleep", "look", "bits", "charge", "send"}
  /\ \A m \in {msg, sent} :
       m \in [BPS_Fault : {"OK"} \union {Shown(f) : f \in Faults} \union {"INTERNAL_WATCHDOG"},
              BPS_Charge_OK : BOOLEAN, BPS_Regen_OK : BOOLEAN]
  /\ faultedAtStart \in BOOLEAN
  /\ wrong \in 0..2

(* A message whose pass began after the fault permits neither charging nor *)
(* regenerative braking and names the root cause.                          *)
NoPermissionAfterFault ==
  pc = "send" /\ faultedAtStart =>
    /\ ~msg.BPS_Charge_OK /\ ~msg.BPS_Regen_OK
    /\ msg.BPS_Fault = Shown(first_fault_id)

(* The latch may trip, and event bits appear, between any two reads of a   *)
(* pass: one message may still say OK, or INTERNAL_WATCHDOG though that is *)
(* not the cause, but never two.                                           *)
AtMostOneWrong == wrong <= 1

(* The rest of the car hears the root cause of every fault in the end, and *)
(* never anything else after it.                                           *)
CauseIsTold ==
  system_has_faulted ~> [](sent.BPS_Fault = Shown(first_fault_id))
=============================================================================
