----------------------------- MODULE Precharge -----------------------------
(***************************************************************************)
(* Task_Precharge, Tasks/Src/PrechageTask.c: close the array contactor,    *)
(* let the array capacitance charge through the resistor until the array   *)
(* has 90% of the battery's voltage, then close the precharge contactor.   *)
(*                                                                         *)
(* The fault handler is its abstraction FaultLatch, which FaultHandler     *)
(* implements; it outranks this task, so between a fault and the end of    *)
(* emergency_open_contactors the task does not move, and goes on where it  *)
(* was afterwards.  Contactors are taken as commanded.                     *)
(***************************************************************************)
EXTENDS Naturals, FiniteSets

CONSTANTS
  Readings,                       (* what the ADCs may show, in mV          *)
  PACK_OVERVOLTAGE_THRESHOLD_MV, PACK_UNDERVOLTAGE_THRESHOLD_MV,
  DEBOUNCE_LIMIT,                 (* PRECHARGE_UNDERVOLTAGE_DEBOUNCE_LIMIT  *)
  COUNT_RANGE                     (* of under_voltage_error_count, 2^8      *)

ASSUME PrechargeAssumption ==
  /\ \A r \in Readings : r.array \in Nat /\ r.battery \in Nat
  /\ COUNT_RANGE \in Nat /\ DEBOUNCE_LIMIT \in Nat
  /\ DEBOUNCE_LIMIT < COUNT_RANGE

Faults == {"ARRAY_GREATER_THAN_BATTERY", "PACK_OVERVOLTAGE",
           "PACK_UNDERVOLTAGE", "PRECHARGE_OUT_OF_BOUNDS",
           "PRECHARGE_TIMEOUT", "ADC_ERROR", "CONTACTOR_ARRAY",
           "CONTACTOR_ARRAY_PRE", "fault of another task"}
NoFault == "none"
States  == {"INITIAL", "PRECHARGING", "RUN", "FAULT"}

VARIABLES
  mode, cause, handled,      (* of FaultLatch                              *)
  State,                     (* PRECHARGE_STATE_...; IDLE is never entered *)
  pc,                        (* where the pass stands                      *)
  reading,                   (* ADC_Result                                 *)
  closed,                    (* the contactors commanded CLOSED            *)
  under_voltage_error_count,
  precharge_timeout_expired,
  xPrechargeTimer,           (* "dormant" or "active"                      *)
  lows                       (* history: low readings in a row             *)

latch    == <<mode, cause, handled>>
timeout  == <<precharge_timeout_expired, xPrechargeTimer>>
debounce == <<under_voltage_error_count, lows>>
vars == <<latch, State, pc, reading, closed, debounce, timeout>>

Latch == INSTANCE FaultLatch

(* What a failed Read_ADC leaves of ADC_Result = {0}: nothing, or the      *)
(* array's half of a reading.                                              *)
NoReading == [array |-> 0, battery |-> 0]
HalfReadings == {[r EXCEPT !.battery = 0] : r \in Readings} \union {NoReading}

Init ==
  /\ Latch!Init
  /\ State = "INITIAL"
  /\ pc = "init"
  /\ reading = NoReading
  /\ closed = {}
  /\ under_voltage_error_count = 0
  /\ precharge_timeout_expired = FALSE
  /\ xPrechargeTimer = "dormant"
  /\ lows = 0

-----------------------------------------------------------------------------
(* set_faultBit for each of a list of faults of which the first that holds *)
(* is given: the handler preempts the task there, and the later ones find  *)
(* the latch tripped.                                                      *)
Raise(fault) == IF mode = "armed" THEN Latch!Trip(fault) ELSE UNCHANGED latch
RaiseIf(condition, fault) == IF condition THEN Raise(fault) ELSE UNCHANGED latch

(* The task has the processor: the handler is waiting or in Fault_Loop. *)
Running(label) == pc = label /\ mode # "faulted"

(* Init_PrechargeTask; ADC_Sense_Init may fail. *)
Init_PrechargeTask ==
  /\ Running("init")
  /\ \E failed \in BOOLEAN : RaiseIf(failed, "ADC_ERROR")
  /\ pc' = "asleep"
  /\ UNCHANGED <<State, reading, closed, debounce, timeout>>

(* Mutant of Wake: does not look.                                          *)
WakeRegardless ==
  /\ Running("asleep")
  /\ pc' = "read"
  /\ UNCHANGED <<latch, State, reading, closed, debounce, timeout>>

(* A pass begins; the only look the task takes at system_has_faulted. *)
Wake ==
  /\ Running("asleep")
  /\ State' = IF mode = "armed" THEN State ELSE "FAULT"
  /\ pc' = "read"
  /\ UNCHANGED <<latch, reading, closed, debounce, timeout>>

(* Mutant of Read_ADC: the error is not reported.                          *)
IgnoreError ==
  /\ Running("read")
  /\ reading' \in Readings \union HalfReadings
  /\ pc' = IF State = "INITIAL" THEN "act" ELSE "check"
  /\ UNCHANGED <<latch, State, closed, debounce, timeout>>

Read_ADC ==
  /\ Running("read")
  /\ \/ reading' \in Readings /\ UNCHANGED latch
     \/ reading' \in HalfReadings /\ Raise("ADC_ERROR")
  /\ pc' = IF State = "INITIAL" THEN "act" ELSE "check"
  /\ UNCHANGED <<State, closed, debounce, timeout>>

(* Fault_Checker.  A low battery is debounced while the contactors move.   *)
TooHigh == reading.array * 20 > reading.battery * 22
Over    == reading.battery > PACK_OVERVOLTAGE_THRESHOLD_MV
Under   == reading.battery < PACK_UNDERVOLTAGE_THRESHOLD_MV /\ State # "FAULT"

CountUp == IF State = "PRECHARGING" THEN (under_voltage_error_count + 1) % COUNT_RANGE
                                    ELSE under_voltage_error_count

(* Mutant of Fault_Checker: a good reading does not reset the count.       *)
NeverReset ==
  /\ Running("check")
  /\ RaiseIf(Under /\ (State # "PRECHARGING" \/ CountUp > DEBOUNCE_LIMIT),
             "PACK_UNDERVOLTAGE")
  /\ under_voltage_error_count' = IF Under THEN CountUp ELSE under_voltage_error_count
  /\ lows' = IF Under THEN (lows + 1) % COUNT_RANGE ELSE 0
  /\ pc' = "act"
  /\ UNCHANGED <<State, reading, closed, timeout>>

Fault_Checker ==
  /\ Running("check")
  /\ RaiseIf(TooHigh \/ Over \/ (Under /\ (State # "PRECHARGING" \/ CountUp > DEBOUNCE_LIMIT)),
             IF TooHigh THEN "ARRAY_GREATER_THAN_BATTERY"
             ELSE IF Over THEN "PACK_OVERVOLTAGE" ELSE "PACK_UNDERVOLTAGE")
  /\ under_voltage_error_count' = IF Under THEN CountUp ELSE 0
  /\ lows' = IF Under THEN (lows + 1) % COUNT_RANGE ELSE 0
  /\ pc' = "act"
  /\ UNCHANGED <<State, reading, closed, timeout>>

-----------------------------------------------------------------------------
(* switch (State)                                                          *)

(* Mutant of Close: the result of contactor_set is not looked at.          *)
CloseUnchecked(c, fault) ==
  UNCHANGED latch /\ closed' \in {closed, closed \union {c}}

(* contactor_set(c, CONTACTOR_CLOSED, ..) takes the mutex in time, or the  *)
(* fault is raised; either way the task goes on.                           *)
Close(c, fault) ==
  \/ closed' = closed \union {c} /\ UNCHANGED latch
  \/ Raise(fault) /\ UNCHANGED closed

Step(state) == Running("act") /\ State = state /\ pc' = "asleep"

(* Mutant of ActInitial: the timer is not started.                         *)
NoTimeout ==
  /\ Step("INITIAL")
  /\ Close("ARRAY", "CONTACTOR_ARRAY")
  /\ State' = "PRECHARGING"
  /\ UNCHANGED <<reading, debounce, timeout>>

ActInitial ==
  /\ Step("INITIAL")
  /\ Close("ARRAY", "CONTACTOR_ARRAY")
  /\ State' = "PRECHARGING"
  /\ xPrechargeTimer' = "active"
  /\ UNCHANGED <<reading, debounce, precharge_timeout_expired>>

Precharged(percent) == reading.array * 100 >= reading.battery * percent

PrechargeDone ==
  /\ Step("PRECHARGING") /\ Precharged(90)
  /\ xPrechargeTimer' = "dormant"
  /\ Close("ARRAY_PRE", "CONTACTOR_ARRAY_PRE")
  /\ State' = "RUN"
  /\ UNCHANGED <<reading, debounce, precharge_timeout_expired>>

PrechargeTimesOut ==
  /\ Step("PRECHARGING") /\ ~Precharged(90) /\ precharge_timeout_expired
  /\ Raise("PRECHARGE_TIMEOUT")
  /\ State' = "FAULT"
  /\ UNCHANGED <<reading, closed, debounce, timeout>>

KeepPrecharging ==
  /\ Step("PRECHARGING") /\ ~Precharged(90) /\ ~precharge_timeout_expired
  /\ UNCHANGED <<latch, State, reading, closed, debounce, timeout>>

ActRun ==
  /\ Step("RUN")
  /\ RaiseIf(~Precharged(80), "PRECHARGE_OUT_OF_BOUNDS")
  /\ UNCHANGED <<State, reading, closed, debounce, timeout>>

ActFault ==
  /\ Step("FAULT")
  /\ xPrechargeTimer' = "dormant"
  /\ UNCHANGED <<latch, State, reading, closed, debounce,
                 precharge_timeout_expired>>

Act == \/ ActInitial \/ PrechargeDone \/ PrechargeTimesOut \/ KeepPrecharging
       \/ ActRun \/ ActFault
Pass == Init_PrechargeTask \/ Wake \/ Read_ADC \/ Fault_Checker \/ Act

-----------------------------------------------------------------------------
(* PrechargeTimeoutCallback *)
TimerExpires ==
  /\ xPrechargeTimer = "active"
  /\ xPrechargeTimer' = "dormant"
  /\ precharge_timeout_expired' = TRUE
  /\ UNCHANGED <<latch, State, pc, reading, closed, debounce>>

OtherTaskFaults ==
  /\ Latch!Trip("fault of another task")
  /\ UNCHANGED <<State, pc, reading, closed, debounce, timeout>>

(* Task_FaultHandler as far as this task can tell. *)
HandlerOpens ==
  /\ Latch!MakeSafe
  /\ closed' = {}
  /\ UNCHANGED <<State, pc, reading, debounce, timeout>>

Next == Pass \/ TimerExpires \/ OtherTaskFaults \/ HandlerOpens

Spec == Init /\ [][Next]_vars

(* The task runs every 100 ms, its timer expires after 400 ms, the handler *)
(* answers.  Nothing obliges the array to charge or a fault to appear.     *)
FairSpec == Spec /\ WF_vars(Pass) /\ WF_vars(TimerExpires) /\ WF_vars(HandlerOpens)

-----------------------------------------------------------------------------
(* The variables stay in their types, and the pass stands at "check" only  *)
(* in the states whose branch calls Fault_Checker.                         *)
TypeOK ==
  /\ mode \in {"armed", "faulted", "safe"}
  /\ cause \in Faults \union {NoFault} /\ handled \in Faults \union {NoFault}
  /\ State \in States
  /\ pc \in {"init", "asleep", "read", "check", "act"}
  /\ reading \in Readings \union HalfReadings
  /\ closed \subseteq {"ARRAY", "ARRAY_PRE"}
  /\ under_voltage_error_count \in 0..(COUNT_RANGE - 1)
  /\ precharge_timeout_expired \in BOOLEAN
  /\ xPrechargeTimer \in {"dormant", "active"}
  /\ pc = "check" => State # "INITIAL"

(* As long as no fault is latched, the precharge contactor is closed only  *)
(* behind a closed array contactor and in the RUN state: a contactor_set   *)
(* that failed, which the task does not wait for, has latched a fault.     *)
ClosedInOrder ==
  mode = "armed" /\ "ARRAY_PRE" \in closed => "ARRAY" \in closed /\ State = "RUN"

(* The task looks at system_has_faulted once per pass, so a fault raised   *)
(* after that look, by itself or by another task, may find the contactors  *)
(* open and see one closed again: but one only, never both.                *)
AtMostOneLate == mode = "safe" => Cardinality(closed) <= 1

(* While the contactors move, a low battery is reported only when more     *)
(* than PRECHARGE_UNDERVOLTAGE_DEBOUNCE_LIMIT readings in a row were low.  *)
Debounced ==
  [][cause # "PACK_UNDERVOLTAGE" /\ cause' = "PACK_UNDERVOLTAGE" =>
       State # "PRECHARGING" \/ lows' > DEBOUNCE_LIMIT]_vars

(* A precharge ends: the array reaches its voltage, or the system is made  *)
(* safe.  Neither a stopped timer nor a failing ADC leaves it in between.  *)
PrechargeEnds == State = "PRECHARGING" ~> State = "RUN" \/ mode = "safe"

(* PrechargeTask.h:35 "Precharge got through hysteresis": the task enters  *)
(* RUN only on a reading that shows the array at 90% of the battery, or,   *)
(* for the zeros of a failed Read_ADC pass that test too, with the failure *)
(* already latched.                                                        *)
RunOnlyPrecharged ==
  [][State # "RUN" /\ State' = "RUN" =>
       (reading \in Readings /\ Precharged(90)) \/ mode # "armed"]_vars
=============================================================================
