-------------------------------- MODULE Fans --------------------------------
(***************************************************************************)
(* The fans: EMC2305_Driver.c, which Task_Init initializes and which the   *)
(* fan controller task and, after a fault, the fault handler command.  The *)
(* library for the chip is external: it waits for the transfers of its     *)
(* commands, so that the other tasks run between any two of them, and each *)
(* may fail; nobody looks at the result of a speed command.                *)
(***************************************************************************)
EXTENDS Integers, FiniteSetsExt

CONSTANTS FAN_MIN_RPM, FAN_MAX_RPM, FAN_CONTROLLER_RPM

FansAssumption ==
  /\ FAN_CONTROLLER_RPM \in Int /\ FAN_MIN_RPM \in Int /\ FAN_MAX_RPM \in Int
  /\ FAN_MIN_RPM <= FAN_CONTROLLER_RPM /\ FAN_CONTROLLER_RPM <= FAN_MAX_RPM

VARIABLES
  i2c_initialized, driver_initialized,
  rpm,             (* fan -> the speed the chip has been told               *)
  fan_pc,          (* task -> where it stands                               *)
  any_fault        (* a fault is raised, by this driver or any other part   *)

fanVars == <<i2c_initialized, driver_initialized, rpm, fan_pc, any_fault>>

ChipFans == {"EMC2305_FAN1", "EMC2305_FAN2"}
FanTasks == {"Task_Init", "Task_FaultHandler", "Task_Fan_Controller"}

Init ==
  /\ i2c_initialized = FALSE /\ driver_initialized = FALSE /\ any_fault = FALSE
  /\ rpm = [f \in ChipFans |-> 0]
  /\ fan_pc = [t \in FanTasks |-> IF t = "Task_Init" THEN "i2c" ELSE "wait"]

Goto(t, from, to) ==
  /\ fan_pc[t] = from
  /\ \E pc \in to : fan_pc' = [fan_pc EXCEPT ![t] = pc]

(* The tasks are created once Task_Init is done with the drivers. *)
Created == fan_pc["Task_Init"] = "done"

-----------------------------------------------------------------------------
(* EMC2305_I2C_init; its errors end in Error_Handler. *)
I2CStarts(t) ==
  /\ Goto(t, "i2c", {"driver"})
  /\ i2c_initialized' = TRUE
  /\ UNCHANGED <<driver_initialized, rpm, any_fault>>

I2CFails(t) ==
  /\ Goto(t, "i2c", {"Error_Handler"})
  /\ UNCHANGED <<i2c_initialized, driver_initialized, rpm, any_fault>>

(* EMC2305_Driver_init waits for the chip, asks for it, and configures it. *)
(* Its callers go on when the chip does not answer; a setting of fan_init  *)
(* that fails is a FAN_CHIP_ERROR, and the driver is initialized all the   *)
(* same.                                                                   *)
AfterInit(t) == IF t = "Task_Init" THEN "done" ELSE "EMC2305_FAN1"

WaitForChip(t) ==
  /\ Goto(t, "driver", {"delay"})
  /\ UNCHANGED <<i2c_initialized, driver_initialized, rpm, any_fault>>

ChipSilent(t) ==
  /\ Goto(t, "delay", {AfterInit(t)})
  /\ UNCHANGED <<i2c_initialized, driver_initialized, rpm, any_fault>>

ConfigureChip(t) ==
  /\ Goto(t, "delay", {AfterInit(t)})
  /\ driver_initialized' = TRUE
  /\ any_fault' \in {any_fault, TRUE}
  /\ UNCHANGED <<i2c_initialized, rpm>>

InitStep(t) ==
  \/ I2CStarts(t) \/ I2CFails(t)
  \/ WaitForChip(t) \/ ChipSilent(t) \/ ConfigureChip(t)

-----------------------------------------------------------------------------
(* EMC2305_SetFanRPM succeeds or fails. *)
SetFanRPM(fan, speed) == rpm' \in {rpm, [rpm EXCEPT ![fan] = speed]}

(* set_fans_MAX, called by the handler, first initializes what is not. *)
set_fans_MAX ==
  /\ Created /\ any_fault
  /\ Goto("Task_FaultHandler", "wait",
          {IF ~i2c_initialized THEN "i2c"
           ELSE IF ~driver_initialized THEN "driver" ELSE "EMC2305_FAN1"})
  /\ UNCHANGED <<i2c_initialized, driver_initialized, rpm, any_fault>>

ForceFan(fan, then) ==
  /\ Goto("Task_FaultHandler", fan, {then})
  /\ SetFanRPM(fan, FAN_MAX_RPM)
  /\ UNCHANGED <<i2c_initialized, driver_initialized, any_fault>>

Task_FaultHandler ==
  \/ set_fans_MAX \/ InitStep("Task_FaultHandler")
  \/ ForceFan("EMC2305_FAN1", "EMC2305_FAN2") \/ ForceFan("EMC2305_FAN2", "Fault_Loop")

(* set_fan_rpm does nothing without the driver, and keeps to the limits. *)
set_fan_rpm(fan, speed) ==
  IF i2c_initialized /\ driver_initialized
  THEN SetFanRPM(fan, Max({FAN_MIN_RPM, Min({FAN_MAX_RPM, speed})}))
  ELSE UNCHANGED rpm

(* A period of the fan controller sets the one fan, then the other; it     *)
(* knows nothing of faults.                                                *)
ControlFan(fan, from, to) ==
  /\ Created
  /\ Goto("Task_Fan_Controller", from, {to})
  /\ set_fan_rpm(fan, FAN_CONTROLLER_RPM)
  /\ UNCHANGED <<i2c_initialized, driver_initialized, any_fault>>

Task_Fan_Controller ==
  \/ ControlFan("EMC2305_FAN1", "wait", "second")
  \/ ControlFan("EMC2305_FAN2", "second", "wait")

(* A fault of another part. *)
FaultRaised ==
  /\ ~any_fault /\ any_fault' = TRUE
  /\ UNCHANGED <<i2c_initialized, driver_initialized, rpm, fan_pc>>

Next ==
  \/ InitStep("Task_Init") \/ Task_FaultHandler \/ Task_Fan_Controller
  \/ FaultRaised

Spec == Init /\ [][Next]_fanVars

-----------------------------------------------------------------------------
(* The variables stay in their types. *)
TypeOK ==
  /\ i2c_initialized \in BOOLEAN /\ driver_initialized \in BOOLEAN
  /\ any_fault \in BOOLEAN
  /\ \A f \in ChipFans : rpm[f] \in {0, FAN_CONTROLLER_RPM, FAN_MAX_RPM}
  /\ \A t \in FanTasks :
       fan_pc[t] \in {"i2c", "driver", "delay", "wait", "second", "done",
                      "Fault_Loop", "Error_Handler"} \union ChipFans

(* EMC2305_Driver.h: set_fans_MAX forces all fans to their maximum and is  *)
(* the failsafe of a fault.  A fan that runs at the maximum once the       *)
(* handler is through it should stay there; the fan controller takes it    *)
(* back to its own speed.                                                  *)
FansStayAtMax ==
  [][\A f \in ChipFans :
       fan_pc["Task_FaultHandler"] = "Fault_Loop" /\ rpm[f] = FAN_MAX_RPM
         => rpm'[f] = FAN_MAX_RPM]_fanVars
=============================================================================
