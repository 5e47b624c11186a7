--------------------------- MODULE HumiditySensor ---------------------------
(***************************************************************************)
(* SHT45_get: send the measuring command over I2C, wait for its end,       *)
(* receive the answer, wait for its end.  The interrupts of I2C_Driver.c   *)
(* tell of the end of a transfer through one binary semaphore, which does  *)
(* not say of which: a call that times out leaves a transfer whose end the *)
(* next call may take for that of its own.                                 *)
(*                                                                         *)
(* A measurement is known by its age: how many later calls of SHT45_get    *)
(* there have been since the one that sent its command.                    *)
(***************************************************************************)
EXTENDS Naturals

CONSTANTS I2C_ERROR_THRESHOLD,
          MAX_TROUBLE        (* bound: calls and transfers that fail *)

HumidityAssumption == I2C_ERROR_THRESHOLD \in Nat /\ MAX_TROUBLE \in Nat

VARIABLES
  sht_pc,              (* where the call stands                             *)
  hi2c4,               (* the transfer under way, or ready                  *)
  I2C_complete,        (* the semaphore is given                            *)
  command,             (* age of the command last sent                      *)
  rx_bytes,            (* age of the measurement in each part of rx_bytes   *)
  error_counter_sht45, SHT45_ERROR,
  trouble              (* history: calls and transfers that have failed     *)

errors == <<error_counter_sht45, SHT45_ERROR, trouble>>
shtVars == <<sht_pc, hi2c4, I2C_complete, command, rx_bytes, errors>>

Parts == {"SHT45_TEMP", "SHT45_HUMIDITY"}

Init ==
  /\ sht_pc = "init" /\ hi2c4 = "ready" /\ I2C_complete = FALSE
  /\ command = 0 /\ rx_bytes = [p \in Parts |-> 0]
  /\ error_counter_sht45 = 0 /\ SHT45_ERROR = FALSE /\ trouble = 0

-----------------------------------------------------------------------------
SHT45_init ==
  /\ sht_pc = "init"
  /\ sht_pc' \in {"idle", "Error_Handler"}
  /\ UNCHANGED <<hi2c4, I2C_complete, command, rx_bytes, errors>>

Call ==
  /\ sht_pc = "idle"
  /\ command' = command + 1
  /\ rx_bytes' = [p \in Parts |-> rx_bytes[p] + 1]
  /\ sht_pc' = "transmit"
  /\ UNCHANGED <<hi2c4, I2C_complete, errors>>

(* HAL_I2C_Master_Transmit_IT *)
Transmit ==
  /\ sht_pc = "transmit" /\ hi2c4 = "ready"
  /\ hi2c4' = "sends" /\ command' = 0
  /\ sht_pc' = "sent"
  /\ UNCHANGED <<I2C_complete, rx_bytes, errors>>

(* HAL_I2C_Master_Receive_IT, 10 ms after the end of the command *)
Receive ==
  /\ sht_pc = "receive" /\ hi2c4 = "ready"
  /\ hi2c4' = "receives"
  /\ sht_pc' = "received"
  /\ UNCHANGED <<I2C_complete, command, rx_bytes, errors>>

(* Mutant of Complete: nobody waits for the end of the answer.             *)
CompleteOnce ==
  /\ \/ sht_pc = "sent" /\ I2C_complete /\ I2C_complete' = FALSE /\ sht_pc' = "receive"
     \/ sht_pc = "received" /\ sht_pc' = "convert" /\ UNCHANGED I2C_complete
  /\ UNCHANGED <<hi2c4, command, rx_bytes, errors>>

(* xSemaphoreTake(I2C_complete, ..) *)
Complete ==
  /\ \/ sht_pc = "sent" /\ sht_pc' = "receive"
     \/ sht_pc = "received" /\ sht_pc' = "convert"
  /\ I2C_complete /\ I2C_complete' = FALSE
  /\ UNCHANGED <<hi2c4, command, rx_bytes, errors>>

Convert ==
  /\ sht_pc = "convert"
  /\ sht_pc' = "idle"
  /\ UNCHANGED <<hi2c4, I2C_complete, command, rx_bytes, errors>>

(* SHT45_ERR: the channel is busy, or the semaphore is not given in time. *)
Fails ==
  /\ \/ sht_pc \in {"transmit", "receive"} /\ hi2c4 # "ready"
     \/ sht_pc \in {"sent", "received"} /\ ~I2C_complete
  /\ trouble < MAX_TROUBLE /\ trouble' = trouble + 1
  /\ sht_pc' = "idle"
  /\ UNCHANGED <<hi2c4, I2C_complete, command, rx_bytes, error_counter_sht45,
                 SHT45_ERROR>>

SHT45_get == Call \/ Transmit \/ Receive \/ Complete \/ Convert \/ Fails

-----------------------------------------------------------------------------
(* The answer comes byte by byte, the temperature first. *)
StoreTemperature ==
  /\ hi2c4 = "receives"
  /\ rx_bytes' = [rx_bytes EXCEPT !["SHT45_TEMP"] = command]
  /\ hi2c4' = "receives_humidity"
  /\ UNCHANGED <<sht_pc, I2C_complete, command, errors>>

(* HAL_I2C_MasterTxCpltCallback and HAL_I2C_MasterRxCpltCallback *)
TransferEnds ==
  /\ \/ hi2c4 = "sends" /\ UNCHANGED rx_bytes
     \/ /\ hi2c4 = "receives_humidity"
        /\ rx_bytes' = [rx_bytes EXCEPT !["SHT45_HUMIDITY"] = command]
  /\ hi2c4' = "ready"
  /\ I2C_complete' = TRUE
  /\ error_counter_sht45' = 0
  /\ UNCHANGED <<sht_pc, command, SHT45_ERROR, trouble>>

(* HAL_I2C_ErrorCallback gives no semaphore: the call times out. *)
TransferFails ==
  /\ hi2c4 # "ready"
  /\ trouble < MAX_TROUBLE /\ trouble' = trouble + 1
  /\ hi2c4' = "ready"
  /\ error_counter_sht45' = (error_counter_sht45 + 1) % 2^16
  /\ SHT45_ERROR' = (SHT45_ERROR \/ error_counter_sht45' > I2C_ERROR_THRESHOLD)
  /\ UNCHANGED <<sht_pc, I2C_complete, command, rx_bytes>>

Next == SHT45_init \/ SHT45_get \/ StoreTemperature \/ TransferEnds \/ TransferFails

Spec == Init /\ [][Next]_shtVars

-----------------------------------------------------------------------------
(* The variables stay in their types. *)
TypeOK ==
  /\ sht_pc \in {"init", "idle", "transmit", "sent", "receive", "received",
                 "convert", "Error_Handler"}
  /\ hi2c4 \in {"ready", "sends", "receives", "receives_humidity"}
  /\ I2C_complete \in BOOLEAN /\ SHT45_ERROR \in BOOLEAN
  /\ command \in Nat /\ \A p \in Parts : rx_bytes[p] \in Nat
  /\ error_counter_sht45 \in 0..trouble

(* A call that succeeds returns the measurement it asked for as long as    *)
(* nothing has failed.  After the first failure a value may be that of the *)
(* call before or none at all, and each failure makes the values, which    *)
(* need not be of one measurement, at most one call older: an end taken    *)
(* for another does not add up from call to call.                          *)
ReadingIsFresh ==
  [][Convert => \A p \in Parts :
       rx_bytes[p] <= IF trouble = 0 THEN 0 ELSE trouble + 1]_shtVars
=============================================================================
