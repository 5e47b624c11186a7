----------------------------- MODULE Components -----------------------------
(***************************************************************************)
(* The components that share no variable with any other, side by side on   *)
(* the board: `component' is chosen at the start, and only that one takes  *)
(* steps.                                                                  *)
(***************************************************************************)
EXTENDS AmperesMonitor, PetWatchdog

CONSTANTS
  ADC_QUEUE_LENGTH, MAX_FAILURES,
  BpsIds, CarIds, RX_QUEUE_SIZE, CAN_RX_FORWARD_QUEUE_SIZE, MAX_FRAMES,
  I2C_ERROR_THRESHOLD, MAX_TROUBLE,
  FAN_MIN_RPM, FAN_MAX_RPM, FAN_CONTROLLER_RPM,
  Faults, ModFaults,
  TICK_BITS, AGE_BITS,
  TapValues, DATA_BITS, NUM_TEMPERATURE_SENSORS, FRAME_ID_MAX, MAX_LOST, MAX_SILENT

VARIABLES
  component,
  adc_queue, converting, adc_pc, result, failures,
  can_init, started, is_initialized, rx, canRxForwardQueue, forward_pc, payload,
  BPS_CAN_ERROR, arrived, newest, read, hooked, offered, sent,
  sht_pc, hi2c4, I2C_complete, command, rx_bytes, error_counter_sht45, SHT45_ERROR, trouble,
  i2c_initialized, driver_initialized, rpm, fan_pc, any_fault,
  LEDbitmap, modFaultBitmap, xLEDMutex, led_pc, request, script, first_fault,
  mod_fault_num, chain, outputs, asked,
  tick_count, s_last_rx_time, tap_age, since,
  frame_id, temp_can_data, temp_can_data2, msg_pc, carTemp, carRawV, lost, silent

adcVars == <<adc_queue, converting, adc_pc, result, failures>>
canVars == <<can_init, started, is_initialized, rx, canRxForwardQueue, forward_pc, payload,
             BPS_CAN_ERROR, arrived, newest, read, hooked, offered, sent>>
shtVars == <<sht_pc, hi2c4, I2C_complete, command, rx_bytes, error_counter_sht45,
             SHT45_ERROR, trouble>>
fanVars == <<i2c_initialized, driver_initialized, rpm, fan_pc, any_fault>>
ledVars == <<LEDbitmap, modFaultBitmap, xLEDMutex, led_pc, request, script, first_fault,
             mod_fault_num, chain, outputs, asked>>
ageVars == <<tick_count, s_last_rx_time, tap_age, since>>
msgVars == <<frame_id, temp_can_data, temp_can_data2, msg_pc, carTemp, carRawV, lost, silent>>
boardVars == <<component, vars, adcVars, canVars, dogVars, shtVars, fanVars, ledVars,
               ageVars, msgVars>>

Adc == INSTANCE AdcSense WITH queue <- adc_queue, pc <- adc_pc
Can == INSTANCE CanBus
Sht == INSTANCE HumiditySensor
Fan == INSTANCE Fans
Led == INSTANCE StatusLEDs
Age == INSTANCE TapAge
Msg == INSTANCE TapMessages

ASSUME ComponentsAssumption ==
  /\ Adc!AdcAssumption /\ Can!CanBusAssumption /\ PetWatchdogAssumption
  /\ Sht!HumidityAssumption /\ Fan!FansAssumption /\ Led!StatusLEDsAssumption
  /\ Age!TapAgeAssumption /\ Msg!TapMessagesAssumption

Others(c) ==
  /\ component = c /\ UNCHANGED component
  /\ IF c = "amperes" THEN TRUE ELSE UNCHANGED vars
  /\ IF c = "adc" THEN TRUE ELSE UNCHANGED adcVars
  /\ IF c = "can" THEN TRUE ELSE UNCHANGED canVars
  /\ IF c = "watchdog" THEN TRUE ELSE UNCHANGED dogVars
  /\ IF c = "humidity" THEN TRUE ELSE UNCHANGED shtVars
  /\ IF c = "fans" THEN TRUE ELSE UNCHANGED fanVars
  /\ IF c = "lights" THEN TRUE ELSE UNCHANGED ledVars
  /\ IF c = "age" THEN TRUE ELSE UNCHANGED ageVars
  /\ IF c = "messages" THEN TRUE ELSE UNCHANGED msgVars

BoardInit ==
  /\ component \in {"amperes", "adc", "can", "watchdog", "humidity", "fans", "lights",
                    "age", "messages"}
  /\ Init /\ Adc!Init /\ Can!Init /\ DogInit /\ Sht!Init /\ Fan!Init /\ Led!Init
  /\ Age!Init /\ Msg!Init

BoardNext ==
  \/ Next /\ Others("amperes")
  \/ Adc!Next /\ Others("adc")
  \/ Can!Next /\ Others("can")
  \/ DogNext /\ Others("watchdog")
  \/ Sht!Next /\ Others("humidity")
  \/ Fan!Next /\ Others("fans")
  \/ Led!Next /\ Others("lights")
  \/ Age!Next /\ Others("age")
  \/ Msg!Next /\ Others("messages")

(* The fairness is that of AmperesMonitor, the only one to need any. *)
BoardSpec ==
  /\ BoardInit /\ [][BoardNext]_boardVars
  /\ WF_vars(component = "amperes" /\ Pass) /\ WF_vars(component = "amperes" /\ Callback)

(* The variables of every component stay in their types. *)
TypesOK ==
  /\ TypeOK /\ Adc!TypeOK /\ Can!TypeOK /\ DogTypeOK /\ Sht!TypeOK /\ Fan!TypeOK
  /\ Led!TypeOK /\ Age!TypeOK /\ Msg!TypeOK

(* The properties of the components, under their own names. *)
AmperesSilenceIsReported == component = "amperes" => SilenceIsReported
DelayIsFailures == Adc!DelayIsFailures
NewestIsKept == Can!NewestIsKept
ImplementsLossyChannel == Can!ImplementsLossyChannel
ReadingIsFresh == Sht!ReadingIsFresh
LightsAreAsAsked == Led!LightsAreAsAsked
AgeIsRight == Age!AgeIsRight
PairsBelongTogether == Msg!PairsBelongTogether
=============================================================================
