---------------------------- MODULE TapMessages ----------------------------
(***************************************************************************)
(* What Task_Temperature_Monitor tells the car of one tap: in each pass it *)
(* unpacks the messages that came, at most one for each tap, then sends    *)
(* the temperature and the raw voltage of the last one in a message each.  *)
(* Either may be lost; the car pairs them by the frame id, a counter that  *)
(* all taps share.                                                         *)
(*                                                                         *)
(* The tap is any but tap 0, in whose name the entries of taps never heard *)
(* of are sent as well.  A raw voltage is known by its temperature.        *)
(***************************************************************************)
EXTENDS Integers

CONSTANTS
  TapValues,           (* temperatures, two's complement in DATA_BITS       *)
  DATA_BITS,           (* 24                                                *)
  NUM_TEMPERATURE_SENSORS, FRAME_ID_MAX,
  MAX_LOST,            (* bound: losses of the same message in a row        *)
  MAX_SILENT           (* bound: passes in a row without a message of the   *)
                       (* tap; its watchdog reports more                    *)

TapMessagesAssumption ==
  /\ {DATA_BITS, NUM_TEMPERATURE_SENSORS} \subseteq Nat \ {0}
  /\ {FRAME_ID_MAX, MAX_LOST, MAX_SILENT} \subseteq Nat
  /\ TapValues \subseteq (-(2^(DATA_BITS - 1)))..(2^(DATA_BITS - 1) - 1)
  /\ (MAX_SILENT + MAX_LOST + 2) * NUM_TEMPERATURE_SENSORS <= FRAME_ID_MAX + 1

VARIABLES
  frame_id,
  temp_can_data, temp_can_data2,  (* the entries of the tap                 *)
  msg_pc,              (* messages to unpack in this pass, or what it sends *)
  carTemp, carRawV,    (* the last messages the car has of the tap          *)
  lost,                (* message -> losses in a row                        *)
  silent               (* passes since the tap's last message               *)

msgVars == <<frame_id, temp_can_data, temp_can_data2, msg_pc, carTemp, carRawV, lost, silent>>

Nothing == [frame |-> FRAME_ID_MAX + 1]     (* not heard of yet *)

Init ==
  /\ frame_id = 0
  /\ temp_can_data = Nothing /\ temp_can_data2 = Nothing
  /\ msg_pc = NUM_TEMPERATURE_SENSORS
  /\ carTemp = Nothing /\ carRawV = Nothing
  /\ lost = [m \in {"temperature", "rawv"} |-> 0]
  /\ silent = 0

NextFrame == (frame_id + 1) % (FRAME_ID_MAX + 1)

(* temp_can_unpack puts the 24 bits into an int32_t as they are. *)
Unpack(v) ==
  /\ msg_pc \in 1..NUM_TEMPERATURE_SENSORS /\ msg_pc' = msg_pc - 1
  /\ temp_can_data' = [data |-> v % 2^DATA_BITS, frame |-> frame_id]
  /\ temp_can_data2' = [rawv |-> v, frame |-> frame_id]
  /\ frame_id' = NextFrame
  /\ silent' = 0
  /\ UNCHANGED <<carTemp, carRawV, lost>>

UnpackOther ==
  /\ msg_pc \in 1..NUM_TEMPERATURE_SENSORS /\ msg_pc' = msg_pc - 1
  /\ frame_id' = NextFrame
  /\ UNCHANGED <<temp_can_data, temp_can_data2, carTemp, carRawV, lost, silent>>

ReceiveNothing ==
  /\ msg_pc \in 1..NUM_TEMPERATURE_SENSORS /\ msg_pc' = msg_pc - 1
  /\ UNCHANGED <<frame_id, temp_can_data, temp_can_data2, carTemp, carRawV, lost, silent>>

StartSending ==
  /\ msg_pc = 0 /\ msg_pc' = -1
  /\ silent <= MAX_SILENT
  /\ UNCHANGED <<frame_id, temp_can_data, temp_can_data2, carTemp, carRawV, lost, silent>>

(* What the car reads in a message: the low bits are a signed number. *)
Signed(data) == IF data >= 2^(DATA_BITS - 1) THEN data - 2^DATA_BITS ELSE data

Lose(m) == lost[m] < MAX_LOST /\ lost' = [lost EXCEPT ![m] = @ + 1]

(* temp_can_pack and the message of the temperature *)
SendTemperature ==
  /\ msg_pc = -1 /\ msg_pc' = -2
  /\ IF temp_can_data = Nothing THEN UNCHANGED <<carTemp, lost>>
     ELSE \/ /\ carTemp' = [temperature |-> Signed(temp_can_data.data),
                            frame |-> temp_can_data.frame]
             /\ lost' = [lost EXCEPT !["temperature"] = 0]
          \/ Lose("temperature") /\ UNCHANGED carTemp
  /\ UNCHANGED <<frame_id, temp_can_data, temp_can_data2, carRawV, silent>>

(* Mutant of temp_can_pack2: the counter, not the frame of the reading.    *)
PackCounter(entry) == [entry EXCEPT !.frame = frame_id]

temp_can_pack2(entry) == [rawv |-> entry.rawv, frame |-> entry.frame]

SendRawV ==
  /\ msg_pc = -2 /\ msg_pc' = NUM_TEMPERATURE_SENSORS
  /\ IF temp_can_data2 = Nothing THEN UNCHANGED <<carRawV, lost>>
     ELSE \/ /\ carRawV' = temp_can_pack2(temp_can_data2)
             /\ lost' = [lost EXCEPT !["rawv"] = 0]
          \/ Lose("rawv") /\ UNCHANGED carRawV
  /\ silent' = IF temp_can_data = Nothing THEN 0 ELSE silent + 1
  /\ UNCHANGED <<frame_id, temp_can_data, temp_can_data2, carTemp>>

Next ==
  \/ \E v \in TapValues : Unpack(v)
  \/ UnpackOther \/ ReceiveNothing \/ StartSending
  \/ SendTemperature \/ SendRawV

Spec == Init /\ [][Next]_msgVars

-----------------------------------------------------------------------------
(* The variables stay in their types. *)
TypeOK ==
  /\ frame_id \in 0..FRAME_ID_MAX
  /\ msg_pc \in -2..NUM_TEMPERATURE_SENSORS
  /\ \A m \in DOMAIN lost : lost[m] \in 0..MAX_LOST
  /\ silent \in 0..(MAX_SILENT + 1)

(* A temperature and a raw voltage that the car pairs by their frame id    *)
(* are of the same message of the tap, and the temperature is the one the  *)
(* tap sent, below zero too, as long as the frame ids do not come round    *)
(* within the passes that the tap is silent and the messages are lost for. *)
PairsBelongTogether ==
  carTemp # Nothing /\ carTemp.frame = carRawV.frame
    => carTemp.temperature = carRawV.rawv
=============================================================================
