------------------------------- MODULE TapAge -------------------------------
(***************************************************************************)
(* The age that temp_can_unpack and volt_can_unpack store with a reading   *)
(* of a tap: the ticks between its message and the one before, from a tick *)
(* count that wraps, in a field that is narrower.  A tick of 0 stands for  *)
(* "no message yet".                                                       *)
(***************************************************************************)
EXTENDS Naturals

CONSTANTS TICK_BITS, AGE_BITS       (* of TickType_t and of uint16_t *)

TapAgeAssumption == TICK_BITS \in Nat /\ AGE_BITS \in Nat

VARIABLES
  tick_count,
  s_last_rx_time,
  tap_age,
  since          (* history: ticks since the last message; bound: fewer     *)
                 (* than a whole round of the tick count                    *)

ageVars == <<tick_count, s_last_rx_time, tap_age, since>>

Init == tick_count = 0 /\ s_last_rx_time = 0 /\ tap_age = 0 /\ since = 0

MaxTick == 2^TICK_BITS - 1

(* Mutant of Calculate_TimeDifference: the step across zero is not counted.*)
WithoutCrossing(newTime, oldTime) ==
  IF newTime >= oldTime THEN newTime - oldTime ELSE (MaxTick - oldTime) + newTime

Calculate_TimeDifference(newTime, oldTime) ==
  IF newTime >= oldTime THEN newTime - oldTime ELSE (MaxTick - oldTime) + newTime + 1

Tick ==
  /\ since < MaxTick /\ since' = since + 1
  /\ tick_count' = (tick_count + 1) % 2^TICK_BITS
  /\ UNCHANGED <<s_last_rx_time, tap_age>>

Unpack ==
  /\ tap_age' = IF s_last_rx_time = 0 THEN 0
                ELSE Calculate_TimeDifference(tick_count, s_last_rx_time) % 2^AGE_BITS
  /\ s_last_rx_time' = tick_count
  /\ since' = 0
  /\ UNCHANGED tick_count

Next == Tick \/ Unpack

Spec == Init /\ [][Next]_ageVars

-----------------------------------------------------------------------------
(* The variables stay in their types. *)
TypeOK ==
  /\ {tick_count, s_last_rx_time, since} \subseteq 0..MaxTick
  /\ tap_age \in 0..(2^AGE_BITS - 1)

(* Wherever the tick count wraps, the age is the time since the message    *)
(* before, to the width of the field, or 0 when that message was the first *)
(* of all or came at the very tick that stands for none.                   *)
AgeIsRight ==
  [][Unpack => \/ tap_age' = since % 2^AGE_BITS
               \/ s_last_rx_time = 0 /\ tap_age' = 0]_ageVars
=============================================================================
