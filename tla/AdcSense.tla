------------------------------ MODULE AdcSense ------------------------------
(***************************************************************************)
(* Read_ADC of Drivers/Src/ADC_Driver.c: start a conversion of each of two *)
(* ADCs, then wait for a sample from the queue of each.  Nothing ties a    *)
(* sample to the call that asked for it: a call that gives up leaves what  *)
(* it started behind.  The ADC driver and its interrupt handler, which     *)
(* puts a finished sample into the queue unless that is full, are not in   *)
(* the repository.                                                         *)
(*                                                                         *)
(* A sample is known by its age: how many later calls of Read_ADC there    *)
(* have been since the one that started its conversion.                    *)
(***************************************************************************)
EXTENDS Naturals, Sequences, SequencesExt

CONSTANTS ADC_QUEUE_LENGTH,
          MAX_FAILURES       (* bound: calls that fail *)

AdcAssumption ==
  ADC_QUEUE_LENGTH \in Nat \ {0} /\ MAX_FAILURES \in Nat

Adcs == {"array", "battery"}

VARIABLES
  queue,        (* ADC -> ages of the samples in its queue                 *)
  converting,   (* ADC -> ages of the conversions under way, at most one   *)
  pc,           (* where the call stands                                   *)
  result,       (* ADC -> age of the sample in Result                      *)
  failures      (* history: calls that have failed                         *)

vars == <<queue, converting, pc, result, failures>>

Init ==
  /\ queue = [a \in Adcs |-> <<>>]
  /\ converting = [a \in Adcs |-> {}]
  /\ pc = "idle"
  /\ result = [a \in Adcs |-> 0]
  /\ failures = 0

-----------------------------------------------------------------------------
Older(ages) == [n \in DOMAIN ages |-> ages[n] + 1]

Call ==
  /\ pc = "idle"
  /\ queue' = [a \in Adcs |-> Older(queue[a])]
  /\ converting' = [a \in Adcs |-> {age + 1 : age \in converting[a]}]
  /\ pc' = "start_array"
  /\ UNCHANGED <<result, failures>>

(* A call returns an error.  Task_Precharge raises ADC_ERROR and goes on   *)
(* calling.                                                                *)
Fail ==
  /\ failures < MAX_FAILURES
  /\ failures' = failures + 1
  /\ pc' = "idle"

(* adc_read(..) = ADC_OK, or ADC_1_READ_ERR and ADC_2_READ_ERR. *)
Starts == [array |-> [at |-> "start_array", then |-> "start_battery"],
           battery |-> [at |-> "start_battery", then |-> "receive_array"]]

Start(a) ==
  /\ pc = Starts[a].at
  /\ converting[a] = {}
  /\ converting' = [converting EXCEPT ![a] = {0}]
  /\ pc' = Starts[a].then
  /\ UNCHANGED <<queue, result, failures>>

StartFails(a) ==
  /\ pc = Starts[a].at
  /\ Fail
  /\ UNCHANGED <<queue, converting, result>>

Receives == [array |-> [at |-> "receive_array", then |-> "receive_battery"],
             battery |-> [at |-> "receive_battery", then |-> "idle"]]

(* Mutant of Receive: the newest sample instead of the oldest.             *)
ReceiveNewest(a) ==
  /\ pc = Receives[a].at
  /\ queue[a] # <<>>
  /\ result' = [result EXCEPT ![a] = Last(queue[a])]
  /\ queue' = [queue EXCEPT ![a] = Front(@)]
  /\ pc' = Receives[a].then
  /\ UNCHANGED <<converting, failures>>

(* xQueueReceive gets a sample, or ARRAY_QUEUE_RECEIVE_ERR and             *)
(* BATTERY_QUEUE_RECEIVE_ERR.                                              *)
Receive(a) ==
  /\ pc = Receives[a].at
  /\ queue[a] # <<>>
  /\ result' = [result EXCEPT ![a] = Head(queue[a])]
  /\ queue' = [queue EXCEPT ![a] = Tail(@)]
  /\ pc' = Receives[a].then
  /\ UNCHANGED <<converting, failures>>

ReceiveFails(a) ==
  /\ pc = Receives[a].at
  /\ queue[a] = <<>>
  /\ Fail
  /\ UNCHANGED <<queue, converting, result>>

(* Mutant of Convert: no regard for a full queue.                          *)
ConvertAlways(a) ==
  \E age \in converting[a] :
    /\ queue' = [queue EXCEPT ![a] = Append(@, age)]
    /\ converting' = [converting EXCEPT ![a] = {}]
    /\ UNCHANGED <<pc, result, failures>>

(* The interrupt handler of the ADC driver, external. *)
Convert(a) ==
  \E age \in converting[a] :
    /\ queue' = [queue EXCEPT ![a] =
                   IF Len(@) < ADC_QUEUE_LENGTH THEN Append(@, age) ELSE @]
    /\ converting' = [converting EXCEPT ![a] = {}]
    /\ UNCHANGED <<pc, result, failures>>

Read_ADC ==
  Call \/ \E a \in Adcs : Start(a) \/ StartFails(a) \/ Receive(a) \/ ReceiveFails(a)
Next == Read_ADC \/ \E a \in Adcs : Convert(a)

Spec == Init /\ [][Next]_vars

-----------------------------------------------------------------------------
(* The variables stay in their types; the queues stay within their length. *)
TypeOK ==
  /\ \A a \in Adcs : /\ queue[a] \in Seq(Nat) /\ Len(queue[a]) <= ADC_QUEUE_LENGTH
                     /\ converting[a] \subseteq Nat
                     /\ result[a] \in Nat
  /\ pc \in {"idle", "start_array", "start_battery", "receive_array",
             "receive_battery"}
  /\ failures \in 0..MAX_FAILURES

Succeeds == pc = "receive_battery" /\ pc' = "idle" /\ failures' = failures

(* Samples come out in the order they were asked for, so the delay between *)
(* measuring and reading grows only by failed calls, each by one call at   *)
(* most; and the sample of the array and that of the battery are never     *)
(* further apart than that.                                                *)
DelayIsFailures ==
  [][Succeeds => \A a \in Adcs : result'[a] <= failures]_vars
=============================================================================
