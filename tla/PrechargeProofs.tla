--------------------------- MODULE PrechargeProofs ---------------------------
(* Theorems about Precharge, for any readings and any debounce limit a byte *)
(* can count.                                                               *)
EXTENDS Precharge, FiniteSetTheorems, TLAPS

USE PrechargeAssumption

(* The types of the latch.                                                 *)
LatchTyped ==
  /\ mode \in {"armed", "faulted", "safe"}
  /\ cause \in Faults \union {NoFault} /\ handled \in Faults \union {NoFault}

(* set_faultBit latches the first fault and leaves a tripped latch alone. *)
LEMMA RaiseStep ==
  ASSUME LatchTyped, NEW fault \in Faults, Raise(fault)
  PROVE  /\ LatchTyped'
         /\ mode' # "armed"
         /\ mode # "armed" => UNCHANGED latch
         /\ mode' = "safe" <=> mode = "safe"
         /\ cause' # cause => cause' = fault
<1>1. CASE mode = "armed"
  BY <1>1 DEF Raise, Latch!Trip, LatchTyped
<1>2. CASE mode # "armed"
  BY <1>2 DEF Raise, latch, LatchTyped
<1>3. QED
  BY <1>1, <1>2

(* A fault raised under a condition is raised only when that holds.        *)
LEMMA RaiseIfStep ==
  ASSUME LatchTyped, NEW condition \in BOOLEAN, NEW fault \in Faults,
         RaiseIf(condition, fault)
  PROVE  /\ LatchTyped'
         /\ mode' = "armed" => mode = "armed" /\ ~condition
         /\ mode' = "safe" <=> mode = "safe"
         /\ cause' # cause => cause' = fault /\ condition
<1>1. CASE condition
  BY <1>1, RaiseStep DEF RaiseIf
<1>2. CASE ~condition
  BY <1>2 DEF RaiseIf, latch, LatchTyped
<1>3. QED
  BY <1>1, <1>2

(* Closing a contactor may raise a fault, and closes no other contactor.   *)
LEMMA CloseStep ==
  ASSUME LatchTyped, NEW c, NEW fault \in Faults, Close(c, fault)
  PROVE  /\ LatchTyped'
         /\ mode' = "armed" => mode = "armed" /\ closed' = closed \union {c}
         /\ mode' = "safe" <=> mode = "safe"
         /\ cause' # cause => cause' = fault
         /\ closed' = closed \/ closed' = closed \union {c}
<1>1. CASE closed' = closed \union {c} /\ UNCHANGED latch
  BY <1>1 DEF latch, LatchTyped
<1>2. CASE Raise(fault) /\ UNCHANGED closed
  BY <1>2, RaiseStep
<1>3. QED
  BY <1>1, <1>2 DEF Close

-----------------------------------------------------------------------------
(* Until the task reaches RUN the debounce counter is the number of low    *)
(* readings in a row, in one byte like it.                                 *)
CountIsLows ==
  State \in {"INITIAL", "PRECHARGING"} => under_voltage_error_count = lows

(* While nothing has failed, the contactors are those the state calls for. *)
SequenceInOrder ==
  mode = "armed" =>
    /\ State # "FAULT"
    /\ State \in {"PRECHARGING", "RUN"} => "ARRAY" \in closed
    /\ "ARRAY_PRE" \in closed => State = "RUN"

(* After the handler opened the contactors only the pass that began before *)
(* the fault can close one; the next look at system_has_faulted is FAULT.  *)
OneIsLate ==
  mode = "safe" =>
    \/ closed = {}
    \/ closed \in {{"ARRAY"}, {"ARRAY_PRE"}} /\ (pc = "asleep" \/ State = "FAULT")

(* A reading acted on without a fault is a whole one.                      *)
ReadingIsWhole ==
  mode = "armed" /\ pc \in {"check", "act"} => reading \in Readings

PrechargeInv ==
  TypeOK /\ CountIsLows /\ SequenceInOrder /\ OneIsLate /\ ReadingIsWhole

(* The initial state satisfies the invariant. *)
LEMMA PrechargeInit == Init => PrechargeInv
<1> SUFFICES ASSUME Init PROVE PrechargeInv
  OBVIOUS
<1>1. LatchTyped
  BY DEF Init, Latch!Init, LatchTyped
<1>2. reading \in Readings \union HalfReadings
  BY DEF Init, HalfReadings
<1>3. under_voltage_error_count \in 0..(COUNT_RANGE - 1)
  BY DEF Init
<1>4. TypeOK
  BY <1>1, <1>2, <1>3 DEF Init, TypeOK, LatchTyped, States
<1>5. CountIsLows /\ SequenceInOrder /\ OneIsLate /\ ReadingIsWhole
  BY DEF Init, CountIsLows, SequenceInOrder, OneIsLate, ReadingIsWhole
<1>6. QED
  BY <1>4, <1>5 DEF PrechargeInv

(* The counter stays a byte. *)
LEMMA CountUpType ==
  ASSUME TypeOK
  PROVE  CountUp \in 0..(COUNT_RANGE - 1)
  BY DEF TypeOK, CountUp

(* Every step keeps the invariant. *)
LEMMA PrechargeStep == PrechargeInv /\ [Next]_vars => PrechargeInv'
<1> SUFFICES ASSUME PrechargeInv, [Next]_vars
             PROVE  PrechargeInv'
  OBVIOUS
<1> USE DEF PrechargeInv, CountIsLows, SequenceInOrder, OneIsLate, ReadingIsWhole
<1>0. TypeOK /\ LatchTyped
  BY DEF TypeOK, LatchTyped
<1>1. CASE Init_PrechargeTask
  <2>1. /\ LatchTyped' /\ (mode' = "armed" => mode = "armed")
        /\ mode' = "safe" <=> mode = "safe"
    BY <1>0, <1>1, RaiseIfStep DEF Init_PrechargeTask, Faults
  <2>2. TypeOK'
    BY <1>0, <1>1, <2>1 DEF TypeOK, LatchTyped, Init_PrechargeTask, Running,
                            debounce, timeout
  <2>3. QED
    BY <1>1, <2>1, <2>2 DEF Init_PrechargeTask, Running, debounce
<1>2. CASE Wake
  <2>1. TypeOK'
    BY <1>0, <1>2 DEF TypeOK, Wake, Running, States, latch, debounce, timeout
  <2>2. QED
    BY <1>0, <1>2, <2>1 DEF LatchTyped, Wake, Running, latch, debounce
<1>3. CASE Read_ADC
  <2>1. /\ LatchTyped' /\ (mode' = "armed" => mode = "armed" /\ reading' \in Readings)
        /\ mode' = "safe" <=> mode = "safe"
        /\ reading' \in Readings \union HalfReadings
    <3>1. CASE reading' \in Readings /\ UNCHANGED latch
      BY <1>0, <3>1 DEF latch, LatchTyped
    <3>2. CASE reading' \in HalfReadings /\ Raise("ADC_ERROR")
      BY <1>0, <3>2, RaiseStep DEF Faults
    <3>3. QED
      BY <1>3, <3>1, <3>2 DEF Read_ADC
  <2>2. TypeOK'
    BY <1>0, <1>3, <2>1 DEF TypeOK, LatchTyped, Read_ADC, Running, debounce, timeout
  <2>3. QED
    BY <1>3, <2>1, <2>2 DEF Read_ADC, Running, debounce
<1>4. CASE Fault_Checker
  <2> DEFINE condition == TooHigh \/ Over \/
               (Under /\ (State # "PRECHARGING" \/ CountUp > DEBOUNCE_LIMIT))
             fault == IF TooHigh THEN "ARRAY_GREATER_THAN_BATTERY"
                      ELSE IF Over THEN "PACK_OVERVOLTAGE" ELSE "PACK_UNDERVOLTAGE"
  <2>1. condition \in BOOLEAN /\ fault \in Faults /\ RaiseIf(condition, fault)
    BY <1>4 DEF Fault_Checker, Faults
  <2> HIDE DEF condition, fault
  <2>2. /\ LatchTyped' /\ (mode' = "armed" => mode = "armed")
        /\ mode' = "safe" <=> mode = "safe"
    BY <1>0, <2>1, RaiseIfStep
  <2>3. under_voltage_error_count' \in 0..(COUNT_RANGE - 1)
    BY <1>0, <1>4, CountUpType DEF Fault_Checker
  <2>4. TypeOK'
    BY <1>0, <1>4, <2>2, <2>3 DEF TypeOK, LatchTyped, Fault_Checker, Running, timeout
  <2>5. CountIsLows'
    <3>1. State \in {"INITIAL", "PRECHARGING"} => State = "PRECHARGING"
      BY <1>0, <1>4 DEF Fault_Checker, Running, TypeOK
    <3>2. QED
      BY <1>4, <3>1 DEF Fault_Checker, CountUp
  <2>6. QED
    BY <1>4, <2>2, <2>4, <2>5 DEF Fault_Checker, Running
<1>5. CASE ActInitial
  <2>1. /\ LatchTyped'
        /\ mode' = "armed" => mode = "armed" /\ closed' = closed \union {"ARRAY"}
        /\ mode' = "safe" <=> mode = "safe"
        /\ closed' = closed \/ closed' = closed \union {"ARRAY"}
    BY <1>0, <1>5, CloseStep DEF ActInitial, Faults
  <2>2. TypeOK'
    BY <1>0, <1>5, <2>1 DEF TypeOK, LatchTyped, ActInitial, Step, Running,
                            States, debounce
  <2>3. QED
    BY <1>5, <2>1, <2>2 DEF ActInitial, Step, Running, debounce
<1>6. CASE PrechargeDone
  <2>1. /\ LatchTyped'
        /\ mode' = "armed" => mode = "armed" /\ closed' = closed \union {"ARRAY_PRE"}
        /\ mode' = "safe" <=> mode = "safe"
        /\ closed' = closed \/ closed' = closed \union {"ARRAY_PRE"}
    BY <1>0, <1>6, CloseStep DEF PrechargeDone, Faults
  <2>2. TypeOK'
    BY <1>0, <1>6, <2>1 DEF TypeOK, LatchTyped, PrechargeDone, Step, Running,
                            States, debounce
  <2>3. QED
    BY <1>6, <2>1, <2>2 DEF PrechargeDone, Step, Running, debounce
<1>7. CASE PrechargeTimesOut
  <2>1. /\ LatchTyped' /\ mode' # "armed"
        /\ mode' = "safe" <=> mode = "safe"
    BY <1>0, <1>7, RaiseStep DEF PrechargeTimesOut, Faults
  <2>2. TypeOK'
    BY <1>0, <1>7, <2>1 DEF TypeOK, LatchTyped, PrechargeTimesOut, Step,
                            Running, States, debounce, timeout
  <2>3. QED
    BY <1>7, <2>1, <2>2 DEF PrechargeTimesOut, Step, Running, debounce
<1>8. CASE KeepPrecharging
  BY <1>0, <1>8 DEF TypeOK, KeepPrecharging, Step, Running, latch, debounce, timeout
<1>9. CASE ActRun
  <2>1. /\ LatchTyped' /\ (mode' = "armed" => mode = "armed")
        /\ mode' = "safe" <=> mode = "safe"
    BY <1>0, <1>9, RaiseIfStep DEF ActRun, Faults
  <2>2. TypeOK'
    BY <1>0, <1>9, <2>1 DEF TypeOK, LatchTyped, ActRun, Step, Running, debounce,
                            timeout
  <2>3. QED
    BY <1>9, <2>1, <2>2 DEF ActRun, Step, Running, debounce
<1>10. CASE ActFault
  BY <1>0, <1>10 DEF TypeOK, ActFault, Step, Running, latch, debounce
<1>11. CASE TimerExpires
  BY <1>0, <1>11 DEF TypeOK, TimerExpires, latch, debounce
<1>12. CASE OtherTaskFaults
  BY <1>0, <1>12 DEF TypeOK, OtherTaskFaults, Latch!Trip, Faults, debounce, timeout
<1>13. CASE HandlerOpens
  BY <1>0, <1>13 DEF TypeOK, HandlerOpens, Latch!MakeSafe, debounce, timeout
<1>14. CASE UNCHANGED vars
  BY <1>0, <1>14 DEF TypeOK, vars, latch, debounce, timeout
<1>15. QED
  BY <1>1, <1>2, <1>3, <1>4, <1>5, <1>6, <1>7, <1>8, <1>9, <1>10, <1>11, <1>12,
     <1>13, <1>14 DEF Next, Pass, Act

-----------------------------------------------------------------------------
(* Every reachable state satisfies the invariant. *)
THEOREM PrechargeInvariant == Spec => []PrechargeInv
  BY PrechargeInit, PrechargeStep, PTL DEF Spec

(* The variables stay in their types; Fault_Checker never runs in the      *)
(* first state.                                                            *)
THEOREM TypeCorrect == Spec => []TypeOK
  BY PrechargeInvariant, PTL DEF PrechargeInv

(* Without a fault the precharge contactor closes only after the array     *)
(* contactor, and with the task in RUN, although the task waits for        *)
(* neither contactor_set.                                                  *)
THEOREM ContactorsInOrder == Spec => []ClosedInOrder
<1>1. PrechargeInv => ClosedInOrder
  BY DEF PrechargeInv, SequenceInOrder, ClosedInOrder
<1>2. QED
  BY <1>1, PrechargeInvariant, PTL

(* After the handler has opened the contactors at most one is closed       *)
(* again, at whatever point of a pass the fault came.                      *)
THEOREM OneContactorLate == Spec => []AtMostOneLate
<1>1. PrechargeInv => AtMostOneLate
  <2> SUFFICES ASSUME PrechargeInv, mode = "safe"
               PROVE  Cardinality(closed) <= 1
    BY DEF AtMostOneLate
  <2>1. closed = {} \/ \E c : closed = {c}
    BY DEF PrechargeInv, OneIsLate
  <2>2. Cardinality({}) = 0 /\ \A c : Cardinality({c}) = 1
    BY FS_EmptySet, FS_Singleton
  <2>3. QED
    BY <2>1, <2>2
<1>2. QED
  BY <1>1, PrechargeInvariant, PTL

(* While precharging, PACK_UNDERVOLTAGE becomes the cause only after more  *)
(* low readings in a row than the limit, though both counts are bytes.     *)
THEOREM UndervoltageIsDebounced == Spec => Debounced
<1>1. PrechargeInv /\ [Next]_vars =>
        [cause # "PACK_UNDERVOLTAGE" /\ cause' = "PACK_UNDERVOLTAGE" =>
           State # "PRECHARGING" \/ lows' > DEBOUNCE_LIMIT]_vars
  <2> SUFFICES ASSUME PrechargeInv, Next, cause # "PACK_UNDERVOLTAGE",
                      cause' = "PACK_UNDERVOLTAGE", State = "PRECHARGING"
               PROVE  lows' > DEBOUNCE_LIMIT
    BY DEF vars, latch
  <2>0. TypeOK /\ LatchTyped
    BY DEF PrechargeInv, TypeOK, LatchTyped
  <2>1. CASE Fault_Checker
    <3> DEFINE condition == TooHigh \/ Over \/
                 (Under /\ (State # "PRECHARGING" \/ CountUp > DEBOUNCE_LIMIT))
               fault == IF TooHigh THEN "ARRAY_GREATER_THAN_BATTERY"
                        ELSE IF Over THEN "PACK_OVERVOLTAGE" ELSE "PACK_UNDERVOLTAGE"
    <3>1. condition \in BOOLEAN /\ fault \in Faults /\ RaiseIf(condition, fault)
      BY <2>1 DEF Fault_Checker, Faults
    <3> HIDE DEF condition, fault
    <3>2. condition /\ fault = "PACK_UNDERVOLTAGE"
      BY <2>0, <3>1, RaiseIfStep
    <3> USE DEF condition, fault
    <3>3. Under /\ CountUp > DEBOUNCE_LIMIT
      BY <3>2
    <3>4. lows' = CountUp
      BY <2>1, <3>3 DEF Fault_Checker, CountUp, PrechargeInv, CountIsLows
    <3>5. QED
      BY <3>3, <3>4
  <2>2. CASE Init_PrechargeTask
    BY <2>0, <2>2, RaiseIfStep DEF Init_PrechargeTask, Faults
  <2>3. CASE Read_ADC
    BY <2>0, <2>3, RaiseStep DEF Read_ADC, Faults, latch
  <2>4. CASE ActInitial
    BY <2>0, <2>4, CloseStep DEF ActInitial, Faults
  <2>5. CASE PrechargeDone
    BY <2>0, <2>5, CloseStep DEF PrechargeDone, Faults
  <2>6. CASE PrechargeTimesOut
    BY <2>0, <2>6, RaiseStep DEF PrechargeTimesOut, Faults
  <2>7. CASE ActRun
    BY <2>7 DEF ActRun, Step
  <2>8. CASE Wake \/ KeepPrecharging \/ ActFault \/ TimerExpires
    BY <2>8 DEF Wake, KeepPrecharging, ActFault, TimerExpires, latch
  <2>9. CASE OtherTaskFaults \/ HandlerOpens
    BY <2>9 DEF OtherTaskFaults, HandlerOpens, Latch!Trip, Latch!MakeSafe
  <2>10. QED
    BY <2>1, <2>2, <2>3, <2>4, <2>5, <2>6, <2>7, <2>8, <2>9 DEF Next, Pass, Act
<1>2. QED
  BY <1>1, PrechargeInvariant, PTL DEF Spec, Debounced

(* RUN is entered on a whole reading that shows the array precharged, or   *)
(* with a fault already latched.                                           *)
THEOREM RunIsPrecharged == Spec => RunOnlyPrecharged
<1>1. PrechargeInv /\ [Next]_vars =>
        [State # "RUN" /\ State' = "RUN" =>
           (reading \in Readings /\ Precharged(90)) \/ mode # "armed"]_vars
  <2> SUFFICES ASSUME PrechargeInv, Next, State # "RUN", State' = "RUN", mode = "armed"
               PROVE  reading \in Readings /\ Precharged(90)
    BY DEF vars
  <2>1. CASE PrechargeDone
    BY <2>1 DEF PrechargeDone, Step, Running, PrechargeInv, ReadingIsWhole
  <2>2. CASE ~PrechargeDone
    BY <2>2 DEF Next, Pass, Act, Init_PrechargeTask, Wake, Read_ADC, Fault_Checker,
       ActInitial, PrechargeTimesOut, KeepPrecharging, ActRun, ActFault,
       TimerExpires, OtherTaskFaults, HandlerOpens
  <2>3. QED
    BY <2>1, <2>2
<1>2. QED
  BY <1>1, PrechargeInvariant, PTL DEF Spec, RunOnlyPrecharged
=============================================================================
