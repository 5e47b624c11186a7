---------------------- MODULE TemperatureMonitorProofs ----------------------
(* Theorems about TemperatureMonitor, for any number of taps, any set of   *)
(* temperatures, any thresholds and any range of the histogram's entries.  *)
EXTENDS TemperatureMonitor, TLAPS

USE TemperatureAssumption

(* Only a tap that has sent a message can be too hot, so the entry counted *)
(* up is its own.                                                          *)
SilentIsZero == \A t \in Taps : t \notin heard => data[t] = 0

(* A tap that is too hot has sent a message: its entry is its own.         *)
LEMMA HotIsHeard ==
  ASSUME TypeOK, SilentIsZero, NEW t \in Taps, TooHot(t)
  PROVE  BPS_Tap_idx(t) = t
<1>1. get_temp_threshold \in Nat
  BY DEF get_temp_threshold
<1>2. data[t] # 0
  BY <1>1 DEF TooHot
<1>3. QED
  BY <1>2 DEF SilentIsZero, BPS_Tap_idx

(* An entry of the histogram is an index, one byte and its successor too.  *)
LEMMA EntryType ==
  ASSUME TypeOK, NEW t \in Taps
  PROVE  /\ BPS_Tap_idx(t) \in Taps
         /\ histogram[t] \in 0..(HISTOGRAM_RANGE - 1)
         /\ (histogram[t] + 1) % HISTOGRAM_RANGE \in 0..(HISTOGRAM_RANGE - 1)
         /\ (histogram[t] + 1) % HISTOGRAM_RANGE <= histogram[t] + 1
<1>1. BPS_Tap_idx(t) \in Taps
  BY DEF BPS_Tap_idx, Taps
<1>2. histogram[t] \in 0..(HISTOGRAM_RANGE - 1)
  BY DEF TypeOK
<1>3. HISTOGRAM_RANGE \in Nat \ {0}
  OBVIOUS
<1>4. QED
  BY <1>1, <1>2, <1>3

(* The histogram never counts further than the checks in a row that found  *)
(* the tap too hot: a wrap of the byte only makes it smaller.              *)
CountIsStreak ==
  \A t \in Taps : histogram[t] <= streak[t] \/ streak[t] = OTEMP_FAULT_THRESHOLD

(* The entry of a tap not heard of is not in use, but for entry 0.         *)
SilentNotCounted == \A t \in Taps \ {0} : t \notin heard => histogram[t] = 0

(* Until the fault is raised no count of a tap other than tap 0 is short.  *)
CountIsComplete ==
  ~overtemp => \A t \in Taps \ {0} :
    /\ streak[t] <= histogram[t] /\ histogram[t] < OTEMP_FAULT_THRESHOLD
    /\ t \notin tripped

BlameIsVerdict == overtemp <=> mod_fault_num # NoModule

CheckInv ==
  /\ TypeOK
  /\ SilentIsZero
  /\ CountIsStreak
  /\ SilentNotCounted
  /\ CountIsComplete
  /\ BlameIsVerdict
  /\ OvertempIsOneTap

(* The initial state satisfies the invariant. *)
LEMMA CheckInit == Init => CheckInv
<1> SUFFICES ASSUME Init PROVE CheckInv
  OBVIOUS
<1>1. /\ data \in [Taps -> Temperatures \union {0}]
      /\ histogram \in [Taps -> 0..(HISTOGRAM_RANGE - 1)]
      /\ streak \in [Taps -> 0..OTEMP_FAULT_THRESHOLD]
      /\ messages \in [Taps -> 0..2]
  BY DEF Init
<1>2. i \in 0..NUM_TEMPERATURE_SENSORS
  BY DEF Init
<1>3. TypeOK
  BY <1>1, <1>2 DEF Init, TypeOK
<1>4. SilentIsZero /\ CountIsStreak /\ SilentNotCounted /\ CountIsComplete
  BY DEF Init, SilentIsZero, CountIsStreak, SilentNotCounted, CountIsComplete
<1>5. BlameIsVerdict /\ OvertempIsOneTap
  BY DEF Init, BlameIsVerdict, OvertempIsOneTap
<1>6. QED
  BY <1>3, <1>4, <1>5 DEF CheckInv

(* Every step keeps the invariant. *)
LEMMA CheckStep == CheckInv /\ [Next]_vars => CheckInv'
<1> SUFFICES ASSUME CheckInv, [Next]_vars
             PROVE  CheckInv'
  OBVIOUS
<1>0. TypeOK
  BY DEF CheckInv
<1>1. ASSUME NEW t \in Taps, NEW mc \in Temperatures, NEW ok \in BOOLEAN,
             Receive(t, mc, ok)
      PROVE  CheckInv'
  <2>1. messages' \in [Taps -> 0..2]
    BY <1>0, <1>1 DEF TypeOK, Receive, Saturated
  <2>2. TypeOK'
    BY <1>0, <1>1, <2>1 DEF TypeOK, Receive, bits, verdict, locals
  <2>3. QED
    BY <1>0, <1>1, <2>2 DEF CheckInv, TypeOK, SilentIsZero, CountIsStreak,
       SilentNotCounted, CountIsComplete, BlameIsVerdict, OvertempIsOneTap,
       Receive, verdict
<1>2. CASE BeginChecks
  BY <1>2 DEF CheckInv, TypeOK, SilentIsZero, CountIsStreak, SilentNotCounted,
     CountIsComplete, BlameIsVerdict, OvertempIsOneTap, BeginChecks, taps, bits, verdict, locals,
     history
<1>3. ASSUME Checking
      PROVE  /\ i \in Taps
             /\ i' \in 0..NUM_TEMPERATURE_SENSORS
             /\ max_temp' \in Temperatures \union {0}
  BY <1>0, <1>3 DEF Checking, TypeOK, Taps
<1>4. CASE CheckHot
  <2>1. i \in Taps /\ BPS_Tap_idx(i) = i
    BY <1>0, <1>3, <1>4, HotIsHeard DEF CheckHot, CheckInv
  <2>2. /\ Counted \in 0..(HISTOGRAM_RANGE - 1)
        /\ Counted <= histogram[i] + 1
        /\ histogram' = [histogram EXCEPT ![i] = Counted]
    BY <1>0, <1>4, <2>1, EntryType DEF CheckHot, Counted
  <2>3. /\ streak' \in [Taps -> 0..OTEMP_FAULT_THRESHOLD]
        /\ streak' = [streak EXCEPT ![i] = streak'[i]]
        /\ streak'[i] = streak[i] + 1 \/ streak'[i] = OTEMP_FAULT_THRESHOLD
    BY <1>0, <1>4, <2>1 DEF CheckHot, Saturated, TypeOK
  <2>4. CountIsStreak'
    <3>1. Counted <= streak'[i] \/ streak'[i] = OTEMP_FAULT_THRESHOLD
      BY <1>0, <2>1, <2>2, <2>3, EntryType DEF CheckInv, CountIsStreak, TypeOK
    <3>2. QED
      BY <1>0, <2>1, <2>2, <2>3, <3>1 DEF CheckInv, CountIsStreak, TypeOK
  <2>5. SilentIsZero' /\ SilentNotCounted'
    BY <1>0, <1>4, <2>1, <2>2 DEF CheckInv, TypeOK, SilentIsZero,
       SilentNotCounted, CheckHot, Checking, TooHot, BPS_Tap_idx
  <2>6. /\ tripped \subseteq tripped' /\ tripped' \subseteq Taps
        /\ streak'[i] = OTEMP_FAULT_THRESHOLD => i \in tripped'
    BY <1>0, <1>4, <2>1 DEF CheckHot, TypeOK
  <2>7. CASE Counted >= OTEMP_FAULT_THRESHOLD
    <3>1. /\ overtemp' = TRUE /\ all_temp_good' = FALSE
          /\ mod_fault_num' = IF mod_fault_num = NoModule THEN i ELSE mod_fault_num
      BY <1>4, <2>1, <2>2, <2>7 DEF CheckHot, latch_mod_fault
    <3>2. i \in tripped'
      BY <1>0, <2>1, <2>2, <2>3, <2>4, <2>6, <2>7 DEF CountIsStreak, TypeOK
    <3>3. i # NoModule
      BY <2>1 DEF Taps, NoModule
    <3>4. BlameIsVerdict' /\ OvertempIsOneTap' /\ mod_fault_num' \in Taps \union {NoModule}
      BY <1>0, <2>1, <2>6, <3>1, <3>2, <3>3
         DEF CheckInv, TypeOK, BlameIsVerdict, OvertempIsOneTap, NoModule
    <3>5. /\ overtemp' \in BOOLEAN /\ all_temp_good' \in BOOLEAN
          /\ mod_fault_num' \in Taps \union {NoModule}
      BY <3>1, <3>4
    <3>6. histogram' \in [Taps -> 0..(HISTOGRAM_RANGE - 1)]
      BY <1>0, <2>2 DEF TypeOK
    <3>7. TypeOK'
      BY <1>0, <1>3, <1>4, <2>1, <2>3, <2>6, <3>5, <3>6
         DEF CheckHot, Checking, TypeOK, bits
    <3>8. CountIsComplete'
      BY <3>1 DEF CountIsComplete
    <3>9. QED
      BY <2>4, <2>5, <3>4, <3>7, <3>8 DEF CheckInv
  <2>8. CASE ~(Counted >= OTEMP_FAULT_THRESHOLD)
    <3>1. UNCHANGED <<verdict, all_temp_good>>
      BY <1>4, <2>8 DEF CheckHot
    <3>2. BlameIsVerdict' /\ OvertempIsOneTap'
      BY <2>6, <3>1 DEF CheckInv, BlameIsVerdict, OvertempIsOneTap, verdict
    <3>3. TypeOK'
      BY <1>0, <1>3, <1>4, <2>1, <2>2, <2>3, <2>6, <3>1
         DEF CheckHot, Checking, TypeOK, bits, verdict
    <3>4. ASSUME ~overtemp', NEW t \in Taps \ {0}
          PROVE  /\ streak'[t] <= histogram'[t]
                 /\ histogram'[t] < OTEMP_FAULT_THRESHOLD
                 /\ t \notin tripped'
      <4>1. /\ streak[t] <= histogram[t] /\ histogram[t] < OTEMP_FAULT_THRESHOLD
            /\ t \notin tripped
        BY <3>1, <3>4 DEF CheckInv, CountIsComplete, verdict
      <4>2. CASE t # i
        BY <1>0, <1>4, <2>1, <2>2, <2>3, <4>1, <4>2 DEF CheckHot, TypeOK
      <4>3. CASE t = i
        <5>1. histogram[i] \in Nat /\ histogram[i] + 1 < HISTOGRAM_RANGE
          BY <1>0, <4>1, <4>3 DEF TypeOK
        <5>2. Counted = histogram[i] + 1
          BY <2>1, <5>1 DEF Counted
        <5>3. streak[i] \in Nat /\ streak[i] < OTEMP_FAULT_THRESHOLD
          BY <1>0, <2>1, <4>1, <4>3 DEF TypeOK
        <5>4. streak'[i] = streak[i] + 1 /\ histogram'[i] = Counted
          BY <1>0, <1>4, <2>1, <2>2, <5>3 DEF CheckHot, Saturated, TypeOK
        <5>5. streak'[i] <= Counted /\ Counted < OTEMP_FAULT_THRESHOLD
          BY <2>8, <4>1, <4>3, <5>1, <5>2, <5>3, <5>4
        <5>6. streak'[i] # OTEMP_FAULT_THRESHOLD
          BY <5>1, <5>2, <5>3, <5>4, <5>5
        <5>7. i \notin tripped'
          BY <1>4, <4>1, <4>3, <5>6 DEF CheckHot
        <5>8. QED
          BY <4>3, <5>4, <5>5, <5>7
      <4>4. QED
        BY <4>2, <4>3
    <3>5. QED
      BY <2>4, <2>5, <3>2, <3>3, <3>4 DEF CheckInv, CountIsComplete
  <2>9. QED
    BY <2>7, <2>8
<1>5. CASE CheckCool
  <2>1. i \in Taps /\ BPS_Tap_idx(i) \in Taps
    BY <1>0, <1>3, <1>5, EntryType DEF CheckCool
  <2>2. /\ histogram' = [histogram EXCEPT ![BPS_Tap_idx(i)] = 0]
        /\ streak' = [streak EXCEPT ![i] = 0]
        /\ heard' = heard /\ data' = data
    BY <1>5 DEF CheckCool, Checking
  <2>3. TypeOK'
    BY <1>0, <1>3, <1>5, <2>1 DEF CheckCool, Checking, TypeOK, bits, verdict
  <2>4. CountIsStreak'
    <3>1. histogram'[i] = 0
      BY <1>0, <2>1, <2>2 DEF CheckInv, TypeOK, SilentNotCounted, BPS_Tap_idx
    <3>2. QED
      BY <1>0, <2>1, <2>2, <2>3, <3>1 DEF CheckInv, CountIsStreak, TypeOK
  <2>5. SilentIsZero' /\ SilentNotCounted' /\ CountIsComplete'
    <3>1. histogram'[i] = 0 /\ streak'[i] = 0
      BY <1>0, <2>1, <2>2 DEF CheckInv, TypeOK, SilentNotCounted, BPS_Tap_idx
    <3>2. \A t \in Taps \ {0} : t # i => histogram'[t] = histogram[t] /\ streak'[t] = streak[t]
      BY <1>0, <2>1, <2>2 DEF TypeOK, BPS_Tap_idx
    <3>3. overtemp' = overtemp /\ tripped' = tripped
      BY <1>5 DEF CheckCool, verdict
    <3>4. SilentIsZero' /\ SilentNotCounted'
      BY <1>0, <2>1, <2>2 DEF CheckInv, TypeOK, SilentIsZero, SilentNotCounted
    <3>5. CountIsComplete'
      BY <3>1, <3>2, <3>3 DEF CheckInv, CountIsComplete
    <3>6. QED
      BY <3>4, <3>5
  <2>6. BlameIsVerdict' /\ OvertempIsOneTap'
    BY <1>5 DEF CheckInv, BlameIsVerdict, OvertempIsOneTap, CheckCool, verdict
  <2>7. QED
    BY <2>3, <2>4, <2>5, <2>6 DEF CheckInv
<1>6. CASE EndPass
  <2>1. i' \in 0..NUM_TEMPERATURE_SENSORS /\ max_temp' \in Temperatures \union {0}
    BY <1>6 DEF EndPass
  <2>2. TypeOK'
    BY <1>0, <1>6, <2>1 DEF TypeOK, EndPass, taps, verdict, history
  <2>3. QED
    BY <1>6, <2>2 DEF CheckInv, SilentIsZero, CountIsStreak, SilentNotCounted,
       CountIsComplete, BlameIsVerdict, OvertempIsOneTap, EndPass, taps, verdict, history
<1>7. CASE ChargingChanges
  BY <1>7 DEF CheckInv, TypeOK, SilentIsZero, CountIsStreak, SilentNotCounted,
     CountIsComplete, BlameIsVerdict, OvertempIsOneTap, ChargingChanges, taps, verdict, locals,
     history
<1>8. CASE UNCHANGED vars
  BY <1>8 DEF vars, CheckInv, TypeOK, SilentIsZero, CountIsStreak,
     SilentNotCounted, CountIsComplete, BlameIsVerdict, OvertempIsOneTap, taps, bits, verdict,
     locals, history
<1>9. QED
  BY <1>1, <1>2, <1>4, <1>5, <1>6, <1>7, <1>8 DEF Next

-----------------------------------------------------------------------------
(* Every reachable state satisfies the invariant. *)
THEOREM CheckInvariant == Spec => []CheckInv
  BY CheckInit, CheckStep, PTL DEF Spec

(* The variables stay in their ranges; in particular an entry of the       *)
(* histogram stays a byte and the loop inside the arrays.                  *)
THEOREM TypeCorrect == Spec => []TypeOK
  BY CheckInvariant, PTL DEF CheckInv

(* CELL_OVERTEMP_FAULT is raised, and blames its module, only for a tap    *)
(* that was too hot in OTEMP_FAULT_THRESHOLD checks in a row, although     *)
(* taps not heard of share entry 0 of the histogram and its bytes wrap.    *)
THEOREM OvertempBlamesItsTap == Spec => []OvertempIsOneTap
  BY CheckInvariant, PTL DEF CheckInv

(* And it is raised for every such tap but tap 0, before the byte of its   *)
(* count could wrap.                                                       *)
THEOREM EveryHotTapIsReported == Spec => []HotTapIsReported
<1>1. CheckInv => HotTapIsReported
  BY DEF CheckInv, TypeOK, CountIsComplete, HotTapIsReported
<1>2. QED
  BY <1>1, CheckInvariant, PTL
=============================================================================
