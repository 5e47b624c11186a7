------------------------ MODULE VoltageMonitorProofs ------------------------
(* Theorems about VoltageMonitor and the watchdog it is composed with, for *)
(* any number of taps and segments and any set of voltages.                *)
EXTENDS VoltageMonitor, WellFoundedInduction, TLAPS

USE TapAssumption, VoltageAssumption

(* A set of numbers that is not empty has a smallest member. *)
LEMMA SmallestExists ==
  ASSUME NEW S \in SUBSET Nat, S # {}
  PROVE  \E m \in S : \A n \in S : m <= n
<1> DEFINE Less == {p \in Nat \X Nat : p[1] < p[2]}
<1>1. IsWellFoundedOn(Less, Nat)
  BY NatLessThanWellFounded DEF OpToRel
<1>2. PICK m \in S : \A n \in S : <<n, m>> \notin Less
  BY <1>1, WFMin, Zenon
<1>3. \A n \in S : ~(n < m)
  BY <1>2
<1>4. QED
  BY <1>3

(* The module a watchdog blames is one of the silent taps.                 *)
LEMMA BlamedTapIsSilent ==
  ASSUME NEW bitmap \in SUBSET Taps, bitmap # Taps
  PROVE  get_mod_fault_num(bitmap) \in Taps \ bitmap
<1>1. Taps \ bitmap \in SUBSET Nat
  BY DEF Taps
<1>2. Taps \ bitmap # {}
  <2>1. PICK t : t \in Taps /\ t \notin bitmap
    OBVIOUS
  <2>2. QED
    BY <2>1
<1>3. \E t \in Taps \ bitmap : \A u \in Taps \ bitmap : t <= u
  BY <1>1, <1>2, SmallestExists
<1>4. QED
  BY <1>3 DEF get_mod_fault_num

(* Every tap belongs to a segment CAN status reports on.                   *)
LEMMA TapHasSegment ==
  ASSUME NEW t \in Taps
  PROVE  \E s \in Segments : t \in InSegment(s)
<1>1. t \in Nat /\ t <= NUM_TAPS - 1 /\ NUM_TAPS - 1 \in Nat
  BY DEF Taps
<1>2. t \div MODULES_PER_SEGMENT \in Segments
  BY <1>1 DEF Segments
<1>3. QED
  BY <1>2 DEF InSegment

-----------------------------------------------------------------------------
(* What the watchdog keeps: the module blamed is one of those the first to *)
(* blame any had found, and a fault raised leaves its trace in the exposed *)
(* bitmap and in the module.                                               *)
BlameIsGuilty ==
  /\ guilty = {} <=> mod_fault_num = NoModule
  /\ guilty # {} => mod_fault_num \in guilty
FaultIsExposed == watchdog_fault <=> exposed_watchdog_bitmap # Taps
FaultHasModule == watchdog_fault => guilty # {}

WatchdogInv == WatchdogTypeOK /\ BlameIsGuilty /\ FaultIsExposed /\ FaultHasModule

(* Nobody is blamed at first. *)
LEMMA WatchdogInitial == WatchdogInit => WatchdogInv
  BY DEF WatchdogInit, WatchdogInv, WatchdogTypeOK, BlameIsGuilty,
         FaultIsExposed, FaultHasModule, NoModule, Taps

(* A message changes only the bitmap. *)
LEMMA HearStep ==
  ASSUME WatchdogInv, NEW t \in Taps, Hear(t)
  PROVE  WatchdogInv' /\ guilty' = guilty
  BY DEF Hear, blame, WatchdogInv, WatchdogTypeOK, BlameIsGuilty,
         FaultIsExposed, FaultHasModule

(* After a check blames a module, some module is guilty. *)
LEMMA BlameStep ==
  ASSUME WatchdogInv, NEW m \in Taps, Blame(m)
  PROVE  WatchdogInv' /\ guilty' # {}
<1>1. m # NoModule
  BY DEF NoModule, Taps
<1>2. QED
  BY <1>1 DEF Blame, bitmaps, latch_mod_fault, FirstBlame, WatchdogInv,
              WatchdogTypeOK, BlameIsGuilty, FaultIsExposed, FaultHasModule

(* The callback blames a silent tap or nobody, and absolves no module.     *)
LEMMA CallbackStep ==
  ASSUME WatchdogInv, WatchdogCallback
  PROVE  WatchdogInv' /\ (guilty # {} => guilty' # {})
<1>1. CASE watchdog_bitmap = Taps
  BY <1>1 DEF WatchdogCallback, blame, WatchdogInv, WatchdogTypeOK,
              BlameIsGuilty, FaultIsExposed, FaultHasModule
<1>2. CASE watchdog_bitmap # Taps
  <2> DEFINE m == get_mod_fault_num(watchdog_bitmap)
             silent == Taps \ watchdog_bitmap
  <2>1. m \in silent /\ silent \subseteq Taps
    BY <1>2, BlamedTapIsSilent DEF WatchdogInv, WatchdogTypeOK
  <2>2. m # NoModule
    BY <2>1 DEF NoModule, Taps
  <2>3. /\ exposed_watchdog_bitmap' = watchdog_bitmap
        /\ mod_fault_num' = IF mod_fault_num = NoModule THEN m ELSE mod_fault_num
        /\ guilty' = IF guilty = {} THEN silent ELSE guilty
        /\ watchdog_fault' = TRUE
        /\ watchdog_bitmap' = {}
    BY <1>2 DEF WatchdogCallback, latch_mod_fault, FirstBlame
  <2> HIDE DEF m, silent
  <2>4. QED
    BY <1>2, <2>1, <2>2, <2>3 DEF WatchdogInv, WatchdogTypeOK, BlameIsGuilty,
                                  FaultIsExposed, FaultHasModule
<1>3. QED
  BY <1>1, <1>2

-----------------------------------------------------------------------------
(* What the pass knows about the taps.  A tap not heard of still has 0,    *)
(* which is too low; so a pass that has found nothing wrong has heard of   *)
(* every tap it has looked at.  What a check found is marked until the     *)
(* next message of the tap.                                                *)
SilentIsZero == \A t \in Taps : t \notin heard => data[t] = 0
GoodSoFar == all_voltage_good => \A t \in Taps : t < i => t \in heard
CheckedIsMarked ==
  \A t \in Taps \ unchecked :
    /\ High(data[t]) => t \in tap_fault /\ "CELL_OVERVOLTAGE" \in raised
    /\ Low(data[t])  => t \in tap_fault /\ "CELL_UNDERVOLTAGE" \in raised
OvervoltageHasModule == "CELL_OVERVOLTAGE" \in raised => guilty # {}

MonitorInv ==
  /\ TypeOK
  /\ WatchdogInv
  /\ SilentIsZero
  /\ GoodSoFar
  /\ CheckedIsMarked
  /\ OvervoltageHasModule
  /\ GoodIsMeasured

(* The initial state satisfies the invariant. *)
LEMMA MonitorInit == Init => MonitorInv
<1> SUFFICES ASSUME Init PROVE MonitorInv
  OBVIOUS
<1>1. WatchdogInv
  BY WatchdogInitial DEF Init
<1>2. TypeOK
  <2>1. WatchdogTypeOK /\ data \in [Taps -> Voltages \union {0}]
    BY <1>1 DEF Init, WatchdogInv
  <2>2. tap_fault \subseteq Taps /\ heard \subseteq Taps /\ unchecked \subseteq Taps
    BY DEF Init
  <2>3. i \in 0..NUM_TAPS
    BY DEF Init
  <2>4. QED
    BY <2>1, <2>2, <2>3 DEF Init, TypeOK
<1>3. SilentIsZero /\ CheckedIsMarked /\ OvervoltageHasModule /\ GoodIsMeasured
  BY DEF Init, SilentIsZero, CheckedIsMarked, OvervoltageHasModule, GoodIsMeasured
<1>4. GoodSoFar
  BY DEF Init, GoodSoFar, Taps
<1>5. QED
  BY <1>1, <1>2, <1>3, <1>4 DEF MonitorInv

(* One round of the checking loop, whatever it finds, keeps what does not  *)
(* depend on the verdict.                                                  *)
LEMMA CheckingStep ==
  ASSUME MonitorInv, Checking
  PROVE  /\ i \in Taps
         /\ i' \in 0..NUM_TAPS
         /\ max_voltage' \in Voltages \union {0}
         /\ \A t \in Taps : t < i' => t = i \/ t < i
         /\ SilentIsZero' /\ GoodIsMeasured'
         /\ \A t \in Taps \ unchecked' : t = i \/ t \in Taps \ unchecked
<1>1. i \in Taps
  BY DEF Checking
<1>2. i' \in 0..NUM_TAPS /\ \A t \in Taps : t < i' => t = i \/ t < i
  BY <1>1 DEF Checking, Taps
<1>3. max_voltage' \in Voltages \union {0}
  BY <1>1 DEF Checking, MonitorInv, TypeOK
<1>4. SilentIsZero' /\ GoodIsMeasured'
  BY DEF Checking, MonitorInv, SilentIsZero, GoodIsMeasured, bits
<1>5. QED
  BY <1>1, <1>2, <1>3, <1>4 DEF Checking

(* Every step keeps the invariant. *)
LEMMA MonitorStep == MonitorInv /\ [Next]_vars => MonitorInv'
<1> SUFFICES ASSUME MonitorInv, [Next]_vars
             PROVE  MonitorInv'
  OBVIOUS
<1>1. ASSUME NEW t \in Taps, NEW mv \in Voltages, NEW ok \in BOOLEAN,
             Receive(t, mv, ok)
      PROVE  MonitorInv'
  <2>1. WatchdogInv' /\ guilty' = guilty
    BY <1>1, HearStep DEF Receive, MonitorInv
  <2>2. TypeOK'
    BY <1>1, <2>1 DEF MonitorInv, TypeOK, WatchdogInv, Receive, bits, locals
  <2>3. SilentIsZero' /\ GoodSoFar' /\ GoodIsMeasured' /\ OvervoltageHasModule'
    BY <1>1, <2>1 DEF MonitorInv, TypeOK, SilentIsZero, GoodSoFar,
       GoodIsMeasured, OvervoltageHasModule, Receive, bits, locals
  <2>4. CheckedIsMarked'
    BY <1>1 DEF MonitorInv, TypeOK, CheckedIsMarked, High, Low, Receive
  <2>5. QED
    BY <2>1, <2>2, <2>3, <2>4 DEF MonitorInv
<1>2. CASE BeginChecks
  BY <1>2 DEF MonitorInv, WatchdogInv, TypeOK, WatchdogTypeOK, BlameIsGuilty,
     FaultIsExposed, FaultHasModule, SilentIsZero, GoodSoFar, CheckedIsMarked,
     OvervoltageHasModule, GoodIsMeasured, High, Low, BeginChecks, taps, bits,
     locals, history, wdVars, bitmaps, blame
<1>3. CASE CheckHigh
  <2>1. Checking /\ i \in Taps
    BY <1>3 DEF CheckHigh, Checking
  <2>2. WatchdogInv' /\ guilty' # {}
    BY <1>3, <2>1, BlameStep DEF CheckHigh, MonitorInv
  <2>3. TypeOK'
    BY <1>3, <2>1, <2>2, CheckingStep DEF MonitorInv, TypeOK, WatchdogInv,
       CheckHigh, Checking, OutOfRange, bits
  <2>4. GoodSoFar' /\ OvervoltageHasModule'
    BY <1>3, <2>2 DEF GoodSoFar, OvervoltageHasModule, CheckHigh, OutOfRange
  <2>5. ~Low(data[i])
    <3>1. data[i] \in Voltages \union {0}
      BY <2>1 DEF MonitorInv, TypeOK
    <3>2. data[i] \in Nat
      <4>1. 0 \in Nat
        OBVIOUS
      <4>2. QED
        BY <3>1, <4>1, Zenon
    <3>3. data[i] > CELL_OVERVOLTAGE_THRESHOLD_MV
      BY <1>3 DEF CheckHigh, High
    <3>4. QED
      BY <3>2, <3>3 DEF Low
  <2>6. CheckedIsMarked'
    BY <1>3, <2>1, <2>5, CheckingStep DEF MonitorInv, CheckedIsMarked, CheckHigh,
       Checking, OutOfRange, High, Low
  <2>7. QED
    BY <2>1, <2>2, <2>3, <2>4, <2>6, CheckingStep DEF MonitorInv
<1>4. CASE CheckLow
  <2>1. Checking /\ i \in Taps
    BY <1>4 DEF CheckLow, Checking
  <2>2. WatchdogInv' /\ guilty' = guilty
    BY <1>4 DEF CheckLow, MonitorInv, WatchdogInv, WatchdogTypeOK, BlameIsGuilty,
       FaultIsExposed, FaultHasModule, wdVars, bitmaps, blame
  <2>3. TypeOK'
    BY <1>4, <2>1, <2>2, CheckingStep DEF MonitorInv, TypeOK, WatchdogInv,
       CheckLow, Checking, OutOfRange, bits
  <2>4. GoodSoFar' /\ OvervoltageHasModule'
    BY <1>4, <2>2 DEF MonitorInv, GoodSoFar, OvervoltageHasModule, CheckLow,
       OutOfRange
  <2>5. CheckedIsMarked'
    BY <1>4, <2>1, CheckingStep DEF MonitorInv, CheckedIsMarked, CheckLow,
       Checking, OutOfRange, High, Low
  <2>6. QED
    BY <2>1, <2>2, <2>3, <2>4, <2>5, CheckingStep DEF MonitorInv
<1>5. CASE CheckInRange
  <2>1. Checking /\ i \in Taps
    BY <1>5 DEF CheckInRange, Checking
  <2>2. WatchdogInv' /\ guilty' = guilty
    BY <1>5 DEF CheckInRange, MonitorInv, WatchdogInv, WatchdogTypeOK,
       BlameIsGuilty, FaultIsExposed, FaultHasModule, wdVars, bitmaps, blame
  <2>3. TypeOK'
    BY <1>5, <2>1, <2>2, CheckingStep DEF MonitorInv, TypeOK, WatchdogInv,
       CheckInRange, Checking, bits
  <2>4. i \in heard
    BY <1>5, <2>1 DEF MonitorInv, SilentIsZero, CheckInRange, Low
  <2>5. GoodSoFar' /\ OvervoltageHasModule'
    BY <1>5, <2>1, <2>2, <2>4, CheckingStep DEF MonitorInv, GoodSoFar,
       OvervoltageHasModule, CheckInRange, Checking
  <2>6. CheckedIsMarked'
    BY <1>5, <2>1, CheckingStep DEF MonitorInv, CheckedIsMarked, CheckInRange,
       Checking, High, Low
  <2>7. QED
    BY <2>1, <2>2, <2>3, <2>5, <2>6, CheckingStep DEF MonitorInv
<1>6. CASE EndPass
  <2>1. WatchdogInv' /\ guilty' = guilty
    BY <1>6 DEF EndPass, MonitorInv, WatchdogInv, WatchdogTypeOK, BlameIsGuilty,
       FaultIsExposed, FaultHasModule, wdVars, bitmaps, blame
  <2>2. i' \in 0..NUM_TAPS /\ max_voltage' \in Voltages \union {0}
    BY <1>6 DEF EndPass
  <2>3. TypeOK'
    BY <1>6, <2>1, <2>2 DEF MonitorInv, TypeOK, WatchdogInv, EndPass, taps, history
  <2>4. GoodSoFar'
    BY <1>6 DEF EndPass, GoodSoFar, Taps
  <2>5. ASSUME all_voltage_good
        PROVE  heard = Taps
    <3>1. heard \subseteq Taps
      BY DEF MonitorInv, TypeOK
    <3>2. \A t \in Taps : t < i
      BY <1>6 DEF EndPass, Taps
    <3>3. Taps \subseteq heard
      BY <2>5, <3>2 DEF MonitorInv, GoodSoFar
    <3>4. QED
      BY <3>1, <3>3
  <2>6. GoodIsMeasured'
    BY <1>6, <2>5 DEF EndPass, MonitorInv, GoodIsMeasured, history
  <2>7. SilentIsZero' /\ CheckedIsMarked' /\ OvervoltageHasModule'
    BY <1>6, <2>1 DEF EndPass, MonitorInv, SilentIsZero, CheckedIsMarked,
       OvervoltageHasModule, High, Low, taps, history
  <2>8. QED
    BY <2>1, <2>3, <2>4, <2>6, <2>7 DEF MonitorInv
<1>7. ASSUME WatchdogInv', guilty # {} => guilty' # {}, UNCHANGED monVars
      PROVE  MonitorInv'
  BY <1>7 DEF MonitorInv, WatchdogInv, TypeOK, SilentIsZero, GoodSoFar,
     CheckedIsMarked, OvervoltageHasModule, GoodIsMeasured, High, Low, monVars,
     taps, bits, locals, history
<1>8. CASE WatchdogCallback /\ UNCHANGED monVars
  BY <1>7, <1>8, CallbackStep DEF MonitorInv
<1>9. ASSUME NEW m \in Taps, Blame(m), UNCHANGED monVars
      PROVE  MonitorInv'
  BY <1>7, <1>9, BlameStep DEF MonitorInv
<1>10. CASE UNCHANGED vars
  <2>1. WatchdogInv' /\ guilty' = guilty
    BY <1>10 DEF vars, MonitorInv, WatchdogInv, WatchdogTypeOK, BlameIsGuilty,
       FaultIsExposed, FaultHasModule, wdVars, bitmaps, blame
  <2>2. QED
    BY <1>7, <1>10, <2>1 DEF vars
<1>11. QED
  BY <1>1, <1>2, <1>3, <1>4, <1>5, <1>6, <1>8, <1>9, <1>10 DEF Next

-----------------------------------------------------------------------------
(* Every reachable state is well-typed and satisfies the invariant.        *)
THEOREM MonitorInvariant == Spec => []MonitorInv
  BY MonitorInit, MonitorStep, PTL DEF Spec

(* The values, bitmaps and loop variables stay in their ranges.            *)
THEOREM TypeCorrect == Spec => []TypeOK
  BY MonitorInvariant, PTL DEF MonitorInv

(* VOLTAGE_MONITOR_GOOD, on which Task_Init closes the contactors, is set  *)
(* only after every tap of the pack has sent a message, because a tap that *)
(* has not still shows an undervoltage.                                    *)
THEOREM GoodOnlyIfMeasured == Spec => []GoodIsMeasured
  BY MonitorInvariant, PTL DEF MonitorInv

(* A checked tap that is out of range shows in the status of its segment,  *)
(* whatever messages the other taps send.                                  *)
THEOREM OutOfRangeIsShown == Spec => []RangeIsShown
<1>1. MonitorInv => RangeIsShown
  BY DEF MonitorInv, CheckedIsMarked, RangeIsShown, get_volt_segment_status,
         InSegment
<1>2. QED
  BY <1>1, MonitorInvariant, PTL

(* The module CAN status shows is one that the first to blame any module   *)
(* had found at fault, for any number of taps and any order of checks,     *)
(* watchdogs and monitors.                                                 *)
THEOREM BlamedModuleIsGuilty == Spec => []ModuleIsGuilty
<1>1. MonitorInv => ModuleIsGuilty
  BY DEF MonitorInv, WatchdogInv, BlameIsGuilty, FaultHasModule,
         OvervoltageHasModule, ModuleIsGuilty
<1>2. QED
  BY <1>1, MonitorInvariant, PTL

(* A fault of the watchdog shows in some segment for ever.                 *)
THEOREM WatchdogFaultIsShown == Spec => []FaultStaysVisible
<1>1. MonitorInv => FaultStaysVisible
  <2> SUFFICES ASSUME MonitorInv PROVE FaultStaysVisible
    OBVIOUS
  <2>1. /\ exposed_watchdog_bitmap \subseteq Taps
        /\ watchdog_fault <=> exposed_watchdog_bitmap # Taps
    BY DEF MonitorInv, WatchdogInv, WatchdogTypeOK, FaultIsExposed
  <2>2. ASSUME watchdog_fault
        PROVE  \E s \in Segments : ~ReadingsComeIn(s)
    <3>1. PICK t \in Taps : t \notin exposed_watchdog_bitmap
      BY <2>1, <2>2
    <3>2. QED
      BY <3>1, TapHasSegment DEF ReadingsComeIn
  <2>3. ASSUME NEW s \in Segments, ~ReadingsComeIn(s)
        PROVE  watchdog_fault
    BY <2>1, <2>3 DEF ReadingsComeIn, InSegment
  <2>4. QED
    BY <2>2, <2>3 DEF FaultStaysVisible
<1>2. QED
  BY <1>1, MonitorInvariant, PTL
=============================================================================
