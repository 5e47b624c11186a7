-------------------------- MODULE ComponentsProofs --------------------------
(***************************************************************************)
(* Theorems about the components that stand side by side on the board, for *)
(* any constants that meet the assumptions: first the inductive invariant  *)
(* of each component, at the end what follows for the board.               *)
(***************************************************************************)
EXTENDS Components, SequenceTheorems, FunctionTheorems, FiniteSetTheorems, TLAPS

-----------------------------------------------------------------------------
(* AmperesMonitor: the callback may run between any two steps of a pass.   *)

USE AmperesAssumption

(* Where the pass stands decides how the copy in is_charging, the state    *)
(* bit and the current are related: copy and bit agree except between the  *)
(* two writes of NewDirection and SecondBit, and both agree with the       *)
(* current when the pass is over.                                          *)
ChargingBit == "CHARGING_BATT_STATE" \in xStateBits
BitIsCopied == is_charging <=> ChargingBit
CopyIsCurrent ==
  /\ pc = "receive" => (is_charging <=> Charges)
  /\ pc = "second_bit" => (is_charging <=> ~Charges)

(* The callback's flag says whether a message came since it last ran.      *)
FlagIsMessage == recv_amp_data <=> ~quiet

AmperesInv == TypeOK /\ BitIsCopied /\ CopyIsCurrent /\ FlagIsMessage

(* The initial state satisfies the invariant: no current flows, which is   *)
(* not charging.                                                           *)
LEMMA AmperesInit == Init => AmperesInv
<1> SUFFICES ASSUME Init PROVE AmperesInv
  OBVIOUS
<1>1. TypeOK
  BY DEF Init, TypeOK, SensorFaults
<1>2. BitIsCopied /\ FlagIsMessage
  BY DEF Init, BitIsCopied, ChargingBit, FlagIsMessage
<1>3. CopyIsCurrent
  BY DEF Init, CopyIsCurrent, Charges
<1>4. QED
  BY <1>1, <1>2, <1>3 DEF AmperesInv

(* A pass finds only the faults the type names. *)
LEMMA FaultsFoundType ==
  ASSUME TypeOK
  PROVE  FaultsFound \subseteq {"PACK_OVERCURRENT_CHARGING_FAULT",
                                "PACK_OVERCURRENT_DISCHARGING_FAULT",
                                "AMPERES_WATCHDOG_FAULT"}
<1> DEFINE named == {"PACK_OVERCURRENT_CHARGING_FAULT",
                     "PACK_OVERCURRENT_DISCHARGING_FAULT",
                     "AMPERES_WATCHDOG_FAULT"}
<1>1. \A f \in SensorFaults \ {"OK"} : FaultReported[f] \in named
  BY DEF SensorFaults, FaultReported
<1>2. {FaultReported[f] : f \in {sensor_fault} \ {"OK"}} \subseteq named
  BY <1>1 DEF TypeOK
<1>3. QED
  BY <1>2 DEF FaultsFound

(* Every step keeps the invariant. *)
LEMMA AmperesStep == AmperesInv /\ [Next]_vars => AmperesInv'
<1> SUFFICES ASSUME AmperesInv, [Next]_vars
             PROVE  AmperesInv'
  OBVIOUS
<1>1. CASE Receive
  BY <1>1 DEF AmperesInv, TypeOK, BitIsCopied, ChargingBit, CopyIsCurrent,
              FlagIsMessage, Receive
<1>2. CASE ReceiveNothing
  BY <1>2 DEF AmperesInv, TypeOK, BitIsCopied, ChargingBit, CopyIsCurrent,
              FlagIsMessage, ReceiveNothing, data
<1>3. CASE Check
  <2>1. TypeOK'
    BY <1>3, FaultsFoundType DEF AmperesInv, TypeOK, Check, data
  <2>2. QED
    BY <1>3, <2>1 DEF AmperesInv, BitIsCopied, ChargingBit, CopyIsCurrent,
                      FlagIsMessage, Check, data
<1>4. CASE SameDirection
  BY <1>4 DEF AmperesInv, TypeOK, BitIsCopied, ChargingBit, CopyIsCurrent,
              FlagIsMessage, SameDirection, Charges, data
<1>5. CASE NewDirection
  <2>1. is_charging \in BOOLEAN /\ is_charging' = is_charging /\ current' = current
    BY <1>5 DEF AmperesInv, TypeOK, NewDirection, data
  <2>2. Charges' <=> Charges
    BY <2>1, Zenon DEF Charges
  <2>3. is_charging <=> ~Charges
    BY <1>5, Zenon DEF NewDirection
  <2>4. ChargingBit' <=> ChargingBit
    <3>1. CASE Charges
      BY <1>5, <3>1 DEF NewDirection, ChargingBit
    <3>2. CASE ~Charges
      BY <1>5, <3>2 DEF NewDirection, ChargingBit
    <3>3. QED
      BY <3>1, <3>2
  <2>5. CopyIsCurrent'
    <3>1. pc' # "receive"
      BY <1>5 DEF NewDirection
    <3>2. QED
      BY <2>1, <2>2, <2>3, <3>1, Zenon DEF CopyIsCurrent
  <2>6. BitIsCopied'
    BY <2>1, <2>4 DEF AmperesInv, BitIsCopied
  <2>7. TypeOK' /\ FlagIsMessage'
    BY <1>5 DEF AmperesInv, TypeOK, FlagIsMessage, NewDirection, data
  <2>8. QED
    BY <2>5, <2>6, <2>7 DEF AmperesInv
<1>6. CASE SecondBit
  <2>1. is_charging' = Charges /\ current' = current /\ pc' = "receive"
    BY <1>6, Zenon DEF SecondBit, data
  <2>2. Charges' <=> Charges
    BY <2>1, Zenon DEF Charges
  <2>3. ChargingBit' <=> Charges
    <3>1. CASE Charges
      BY <1>6, <3>1 DEF SecondBit, ChargingBit
    <3>2. CASE ~Charges
      BY <1>6, <3>2 DEF SecondBit, ChargingBit
    <3>3. QED
      BY <3>1, <3>2
  <2>4. CopyIsCurrent'
    BY <2>1, <2>2, Zenon DEF CopyIsCurrent
  <2>5. BitIsCopied'
    BY <2>1, <2>3, Zenon DEF BitIsCopied
  <2>6. is_charging' \in BOOLEAN
    BY <2>1 DEF Charges
  <2>7. TypeOK' /\ FlagIsMessage'
    BY <1>6, <2>6 DEF AmperesInv, TypeOK, FlagIsMessage, SecondBit, data
  <2>8. QED
    BY <2>4, <2>5, <2>7 DEF AmperesInv
<1>7. CASE Callback
  BY <1>7 DEF AmperesInv, TypeOK, BitIsCopied, ChargingBit, CopyIsCurrent,
              FlagIsMessage, Callback, Charges, data
<1>8. CASE UNCHANGED vars
  BY <1>8 DEF AmperesInv, TypeOK, BitIsCopied, ChargingBit, CopyIsCurrent,
              FlagIsMessage, Charges, vars, data
<1>9. QED
  BY <1>1, <1>2, <1>3, <1>4, <1>5, <1>6, <1>7, <1>8 DEF Next, Pass

(* Every reachable state satisfies the invariant. *)
THEOREM AmperesInvariant == Spec => []AmperesInv
  BY AmperesInit, AmperesStep, PTL DEF Spec

(* The variables stay in their types; every fault raised has a name. *)
THEOREM AmperesTypeCorrect == Spec => []TypeOK
  BY AmperesInvariant, PTL DEF AmperesInv

(* At the end of every pass the state bit by which other tasks choose the  *)
(* overtemperature threshold is right for the current of that pass.        *)
THEOREM ChargingBitIsRight == Spec => []ChargingBitFollowsCurrent
<1>1. AmperesInv => ChargingBitFollowsCurrent
  BY DEF AmperesInv, BitIsCopied, CopyIsCurrent, ChargingBit,
         ChargingBitFollowsCurrent
<1>2. QED
  BY <1>1, AmperesInvariant, PTL

(* The callback reports silence if, and only if, no message came in the    *)
(* period before it, wherever in a pass it interrupts the task.            *)
THEOREM CallbackReportsSilence == Spec => SilenceIsReal
<1>1. AmperesInv /\ [Next]_vars =>
        [Callback => ("silence" \in raised' <=> quiet \/ "silence" \in raised)]_vars
  BY DEF AmperesInv, FlagIsMessage, Callback
<1>2. QED
  BY <1>1, AmperesInvariant, PTL DEF Spec, SilenceIsReal

HIDE AmperesAssumption

-----------------------------------------------------------------------------
(* PetWatchdog: a refresh means that every monitor is alive, whatever the  *)
(* times are; and with a timer that runs longer than the watchdog there is *)
(* no second refresh.                                                      *)

(* A bit that is set stands for a pass since the last refresh, but between *)
(* the refresh and the clearing of the bits; and the task refreshes, and   *)
(* clears, with all bits set.                                              *)
BitsArePasses == dog_pc # "clear" => uxBits \intersect Monitors \subseteq passed
AllSet == dog_pc \in {"refresh", "clear"} => uxBits = ALL_TASKS_DONE

AliveInv == DogTypeOK /\ BitsArePasses /\ AllSet

(* The bit of the timer and a timer that runs exclude each other.  Once    *)
(* the watchdog has been refreshed, it runs, and the timer, when it has    *)
(* been started again, has run for no longer than the countdown has: the   *)
(* countdown is over before the timer is due.                              *)
BitAfterTimer ==
  /\ "WINDOW_TIMER_DONE" \in uxBits => window_timer = 0
  /\ dog_pc = "boot" => "WINDOW_TIMER_DONE" \notin uxBits /\ window_timer = 0
Starting == dog_pc \in {"boot", "start"} => refreshes = 0
Running == dog_pc \notin {"boot", "start"} => iwdg_on
Again == dog_pc \in {"clear", "restart"} => refreshes = 1
Late ==
  refreshes = 1 /\ dog_pc # "clear" =>
    /\ "WINDOW_TIMER_DONE" \notin uxBits
    /\ window_timer > 0 =>
         counter + TICKS_PER_MS * (WINDOW_TIMER_PERIOD + 1 - window_timer)
           <= IWDG_COUNTDOWN_TICKS

LateInv ==
  /\ AliveInv /\ BitAfterTimer /\ Starting /\ Running /\ Again /\ Late
  /\ AtMostOneRefresh

-----------------------------------------------------------------------------
(* The initial state satisfies the invariant: no bit is set.               *)
LEMMA AliveInit ==
  ASSUME PetWatchdogAssumption, DogInit
  PROVE  AliveInv
<1>1. (uxBits \subseteq ALL_TASKS_DONE /\ passed \subseteq Monitors)
  BY DEF DogInit
<1>2. (/\ window_timer \in 0..(WINDOW_TIMER_PERIOD + 1)
       /\ counter \in 0..IWDG_COUNTDOWN_TICKS /\ refreshes \in 0..2)
  BY DEF PetWatchdogAssumption, DogInit
<1>3. (iwdg_on \in BOOLEAN /\ IWDGRST \in BOOLEAN /\ watchdog_fault \in BOOLEAN)
  BY Zenon DEF DogInit
<1>4. DogTypeOK
  BY <1>1, <1>2, <1>3 DEF DogInit, DogTypeOK
<1>5. (BitsArePasses /\ AllSet)
  BY DEF DogInit, BitsArePasses, AllSet
<1>6. QED
  BY <1>4, <1>5 DEF AliveInv

(* A reset leaves the initial state, but for the flag.                     *)
LEMMA AliveReset ==
  ASSUME PetWatchdogAssumption, Reset
  PROVE  AliveInv'
<1>1. (uxBits \subseteq ALL_TASKS_DONE /\ passed \subseteq Monitors)'
  BY DEF Reset
<1>2. (/\ window_timer \in 0..(WINDOW_TIMER_PERIOD + 1)
       /\ counter \in 0..IWDG_COUNTDOWN_TICKS /\ refreshes \in 0..2)'
  BY DEF PetWatchdogAssumption, Reset
<1>3. (iwdg_on \in BOOLEAN /\ IWDGRST \in BOOLEAN /\ watchdog_fault \in BOOLEAN)'
  BY Zenon DEF Reset
<1>4. DogTypeOK'
  BY <1>1, <1>2, <1>3 DEF Reset, DogTypeOK
<1>5. (BitsArePasses /\ AllSet)'
  BY DEF Reset, BitsArePasses, AllSet
<1>6. QED
  BY <1>4, <1>5 DEF AliveInv

(* The steps of the task keep the types, the bits and the passes.          *)
LEMMA AliveTask ==
  ASSUME PetWatchdogAssumption, AliveInv, Task_PetWatchdog
  PROVE  AliveInv'
<1> USE DEF PetWatchdogAssumption, AliveInv, BitsArePasses, AllSet
<1>1. ASSUME NEW from \in {"boot", "restart"}, NEW to \in {"start", "wait"},
             StartTimer(from, to)
      PROVE  AliveInv'
  <2>1. DogTypeOK'
    BY <1>1 DEF DogTypeOK, StartTimer, hardware, history
  <2>2. QED
    BY <1>1, <2>1 DEF StartTimer, history
<1>2. CASE IWDG_Start
  <2>1. watchdog_fault' \in BOOLEAN /\ iwdg_on' \in BOOLEAN /\ IWDGRST' \in BOOLEAN
    BY <1>2, Zenon DEF DogTypeOK, IWDG_Start
  <2>2. DogTypeOK'
    BY <1>2, <2>1 DEF DogTypeOK, IWDG_Start, history
  <2>3. QED
    BY <1>2, <2>2 DEF IWDG_Start, history
<1>3. CASE Wait
  <2>1. DogTypeOK'
    BY <1>3 DEF DogTypeOK, Wait, hardware, history
  <2>2. QED
    BY <1>3, <2>1 DEF Wait, history
<1>4. CASE Refresh
  <2>1. DogTypeOK'
    BY <1>4 DEF DogTypeOK, Refresh
  <2>2. QED
    BY <1>4, <2>1 DEF Refresh
<1>5. CASE RefreshTooSoon
  BY <1>5, AliveReset DEF RefreshTooSoon
<1>6. CASE ClearBits
  <2>1. DogTypeOK'
    BY <1>6 DEF DogTypeOK, ClearBits, hardware, history
  <2>2. uxBits' = {}
    BY <1>6 DEF DogTypeOK, ClearBits
  <2>3. QED
    BY <1>6, <2>1, <2>2 DEF ClearBits
<1>7. QED
  BY <1>1, <1>2, <1>3, <1>4, <1>5, <1>6 DEF Task_PetWatchdog

(* So do the monitors, the timer and the watchdog.                         *)
LEMMA AliveStep ==
  ASSUME PetWatchdogAssumption, AliveInv, [DogNext]_dogVars
  PROVE  AliveInv'
<1> USE DEF PetWatchdogAssumption, AliveInv, BitsArePasses, AllSet
<1>1. CASE Task_PetWatchdog
  BY <1>1, AliveTask
<1>2. ASSUME NEW m \in Monitors, MonitorDone(m)
      PROVE  AliveInv'
  <2>1. DogTypeOK'
    BY <1>2 DEF DogTypeOK, MonitorDone, hardware, ALL_TASKS_DONE
  <2>2. QED
    BY <1>2, <2>1 DEF MonitorDone, ALL_TASKS_DONE
<1>3. CASE WDog_WindowCallback
  <2>1. DogTypeOK'
    BY <1>3 DEF DogTypeOK, WDog_WindowCallback, hardware, history, ALL_TASKS_DONE
  <2>2. uxBits' \intersect Monitors = uxBits \intersect Monitors
    BY <1>3 DEF WDog_WindowCallback
  <2>3. QED
    BY <1>3, <2>1, <2>2 DEF WDog_WindowCallback, history, ALL_TASKS_DONE
<1>4. CASE Tick
  <2>1. DogTypeOK'
    BY <1>4 DEF DogTypeOK, Tick, history
  <2>2. QED
    BY <1>4, <2>1 DEF Tick, history
<1>5. CASE Expire
  BY <1>5, AliveReset DEF Expire
<1>6. CASE UNCHANGED dogVars
  BY <1>6 DEF DogTypeOK, dogVars, software, hardware, history
<1>7. QED
  BY <1>1, <1>2, <1>3, <1>4, <1>5, <1>6 DEF DogNext

(* For any monitors and any times, the variables stay in their types.      *)
THEOREM WatchdogTypeCorrect == PetWatchdogAssumption => (DogSpec => []DogTypeOK)
<1> SUFFICES ASSUME PetWatchdogAssumption PROVE DogSpec => []DogTypeOK
  OBVIOUS
<1>1. DogInit => AliveInv
  BY AliveInit
<1>2. AliveInv /\ [DogNext]_dogVars => AliveInv'
  BY AliveStep
<1>3. AliveInv => DogTypeOK
  BY DEF AliveInv
<1>4. QED
  BY <1>1, <1>2, <1>3, PTL DEF DogSpec

(* For any monitors and any times, Task_PetWatchdog refreshes the watchdog *)
(* only when every monitor has ended a pass since the refresh before.      *)
THEOREM RefreshIsAlive == PetWatchdogAssumption => (DogSpec => RefreshMeansAlive)
<1> SUFFICES ASSUME PetWatchdogAssumption PROVE DogSpec => RefreshMeansAlive
  OBVIOUS
<1>1. DogInit => AliveInv
  BY AliveInit
<1>2. AliveInv /\ [DogNext]_dogVars => AliveInv'
  BY AliveStep
<1>3. AliveInv /\ Refresh => passed = Monitors
  <2> SUFFICES ASSUME AliveInv, Refresh PROVE passed = Monitors
    OBVIOUS
  <2>1. uxBits = ALL_TASKS_DONE /\ uxBits \intersect Monitors \subseteq passed
    BY DEF AliveInv, AllSet, BitsArePasses, Refresh
  <2>2. QED
    BY <2>1 DEF AliveInv, DogTypeOK, ALL_TASKS_DONE
<1>4. AliveInv /\ [DogNext]_dogVars => [Refresh => passed = Monitors]_dogVars
  BY <1>3
<1>5. QED
  BY <1>1, <1>2, <1>4, PTL DEF DogSpec, RefreshMeansAlive

-----------------------------------------------------------------------------
(* In a window timer that runs, a millisecond costs the watchdog           *)
(* TICKS_PER_MS ticks.                                                     *)
LEMMA MillisecondMore ==
  ASSUME NEW ticks \in Nat, NEW period \in Nat, NEW timer \in Nat
  PROVE  ticks * (period + 1 - (timer - 1)) = ticks * (period + 1 - timer) + ticks
<1> DEFINE elapsed == period + 1 - timer
<1>1. period + 1 - (timer - 1) = elapsed + 1
  OBVIOUS
<1>2. ticks * (elapsed + 1) = ticks * elapsed + ticks
  OBVIOUS
<1>3. QED
  BY <1>1, <1>2

(* The initial state satisfies the invariant: nothing runs.                *)
LEMMA LateInit ==
  ASSUME PetWatchdogAssumption, DogInit
  PROVE  LateInv
<1>1. (/\ BitAfterTimer /\ Starting /\ Again /\ Late /\ AtMostOneRefresh)
  BY DEF DogInit, BitAfterTimer, Starting, Again, Late, AtMostOneRefresh
<1>2. Running
  BY Zenon DEF DogInit, Running
<1>3. QED
  BY AliveInit, <1>1, <1>2 DEF LateInv

(* So does the state a reset leaves.                                       *)
LEMMA LateReset ==
  ASSUME PetWatchdogAssumption, Reset
  PROVE  LateInv'
<1>1. (/\ BitAfterTimer /\ Starting /\ Again /\ Late /\ AtMostOneRefresh)'
  BY DEF Reset, BitAfterTimer, Starting, Again, Late, AtMostOneRefresh
<1>2. Running'
  BY Zenon DEF Reset, Running
<1>3. QED
  BY AliveReset, <1>1, <1>2 DEF LateInv

(* Steps of the task.  It starts the timer again only after the bit of the *)
(* timer has been cleared, and it does not come to refresh a second time:  *)
(* it waits for a bit that is not set any more.                            *)
LEMMA LateTask ==
  ASSUME PetWatchdogAssumption, LateInv, AliveInv', Task_PetWatchdog
  PROVE  LateInv'
<1> USE DEF PetWatchdogAssumption, LateInv, BitAfterTimer, Starting, Running, Again
<1>1. AtMostOneRefresh /\ refreshes \in 0..2 /\ Late
  BY DEF AliveInv, DogTypeOK
<1>2. CASE StartTimer("boot", "start") \/ StartTimer("restart", "wait")
  <2>1. "WINDOW_TIMER_DONE" \notin uxBits
    BY <1>1, <1>2 DEF StartTimer, Late
  <2>2. Late'
    <3>1. CASE window_timer' = window_timer
      BY <1>1, <1>2, <3>1 DEF StartTimer, Late, hardware, history
    <3>2. CASE window_timer' = WINDOW_TIMER_PERIOD + 1
      <4>1. WINDOW_TIMER_PERIOD + 1 - window_timer' = 0
        BY <3>2
      <4>2. TICKS_PER_MS * (WINDOW_TIMER_PERIOD + 1 - window_timer') = 0
        BY <4>1
      <4>3. counter' <= IWDG_COUNTDOWN_TICKS /\ counter' \in Nat
        BY DEF AliveInv, DogTypeOK
      <4>4. QED
        BY <1>2, <2>1, <4>2, <4>3 DEF StartTimer, Late
    <3>3. QED
      BY <1>2, <3>1, <3>2 DEF StartTimer
  <2>3. QED
    BY <1>1, <1>2, <2>1, <2>2 DEF StartTimer, hardware, history, AtMostOneRefresh
<1>3. CASE IWDG_Start
  BY <1>1, <1>3 DEF IWDG_Start, history, Late, AtMostOneRefresh
<1>4. CASE Wait
  BY <1>1, <1>4 DEF Wait, hardware, history, Late, AtMostOneRefresh
<1>5. CASE Refresh
  <2>1. "WINDOW_TIMER_DONE" \in uxBits
    BY <1>5 DEF Refresh, AliveInv, AllSet, ALL_TASKS_DONE
  <2>2. refreshes = 0
    BY <1>1, <1>5, <2>1 DEF Refresh, Late, AtMostOneRefresh
  <2>3. QED
    BY <1>5, <2>2 DEF Refresh, Late, AtMostOneRefresh
<1>6. CASE RefreshTooSoon
  BY <1>6, LateReset DEF RefreshTooSoon
<1>7. CASE ClearBits
  <2>1. "WINDOW_TIMER_DONE" \in uxBits /\ "WINDOW_TIMER_DONE" \notin uxBits'
    BY <1>7 DEF ClearBits, AliveInv, AllSet, ALL_TASKS_DONE
  <2>2. QED
    BY <1>1, <1>7, <2>1 DEF ClearBits, hardware, history, Late, AtMostOneRefresh
<1>8. QED
  BY <1>2, <1>3, <1>4, <1>5, <1>6, <1>7 DEF Task_PetWatchdog

(* A millisecond, for the timer and for the watchdog.                      *)
LEMMA LateTick ==
  ASSUME PetWatchdogAssumption, LateInv, AliveInv', Tick
  PROVE  LateInv'
<1> USE DEF PetWatchdogAssumption, LateInv, BitAfterTimer, Starting, Running, Again
<1>1. /\ window_timer \in Nat /\ counter \in Nat /\ AtMostOneRefresh /\ Late
      /\ window_timer' \in Nat /\ counter' \in Nat
  BY DEF AliveInv, DogTypeOK
<1>2. window_timer' > 0 <=> window_timer > 0
  BY <1>1 DEF Tick
<1>3. Late'
  <2> SUFFICES ASSUME refreshes' = 1, dog_pc' # "clear"
               PROVE  /\ "WINDOW_TIMER_DONE" \notin uxBits'
                      /\ window_timer' > 0 =>
                           counter' + TICKS_PER_MS *
                             (WINDOW_TIMER_PERIOD + 1 - window_timer')
                           <= IWDG_COUNTDOWN_TICKS
    BY DEF Late
  <2> DEFINE left(timer) == TICKS_PER_MS * (WINDOW_TIMER_PERIOD + 1 - timer)
  <2>1. /\ refreshes = 1 /\ dog_pc # "clear" /\ iwdg_on
        /\ counter' = counter - TICKS_PER_MS
    BY DEF Tick, history
  <2>2. "WINDOW_TIMER_DONE" \notin uxBits'
    BY <1>1, <2>1 DEF Tick, Late
  <2>3. ASSUME window_timer > 0
        PROVE  counter' + left(window_timer') <= IWDG_COUNTDOWN_TICKS
    <3>1. counter + left(window_timer) <= IWDG_COUNTDOWN_TICKS
      BY <1>1, <2>1, <2>3, Zenon DEF Late
    <3>2. left(window_timer) \in Int
      BY <1>1
    <3>3. CASE window_timer' = window_timer
      <4>1. left(window_timer') = left(window_timer)
        BY <3>3
      <4> HIDE DEF left
      <4>2. QED
        BY <1>1, <2>1, <3>1, <3>2, <4>1
    <3>4. CASE window_timer' = window_timer - 1
      <4>1. left(window_timer') = left(window_timer) + TICKS_PER_MS
        BY <1>1, <3>4, MillisecondMore
      <4> HIDE DEF left
      <4>2. QED
        BY <1>1, <2>1, <3>1, <3>2, <4>1
    <3>5. QED
      BY <3>3, <3>4 DEF Tick
  <2>4. QED
    BY <1>2, <2>2, <2>3
<1>4. QED
  BY <1>1, <1>2, <1>3 DEF Tick, history, AtMostOneRefresh

(* Every step keeps the invariant when the timer runs longer than the      *)
(* watchdog: the timer is not due before the countdown is over.            *)
LEMMA LateStep ==
  ASSUME PetWatchdogAssumption,
         TICKS_PER_MS * WINDOW_TIMER_PERIOD > IWDG_COUNTDOWN_TICKS,
         LateInv, [DogNext]_dogVars
  PROVE  LateInv'
<1>1. AliveInv'
  BY AliveStep DEF LateInv
<1> USE DEF PetWatchdogAssumption, LateInv, BitAfterTimer, Starting, Running, Again
<1>2. CASE Task_PetWatchdog
  BY <1>1, <1>2, LateTask
<1>3. ASSUME NEW m \in Monitors, MonitorDone(m)
      PROVE  LateInv'
  BY <1>1, <1>3 DEF MonitorDone, hardware, Late, AtMostOneRefresh
<1>4. CASE WDog_WindowCallback
  <2>1. dog_pc = "clear" \/ refreshes # 1
    <3> SUFFICES ASSUME dog_pc # "clear", refreshes = 1
                 PROVE  FALSE
      OBVIOUS
    <3>1. counter + TICKS_PER_MS * (WINDOW_TIMER_PERIOD + 1 - window_timer)
            <= IWDG_COUNTDOWN_TICKS
      BY <1>4 DEF WDog_WindowCallback, Late
    <3>2. WINDOW_TIMER_PERIOD + 1 - window_timer = WINDOW_TIMER_PERIOD
      BY <1>4 DEF WDog_WindowCallback
    <3>3. counter \in Nat /\ TICKS_PER_MS * WINDOW_TIMER_PERIOD \in Nat
      BY DEF AliveInv, DogTypeOK
    <3>4. counter + TICKS_PER_MS * WINDOW_TIMER_PERIOD <= IWDG_COUNTDOWN_TICKS
      BY <3>1, <3>2
    <3>5. QED
      BY <3>3, <3>4
  <2>2. QED
    BY <1>1, <1>4, <2>1 DEF WDog_WindowCallback, hardware, history, Late,
                            AtMostOneRefresh
<1>5. CASE Tick
  BY <1>1, <1>5, LateTick
<1>6. CASE Expire
  BY <1>6, LateReset DEF Expire
<1>7. CASE UNCHANGED dogVars
  BY <1>1, <1>7 DEF dogVars, software, hardware, history, Late, AtMostOneRefresh
<1>8. QED
  BY <1>2, <1>3, <1>4, <1>5, <1>6, <1>7 DEF DogNext

(* The numbers of PetWatchdogTask.c and IWDG.h, 27 ms of 4 ticks against a *)
(* countdown of 79, are such times: the watchdog is refreshed once at most *)
(* between two resets, whatever the monitors do.                           *)
THEOREM OneRefresh ==
  PetWatchdogAssumption
    /\ TICKS_PER_MS * WINDOW_TIMER_PERIOD > IWDG_COUNTDOWN_TICKS
  => (DogSpec => []AtMostOneRefresh)
<1> SUFFICES ASSUME PetWatchdogAssumption,
                    TICKS_PER_MS * WINDOW_TIMER_PERIOD > IWDG_COUNTDOWN_TICKS
             PROVE  DogSpec => []AtMostOneRefresh
  OBVIOUS
<1>1. DogInit => LateInv
  BY LateInit
<1>2. LateInv /\ [DogNext]_dogVars => LateInv'
  BY LateStep
<1>3. LateInv => AtMostOneRefresh
  BY DEF LateInv
<1>4. QED
  BY <1>1, <1>2, <1>3, PTL DEF DogSpec

-----------------------------------------------------------------------------
(* CanBus: interrupts put frames into circular queues, tasks take them.    *)

(* The queues hold frames, the histories numbers of frames.                *)
CanTypes ==
  /\ Can!TypeOK
  /\ rx \in [Can!Ids -> Seq(Nat)] /\ canRxForwardQueue \in Seq(Nat)
  /\ newest \in [Can!Ids -> Nat] /\ read \in [Can!Ids -> Nat]
  /\ {arrived, hooked, offered, payload, sent} \subseteq Nat

(* The last frame of a queue, or the last one taken from it when it is     *)
(* empty.                                                                  *)
LastOf(q, taken) == IF q = <<>> THEN taken ELSE q[Len(q)]

LastIsNewest ==
  /\ \A id \in Can!Ids : newest[id] = LastOf(rx[id], read[id])
  /\ hooked = LastOf(canRxForwardQueue, offered)

(* The task holds a frame older than those that wait, and they wait in the *)
(* order of their arrival.                                                 *)
FramesInOrder ==
  /\ \A i \in DOMAIN canRxForwardQueue : canRxForwardQueue[i] \in 1..arrived
  /\ \A i, j \in DOMAIN canRxForwardQueue :
       i < j => canRxForwardQueue[i] < canRxForwardQueue[j]
  /\ forward_pc = "send" =>
       /\ payload \in 1..arrived
       /\ \A i \in DOMAIN canRxForwardQueue : payload < canRxForwardQueue[i]

CanInv == CanTypes /\ LastIsNewest /\ FramesInOrder

(* A circular queue takes every frame, at its end, and may lose its first. *)
LEMMA PushCircularKeepsLast ==
  ASSUME NEW size \in Nat \ {0}, NEW q \in Seq(Nat), Len(q) <= size, NEW frame \in Nat,
         NEW r, r = Can!PushCircular(q, frame, size)
  PROVE  /\ r \in Seq(Nat) /\ Len(r) \in 1..size /\ Len(q) + 1 - Len(r) \in {0, 1}
         /\ r # <<>> /\ r[Len(r)] = frame
         /\ \A i \in 1..(Len(r) - 1) : /\ i + (Len(q) + 1 - Len(r)) \in 1..Len(q)
                                      /\ r[i] = q[i + (Len(q) + 1 - Len(r))]
<1>1. ASSUME NEW s \in Seq(Nat), r = Append(s, frame), Len(s) < size
      PROVE  /\ r \in Seq(Nat) /\ Len(r) = Len(s) + 1 /\ Len(r) \in 1..size
             /\ r # <<>> /\ r[Len(r)] = frame
             /\ \A i \in 1..(Len(r) - 1) : r[i] = s[i]
  BY <1>1, AppendProperties
<1>2. CASE Len(q) = size
  <2>1. q # <<>>
    BY <1>2, EmptySeq
  <2>2. /\ Tail(q) \in Seq(Nat) /\ Len(Tail(q)) = size - 1
        /\ \A i \in 1..(size - 1) : Tail(q)[i] = q[i + 1]
    BY <1>2, <2>1, HeadTailProperties
  <2>3. r = Append(Tail(q), frame)
    BY <1>2 DEF Can!PushCircular
  <2>4. QED
    BY <1>1, <1>2, <2>2, <2>3
<1>3. CASE Len(q) # size
  <2>1. r = Append(q, frame)
    BY <1>3 DEF Can!PushCircular
  <2>2. QED
    BY <1>1, <1>3, <2>1
<1>4. QED
  BY <1>2, <1>3

(* The head of a queue leaves the others in their places.                  *)
LEMMA TakeHead ==
  ASSUME NEW q \in Seq(Nat), q # <<>>
  PROVE  /\ Len(q) \in Nat \ {0} /\ Head(q) = q[1] /\ Head(q) \in Nat
         /\ Tail(q) \in Seq(Nat) /\ Len(Tail(q)) = Len(q) - 1
         /\ \A i \in 1..(Len(q) - 1) : Tail(q)[i] = q[i + 1]
  BY HeadTailProperties, EmptySeq

(* The last frame of a queue is the last one, though its head is taken; if *)
(* that was the only one, it is the last one taken.                        *)
LEMMA LastAfterTake ==
  ASSUME NEW q \in Seq(Nat), q # <<>>, NEW taken
  PROVE  LastOf(Tail(q), Head(q)) = LastOf(q, taken)
<1>1. CASE Len(q) = 1
  <2>1. Tail(q) \in Seq(Nat) /\ Len(Tail(q)) = 0
    BY <1>1, TakeHead
  <2>2. Tail(q) = <<>>
    BY <2>1, EmptySeq
  <2>3. QED
    BY <1>1, <2>2, TakeHead DEF LastOf
<1>2. CASE Len(q) # 1
  <2> DEFINE n == Len(q)
  <2>1. /\ n \in Nat \ {0} /\ Tail(q) \in Seq(Nat) /\ Len(Tail(q)) = n - 1
        /\ \A i \in 1..(n - 1) : Tail(q)[i] = q[i + 1]
    BY TakeHead
  <2>2. n - 1 \in 1..(n - 1) /\ (n - 1) + 1 = n
    BY <1>2, <2>1
  <2>3. Tail(q)[n - 1] = q[n]
    BY <2>1, <2>2
  <2>4. Tail(q) # <<>>
    <3>1. Len(Tail(q)) # 0 /\ Len(<<>>) = 0
      BY <2>1, <2>2
    <3>2. QED
      BY <3>1
  <2>5. QED
    BY <2>1, <2>3, <2>4 DEF LastOf
<1>3. QED
  BY <1>1, <1>2

(* The initial state satisfies the invariant: no frame has come.           *)
LEMMA CanInit ==
  ASSUME Can!CanBusAssumption, Can!Init
  PROVE  CanInv
<1> USE DEF Can!Init, Can!CanBusAssumption
<1>1. started \subseteq {"bps", "car"} /\ is_initialized \in BOOLEAN /\ BPS_CAN_ERROR \in BOOLEAN
  BY Zenon
<1>2. CanTypes
  BY <1>1 DEF CanTypes, Can!TypeOK
<1>3. LastIsNewest /\ FramesInOrder
  BY DEF LastIsNewest, LastOf, FramesInOrder
<1>4. QED
  BY <1>2, <1>3 DEF CanInv

(* Every step keeps the invariant.                                         *)
LEMMA CanStep ==
  ASSUME Can!CanBusAssumption, CanInv, [Can!Next]_(Can!canVars)
  PROVE  CanInv'
<1> USE DEF Can!CanBusAssumption, CanInv
<1>1. CASE Can!CAN_Init
  <2>1. /\ can_init' \in {"bps", "car", "done", "failed", "Error_Handler"}
        /\ started' \subseteq {"bps", "car"}
    BY <1>1 DEF Can!CAN_Init, Can!BusStarts, Can!BusFails, CanTypes, Can!TypeOK
  <2>2. is_initialized' \in BOOLEAN
    BY <1>1 DEF Can!CAN_Init, Can!BusStarts, Can!BusFails, CanTypes, Can!TypeOK
  <2>3. UNCHANGED <<rx, Can!forward, BPS_CAN_ERROR, Can!seen, read, offered, sent>>
    BY <1>1 DEF Can!CAN_Init
  <2>4. CanTypes'
    BY <2>1, <2>2, <2>3 DEF CanTypes, Can!TypeOK, Can!forward, Can!seen
  <2>5. QED
    BY <2>3, <2>4 DEF LastIsNewest, LastOf, FramesInOrder, Can!forward, Can!seen
<1>2. ASSUME NEW id \in Can!Ids, Can!ReceiveInterrupt(id)
      PROVE  CanInv'
  <2> DEFINE q == canRxForwardQueue
  <2>1. arrived \in Nat /\ arrived' = arrived + 1 /\ arrived' \in Nat
    BY <1>2 DEF Can!ReceiveInterrupt, CanTypes
  <2>2. UNCHANGED <<Can!bus, forward_pc, payload, BPS_CAN_ERROR, read, offered, sent>>
    BY <1>2 DEF Can!ReceiveInterrupt
  <2>3. /\ newest' = [newest EXCEPT ![id] = arrived']
        /\ rx' = [rx EXCEPT ![id] = Can!PushCircular(rx[id], arrived', RX_QUEUE_SIZE)]
    BY <1>2 DEF Can!ReceiveInterrupt
  <2>4. /\ rx[id] \in Seq(Nat) /\ Len(rx[id]) <= RX_QUEUE_SIZE
        /\ q \in Seq(Nat) /\ Len(q) <= CAN_RX_FORWARD_QUEUE_SIZE
    BY DEF CanTypes, Can!TypeOK
  <2>5. rx'[id] \in Seq(Nat) /\ Len(rx'[id]) \in 1..RX_QUEUE_SIZE /\ rx'[id] # <<>>
        /\ rx'[id][Len(rx'[id])] = arrived'
    BY <2>1, <2>3, <2>4, PushCircularKeepsLast DEF CanTypes
  <2>6. /\ rx' \in [Can!Ids -> Seq(Nat)] /\ newest' \in [Can!Ids -> Nat]
        /\ \A i \in Can!Ids : Len(rx'[i]) <= RX_QUEUE_SIZE
    BY <2>1, <2>3, <2>5 DEF CanTypes, Can!TypeOK
  <2>7. \A i \in Can!Ids : newest'[i] = LastOf(rx'[i], read'[i])
    <3>1. newest'[id] = arrived' /\ LastOf(rx'[id], read'[id]) = arrived'
      BY <2>3, <2>5 DEF LastOf, CanTypes
    <3>2. \A i \in Can!Ids \ {id} : newest'[i] = newest[i] /\ rx'[i] = rx[i]
      BY <2>3 DEF CanTypes
    <3>3. QED
      BY <2>2, <3>1, <3>2 DEF LastIsNewest
  <2>8. CASE Can!Hooked(id)
    <3>1. q' = Can!PushCircular(q, arrived', CAN_RX_FORWARD_QUEUE_SIZE) /\ hooked' = arrived'
      BY <1>2, <2>8 DEF Can!ReceiveInterrupt
    <3> DEFINE gone == Len(q) + 1 - Len(q')
    <3>2. /\ q' \in Seq(Nat) /\ Len(q') \in 1..CAN_RX_FORWARD_QUEUE_SIZE /\ gone \in {0, 1}
          /\ q' # <<>> /\ q'[Len(q')] = arrived'
          /\ \A i \in 1..(Len(q') - 1) : i + gone \in 1..Len(q) /\ q'[i] = q[i + gone]
      BY <2>1, <2>4, <3>1, PushCircularKeepsLast, SMTT(40)
    <3>3. CanTypes'
      <4>1. q' \in Seq(Nat) /\ Len(q') <= CAN_RX_FORWARD_QUEUE_SIZE /\ hooked' \in Nat
        BY <2>1, <3>1, <3>2
      <4>2. Can!TypeOK'
        BY <2>2, <2>6, <4>1 DEF CanTypes, Can!TypeOK, Can!bus
      <4>3. QED
        BY <2>1, <2>2, <2>6, <4>1, <4>2 DEF CanTypes
    <3>4. LastIsNewest'
      BY <2>7, <3>1, <3>2 DEF LastIsNewest, LastOf
    <3>5. /\ \A i \in 1..Len(q) : q[i] \in 1..arrived
          /\ \A i, j \in 1..Len(q) : i < j => q[i] < q[j]
          /\ forward_pc = "send" => payload \in 1..arrived /\ \A i \in 1..Len(q) : payload < q[i]
      BY <2>4, SMTT(30) DEF FramesInOrder
    <3>6. \A i \in 1..Len(q') : q'[i] \in 1..arrived'
      <4> SUFFICES ASSUME NEW i \in 1..Len(q')
                   PROVE  q'[i] \in 1..arrived'
        OBVIOUS
      <4>1. CASE i = Len(q')
        BY <2>1, <3>2, <4>1
      <4>2. CASE i # Len(q')
        <5>1. i \in 1..(Len(q') - 1)
          BY <3>2, <4>2
        <5>2. q[i + gone] \in 1..arrived
          BY <3>2, <3>5, <5>1
        <5>3. QED
          BY <2>1, <3>2, <5>1, <5>2
      <4>3. QED
        BY <4>1, <4>2
    <3>7. \A i, j \in 1..Len(q') : i < j => q'[i] < q'[j]
      <4> SUFFICES ASSUME NEW i \in 1..Len(q'), NEW j \in 1..Len(q'), i < j
                   PROVE  q'[i] < q'[j]
        OBVIOUS
      <4>1. i \in 1..(Len(q') - 1) /\ q'[i] = q[i + gone] /\ i + gone \in 1..Len(q)
        BY <3>2
      <4>2. CASE j = Len(q')
        BY <2>1, <3>2, <3>5, <4>1, <4>2
      <4>3. CASE j # Len(q')
        <5>1. j \in 1..(Len(q') - 1) /\ q'[j] = q[j + gone] /\ j + gone \in 1..Len(q)
          BY <3>2, <4>3
        <5>2. i + gone < j + gone
          BY <3>2
        <5>3. QED
          BY <3>5, <4>1, <5>1, <5>2
      <4>4. QED
        BY <4>2, <4>3
    <3>8. forward_pc' = "send" => payload' \in 1..arrived' /\ \A i \in 1..Len(q') : payload' < q'[i]
      <4> SUFFICES ASSUME forward_pc = "send", NEW i \in 1..Len(q')
                   PROVE  payload \in 1..arrived' /\ payload < q'[i]
        BY <2>1, <2>2, <3>5
      <4>1. payload \in 1..arrived
        BY <3>5
      <4>2. CASE i = Len(q')
        BY <2>1, <3>2, <4>1, <4>2
      <4>3. CASE i # Len(q')
        <5>1. i \in 1..(Len(q') - 1) /\ q'[i] = q[i + gone] /\ i + gone \in 1..Len(q)
          BY <3>2, <4>3
        <5>2. QED
          BY <2>1, <3>5, <4>1, <5>1
      <4>4. QED
        BY <4>2, <4>3
    <3>9. DOMAIN q' = 1..Len(q')
      BY <3>2
    <3>10. FramesInOrder'
      BY <3>6, <3>7, <3>8, <3>9 DEF FramesInOrder
    <3>11. QED
      BY <3>3, <3>4, <3>10
  <2>9. CASE ~Can!Hooked(id)
    <3>1. UNCHANGED <<q, hooked>>
      BY <1>2, <2>9 DEF Can!ReceiveInterrupt
    <3>2. CanTypes'
      BY <2>1, <2>2, <2>6, <3>1 DEF CanTypes, Can!TypeOK, Can!bus
    <3>3. LastIsNewest'
      BY <2>2, <2>7, <3>1 DEF LastIsNewest, LastOf
    <3>4. FramesInOrder'
      BY <2>1, <2>2, <3>1 DEF FramesInOrder
    <3>5. QED
      BY <3>2, <3>3, <3>4
  <2>10. QED
    BY <2>8, <2>9
<1>3. ASSUME NEW id \in Can!Ids, Can!can_recv(id)
      PROVE  CanInv'
  <2>1. UNCHANGED <<Can!bus, Can!forward, BPS_CAN_ERROR, Can!seen, offered, sent>>
    BY <1>3 DEF Can!can_recv
  <2>2. /\ rx[id] \in Seq(Nat) /\ rx[id] # <<>> /\ Len(rx[id]) <= RX_QUEUE_SIZE
        /\ read' = [read EXCEPT ![id] = Head(rx[id])]
        /\ rx' = [rx EXCEPT ![id] = Tail(rx[id])]
    BY <1>3 DEF Can!can_recv, CanTypes, Can!TypeOK
  <2>3. /\ Tail(rx[id]) \in Seq(Nat) /\ Len(Tail(rx[id])) = Len(rx[id]) - 1
        /\ \A i \in 1..(Len(rx[id]) - 1) : Tail(rx[id])[i] = rx[id][i + 1]
        /\ Head(rx[id]) = rx[id][1] /\ Head(rx[id]) \in Nat /\ Len(rx[id]) \in Nat \ {0}
    BY <2>2, TakeHead
  <2>4. CanTypes'
    BY <2>1, <2>2, <2>3 DEF CanTypes, Can!TypeOK, Can!bus, Can!forward, Can!seen
  <2>5. rx'[id] = Tail(rx[id]) /\ read'[id] = Head(rx[id])
    BY <2>2 DEF CanTypes
  <2>6. LastOf(rx'[id], read'[id]) = LastOf(rx[id], read[id])
    BY <2>2, <2>5, LastAfterTake
  <2>7. \A i \in Can!Ids : newest'[i] = LastOf(rx'[i], read'[i])
    BY <2>1, <2>2, <2>6 DEF LastIsNewest, CanTypes, Can!seen
  <2>8. LastIsNewest' /\ FramesInOrder'
    BY <2>1, <2>7 DEF LastIsNewest, LastOf, FramesInOrder, Can!seen, Can!forward
  <2>9. QED
    BY <2>4, <2>8
<1>4. CASE Can!CreateQueue
  <2>1. forward_pc' \in {"receive", "deleted"} /\ BPS_CAN_ERROR' \in BOOLEAN
    BY <1>4 DEF Can!CreateQueue
  <2>2. UNCHANGED <<Can!bus, rx, canRxForwardQueue, payload, Can!seen, read, offered, sent>>
    BY <1>4 DEF Can!CreateQueue
  <2>3. CanTypes'
    BY <2>1, <2>2 DEF CanTypes, Can!TypeOK, Can!bus, Can!seen
  <2>4. LastIsNewest' /\ FramesInOrder'
    BY <2>1, <2>2 DEF LastIsNewest, LastOf, FramesInOrder, Can!seen
  <2>5. QED
    BY <2>3, <2>4
<1>5. CASE Can!TakeFrame
  <2> DEFINE q == canRxForwardQueue
  <2>1. UNCHANGED <<Can!bus, rx, BPS_CAN_ERROR, Can!seen, read, sent>>
    BY <1>5 DEF Can!TakeFrame
  <2>2. /\ q \in Seq(Nat) /\ q # <<>> /\ Len(q) <= CAN_RX_FORWARD_QUEUE_SIZE
        /\ payload' = Head(q) /\ offered' = Head(q) /\ q' = Tail(q) /\ forward_pc' = "send"
    BY <1>5 DEF Can!TakeFrame, CanTypes, Can!TypeOK
  <2>3. /\ q' \in Seq(Nat) /\ Len(q') = Len(q) - 1 /\ Len(q) \in Nat \ {0}
        /\ \A i \in 1..(Len(q) - 1) : q'[i] = q[i + 1]
        /\ Head(q) = q[1] /\ Head(q) \in Nat
    BY <2>2, TakeHead
  <2>4. CanTypes'
    BY <2>1, <2>2, <2>3 DEF CanTypes, Can!TypeOK, Can!bus, Can!seen
  <2>5. LastOf(q', offered') = LastOf(q, offered)
    BY <2>2, LastAfterTake
  <2>6. LastIsNewest'
    BY <2>1, <2>5 DEF LastIsNewest, LastOf, Can!seen
  <2>7. FramesInOrder'
    <3>1. DOMAIN q = 1..Len(q) /\ DOMAIN q' = 1..(Len(q) - 1) /\ arrived' = arrived
      BY <2>1, <2>2, <2>3 DEF Can!seen
    <3>2. \A i \in 1..(Len(q) - 1) : i + 1 \in 1..Len(q) /\ i \in 1..Len(q)
      BY <2>3
    <3>3. /\ \A i \in 1..Len(q) : q[i] \in 1..arrived
          /\ \A i, j \in 1..Len(q) : i < j => q[i] < q[j]
      BY <3>1 DEF FramesInOrder
    <3>4. \A i \in 1..(Len(q) - 1) : q'[i] \in 1..arrived /\ q[1] < q'[i]
      <4> SUFFICES ASSUME NEW i \in 1..(Len(q) - 1)
                   PROVE  q'[i] \in 1..arrived /\ q[1] < q'[i]
        OBVIOUS
      <4>1. 1 \in 1..Len(q) /\ i + 1 \in 1..Len(q) /\ 1 < i + 1
        BY <2>3
      <4>2. QED
        BY <2>3, <3>3, <4>1
    <3>5. \A i, j \in 1..(Len(q) - 1) : i < j => q'[i] < q'[j]
      <4> SUFFICES ASSUME NEW i \in 1..(Len(q) - 1), NEW j \in 1..(Len(q) - 1), i < j
                   PROVE  q'[i] < q'[j]
        OBVIOUS
      <4>1. i + 1 \in 1..Len(q) /\ j + 1 \in 1..Len(q) /\ i + 1 < j + 1
        BY <2>3
      <4>2. QED
        BY <2>3, <3>3, <4>1
    <3>6. payload' \in 1..arrived
      BY <2>2, <2>3, <3>3
    <3>7. QED
      BY <2>2, <2>3, <3>1, <3>4, <3>5, <3>6 DEF FramesInOrder
  <2>8. QED
    BY <2>4, <2>6, <2>7
<1>6. CASE Can!SendFrame
  <2>1. UNCHANGED <<Can!bus, rx, canRxForwardQueue, payload, BPS_CAN_ERROR, Can!seen, read, offered>>
    BY <1>6 DEF Can!SendFrame
  <2>2. forward_pc' = "receive" /\ sent' \in {sent, payload}
    BY <1>6 DEF Can!SendFrame
  <2>3. CanTypes'
    BY <2>1, <2>2 DEF CanTypes, Can!TypeOK, Can!bus, Can!seen
  <2>4. LastIsNewest' /\ FramesInOrder'
    BY <2>1, <2>2 DEF LastIsNewest, LastOf, FramesInOrder, Can!seen
  <2>5. QED
    BY <2>3, <2>4
<1>7. CASE UNCHANGED Can!canVars
  <2> USE <1>7 DEF Can!canVars, Can!bus, Can!forward, Can!seen
  <2>1. CanTypes'
    BY DEF CanTypes, Can!TypeOK
  <2>2. LastIsNewest' /\ FramesInOrder'
    BY DEF LastIsNewest, LastOf, FramesInOrder
  <2>3. QED
    BY <2>1, <2>2
<1>8. QED
  BY <1>1, <1>2, <1>3, <1>4, <1>5, <1>6, <1>7 DEF Can!Next

(* What is in flight in the channel: the frames that wait and the one the  *)
(* task holds.                                                             *)
InFlight == Can!Range(canRxForwardQueue) \union {f \in {payload} : forward_pc = "send"}

(* A frame on its way is one that waits in the queue or that the task is   *)
(* about to send.  An interrupt adds one and may lose one, the task moves  *)
(* one from the queue to its hands, and delivers or loses that one, which  *)
(* is older than all that wait.                                            *)
LEMMA ChannelStep ==
  ASSUME Can!CanBusAssumption, CanInv, [Can!Next]_(Can!canVars)
  PROVE  [Can!Channel!Next]_(Can!Channel!vars)
<1> USE DEF Can!CanBusAssumption, CanInv
<1> DEFINE q == canRxForwardQueue
<1>a. q \in Seq(Nat) /\ Len(q) <= CAN_RX_FORWARD_QUEUE_SIZE
  BY DEF CanTypes, Can!TypeOK
<1>1. ASSUME UNCHANGED <<q, payload, forward_pc, sent, arrived>>
      PROVE  UNCHANGED Can!Channel!vars
  BY <1>1 DEF Can!Channel!vars, Can!Range
<1>2. ASSUME NEW id \in Can!Ids, Can!ReceiveInterrupt(id)
      PROVE  Can!Channel!Arrive
  <2>1. arrived' = arrived + 1 /\ UNCHANGED <<payload, forward_pc, sent>>
    BY <1>2 DEF Can!ReceiveInterrupt
  <2>2. Can!Range(q') \subseteq Can!Range(q) \union {arrived'}
    <3>1. CASE Can!Hooked(id)
      <4>1. q' = Can!PushCircular(q, arrived', CAN_RX_FORWARD_QUEUE_SIZE)
        BY <1>2, <3>1 DEF Can!ReceiveInterrupt
      <4>2. arrived' \in Nat
        BY <2>1 DEF CanTypes
      <4> DEFINE gone == Len(q) + 1 - Len(q')
      <4>3. /\ q' \in Seq(Nat) /\ Len(q') \in 1..CAN_RX_FORWARD_QUEUE_SIZE /\ gone \in {0, 1}
            /\ q'[Len(q')] = arrived'
            /\ \A i \in 1..(Len(q') - 1) : i + gone \in 1..Len(q) /\ q'[i] = q[i + gone]
        BY <1>a, <4>1, <4>2, PushCircularKeepsLast
      <4>4. \A i \in 1..Len(q') : q'[i] = arrived' \/ \E j \in 1..Len(q) : q'[i] = q[j]
        <5> SUFFICES ASSUME NEW i \in 1..Len(q'), i # Len(q')
                     PROVE  \E j \in 1..Len(q) : q'[i] = q[j]
          BY <4>3
        <5>1. i \in 1..(Len(q') - 1)
          BY <4>3
        <5>2. QED
          BY <4>3, <5>1
      <4>5. DOMAIN q' = 1..Len(q') /\ DOMAIN q = 1..Len(q)
        BY <1>a, <4>3
      <4>6. QED
        BY <4>4, <4>5 DEF Can!Range
    <3>2. CASE ~Can!Hooked(id)
      BY <1>2, <3>2 DEF Can!ReceiveInterrupt, Can!Range
    <3>3. QED
      BY <3>1, <3>2
  <2>3. QED
    BY <2>1, <2>2 DEF Can!Channel!Arrive
<1>3. CASE Can!TakeFrame
  <2>1. /\ forward_pc = "receive" /\ forward_pc' = "send" /\ q # <<>> /\ q' = Tail(q)
        /\ payload' = Head(q) /\ UNCHANGED <<arrived, sent>>
    BY <1>3 DEF Can!TakeFrame, Can!seen
  <2>2. Can!Range(q') \union {payload'} = Can!Range(q)
    <3>1. /\ q' \in Seq(Nat) /\ Len(q') = Len(q) - 1 /\ Len(q) \in Nat \ {0}
          /\ \A i \in 1..(Len(q) - 1) : q'[i] = q[i + 1]
          /\ payload' = q[1]
      BY <1>a, <2>1, TakeHead
    <3>2. DOMAIN q = 1..Len(q) /\ DOMAIN q' = 1..(Len(q) - 1)
      BY <1>a, <3>1
    <3>3. \A i \in 1..Len(q) : q[i] = q[1] \/ \E j \in 1..(Len(q) - 1) : q[i] = q'[j]
      <4> SUFFICES ASSUME NEW i \in 1..Len(q), i # 1
                   PROVE  \E j \in 1..(Len(q) - 1) : q[i] = q'[j]
        OBVIOUS
      <4>1. i - 1 \in 1..(Len(q) - 1) /\ q'[i - 1] = q[(i - 1) + 1] /\ (i - 1) + 1 = i
        BY <3>1
      <4>2. QED
        BY <4>1
    <3>4. \A i \in 1..(Len(q) - 1) : i + 1 \in 1..Len(q)
      BY <3>1
    <3>5. 1 \in 1..Len(q)
      BY <3>1
    <3>6. Can!Range(q) \subseteq Can!Range(q') \union {payload'}
      <4> SUFFICES ASSUME NEW i \in 1..Len(q)
                   PROVE  q[i] \in Can!Range(q') \union {payload'}
        BY <3>2 DEF Can!Range
      <4>1. QED
        BY <3>1, <3>2, <3>3 DEF Can!Range
    <3>7. Can!Range(q') \union {payload'} \subseteq Can!Range(q)
      BY <3>1, <3>2, <3>4, <3>5 DEF Can!Range
    <3>8. QED
      BY <3>6, <3>7
  <2>3. UNCHANGED Can!Channel!vars
    BY <2>1, <2>2 DEF Can!Channel!vars
  <2>4. QED
    BY <2>3
<1>4. CASE Can!SendFrame
  <2>1. /\ forward_pc = "send" /\ forward_pc' = "receive" /\ UNCHANGED <<q, payload, arrived>>
        /\ sent' \in {sent, payload}
    BY <1>4 DEF Can!SendFrame, Can!seen
  <2>2. CASE sent' = sent
    <3>1. Can!Channel!Lose
      BY <2>1, <2>2 DEF Can!Channel!Lose
    <3>2. QED
      BY <3>1 DEF Can!Channel!Next
  <2>3. CASE sent' = payload
    <3> DEFINE flying == Can!Range(q) \union {payload}
    <3>1. \A f \in Can!Range(q) : f \in Nat /\ payload < f
      BY <1>a, <2>1 DEF FramesInOrder, Can!Range
    <3>2. payload \in Nat
      BY DEF CanTypes
    <3>3. Can!Channel!Min(flying) = payload
      <4>1. payload \in flying /\ \A f \in flying : payload <= f
        BY <3>1, <3>2
      <4>2. \A x \in flying : (\A f \in flying : x <= f) => x = payload
        BY <3>1, <3>2
      <4>3. QED
        BY <4>1, <4>2 DEF Can!Channel!Min
    <3>4. Can!Range(q) = flying \ {payload} /\ flying # {}
      BY <3>1, <3>2
    <3>5. /\ Can!Range(q) \union {f \in {payload} : forward_pc = "send"} = flying
          /\ (Can!Range(q) \union {f \in {payload} : forward_pc = "send"})' = Can!Range(q)
      BY <2>1
    <3>6. Can!Channel!Deliver
      BY <2>1, <2>3, <3>3, <3>4, <3>5 DEF Can!Channel!Deliver
    <3>7. QED
      BY <3>6 DEF Can!Channel!Next
  <2>4. QED
    BY <2>1, <2>2, <2>3
<1>5. CASE Can!CAN_Init
  BY <1>1, <1>5 DEF Can!CAN_Init, Can!forward, Can!seen
<1>6. ASSUME NEW id \in Can!Ids, Can!can_recv(id)
      PROVE  [Can!Channel!Next]_(Can!Channel!vars)
  BY <1>1, <1>6 DEF Can!can_recv, Can!forward, Can!seen
<1>7. CASE Can!CreateQueue
  <2>1. /\ forward_pc = "create" /\ forward_pc' \in {"receive", "deleted"}
        /\ UNCHANGED <<q, payload, arrived, sent>>
    BY <1>7 DEF Can!CreateQueue, Can!seen
  <2>2. UNCHANGED Can!Channel!vars
    BY <2>1 DEF Can!Channel!vars, Can!Range
  <2>3. QED
    BY <2>2
<1>8. CASE UNCHANGED Can!canVars
  BY <1>1, <1>8 DEF Can!canVars, Can!forward, Can!seen
<1>9. QED
  BY <1>2, <1>3, <1>4, <1>5, <1>6, <1>7, <1>8 DEF Can!Next, Can!Channel!Next

-----------------------------------------------------------------------------
(* AdcSense: samples wait in queues that a call which failed leaves full.  *)

(* The queues hold ages of samples.                                        *)
AdcTypes ==
  /\ adc_queue \in [Adc!Adcs -> Seq(Nat)] /\ converting \in [Adc!Adcs -> SUBSET Nat]
  /\ result \in [Adc!Adcs -> Nat] /\ failures \in 0..MAX_FAILURES
  /\ adc_pc \in {"idle", "start_array", "start_battery", "receive_array", "receive_battery"}
  /\ \A a \in Adc!Adcs : Len(adc_queue[a]) <= ADC_QUEUE_LENGTH

(* A call that has not received from an ADC yet, and one that has not      *)
(* started it yet.                                                         *)
WaitsFor ==
  [array   |-> {"start_array", "start_battery", "receive_array"},
   battery |-> {"start_array", "start_battery", "receive_array", "receive_battery"}]
WillStart == [array |-> {"start_array"}, battery |-> {"start_array", "start_battery"}]

(* What a queue may be late by: a call that is not over may still fail.    *)
Lateness(a) == IF adc_pc \in WaitsFor[a] THEN failures + 1 ELSE failures

(* The n-th sample of a queue is read by the n-th call from now at the     *)
(* earliest, and so must be younger by that; a conversion ends behind all  *)
(* of the queue.                                                           *)
SamplesInTime ==
  \A a \in Adc!Adcs :
    /\ \A i \in 1..Len(adc_queue[a]) : adc_queue[a][i] + i <= Lateness(a)
    /\ \A age \in converting[a] : age + Len(adc_queue[a]) + 1 <= Lateness(a)

(* Before a call starts an ADC, every sample is of an earlier call.        *)
SamplesAreOld ==
  \A a \in Adc!Adcs : adc_pc \in WillStart[a] =>
    /\ \A i \in 1..Len(adc_queue[a]) : adc_queue[a][i] >= 1
    /\ \A age \in converting[a] : age >= 1

ArrayInTime == adc_pc = "receive_battery" => result["array"] <= failures

AdcInv == AdcTypes /\ SamplesInTime /\ SamplesAreOld /\ ArrayInTime

(* A call makes every sample in a queue one call older.                    *)
LEMMA OlderIsOneMore ==
  ASSUME NEW q \in Seq(Nat), NEW r, r = Adc!Older(q)
  PROVE  r \in Seq(Nat) /\ Len(r) = Len(q) /\ \A i \in 1..Len(q) : r[i] = q[i] + 1
<1>1. DOMAIN q = 1..Len(q) /\ Len(q) \in Nat
  OBVIOUS
<1>2. r = [i \in 1..Len(q) |-> q[i] + 1]
  BY <1>1 DEF Adc!Older
<1>3. \A i \in 1..Len(q) : q[i] + 1 \in Nat
  OBVIOUS
<1>4. r \in Seq(Nat)
  BY <1>1, <1>2, <1>3, IsASeq
<1>5. QED
  BY <1>1, <1>2, <1>4

(* The initial state satisfies the invariant: no sample is anywhere.       *)
LEMMA AdcInit == Adc!AdcAssumption /\ Adc!Init => AdcInv
<1> SUFFICES ASSUME Adc!AdcAssumption, Adc!Init PROVE AdcInv
  OBVIOUS
<1>1. AdcTypes
  BY DEF Adc!AdcAssumption, Adc!Init, AdcTypes
<1>2. SamplesInTime /\ SamplesAreOld /\ ArrayInTime
  BY DEF Adc!Init, SamplesInTime, SamplesAreOld, ArrayInTime, WillStart, Adc!Adcs
<1>3. QED
  BY <1>1, <1>2 DEF AdcInv

(* A step that leaves the queues alone and ends the call with an error.    *)
LEMMA AdcFail ==
  ASSUME Adc!AdcAssumption, AdcInv, Adc!Fail, UNCHANGED <<adc_queue, converting, result>>
  PROVE  AdcInv'
<1>1. failures' = failures + 1 /\ failures' \in 0..MAX_FAILURES /\ adc_pc' = "idle"
  BY DEF Adc!AdcAssumption, AdcInv, AdcTypes, Adc!Fail
<1>2. \A a \in Adc!Adcs : Lateness(a) <= Lateness(a)' /\ Lateness(a) \in Nat /\ Lateness(a)' \in Nat
  BY <1>1 DEF AdcInv, AdcTypes, Lateness, WaitsFor, Adc!Adcs
<1>3. AdcTypes'
  BY <1>1 DEF AdcInv, AdcTypes
<1>4. SamplesInTime'
  <2> SUFFICES ASSUME NEW a \in Adc!Adcs
               PROVE  /\ \A i \in 1..Len(adc_queue[a]) : adc_queue[a][i] + i <= Lateness(a)'
                      /\ \A age \in converting[a] : age + Len(adc_queue[a]) + 1 <= Lateness(a)'
    BY DEF SamplesInTime
  <2>1. adc_queue[a] \in Seq(Nat) /\ converting[a] \subseteq Nat
    BY DEF AdcInv, AdcTypes
  <2>2. QED
    BY <1>2, <2>1, SMTT(30) DEF AdcInv, SamplesInTime
<1>5. SamplesAreOld' /\ ArrayInTime'
  BY <1>1 DEF SamplesAreOld, ArrayInTime, WillStart, Adc!Adcs
<1>6. QED
  BY <1>3, <1>4, <1>5 DEF AdcInv

(* A new call makes every sample older, and waits for all of them.         *)
LEMMA AdcCall ==
  ASSUME Adc!AdcAssumption, AdcInv, Adc!Call
  PROVE  AdcInv'
<1>1. /\ adc_pc = "idle" /\ adc_pc' = "start_array" /\ UNCHANGED <<result, failures>>
      /\ adc_queue' = [a \in Adc!Adcs |-> Adc!Older(adc_queue[a])]
      /\ converting' = [a \in Adc!Adcs |-> {age + 1 : age \in converting[a]}]
  BY DEF Adc!Call
<1>2. \A a \in Adc!Adcs : Lateness(a) = failures /\ Lateness(a)' = failures + 1 /\ failures \in Nat
  BY <1>1 DEF AdcInv, AdcTypes, Lateness, WaitsFor, Adc!Adcs
<1>3. ASSUME NEW a \in Adc!Adcs
      PROVE  /\ adc_queue[a] \in Seq(Nat) /\ Len(adc_queue'[a]) = Len(adc_queue[a])
             /\ adc_queue'[a] \in Seq(Nat)
             /\ \A i \in 1..Len(adc_queue[a]) : adc_queue'[a][i] = adc_queue[a][i] + 1
  <2>1. adc_queue[a] \in Seq(Nat) /\ adc_queue'[a] = Adc!Older(adc_queue[a])
    BY <1>1 DEF AdcInv, AdcTypes
  <2>2. QED
    BY <2>1, OlderIsOneMore
<1>4. ASSUME NEW a \in Adc!Adcs
      PROVE  /\ converting[a] \subseteq Nat /\ converting'[a] \subseteq Nat
             /\ \A age \in converting'[a] : \E before \in converting[a] : age = before + 1
  BY <1>1 DEF AdcInv, AdcTypes
<1>5. AdcTypes'
  <2>1. adc_queue' \in [Adc!Adcs -> Seq(Nat)]
    BY <1>1, <1>3
  <2>2. converting' \in [Adc!Adcs -> SUBSET Nat]
    BY <1>1, <1>4
  <2>3. QED
    BY <1>1, <1>3, <2>1, <2>2 DEF AdcInv, AdcTypes
<1>6. SamplesInTime'
  <2> SUFFICES ASSUME NEW a \in Adc!Adcs
               PROVE  /\ \A i \in 1..Len(adc_queue'[a]) : adc_queue'[a][i] + i <= Lateness(a)'
                      /\ \A age \in converting'[a] : age + Len(adc_queue'[a]) + 1 <= Lateness(a)'
    BY DEF SamplesInTime
  <2>1. \A i \in 1..Len(adc_queue[a]) : adc_queue[a][i] + i <= failures /\ adc_queue[a][i] \in Nat
    BY <1>2, <1>3 DEF AdcInv, SamplesInTime
  <2>2. \A age \in converting[a] : age + Len(adc_queue[a]) + 1 <= failures
    BY <1>2 DEF AdcInv, SamplesInTime
  <2>3. Len(adc_queue[a]) \in Nat
    BY <1>3
  <2>4. \A i \in 1..Len(adc_queue'[a]) : adc_queue'[a][i] + i <= failures + 1
    <3> SUFFICES ASSUME NEW i \in 1..Len(adc_queue[a])
                 PROVE  adc_queue'[a][i] + i <= failures + 1
      BY <1>3
    <3>1. adc_queue'[a][i] = adc_queue[a][i] + 1
      BY <1>3
    <3>2. QED
      BY <1>2, <2>1, <3>1
  <2>5. \A age \in converting'[a] : age + Len(adc_queue'[a]) + 1 <= failures + 1
    <3> SUFFICES ASSUME NEW age \in converting'[a]
                 PROVE  age + Len(adc_queue[a]) + 1 <= failures + 1
      BY <1>3
    <3>1. PICK before \in converting[a] : age = before + 1 /\ before \in Nat
      BY <1>4
    <3>2. before + Len(adc_queue[a]) + 1 <= failures /\ failures \in Nat
      BY <1>2, <2>2, <3>1
    <3> DEFINE n == Len(adc_queue[a])
    <3>3. n \in Nat
      BY <2>3
    <3> HIDE DEF n
    <3>4. before + n + 1 <= failures => (before + 1) + n + 1 <= failures + 1
      BY <3>1, <3>2, <3>3
    <3>5. QED
      BY <3>1, <3>2, <3>4 DEF n
  <2>6. QED
    BY <1>2, <2>4, <2>5
<1>7. SamplesAreOld'
  <2> SUFFICES ASSUME NEW a \in Adc!Adcs
               PROVE  /\ \A i \in 1..Len(adc_queue'[a]) : adc_queue'[a][i] >= 1
                      /\ \A age \in converting'[a] : age >= 1
    BY DEF SamplesAreOld
  <2>1. \A i \in 1..Len(adc_queue[a]) : adc_queue[a][i] \in Nat
    BY <1>3
  <2>2. QED
    BY <1>3, <1>4, <2>1, SMTT(30)
<1>8. ArrayInTime'
  BY <1>1 DEF ArrayInTime
<1>9. QED
  BY <1>5, <1>6, <1>7, <1>8 DEF AdcInv

(* The start of a conversion adds a sample of this call.                   *)
LEMMA AdcStart ==
  ASSUME Adc!AdcAssumption, AdcInv, NEW a \in Adc!Adcs, Adc!Start(a)
  PROVE  AdcInv'
<1>1. /\ adc_pc \in WillStart[a] /\ UNCHANGED <<adc_queue, result, failures>>
      /\ converting' = [converting EXCEPT ![a] = {0}]
      /\ adc_pc' \in {"start_battery", "receive_array"} /\ adc_pc' \notin WillStart[a]
  BY DEF Adc!Start, Adc!Starts, WillStart, Adc!Adcs
<1>2. \A b \in Adc!Adcs : /\ Lateness(b) = failures + 1 /\ Lateness(b)' = failures + 1
                          /\ adc_pc' \in WillStart[b] => adc_pc \in WillStart[b] /\ b # a
  BY DEF Adc!Start, Adc!Starts, WillStart, WaitsFor, Lateness, Adc!Adcs
<1>3. failures \in Nat /\ adc_queue[a] \in Seq(Nat) /\ Len(adc_queue[a]) \in Nat
  BY DEF AdcInv, AdcTypes
<1>4. Len(adc_queue[a]) <= failures
  <2> SUFFICES ASSUME Len(adc_queue[a]) # 0 PROVE Len(adc_queue[a]) <= failures
    BY <1>3
  <2> DEFINE n == Len(adc_queue[a])
  <2>1. n \in 1..n
    BY <1>3
  <2>2. adc_queue[a][n] + n <= failures + 1 /\ adc_queue[a][n] >= 1
    BY <1>1, <1>2, <2>1 DEF AdcInv, SamplesInTime, SamplesAreOld
  <2>3. adc_queue[a][n] \in Nat
    BY <1>3, <2>1
  <2>4. QED
    BY <1>3, <2>2, <2>3
<1>5. converting'[a] = {0} /\ \A b \in Adc!Adcs \ {a} : converting'[b] = converting[b]
  BY <1>1 DEF AdcInv, AdcTypes
<1>6. AdcTypes'
  BY <1>1 DEF AdcInv, AdcTypes
<1>7. SamplesInTime'
  <2> SUFFICES ASSUME NEW b \in Adc!Adcs
               PROVE  /\ \A i \in 1..Len(adc_queue[b]) : adc_queue[b][i] + i <= failures + 1
                      /\ \A age \in converting'[b] : age + Len(adc_queue[b]) + 1 <= failures + 1
    BY <1>1, <1>2 DEF SamplesInTime
  <2>1. \A i \in 1..Len(adc_queue[b]) : adc_queue[b][i] + i <= failures + 1
    BY <1>2 DEF AdcInv, SamplesInTime
  <2>2. CASE b = a
    BY <1>3, <1>4, <1>5, <2>1, <2>2
  <2>3. CASE b # a
    BY <1>2, <1>5, <2>1, <2>3 DEF AdcInv, SamplesInTime
  <2>4. QED
    BY <2>2, <2>3
<1>8. SamplesAreOld'
  BY <1>1, <1>2, <1>5 DEF AdcInv, SamplesAreOld
<1>9. ArrayInTime'
  BY <1>1 DEF ArrayInTime
<1>10. QED
  BY <1>6, <1>7, <1>8, <1>9 DEF AdcInv

(* The sample that is read is no older than the calls that failed.         *)
LEMMA HeadInTime ==
  ASSUME AdcInv, NEW a \in Adc!Adcs, adc_pc \in WaitsFor[a], adc_queue[a] # <<>>
  PROVE  Head(adc_queue[a]) <= failures
<1>1. /\ adc_queue[a] \in Seq(Nat) /\ Len(adc_queue[a]) \in Nat \ {0} /\ failures \in Nat
      /\ Head(adc_queue[a]) = adc_queue[a][1] /\ Head(adc_queue[a]) \in Nat
  BY TakeHead DEF AdcInv, AdcTypes
<1>2. adc_queue[a][1] + 1 <= failures + 1
  BY <1>1, SMTT(30) DEF AdcInv, SamplesInTime, Lateness
<1>3. QED
  BY <1>1, <1>2

(* A sample that is received leaves the queue to those behind it.          *)
LEMMA AdcReceive ==
  ASSUME Adc!AdcAssumption, AdcInv, NEW a \in Adc!Adcs, Adc!Receive(a)
  PROVE  AdcInv'
<1>1. /\ adc_pc \in WaitsFor[a] /\ adc_pc' \notin WaitsFor[a] /\ UNCHANGED <<converting, failures>>
      /\ adc_queue[a] # <<>>
      /\ result' = [result EXCEPT ![a] = Head(adc_queue[a])]
      /\ adc_queue' = [adc_queue EXCEPT ![a] = Tail(adc_queue[a])]
      /\ adc_pc' \in {"receive_battery", "idle"}
      /\ adc_pc' = "receive_battery" => a = "array"
      /\ \A b \in Adc!Adcs \ {a} : adc_pc' \in WaitsFor[b] <=> adc_pc \in WaitsFor[b]
  BY DEF Adc!Receive, Adc!Receives, WaitsFor, Adc!Adcs
<1>2. /\ adc_queue[a] \in Seq(Nat) /\ Len(adc_queue[a]) \in Nat \ {0} /\ failures \in Nat
      /\ Len(adc_queue[a]) <= ADC_QUEUE_LENGTH
  BY <1>1, TakeHead DEF AdcInv, AdcTypes
<1>3. /\ adc_queue'[a] \in Seq(Nat) /\ Len(adc_queue'[a]) = Len(adc_queue[a]) - 1
      /\ \A i \in 1..(Len(adc_queue[a]) - 1) : adc_queue'[a][i] = adc_queue[a][i + 1]
      /\ \A b \in Adc!Adcs \ {a} : adc_queue'[b] = adc_queue[b]
  BY <1>1, <1>2, TakeHead DEF AdcInv, AdcTypes
<1>4. Head(adc_queue[a]) \in Nat /\ Head(adc_queue[a]) <= failures
  BY <1>1, <1>2, HeadInTime, TakeHead
<1>5. AdcTypes'
  <2>1. adc_queue' \in [Adc!Adcs -> Seq(Nat)] /\ result' \in [Adc!Adcs -> Nat]
    BY <1>1, <1>3, <1>4 DEF AdcInv, AdcTypes
  <2>2. \A b \in Adc!Adcs : Len(adc_queue'[b]) <= ADC_QUEUE_LENGTH
    <3>1. Len(adc_queue'[a]) <= ADC_QUEUE_LENGTH
      BY <1>2, <1>3 DEF Adc!AdcAssumption
    <3>2. QED
      BY <1>3, <3>1 DEF AdcInv, AdcTypes
  <2>3. QED
    BY <1>1, <2>1, <2>2 DEF AdcInv, AdcTypes
<1>6. SamplesInTime'
  <2> SUFFICES ASSUME NEW b \in Adc!Adcs
               PROVE  /\ \A i \in 1..Len(adc_queue'[b]) : adc_queue'[b][i] + i <= Lateness(b)'
                      /\ \A age \in converting[b] : age + Len(adc_queue'[b]) + 1 <= Lateness(b)'
    BY <1>1 DEF SamplesInTime
  <2>1. CASE b = a
    <3>1. Lateness(a) = failures + 1 /\ Lateness(a)' = failures
      BY <1>1 DEF Lateness
    <3>2. ASSUME NEW i \in 1..Len(adc_queue'[a])
          PROVE  adc_queue'[a][i] + i <= failures
      <4>1. i + 1 \in 1..Len(adc_queue[a]) /\ adc_queue'[a][i] = adc_queue[a][i + 1]
        BY <1>2, <1>3
      <4>2. adc_queue[a][i + 1] + (i + 1) <= failures + 1
        BY <3>1, <4>1 DEF AdcInv, SamplesInTime
      <4>3. adc_queue[a][i + 1] \in Nat
        BY <1>2, <4>1
      <4>4. QED
        BY <1>2, <4>1, <4>2, <4>3, SMTT(30)
    <3>3. ASSUME NEW age \in converting[a]
          PROVE  age + Len(adc_queue'[a]) + 1 <= failures
      <4>1. age + Len(adc_queue[a]) + 1 <= failures + 1 /\ age \in Nat
        BY <3>1 DEF AdcInv, AdcTypes, SamplesInTime
      <4>2. QED
        BY <1>2, <1>3, <4>1
    <3>4. QED
      BY <2>1, <3>1, <3>2, <3>3
  <2>2. CASE b # a
    <3>1. Lateness(b)' = Lateness(b) /\ adc_queue'[b] = adc_queue[b]
      BY <1>1, <1>3, <2>2 DEF Lateness
    <3>2. QED
      BY <3>1 DEF AdcInv, SamplesInTime
  <2>3. QED
    BY <2>1, <2>2
<1>7. SamplesAreOld'
  BY <1>1 DEF SamplesAreOld, WillStart, Adc!Adcs
<1>8. ArrayInTime'
  BY <1>1, <1>4 DEF ArrayInTime, AdcInv, AdcTypes
<1>9. QED
  BY <1>5, <1>6, <1>7, <1>8 DEF AdcInv

(* A conversion that ends puts its sample behind those in the queue, or    *)
(* loses it when the queue is full.                                        *)
LEMMA AdcConvert ==
  ASSUME Adc!AdcAssumption, AdcInv, NEW a \in Adc!Adcs, Adc!Convert(a)
  PROVE  AdcInv'
<1> DEFINE q == adc_queue[a]
<1>1. PICK age \in converting[a] :
        /\ adc_queue' = [adc_queue EXCEPT ![a] =
                           IF Len(q) < ADC_QUEUE_LENGTH THEN Append(q, age) ELSE q]
        /\ converting' = [converting EXCEPT ![a] = {}]
        /\ UNCHANGED <<adc_pc, result, failures>>
  BY DEF Adc!Convert
<1>2. age \in Nat /\ q \in Seq(Nat) /\ Len(q) \in Nat /\ Len(q) <= ADC_QUEUE_LENGTH
  BY DEF AdcInv, AdcTypes
<1>3. /\ Append(q, age) \in Seq(Nat) /\ Len(Append(q, age)) = Len(q) + 1
      /\ \A i \in 1..Len(q) : Append(q, age)[i] = q[i]
      /\ Append(q, age)[Len(q) + 1] = age
  BY <1>2, AppendProperties
<1>4. /\ adc_queue'[a] = IF Len(q) < ADC_QUEUE_LENGTH THEN Append(q, age) ELSE q
      /\ \A b \in Adc!Adcs \ {a} : adc_queue'[b] = adc_queue[b] /\ converting'[b] = converting[b]
      /\ converting'[a] = {}
      /\ \A b \in Adc!Adcs : Lateness(b)' = Lateness(b)
  BY <1>1 DEF AdcInv, AdcTypes, Lateness
<1>5. ASSUME NEW i \in 1..Len(adc_queue'[a])
      PROVE  \/ i \in 1..Len(q) /\ adc_queue'[a][i] = q[i]
             \/ i = Len(q) + 1 /\ adc_queue'[a][i] = age
  BY <1>2, <1>3, <1>4
<1>6. AdcTypes'
  <2>1. adc_queue'[a] \in Seq(Nat) /\ Len(adc_queue'[a]) <= ADC_QUEUE_LENGTH
    BY <1>2, <1>3, <1>4 DEF Adc!AdcAssumption
  <2>2. adc_queue' \in [Adc!Adcs -> Seq(Nat)]
    BY <1>1, <2>1 DEF AdcInv, AdcTypes
  <2>3. \A b \in Adc!Adcs : Len(adc_queue'[b]) <= ADC_QUEUE_LENGTH
    BY <1>4, <2>1 DEF AdcInv, AdcTypes
  <2>4. converting' \in [Adc!Adcs -> SUBSET Nat]
    BY <1>1 DEF AdcInv, AdcTypes
  <2>5. QED
    BY <1>1, <2>2, <2>3, <2>4 DEF AdcInv, AdcTypes
<1>7. SamplesInTime'
  <2> SUFFICES ASSUME NEW b \in Adc!Adcs
               PROVE  /\ \A i \in 1..Len(adc_queue'[b]) : adc_queue'[b][i] + i <= Lateness(b)
                      /\ \A x \in converting'[b] : x + Len(adc_queue'[b]) + 1 <= Lateness(b)
    BY <1>4 DEF SamplesInTime
  <2>1. CASE b = a
    <3>1. age + Len(q) + 1 <= Lateness(a) /\ \A i \in 1..Len(q) : q[i] + i <= Lateness(a)
      BY DEF AdcInv, SamplesInTime
    <3>2. age + (Len(q) + 1) <= Lateness(a)
      <4>1. age + (Len(q) + 1) = age + Len(q) + 1
        BY <1>2
      <4>2. QED
        BY <3>1, <4>1
    <3>3. QED
      BY <1>4, <1>5, <2>1, <3>1, <3>2
  <2>2. CASE b # a
    BY <1>4, <2>2 DEF AdcInv, SamplesInTime
  <2>3. QED
    BY <2>1, <2>2
<1>8. SamplesAreOld'
  <2> SUFFICES ASSUME NEW b \in Adc!Adcs, adc_pc \in WillStart[b]
               PROVE  /\ \A i \in 1..Len(adc_queue'[b]) : adc_queue'[b][i] >= 1
                      /\ \A x \in converting'[b] : x >= 1
    BY <1>1 DEF SamplesAreOld
  <2>1. CASE b = a
    <3>1. age >= 1 /\ \A i \in 1..Len(q) : q[i] >= 1
      BY <2>1 DEF AdcInv, SamplesAreOld
    <3>2. QED
      BY <1>4, <1>5, <2>1, <3>1
  <2>2. CASE b # a
    BY <1>4, <2>2 DEF AdcInv, SamplesAreOld
  <2>3. QED
    BY <2>1, <2>2
<1>9. ArrayInTime'
  BY <1>1 DEF AdcInv, ArrayInTime
<1>10. QED
  BY <1>6, <1>7, <1>8, <1>9 DEF AdcInv

(* Every step keeps the invariant.                                         *)
LEMMA AdcStep ==
  ASSUME Adc!AdcAssumption, AdcInv, [Adc!Next]_(Adc!vars)
  PROVE  AdcInv'
<1>1. CASE Adc!Call
  BY <1>1, AdcCall
<1>2. ASSUME NEW a \in Adc!Adcs,
             \/ Adc!Start(a) \/ Adc!StartFails(a)
             \/ Adc!Receive(a) \/ Adc!ReceiveFails(a) \/ Adc!Convert(a)
      PROVE  AdcInv'
  <2>1. CASE Adc!Start(a)
    BY <2>1, AdcStart
  <2>2. CASE Adc!StartFails(a) \/ Adc!ReceiveFails(a)
    BY <2>2, AdcFail DEF Adc!StartFails, Adc!ReceiveFails
  <2>3. CASE Adc!Receive(a)
    BY <2>3, AdcReceive
  <2>4. CASE Adc!Convert(a)
    BY <2>4, AdcConvert
  <2>5. QED
    BY <1>2, <2>1, <2>2, <2>3, <2>4
<1>3. CASE UNCHANGED Adc!vars
  <2> USE <1>3 DEF Adc!vars, AdcInv
  <2>1. AdcTypes'
    BY DEF AdcTypes
  <2>2. SamplesInTime'
    BY DEF SamplesInTime, Lateness
  <2>3. SamplesAreOld' /\ ArrayInTime'
    BY DEF SamplesAreOld, ArrayInTime
  <2>4. QED
    BY <2>1, <2>2, <2>3
<1>4. QED
  BY <1>1, <1>2, <1>3 DEF Adc!Next, Adc!Read_ADC

(* A call that succeeds has received both samples in time.                 *)
LEMMA ReadInTime ==
  ASSUME AdcInv, [Adc!Next]_(Adc!vars), Adc!Succeeds
  PROVE  \A a \in Adc!Adcs : result'[a] <= failures
<1>1. adc_pc = "receive_battery" /\ adc_pc' = "idle" /\ failures' = failures /\ failures \in Nat
  BY DEF Adc!Succeeds, AdcInv, AdcTypes
<1>2. ~Adc!Fail
  BY <1>1 DEF Adc!Fail
<1>3. PICK a \in Adc!Adcs : Adc!Receive(a)
  <2>1. ~Adc!Call /\ adc_pc' # adc_pc
    BY <1>1 DEF Adc!Call
  <2>2. \A a \in Adc!Adcs : ~Adc!Start(a) /\ ~Adc!Convert(a)
    BY <1>1 DEF Adc!Start, Adc!Starts, Adc!Adcs, Adc!Convert
  <2>3. \A a \in Adc!Adcs : ~Adc!StartFails(a) /\ ~Adc!ReceiveFails(a)
    BY <1>2 DEF Adc!StartFails, Adc!ReceiveFails
  <2>4. QED
    BY <2>1, <2>2, <2>3 DEF Adc!Next, Adc!Read_ADC, Adc!vars
<1>4. a = "battery" /\ adc_pc \in WaitsFor[a]
  BY <1>1, <1>3 DEF Adc!Receive, Adc!Receives, Adc!Adcs, WaitsFor
<1>5. /\ result' = [result EXCEPT !["battery"] = Head(adc_queue["battery"])]
      /\ adc_queue["battery"] # <<>>
  BY <1>3, <1>4 DEF Adc!Receive
<1>6. Head(adc_queue["battery"]) <= failures
  BY <1>4, <1>5, HeadInTime
<1>7. result["array"] <= failures
  BY <1>1 DEF AdcInv, ArrayInTime
<1>8. QED
  BY <1>5, <1>6, <1>7 DEF AdcInv, AdcTypes, Adc!Adcs

-----------------------------------------------------------------------------
(* TapAge: the tick count wraps between the messages of a tap.             *)

(* A power of two is the number of subsets of a set.                       *)
LEMMA PowerOfTwo == ASSUME NEW b \in Nat PROVE 2^b \in Nat \ {0}
<1> DEFINE bits == 1..b
<1>1. IsFiniteSet(bits) /\ Cardinality(bits) = b
  BY FS_Interval
<1>2. IsFiniteSet(SUBSET bits) /\ Cardinality(SUBSET bits) = 2^b
  BY <1>1, FS_SUBSET
<1>3. Cardinality(SUBSET bits) \in Nat /\ (Cardinality(SUBSET bits) = 0 <=> SUBSET bits = {})
  BY <1>2, FS_CardinalityType, FS_EmptySet
<1>4. SUBSET bits # {}
  OBVIOUS
<1>5. QED
  BY <1>2, <1>3, <1>4

-----------------------------------------------------------------------------
(* The tick count is as many ticks after the last message as have passed,  *)
(* or has wrapped since.                                                   *)
SinceLast ==
  tick_count = s_last_rx_time + since \/ tick_count + 2^TICK_BITS = s_last_rx_time + since

AgeInv == Age!TypeOK /\ SinceLast

(* The initial state satisfies the invariant.                              *)
LEMMA AgeInit ==
  ASSUME Age!TapAgeAssumption, Age!Init
  PROVE  AgeInv
<1> DEFINE round == 2^TICK_BITS
           width == 2^AGE_BITS
<1>1. round \in Nat \ {0} /\ width \in Nat \ {0}
  BY PowerOfTwo DEF Age!TapAgeAssumption
<1>2. Age!MaxTick = round - 1
  BY DEF Age!MaxTick
<1> HIDE DEF round, width
<1>3. {tick_count, s_last_rx_time, since} \subseteq 0..(round - 1) /\ tap_age \in 0..(width - 1)
  BY <1>1 DEF Age!Init
<1>4. Age!TypeOK
  BY <1>2, <1>3 DEF Age!TypeOK, width
<1>5. SinceLast
  BY DEF Age!Init, SinceLast
<1>6. QED
  BY <1>4, <1>5 DEF AgeInv

(* The difference across zero is the time since the last message.          *)
LEMMA DifferenceIsSince ==
  ASSUME Age!TapAgeAssumption, AgeInv
  PROVE  Age!Calculate_TimeDifference(tick_count, s_last_rx_time) = since
<1> DEFINE round == 2^TICK_BITS
<1>1. round \in Nat \ {0}
  BY PowerOfTwo DEF Age!TapAgeAssumption
<1>2. Age!MaxTick = round - 1
  BY DEF Age!MaxTick
<1>3. tick_count = s_last_rx_time + since \/ tick_count + round = s_last_rx_time + since
  BY DEF AgeInv, SinceLast
<1> HIDE DEF round
<1>4. {tick_count, s_last_rx_time, since} \subseteq 0..(round - 1)
  BY <1>2 DEF AgeInv, Age!TypeOK
<1>5. QED
  BY <1>1, <1>2, <1>3, <1>4 DEF Age!Calculate_TimeDifference

(* Every step keeps the invariant, the one at which the count wraps too.   *)
LEMMA AgeStep ==
  ASSUME Age!TapAgeAssumption, AgeInv, [Age!Next]_(Age!ageVars)
  PROVE  AgeInv'
<1> DEFINE round == 2^TICK_BITS
           width == 2^AGE_BITS
<1>1. round \in Nat \ {0} /\ width \in Nat \ {0}
  BY PowerOfTwo DEF Age!TapAgeAssumption
<1>2. Age!MaxTick = round - 1
  BY DEF Age!MaxTick
<1>3. tick_count = s_last_rx_time + since \/ tick_count + round = s_last_rx_time + since
  BY DEF AgeInv, SinceLast
<1>4. {tick_count, s_last_rx_time, since} \subseteq 0..(round - 1) /\ tap_age \in 0..(width - 1)
  BY <1>2 DEF AgeInv, Age!TypeOK
<1>5. ASSUME {tick_count', s_last_rx_time', since'} \subseteq 0..(round - 1),
             tap_age' \in 0..(width - 1),
             \/ tick_count' = s_last_rx_time' + since'
             \/ tick_count' + round = s_last_rx_time' + since'
      PROVE  AgeInv'
  BY <1>2, <1>5 DEF AgeInv, Age!TypeOK, SinceLast, Age!MaxTick
<1>6. CASE Age!Tick
  <2>1. /\ since < round - 1 /\ since' = since + 1 /\ tick_count' = (tick_count + 1) % round
        /\ UNCHANGED <<s_last_rx_time, tap_age>>
    BY <1>2, <1>6 DEF Age!Tick
  <2> HIDE DEF round, width
  <2>2. tick_count' = IF tick_count + 1 < round THEN tick_count + 1 ELSE 0
    <3>1. tick_count \in Nat /\ tick_count + 1 <= round
      BY <1>1, <1>4
    <3>2. \A n \in Nat : n < round => n % round = n
      BY <1>1
    <3>3. round % round = 0
      BY <1>1
    <3>4. QED
      BY <1>1, <2>1, <3>1, <3>2, <3>3
  <2>3. {tick_count', s_last_rx_time', since'} \subseteq 0..(round - 1)
    BY <1>1, <1>4, <2>1, <2>2
  <2>4. \/ tick_count' = s_last_rx_time' + since'
        \/ tick_count' + round = s_last_rx_time' + since'
    <3>1. /\ tick_count \in Nat /\ s_last_rx_time \in Nat /\ since \in Nat
          /\ tick_count < round /\ s_last_rx_time < round
      BY <1>1, <1>4
    <3>2. CASE tick_count + 1 < round
      BY <1>1, <1>3, <2>1, <2>2, <3>1, <3>2
    <3>3. CASE tick_count + 1 = round
      <4>1. tick_count' = 0 /\ s_last_rx_time' = s_last_rx_time /\ since' = since + 1
        BY <1>1, <2>1, <2>2, <3>3
      <4>2. tick_count = s_last_rx_time + since
        BY <1>1, <1>3, <2>1, <3>1, <3>3
      <4>3. round = s_last_rx_time + (since + 1)
        BY <1>1, <3>1, <3>3, <4>2
      <4>4. QED
        BY <1>1, <4>1, <4>3
    <3>4. QED
      BY <1>1, <3>1, <3>2, <3>3
  <2>5. QED
    BY <1>4, <1>5, <2>1, <2>3, <2>4
<1>7. CASE Age!Unpack
  <2>1. /\ tap_age' = IF s_last_rx_time = 0 THEN 0 ELSE since % width
        /\ s_last_rx_time' = tick_count /\ since' = 0 /\ UNCHANGED tick_count
    BY <1>7, DifferenceIsSince DEF Age!Unpack
  <2> HIDE DEF round, width
  <2>2. tap_age' \in 0..(width - 1)
    BY <1>1, <1>4, <2>1
  <2>3. QED
    BY <1>1, <1>4, <1>5, <2>1, <2>2
<1>8. CASE UNCHANGED Age!ageVars
  BY <1>3, <1>4, <1>5, <1>8 DEF Age!ageVars
<1>9. QED
  BY <1>6, <1>7, <1>8 DEF Age!Next

(* The age that is stored is the time since the last message.              *)
LEMMA AgeWhenUnpacked ==
  ASSUME Age!TapAgeAssumption, AgeInv, Age!Unpack
  PROVE  tap_age' = since % 2^AGE_BITS \/ (s_last_rx_time = 0 /\ tap_age' = 0)
<1> DEFINE age == since % 2^AGE_BITS
<1>1. tap_age' = IF s_last_rx_time = 0 THEN 0 ELSE age
  BY DifferenceIsSince, Zenon DEF Age!Unpack
<1> HIDE DEF age
<1>2. tap_age' = age \/ (s_last_rx_time = 0 /\ tap_age' = 0)
  BY <1>1
<1>3. QED
  BY <1>2 DEF age

-----------------------------------------------------------------------------
(* HumiditySensor: transfers that outlive the call that started them.      *)

(* The sensor answers, or it does not. *)
Answering == hi2c4 \in {"receives", "receives_humidity"}

(* As long as nothing has failed the semaphore is that of the transfer the *)
(* call has started.                                                       *)
InStep ==
  trouble = 0 =>
    CASE sht_pc = "sent"     -> hi2c4 = IF I2C_complete THEN "ready" ELSE "sends"
      [] sht_pc = "received" -> hi2c4 = "ready" <=> I2C_complete
      [] OTHER               -> hi2c4 = "ready" /\ ~I2C_complete

(* A call waits for the answer of no other call's command.                 *)
OwnTransfer ==
  /\ sht_pc \in {"sent", "receive"} => hi2c4 \in {"ready", "sends"}
  /\ sht_pc \in {"received", "convert"} => hi2c4 # "sends"

(* An answer is to the last command, which a call that failed may have     *)
(* left behind.                                                            *)
OwnCommand ==
  /\ sht_pc \in {"sent", "receive", "received", "convert"} => command = 0
  /\ Answering => command <= trouble + (IF sht_pc = "transmit" THEN 1 ELSE 0)
  /\ hi2c4 = "receives_humidity" => rx_bytes["SHT45_TEMP"] = command

(* A value may be older than the failures by one call that has taken it    *)
(* before the answer was complete, and by the call under way.              *)
BytesInTime ==
  \A p \in Sht!Parts :
    rx_bytes[p] <= trouble + (IF Answering THEN 1 ELSE 0)
                     + (IF sht_pc \in {"transmit", "sent", "receive"} THEN 1 ELSE 0)

ShtTypes ==
  /\ Sht!TypeOK /\ trouble \in Nat /\ rx_bytes \in [Sht!Parts -> Nat]

ShtInv == ShtTypes /\ InStep /\ OwnTransfer /\ OwnCommand /\ BytesInTime

(* The initial state satisfies the invariant: nothing is on the bus.       *)
LEMMA ShtInit ==
  ASSUME Sht!Init
  PROVE  ShtInv
<1>1. SHT45_ERROR \in BOOLEAN /\ I2C_complete \in BOOLEAN
  BY Zenon DEF Sht!Init
<1>2. ShtTypes
  BY <1>1 DEF Sht!Init, ShtTypes, Sht!TypeOK
<1>3. InStep /\ OwnTransfer /\ OwnCommand
  BY DEF Sht!Init, InStep, OwnTransfer, OwnCommand, Answering
<1>4. BytesInTime
  BY DEF Sht!Init, BytesInTime, Answering
<1>5. QED
  BY <1>2, <1>3, <1>4 DEF ShtInv

(* Every step keeps the invariant.                                         *)
LEMMA ShtStep ==
  ASSUME Sht!HumidityAssumption, ShtInv, [Sht!Next]_(Sht!shtVars)
  PROVE  ShtInv'
<1> USE DEF ShtInv
<1>1. /\ trouble \in Nat /\ command \in Nat /\ rx_bytes \in [Sht!Parts -> Nat]
      /\ error_counter_sht45 \in 0..trouble /\ SHT45_ERROR \in BOOLEAN
      /\ I2C_complete \in BOOLEAN
      /\ hi2c4 \in {"ready", "sends", "receives", "receives_humidity"}
      /\ sht_pc \in {"init", "idle", "transmit", "sent", "receive", "received",
                     "convert", "Error_Handler"}
  BY DEF ShtTypes, Sht!TypeOK
<1>2. \A p \in Sht!Parts : rx_bytes[p] \in Nat
  BY <1>1
<1> USE DEF Sht!errors
<1>3. CASE Sht!SHT45_init
  <2> USE <1>3 DEF Sht!SHT45_init
  <2>1. ShtTypes'
    BY DEF ShtTypes, Sht!TypeOK
  <2>2. InStep' /\ OwnTransfer' /\ OwnCommand'
    BY <1>1 DEF InStep, OwnTransfer, OwnCommand, Answering
  <2>3. BytesInTime'
    BY <1>1, <1>2 DEF BytesInTime, Answering
  <2>4. QED
    BY <2>1, <2>2, <2>3
<1>4. CASE Sht!Call
  <2> USE <1>4 DEF Sht!Call
  <2>1. ShtTypes'
    BY <1>1, <1>2 DEF ShtTypes, Sht!TypeOK
  <2>2. InStep' /\ OwnTransfer'
    BY <1>1 DEF InStep, OwnTransfer
  <2>3. OwnCommand'
    BY <1>1, <1>2 DEF OwnCommand, Answering, Sht!Parts
  <2>4. BytesInTime'
    BY <1>1, <1>2 DEF BytesInTime, Answering
  <2>5. QED
    BY <2>1, <2>2, <2>3, <2>4
<1>5. CASE Sht!Transmit
  <2> USE <1>5 DEF Sht!Transmit
  <2>1. ShtTypes'
    BY <1>1 DEF ShtTypes, Sht!TypeOK
  <2>2. InStep' /\ OwnTransfer' /\ OwnCommand'
    BY <1>1 DEF InStep, OwnTransfer, OwnCommand, Answering
  <2>3. BytesInTime'
    BY <1>1, <1>2 DEF BytesInTime, Answering
  <2>4. QED
    BY <2>1, <2>2, <2>3
<1>6. CASE Sht!Receive
  <2> USE <1>6 DEF Sht!Receive
  <2>1. ShtTypes'
    BY <1>1 DEF ShtTypes, Sht!TypeOK
  <2>2. InStep' /\ OwnTransfer' /\ OwnCommand'
    BY <1>1 DEF InStep, OwnTransfer, OwnCommand, Answering
  <2>3. BytesInTime'
    BY <1>1, <1>2 DEF BytesInTime, Answering
  <2>4. QED
    BY <2>1, <2>2, <2>3
<1>7. CASE Sht!Complete
  <2> USE <1>7 DEF Sht!Complete
  <2>1. ShtTypes'
    BY <1>1 DEF ShtTypes, Sht!TypeOK
  <2>2. InStep' /\ OwnTransfer' /\ OwnCommand'
    BY <1>1 DEF InStep, OwnTransfer, OwnCommand, Answering
  <2>3. BytesInTime'
    BY <1>1, <1>2 DEF BytesInTime, Answering
  <2>4. QED
    BY <2>1, <2>2, <2>3
<1>8. CASE Sht!Convert
  <2> USE <1>8 DEF Sht!Convert
  <2>1. ShtTypes'
    BY <1>1 DEF ShtTypes, Sht!TypeOK
  <2>2. InStep' /\ OwnTransfer' /\ OwnCommand'
    BY <1>1 DEF InStep, OwnTransfer, OwnCommand, Answering
  <2>3. BytesInTime'
    BY <1>1, <1>2 DEF BytesInTime, Answering
  <2>4. QED
    BY <2>1, <2>2, <2>3
<1>9. CASE Sht!Fails
  <2> USE <1>9 DEF Sht!Fails
  <2>1. trouble' = trouble + 1 /\ trouble' \in Nat \ {0} /\ error_counter_sht45' \in 0..trouble'
    BY <1>1
  <2>2. ShtTypes'
    BY <1>1, <2>1 DEF ShtTypes, Sht!TypeOK
  <2>3. InStep' /\ OwnTransfer' /\ OwnCommand'
    BY <1>1, <2>1 DEF InStep, OwnTransfer, OwnCommand, Answering
  <2>4. BytesInTime'
    BY <1>1, <1>2, <2>1 DEF BytesInTime, Answering
  <2>5. QED
    BY <2>2, <2>3, <2>4
<1>10. CASE Sht!StoreTemperature
  <2> USE <1>10 DEF Sht!StoreTemperature
  <2>1. ShtTypes'
    BY <1>1 DEF ShtTypes, Sht!TypeOK
  <2>2. InStep' /\ OwnTransfer' /\ OwnCommand'
    BY <1>1 DEF InStep, OwnTransfer, OwnCommand, Answering, Sht!Parts
  <2>3. BytesInTime'
    BY <1>1, <1>2 DEF BytesInTime, OwnCommand, Answering
  <2>4. QED
    BY <2>1, <2>2, <2>3
<1>11. CASE Sht!TransferEnds
  <2> USE <1>11 DEF Sht!TransferEnds
  <2>1. ShtTypes'
    BY <1>1 DEF ShtTypes, Sht!TypeOK
  <2>2. InStep' /\ OwnTransfer' /\ OwnCommand'
    BY <1>1 DEF InStep, OwnTransfer, OwnCommand, Answering
  <2>3. BytesInTime'
    BY <1>1, <1>2 DEF BytesInTime, OwnCommand, Answering, Sht!Parts
  <2>4. QED
    BY <2>1, <2>2, <2>3
<1>12. CASE Sht!TransferFails
  <2> USE <1>12 DEF Sht!TransferFails
  <2>1. trouble' = trouble + 1 /\ trouble' \in Nat \ {0}
    BY <1>1
  <2>2. error_counter_sht45' \in 0..trouble' /\ SHT45_ERROR' \in BOOLEAN
    BY <1>1, <2>1
  <2>3. ShtTypes'
    BY <1>1, <2>1, <2>2 DEF ShtTypes, Sht!TypeOK
  <2>4. InStep' /\ OwnTransfer' /\ OwnCommand'
    BY <1>1, <2>1 DEF InStep, OwnTransfer, OwnCommand, Answering
  <2>5. BytesInTime'
    BY <1>1, <1>2, <2>1 DEF BytesInTime, Answering
  <2>6. QED
    BY <2>3, <2>4, <2>5
<1>13. CASE UNCHANGED Sht!shtVars
  <2> USE <1>13 DEF Sht!shtVars
  <2>1. ShtTypes'
    BY DEF ShtTypes, Sht!TypeOK
  <2>2. InStep' /\ OwnTransfer' /\ OwnCommand'
    BY <1>1 DEF InStep, OwnTransfer, OwnCommand, Answering
  <2>3. BytesInTime'
    BY DEF BytesInTime, Answering
  <2>4. QED
    BY <2>1, <2>2, <2>3
<1>14. QED
  BY <1>3, <1>4, <1>5, <1>6, <1>7, <1>8, <1>9, <1>10, <1>11, <1>12, <1>13
     DEF Sht!Next, Sht!SHT45_get

(* When the call converts, no answer is under way unless something failed. *)
LEMMA FreshWhenConverted ==
  ASSUME ShtInv, Sht!Convert
  PROVE  \A p \in Sht!Parts : rx_bytes[p] <= IF trouble = 0 THEN 0 ELSE trouble + 1
<1>1. trouble \in Nat /\ \A p \in Sht!Parts : rx_bytes[p] \in Nat
  BY DEF ShtInv, ShtTypes
<1>2. sht_pc = "convert"
  BY DEF Sht!Convert
<1>3. trouble = 0 => ~Answering
  BY <1>2 DEF ShtInv, InStep, Answering
<1>4. QED
  BY <1>1, <1>2, <1>3 DEF ShtInv, BytesInTime

-----------------------------------------------------------------------------
(* Fans: three tasks at one chip.                                          *)

FanSpeeds == {0, FAN_CONTROLLER_RPM, FAN_MAX_RPM}
FanPlaces == {"i2c", "driver", "delay", "wait", "second", "done",
              "Fault_Loop", "Error_Handler"} \union Fan!ChipFans

(* The fan controller waits for Task_Init to be done. *)
FanInv ==
  /\ Fan!TypeOK
  /\ rpm \in [Fan!ChipFans -> FanSpeeds]
  /\ fan_pc \in [Fan!FanTasks -> FanPlaces]

(* The fan controller's own speed is within the limits.                    *)
LEMMA ControllerSpeed ==
  ASSUME Fan!FansAssumption
  PROVE  Fan!Max({FAN_MIN_RPM, Fan!Min({FAN_MAX_RPM, FAN_CONTROLLER_RPM})}) = FAN_CONTROLLER_RPM
<1> USE DEF Fan!FansAssumption
<1>1. Fan!Min({FAN_MAX_RPM, FAN_CONTROLLER_RPM}) = FAN_CONTROLLER_RPM
  <2>1. \A x \in {FAN_MAX_RPM, FAN_CONTROLLER_RPM} :
          (\A y \in {FAN_MAX_RPM, FAN_CONTROLLER_RPM} : x <= y) <=> x = FAN_CONTROLLER_RPM
    OBVIOUS
  <2>2. QED
    BY <2>1 DEF Fan!Min
<1>2. \A x \in {FAN_MIN_RPM, FAN_CONTROLLER_RPM} :
        (\A y \in {FAN_MIN_RPM, FAN_CONTROLLER_RPM} : x >= y) <=> x = FAN_CONTROLLER_RPM
  OBVIOUS
<1>3. QED
  BY <1>1, <1>2 DEF Fan!Max

(* The initial state satisfies the invariant: both fans stand still.       *)
LEMMA FanInit == Fan!Init => FanInv
<1> SUFFICES ASSUME Fan!Init PROVE FanInv
  OBVIOUS
<1>1. i2c_initialized \in BOOLEAN /\ driver_initialized \in BOOLEAN /\ any_fault \in BOOLEAN
  BY Zenon DEF Fan!Init
<1>2. rpm \in [Fan!ChipFans -> FanSpeeds] /\ fan_pc \in [Fan!FanTasks -> FanPlaces]
  BY DEF Fan!Init, FanSpeeds, FanPlaces
<1>3. QED
  BY <1>1, <1>2 DEF FanInv, Fan!TypeOK, FanSpeeds, FanPlaces

(* Whatever a task does, it stays at one of the places.                    *)
LEMMA FanStep ==
  ASSUME Fan!FansAssumption, FanInv, [Fan!Next]_(Fan!fanVars)
  PROVE  FanInv'
<1>1. /\ i2c_initialized \in BOOLEAN /\ driver_initialized \in BOOLEAN
      /\ any_fault \in BOOLEAN /\ rpm \in [Fan!ChipFans -> FanSpeeds]
      /\ fan_pc \in [Fan!FanTasks -> FanPlaces]
  BY DEF FanInv, Fan!TypeOK
<1>2. ASSUME i2c_initialized' \in BOOLEAN, driver_initialized' \in BOOLEAN,
             any_fault' \in BOOLEAN, rpm' \in [Fan!ChipFans -> FanSpeeds],
             fan_pc' \in [Fan!FanTasks -> FanPlaces]
      PROVE  FanInv'
  BY <1>2 DEF FanInv, Fan!TypeOK, FanSpeeds, FanPlaces
<1>3. ASSUME NEW t, NEW from, NEW to \in SUBSET FanPlaces, Fan!Goto(t, from, to)
      PROVE  fan_pc' \in [Fan!FanTasks -> FanPlaces]
  BY <1>1, <1>3 DEF Fan!Goto
<1>4. ASSUME NEW f \in Fan!ChipFans, NEW speed \in FanSpeeds, Fan!SetFanRPM(f, speed)
      PROVE  rpm' \in [Fan!ChipFans -> FanSpeeds]
  BY <1>1, <1>4 DEF Fan!SetFanRPM
<1>5. {"EMC2305_FAN1", "EMC2305_FAN2"} \subseteq Fan!ChipFans /\ Fan!ChipFans \subseteq FanPlaces
  BY DEF Fan!ChipFans, FanPlaces
<1>6. ASSUME NEW t \in {"Task_Init", "Task_FaultHandler"}, Fan!InitStep(t)
      PROVE  FanInv'
  <2>1. {Fan!AfterInit(t)} \in SUBSET FanPlaces
    BY <1>5 DEF Fan!AfterInit, FanPlaces
  <2>2. /\ {"driver"} \in SUBSET FanPlaces /\ {"Error_Handler"} \in SUBSET FanPlaces
        /\ {"delay"} \in SUBSET FanPlaces
    BY DEF FanPlaces
  <2>3. fan_pc' \in [Fan!FanTasks -> FanPlaces]
    BY <1>3, <1>6, <2>1, <2>2 DEF Fan!InitStep, Fan!I2CStarts, Fan!I2CFails, Fan!WaitForChip,
                                  Fan!ChipSilent, Fan!ConfigureChip
  <2>4. i2c_initialized' \in BOOLEAN /\ driver_initialized' \in BOOLEAN /\ any_fault' \in BOOLEAN
    BY <1>1, <1>6 DEF Fan!InitStep, Fan!I2CStarts, Fan!I2CFails, Fan!WaitForChip,
                                  Fan!ChipSilent, Fan!ConfigureChip
  <2>5. rpm' = rpm
    BY <1>6 DEF Fan!InitStep, Fan!I2CStarts, Fan!I2CFails, Fan!WaitForChip,
                                  Fan!ChipSilent, Fan!ConfigureChip
  <2>6. QED
    BY <1>1, <1>2, <2>3, <2>4, <2>5
<1>7. CASE Fan!set_fans_MAX
  <2>1. PICK to \in {"i2c", "driver", "EMC2305_FAN1"} : Fan!Goto("Task_FaultHandler", "wait", {to})
    BY <1>7 DEF Fan!set_fans_MAX
  <2>2. {to} \in SUBSET FanPlaces
    BY <1>5 DEF FanPlaces
  <2>3. fan_pc' \in [Fan!FanTasks -> FanPlaces]
    BY <1>3, <2>1, <2>2
  <2>4. QED
    BY <1>1, <1>2, <1>7, <2>3 DEF Fan!set_fans_MAX
<1>8. ASSUME NEW f \in Fan!ChipFans,
             NEW then \in {"EMC2305_FAN2", "Fault_Loop"}, Fan!ForceFan(f, then)
      PROVE  FanInv'
  <2>1. {then} \in SUBSET FanPlaces
    BY <1>5 DEF FanPlaces
  <2>2. fan_pc' \in [Fan!FanTasks -> FanPlaces]
    BY <1>3, <1>8, <2>1 DEF Fan!ForceFan
  <2>3. rpm' \in [Fan!ChipFans -> FanSpeeds]
    BY <1>4, <1>8 DEF Fan!ForceFan, FanSpeeds
  <2>4. QED
    BY <1>1, <1>2, <1>8, <2>2, <2>3 DEF Fan!ForceFan
<1>9. ASSUME NEW f \in Fan!ChipFans,
             NEW from, NEW to \in {"second", "wait"}, Fan!ControlFan(f, from, to)
      PROVE  FanInv'
  <2>1. {to} \in SUBSET FanPlaces
    BY DEF FanPlaces
  <2>2. fan_pc' \in [Fan!FanTasks -> FanPlaces]
    BY <1>3, <1>9, <2>1 DEF Fan!ControlFan
  <2>3. rpm' = rpm \/ Fan!SetFanRPM(f, FAN_CONTROLLER_RPM)
    BY <1>9, ControllerSpeed DEF Fan!ControlFan, Fan!set_fan_rpm
  <2>4. rpm' \in [Fan!ChipFans -> FanSpeeds]
    BY <1>1, <1>4, <2>3 DEF FanSpeeds
  <2>5. QED
    BY <1>1, <1>2, <1>9, <2>2, <2>4 DEF Fan!ControlFan
<1>10. CASE Fan!FaultRaised
  BY <1>1, <1>2, <1>10 DEF Fan!FaultRaised
<1>11. CASE UNCHANGED Fan!fanVars
  BY <1>1, <1>2, <1>11 DEF Fan!fanVars
<1>12. QED
  BY <1>5, <1>6, <1>7, <1>8, <1>9, <1>10, <1>11
     DEF Fan!Next, Fan!Task_FaultHandler, Fan!Task_Fan_Controller

-----------------------------------------------------------------------------
(* StatusLEDs: three callers at two bitmaps and one chain of registers.    *)

Lights == {Led!Leds[n] : n \in DOMAIN Led!Leds} \union {"DEBUG_LED"}
Requests ==
  {Led!NoCall, Led!Clear} \union [op : {"LED_set"}, led : Lights, state : BOOLEAN]
    \union [op : {"LEDsModFaultBitmap_set"}, module : Nat]
Holds == {"change", "set", "load", "push", "give"}

Callers == {"Task_FaultHandler", "Task_Amperes_Monitor", "Error_Handler"}
ScriptLength == [Task_FaultHandler |-> 4, Task_Amperes_Monitor |-> 2, Error_Handler |-> 3]
Asking == [on : SUBSET Lights, module : Nat]

LightTypes ==
  /\ LEDbitmap \subseteq Lights
  /\ modFaultBitmap \in 0..31
  /\ Len(chain) = Led!Places
  /\ Len(outputs) = Led!Places
  /\ asked \in Asking
CallTypes ==
  /\ mod_fault_num \in Nat
  /\ xLEDMutex \in Callers \union {"nobody"}
  /\ led_pc \in [Callers -> {"idle", "take"} \union Holds]
  /\ request \in [Callers -> Requests]
  /\ \A c \in Callers : led_pc[c] # "idle" => request[c] # Led!NoCall
  /\ script \in [Callers -> Nat]
  /\ \A c \in Callers : script[c] \in 1..ScriptLength[c]
LedTypes == LightTypes /\ CallTypes

(* A call between the change of a bitmap and the push has the mutex. *)
Exclusion ==
  \A c \in Callers :
    /\ led_pc[c] \in Holds => xLEDMutex = c
    /\ xLEDMutex = c => led_pc[c] \in Holds

(* The bitmaps say what has been asked for. *)
BitmapsAre(a) == LEDbitmap = a.on /\ modFaultBitmap = a.module % 32
Shown(lamps) == lamps = Led!Picture(LEDbitmap, modFaultBitmap)

(* Where the caller with the mutex stands decides how far the bitmaps, the *)
(* chain and the outputs have got from what has been asked for to what its *)
(* call asks for.                                                          *)
AtRest == (xLEDMutex = "nobody") => (BitmapsAre(asked) /\ Shown(outputs))
Reached(place, r) ==
  /\ place = "change" => BitmapsAre(asked)
  /\ place = "set" => /\ r.op = "LED_set"
                      /\ LEDbitmap = asked.on \ {r.led}
                      /\ modFaultBitmap = asked.module % 32
  /\ place \in {"load", "push", "give"} => BitmapsAre(Led!Asked(r))
  /\ place = "push" => Shown(chain)
  /\ place = "give" => Shown(outputs)
UnderWay == \A c \in Callers : Reached(led_pc[c], request[c])

LedInv == LedTypes /\ Exclusion /\ AtRest /\ UnderWay

(* The callers are the same in every state.                                *)
LEMMA CallerNames ==
  Led!LedCallers = Callers /\ "nobody" \notin Callers
  BY DEF Led!LedCallers, Led!Script, Callers

(* The lights by name.                                                     *)
LEMMA LightNames ==
  Lights = {"HEARTBEAT_LED", "FAULT_LED", "OVER_V_LED", "LOW_V_LED", "OVER_AMP_LED",
            "OVER_TEMP_LED", "CHARGING_LED", "VTEMP_IN_LED", "AMP_IN_LED",
            "WATCHDOG_ERR_LED", "DEBUG_LED"}
<1>1. DOMAIN Led!Leds = 1..10
  BY DEF Led!Leds
<1>2. 1..10 = {1, 2, 3, 4, 5, 6, 7, 8, 9, 10}
  OBVIOUS
<1>3. {Led!Leds[n] : n \in {1, 2, 3, 4, 5, 6, 7, 8, 9, 10}} =
         {"HEARTBEAT_LED", "FAULT_LED", "OVER_V_LED", "LOW_V_LED", "OVER_AMP_LED",
          "OVER_TEMP_LED", "CHARGING_LED", "VTEMP_IN_LED", "AMP_IN_LED",
          "WATCHDOG_ERR_LED"}
  BY DEF Led!Leds
<1>4. QED
  BY <1>1, <1>2, <1>3 DEF Lights

(* Every call the callers make is a request the driver knows.              *)
LEMMA CallsAreRequests ==
  ASSUME mod_fault_num \in Nat, NEW c \in Callers
  PROVE  /\ Len(Led!Script[c].calls) = ScriptLength[c]
         /\ Led!Script[c].loop \in 1..ScriptLength[c]
         /\ \A i \in 1..ScriptLength[c] : Led!Script[c].calls[i] \in Requests
<1>1. \A l \in Lights, b \in BOOLEAN : Led!LED_set(l, b) \in Requests
  BY DEF Led!LED_set, Requests
<1>2. Led!NoCall \in Requests /\ Led!Clear \in Requests
  BY DEF Requests
<1>3. Led!ModFault_set(mod_fault_num) \in Requests
  BY DEF Led!ModFault_set, Requests
<1>4. \A f \in DOMAIN Led!LightOf : Led!LightOf[f] \in Lights
  BY LightNames DEF Led!LightOf
<1>5. {"FAULT_LED", "CHARGING_LED", "DEBUG_LED"} \subseteq Lights
  BY LightNames
<1>6. CASE c = "Task_FaultHandler"
  <2>1. Led!Script[c].calls = Led!HandlerScript /\ Led!Script[c].loop = 3
    BY <1>6 DEF Led!Script
  <2> DEFINE latched == IF Led!Latched THEN Led!ModFault_set(mod_fault_num) ELSE Led!NoCall
             light == IF first_fault \in DOMAIN Led!LightOf
                      THEN Led!LED_set(Led!LightOf[first_fault], TRUE) ELSE Led!NoCall
  <2>2. latched \in Requests /\ light \in Requests
    <3>1. latched \in Requests
      BY <1>2, <1>3
    <3>2. light \in Requests
      BY <1>1, <1>2, <1>4
    <3>3. QED
      BY <3>1, <3>2
  <2>3. Led!HandlerScript = <<Led!Clear, Led!LED_set("FAULT_LED", TRUE), latched, light>>
    BY DEF Led!HandlerScript
  <2>4. Led!LED_set("FAULT_LED", TRUE) \in Requests
    BY <1>1, <1>5
  <2> HIDE DEF latched, light
  <2>5. /\ Len(Led!HandlerScript) = 4 /\ Led!HandlerScript[1] = Led!Clear
        /\ Led!HandlerScript[2] = Led!LED_set("FAULT_LED", TRUE)
        /\ Led!HandlerScript[3] = latched /\ Led!HandlerScript[4] = light
    BY <2>3
  <2>6. \A i \in 1..4 : i = 1 \/ i = 2 \/ i = 3 \/ i = 4
    OBVIOUS
  <2>7. \A i \in 1..4 : Led!HandlerScript[i] \in Requests
    BY <1>2, <2>2, <2>4, <2>5, <2>6
  <2>8. ScriptLength[c] = 4 /\ 3 \in 1..4
    BY <1>6 DEF ScriptLength
  <2>9. QED
    BY <2>1, <2>5, <2>7, <2>8
<1>7. CASE c = "Task_Amperes_Monitor"
  <2>1. /\ Led!Script[c].calls = <<Led!LED_set("CHARGING_LED", TRUE),
                                  Led!LED_set("CHARGING_LED", FALSE)>>
        /\ Led!Script[c].loop = 1
    BY <1>7 DEF Led!Script
  <2>2. /\ Led!LED_set("CHARGING_LED", TRUE) \in Requests
        /\ Led!LED_set("CHARGING_LED", FALSE) \in Requests
    BY <1>1, <1>5
  <2>3. ASSUME NEW r, NEW s, r \in Requests, s \in Requests, Led!Script[c].calls = <<r, s>>
        PROVE  /\ Len(Led!Script[c].calls) = 2
               /\ \A i \in 1..2 : Led!Script[c].calls[i] \in Requests
    BY <2>3
  <2>4. /\ Len(Led!Script[c].calls) = 2
        /\ \A i \in 1..2 : Led!Script[c].calls[i] \in Requests
    BY <2>1, <2>2, <2>3, Zenon
  <2>5. ScriptLength[c] = 2 /\ 1 \in 1..2
    BY <1>7 DEF ScriptLength
  <2>6. QED
    BY <2>1, <2>4, <2>5
<1>8. CASE c = "Error_Handler"
  <2>1. /\ Led!Script[c].calls = <<Led!LED_set("FAULT_LED", TRUE),
                 Led!LED_set("DEBUG_LED", TRUE), Led!LED_set("DEBUG_LED", FALSE)>>
        /\ Led!Script[c].loop = 2
    BY <1>8 DEF Led!Script
  <2>2. /\ Led!LED_set("FAULT_LED", TRUE) \in Requests
        /\ Led!LED_set("DEBUG_LED", TRUE) \in Requests
        /\ Led!LED_set("DEBUG_LED", FALSE) \in Requests
    BY <1>1, <1>5
  <2>3. ASSUME NEW r, NEW s, NEW t, r \in Requests, s \in Requests, t \in Requests,
               Led!Script[c].calls = <<r, s, t>>
        PROVE  /\ Len(Led!Script[c].calls) = 3
               /\ \A i \in 1..3 : Led!Script[c].calls[i] \in Requests
    BY <2>3
  <2>4. /\ Len(Led!Script[c].calls) = 3
        /\ \A i \in 1..3 : Led!Script[c].calls[i] \in Requests
    BY <2>1, <2>2, <2>3, Zenon
  <2>5. ScriptLength[c] = 3 /\ 2 \in 1..3
    BY <1>8 DEF ScriptLength
  <2>6. QED
    BY <2>1, <2>4, <2>5
<1>9. QED
  BY <1>6, <1>7, <1>8 DEF Callers

(* The lights show the low bits of a module's fault, and so its picture is *)
(* the same with or without the bit that latches it.                       *)
LEMMA PictureOfLowBits ==
  ASSUME NEW on, NEW module \in Nat
  PROVE  Led!Picture(on, module % 32) = Led!Picture(on, module)
<1>1. Led!Places = 16 /\ Len(Led!Leds) = 10
  BY DEF Led!Places, Led!Leds, Led!MOD_FAULT_BITS
<1>2. /\ ((module % 32) \div 16) % 2 = (module \div 16) % 2
      /\ ((module % 32) \div 8) % 2 = (module \div 8) % 2
      /\ ((module % 32) \div 4) % 2 = (module \div 4) % 2
      /\ ((module % 32) \div 2) % 2 = (module \div 2) % 2
      /\ ((module % 32) \div 1) % 2 = (module \div 1) % 2
  OBVIOUS
<1>3. 2^4 = 16 /\ 2^3 = 8 /\ 2^2 = 4 /\ 2^1 = 2 /\ 2^0 = 1
  OBVIOUS
<1>4. ASSUME NEW n \in 1..16
      PROVE  Led!BitToLoad(n, on, module % 32) = Led!BitToLoad(n, on, module)
  <2>1. CASE n <= 10
    BY <1>1, <2>1 DEF Led!BitToLoad
  <2>2. CASE n = 16
    BY <1>1, <2>2 DEF Led!BitToLoad
  <2>3. ASSUME NEW exp \in {0, 1, 2, 3, 4}, n = 15 - exp
        PROVE  Led!BitToLoad(n, on, module % 32) = Led!BitToLoad(n, on, module)
    <3>1. Led!Places - 1 - n = exp /\ ~(n <= Len(Led!Leds)) /\ n # Led!Places
      BY <1>1, <2>3
    <3>2. ((module % 32) \div 2^exp) % 2 = (module \div 2^exp) % 2
      BY <1>2, <1>3
    <3>3. \A m : Led!BitToLoad(n, on, m) = ((m \div 2^exp) % 2 = 1)
      BY <3>1 DEF Led!BitToLoad
    <3>4. QED
      BY <3>2, <3>3, Zenon
  <2>4. n <= 10 \/ n = 16 \/ \E exp \in {0, 1, 2, 3, 4} : n = 15 - exp
    OBVIOUS
  <2>5. QED
    BY <2>1, <2>2, <2>3, <2>4
<1>5. QED
  BY <1>1, <1>4 DEF Led!Picture

(* A picture has a bit for each place.                                     *)
LEMMA PictureLength ==
  ASSUME NEW on, NEW module
  PROVE  Len(Led!Picture(on, module)) = Led!Places
<1>1. Led!Places = 16
  BY DEF Led!Places, Led!Leds, Led!MOD_FAULT_BITS
<1>2. QED
  BY <1>1 DEF Led!Picture

(* The record of what has been asked for stays one.                        *)
LEMMA AskedType ==
  ASSUME asked \in Asking,
         NEW r \in Requests, r # Led!NoCall
  PROVE  Led!Asked(r) \in Asking
<1>1. CASE r.op = "LEDs_clear"
  BY <1>1 DEF Led!Asked, Asking
<1>2. CASE r.op = "LED_set"
  <2>1. r.led \in Lights
    BY <1>2 DEF Requests, Led!NoCall, Led!Clear
  <2>2. QED
    BY <1>2, <2>1 DEF Led!Asked, Asking
<1>3. CASE r.op = "LEDsModFaultBitmap_set"
  <2>1. r.module \in Nat
    BY <1>3 DEF Requests, Led!NoCall, Led!Clear
  <2>2. QED
    BY <1>3, <2>1 DEF Led!Asked, Asking
<1>4. QED
  BY <1>1, <1>2, <1>3 DEF Requests, Led!Clear

(* The initial state satisfies the invariant: no light is on.              *)
LEMMA LedInit == Led!Init => LedInv
<1> SUFFICES ASSUME Led!Init PROVE LedInv
  OBVIOUS
<1>1. /\ LEDbitmap = {} /\ modFaultBitmap = 0 /\ xLEDMutex = "nobody" /\ mod_fault_num = 0
      /\ script = [c \in Callers |-> 1]
      /\ led_pc = [c \in Callers |-> "idle"]
      /\ request = [c \in Callers |-> Led!Clear]
      /\ chain = Led!Picture({}, 0) /\ outputs = Led!Picture({}, 0)
      /\ asked = [on |-> {}, module |-> 0]
  BY CallerNames DEF Led!Init
<1>2. Len(chain) = Led!Places /\ Len(outputs) = Led!Places
  BY <1>1, PictureLength
<1>3. \A c \in Callers : script[c] \in 1..ScriptLength[c]
  BY <1>1 DEF Callers, ScriptLength
<1>4. LedTypes
  <2>1. request \in [Callers -> Requests]
    BY <1>1 DEF Requests
  <2>2. asked \in Asking
    BY <1>1 DEF Asking
  <2>3. LightTypes
    BY <1>1, <1>2, <2>2 DEF LightTypes
  <2>4. CallTypes
    BY <1>1, <1>3, <2>1 DEF CallTypes
  <2>5. QED
    BY <2>3, <2>4 DEF LedTypes
<1>5. Exclusion
  BY <1>1, CallerNames DEF Exclusion, Holds
<1>6. AtRest
  BY <1>1 DEF AtRest, BitmapsAre, Shown
<1>7. UnderWay
  BY <1>1 DEF UnderWay, Reached
<1>8. QED
  BY <1>4, <1>5, <1>6, <1>7 DEF LedInv

(* While a caller has the mutex, no other is at a place that needs it.     *)
LEMMA OthersAreOut ==
  ASSUME LedTypes, Exclusion, NEW c \in Callers, led_pc[c] \in Holds
  PROVE  /\ xLEDMutex = c
         /\ \A d \in Callers \ {c} : led_pc[d] \notin Holds
<1>1. xLEDMutex = c
  BY DEF Exclusion
<1>2. ASSUME NEW d \in Callers, d # c PROVE led_pc[d] \notin Holds
  BY <1>1, <1>2 DEF Exclusion
<1>3. QED
  BY <1>1, <1>2

(* The steps of a caller that has the mutex. *)
LEMMA HolderStep ==
  ASSUME LedInv, NEW c \in Callers,
         Led!Change(c) \/ Led!SetBit(c) \/ Led!Load(c) \/ Led!Push(c) \/ Led!Give(c)
  PROVE  LedInv'
<1> DEFINE r == request[c]
<1> USE DEF LedInv
<1>1. /\ led_pc[c] \in Holds /\ led_pc'[c] \in Holds \union {"idle"}
      /\ led_pc' \in [Callers -> {"idle", "take"} \union Holds]
      /\ \A d \in Callers \ {c} : led_pc'[d] = led_pc[d]
      /\ UNCHANGED <<request, script, first_fault, mod_fault_num>>
  BY DEF Led!Change, Led!SetBit, Led!Load, Led!Push, Led!Give, Led!Goto, Led!StaysInCall,
         LedTypes, CallTypes, LightTypes, Asking, Holds
<1>2. r \in Requests /\ r # Led!NoCall /\ asked \in Asking
  BY <1>1 DEF LedTypes, CallTypes, LightTypes, Asking, Holds
<1>3. xLEDMutex = c /\ \A d \in Callers \ {c} : led_pc[d] \notin Holds
  BY <1>1, OthersAreOut
<1>4. Led!Asked(r) \in Asking
  BY <1>2, AskedType
<1>5. LEDbitmap \subseteq Lights /\ modFaultBitmap \in 0..31 /\ Len(chain) = Led!Places
      /\ Len(outputs) = Led!Places
  BY DEF LedTypes, CallTypes, LightTypes, Asking
<1>6. ASSUME xLEDMutex' \in Callers \union {"nobody"}
      PROVE  CallTypes'
  BY <1>1, <1>2, <1>6 DEF LedTypes, CallTypes, LightTypes, Asking
<1>7. ASSUME led_pc'[c] \in Holds, xLEDMutex' = c
      PROVE  CallTypes' /\ Exclusion' /\ AtRest'
  <2>1. CallTypes'
    BY <1>6, <1>7
  <2>2. Exclusion'
    BY <1>1, <1>3, <1>7 DEF Exclusion
  <2>3. AtRest'
    BY <1>7, CallerNames DEF AtRest
  <2>4. QED
    BY <2>1, <2>2, <2>3
<1>8. ASSUME Reached(led_pc[c], r)'
      PROVE  UnderWay'
  <2>1. SUFFICES ASSUME NEW d \in Callers PROVE Reached(led_pc[d], request[d])'
    BY DEF UnderWay, Reached
  <2>2. CASE d = c
    BY <1>1, <1>8, <2>2
  <2>3. CASE d # c
    <3>1. led_pc'[d] \notin Holds
      BY <1>1, <1>3, <2>3
    <3>2. QED
      BY <3>1 DEF Reached, Holds
  <2>4. QED
    BY <2>2, <2>3
<1>9. CASE Led!Change(c)
  <2>1. /\ led_pc[c] = "change" /\ led_pc'[c] = IF r.op = "LED_set" THEN "set" ELSE "load"
        /\ UNCHANGED <<xLEDMutex, chain, outputs, asked>>
        /\ LEDbitmap' = CASE r.op = "LEDs_clear" -> {}
                          [] r.op = "LED_set" -> LEDbitmap \ {r.led}
                          [] OTHER -> LEDbitmap
        /\ modFaultBitmap' = CASE r.op = "LEDs_clear" -> 0
                               [] r.op = "LEDsModFaultBitmap_set" -> r.module % 32
                               [] OTHER -> modFaultBitmap
    BY <1>9 DEF Led!Change, Led!Goto, Led!lights, LedTypes, CallTypes, LightTypes,
                Asking, Led!MOD_FAULT_BITS
  <2>2. BitmapsAre(asked)
    BY <2>1 DEF UnderWay, Reached
  <2>3. CASE r.op = "LEDs_clear"
    <3>1. LEDbitmap' = {} /\ modFaultBitmap' = 0 /\ led_pc'[c] = "load"
      BY <2>1, <2>3
    <3>2. Led!Asked(r)' = [on |-> {}, module |-> 0]
      BY <1>1, <2>3 DEF Led!Asked, Asking
    <3>3. BitmapsAre(Led!Asked(r))'
      BY <3>1, <3>2 DEF BitmapsAre
    <3>4. LightTypes'
      BY <1>2, <1>5, <2>1, <3>1 DEF LightTypes
    <3>5. Reached(led_pc[c], r)'
      BY <3>1, <3>3 DEF Reached
    <3>6. QED
      BY <1>3, <1>7, <1>8, <2>1, <3>1, <3>4, <3>5 DEF LedTypes, Holds
  <2>4. CASE r.op = "LED_set"
    <3>1. LEDbitmap' = LEDbitmap \ {r.led} /\ modFaultBitmap' = modFaultBitmap /\ led_pc'[c] = "set"
      BY <2>1, <2>4
    <3>2. LEDbitmap' = asked'.on \ {r.led} /\ modFaultBitmap' = asked'.module % 32
      BY <2>1, <2>2, <3>1 DEF BitmapsAre
    <3>3. LightTypes'
      BY <1>2, <1>5, <2>1, <3>1 DEF LightTypes
    <3>4. Reached(led_pc[c], r)'
      BY <1>1, <2>4, <3>1, <3>2 DEF Reached
    <3>5. QED
      BY <1>3, <1>7, <1>8, <2>1, <3>1, <3>3, <3>4 DEF LedTypes, Holds
  <2>5. CASE r.op = "LEDsModFaultBitmap_set"
    <3>1. LEDbitmap' = LEDbitmap /\ modFaultBitmap' = r.module % 32 /\ led_pc'[c] = "load"
      BY <2>1, <2>5
    <3>2. Led!Asked(r)' = [asked EXCEPT !.module = r.module]
      BY <1>1, <2>1, <2>5 DEF Led!Asked, Asking
    <3>3. r.module \in Nat
      BY <1>2, <2>5 DEF Requests, Led!NoCall, Led!Clear
    <3>4. BitmapsAre(Led!Asked(r))'
      BY <1>2, <2>2, <3>1, <3>2 DEF BitmapsAre
    <3>5. modFaultBitmap' \in 0..31
      BY <3>1, <3>3
    <3>6. LightTypes'
      BY <1>2, <1>5, <2>1, <3>1, <3>5 DEF LightTypes
    <3>7. Reached(led_pc[c], r)'
      BY <3>1, <3>4 DEF Reached
    <3>8. QED
      BY <1>3, <1>7, <1>8, <2>1, <3>1, <3>6, <3>7 DEF LedTypes, Holds
  <2>6. QED
    BY <1>2, <2>3, <2>4, <2>5 DEF Requests, Led!Clear
<1>10. CASE Led!SetBit(c)
  <2>1. /\ led_pc[c] = "set" /\ led_pc'[c] = "load"
        /\ LEDbitmap' = LEDbitmap \union {l \in {r.led} : r.state}
        /\ UNCHANGED <<modFaultBitmap, xLEDMutex, chain, outputs, asked>>
    BY <1>10 DEF Led!SetBit, Led!Goto, Led!lights, LedTypes,
                 CallTypes, LightTypes, Asking
  <2>2. /\ r.op = "LED_set" /\ LEDbitmap = asked.on \ {r.led}
        /\ modFaultBitmap = asked.module % 32
    BY <2>1 DEF UnderWay, Reached
  <2>3. r.led \in Lights /\ r.state \in BOOLEAN
    BY <1>2, <2>2 DEF Requests, Led!NoCall, Led!Clear
  <2>4. Led!Asked(r)' = [asked EXCEPT !.on = IF r.state THEN asked.on \union {r.led}
                                                       ELSE asked.on \ {r.led}]
    BY <1>1, <2>1, <2>2 DEF Led!Asked, Asking
  <2>5. LEDbitmap' = IF r.state THEN asked.on \union {r.led} ELSE asked.on \ {r.led}
    BY <2>1, <2>2, <2>3
  <2>6. BitmapsAre(Led!Asked(r))'
    BY <1>2, <2>1, <2>2, <2>4, <2>5 DEF BitmapsAre
  <2>7. LEDbitmap' \subseteq Lights
    BY <1>5, <2>1, <2>3
  <2>8. LightTypes'
    BY <1>2, <1>5, <2>1, <2>7 DEF LightTypes
  <2>9. Reached(led_pc[c], r)'
    BY <2>1, <2>6 DEF Reached
  <2>10. QED
    BY <1>3, <1>7, <1>8, <2>1, <2>8, <2>9 DEF LedTypes, Holds
<1>11. CASE Led!Load(c)
  <2>1. /\ led_pc[c] = "load" /\ led_pc'[c] = "push"
        /\ chain' = Led!Picture(LEDbitmap, modFaultBitmap)
        /\ UNCHANGED <<LEDbitmap, modFaultBitmap, xLEDMutex, outputs, asked>>
    BY <1>11 DEF Led!Load, Led!Goto, Led!bitmaps, LedTypes, CallTypes, LightTypes, Asking
  <2>2. BitmapsAre(Led!Asked(r))'
    <3>1. BitmapsAre(Led!Asked(r))
      BY <2>1 DEF UnderWay, Reached
    <3>2. QED
      BY <1>1, <2>1, <3>1 DEF BitmapsAre, Led!Asked
  <2>3. Shown(chain)'
    BY <2>1 DEF Shown
  <2>4. LightTypes'
    BY <1>2, <1>5, <2>1, PictureLength DEF LightTypes
  <2>5. Reached(led_pc[c], r)'
    BY <2>1, <2>2, <2>3 DEF Reached
  <2>6. QED
    BY <1>3, <1>7, <1>8, <2>1, <2>4, <2>5 DEF LedTypes, Holds
<1>12. CASE Led!Push(c)
  <2>1. /\ led_pc[c] = "push" /\ led_pc'[c] = "give" /\ outputs' = chain
        /\ UNCHANGED <<LEDbitmap, modFaultBitmap, xLEDMutex, chain, asked>>
    BY <1>12 DEF Led!Push, Led!Goto, Led!bitmaps, LedTypes, CallTypes, LightTypes, Asking
  <2>2. BitmapsAre(Led!Asked(r))'
    <3>1. BitmapsAre(Led!Asked(r))
      BY <2>1 DEF UnderWay, Reached
    <3>2. QED
      BY <1>1, <2>1, <3>1 DEF BitmapsAre, Led!Asked
  <2>3. Shown(outputs)'
    BY <2>1 DEF Shown, UnderWay, Reached
  <2>4. LightTypes'
    BY <1>2, <1>5, <2>1 DEF LightTypes
  <2>5. Reached(led_pc[c], r)'
    BY <2>1, <2>2, <2>3 DEF Reached
  <2>6. QED
    BY <1>3, <1>7, <1>8, <2>1, <2>4, <2>5 DEF LedTypes, Holds
<1>13. CASE Led!Give(c)
  <2>1. /\ led_pc[c] = "give" /\ led_pc'[c] = "idle" /\ xLEDMutex' = "nobody"
        /\ asked' = Led!Asked(r)
        /\ UNCHANGED <<LEDbitmap, modFaultBitmap, chain, outputs>>
    BY <1>13 DEF Led!Give, Led!Goto, Led!bitmaps, Led!lights, LedTypes,
                 CallTypes, LightTypes, Asking
  <2>2. BitmapsAre(Led!Asked(r)) /\ Shown(outputs)
    BY <2>1 DEF UnderWay, Reached
  <2>3. AtRest'
    BY <2>1, <2>2 DEF AtRest, BitmapsAre, Shown
  <2>4. Exclusion'
    <3>1. \A d \in Callers : led_pc'[d] \notin Holds /\ d # "nobody"
      BY <1>1, <1>3, <2>1, CallerNames DEF Holds
    <3>2. QED
      BY <2>1, <3>1 DEF Exclusion
  <2>5. LightTypes'
    BY <1>4, <1>5, <2>1 DEF LightTypes
  <2>6. CallTypes'
    BY <1>6, <2>1
  <2>7. UnderWay'
    <3>1. Reached(led_pc[c], r)'
      BY <2>1 DEF Reached
    <3>2. QED
      BY <1>8, <3>1
  <2>8. QED
    BY <2>3, <2>4, <2>5, <2>6, <2>7 DEF LedTypes
<1>14. QED
  BY <1>9, <1>10, <1>11, <1>12, <1>13

(* The steps of a caller that does not have it. *)
LEMMA OtherStep ==
  ASSUME LedInv, NEW c \in Callers, Led!Call(c) \/ Led!Take(c) \/ Led!TimesOut(c)
  PROVE  LedInv'
<1> USE DEF LedInv
<1>1. /\ led_pc[c] \in {"idle", "take"} /\ led_pc'[c] \in {"idle", "take", "change"}
      /\ led_pc' \in [Callers -> {"idle", "take"} \union Holds]
      /\ \A d \in Callers \ {c} : led_pc'[d] = led_pc[d]
      /\ UNCHANGED <<LEDbitmap, modFaultBitmap, chain, outputs, asked, first_fault, mod_fault_num>>
  <2>1. CASE Led!Call(c)
    BY <2>1 DEF Led!Call, Led!Goto, Led!bitmaps, Led!lights, LedTypes, CallTypes, Holds
  <2>2. CASE Led!Take(c)
    BY <2>2 DEF Led!Take, Led!Goto, Led!StaysInCall, Led!bitmaps, Led!lights, LedTypes,
                CallTypes, Holds
  <2>3. CASE Led!TimesOut(c)
    BY <2>3 DEF Led!TimesOut, Led!Goto, Led!StaysInCall, Led!bitmaps, Led!lights, LedTypes,
                CallTypes, Holds
  <2>4. QED
    BY <2>1, <2>2, <2>3
<1>2. LightTypes'
  BY <1>1 DEF LedTypes, LightTypes
<1>3. CASE Led!Call(c)
  <2> DEFINE n == ScriptLength[c]
             call == Led!Script[c].calls[script[c]]
             back == Led!Script[c].loop
  <2>1. /\ n \in Nat /\ back \in 1..n /\ script[c] \in 1..n /\ call \in Requests
        /\ Len(Led!Script[c].calls) = n
    <3>1. mod_fault_num \in Nat /\ script[c] \in 1..n
      BY DEF LedTypes, CallTypes
    <3>2. n \in Nat
      BY DEF Callers, ScriptLength
    <3>3. QED
      BY <3>1, <3>2, CallsAreRequests
  <2>2. /\ request' = [request EXCEPT ![c] = call]
        /\ led_pc[c] = "idle"
        /\ led_pc' = [led_pc EXCEPT ![c] = IF request'[c].op = "none" THEN "idle" ELSE "take"]
        /\ script' = [script EXCEPT ![c] = IF script[c] = Len(Led!Script[c].calls) THEN back
                                           ELSE script[c] + 1]
        /\ UNCHANGED xLEDMutex
    BY <1>3 DEF Led!Call, Led!Goto
  <2> HIDE DEF n, call, back
  <2>3. /\ request' \in [Callers -> Requests] /\ request'[c] = call
        /\ \A d \in Callers \ {c} : request'[d] = request[d]
    BY <2>1, <2>2 DEF LedTypes, CallTypes
  <2>4. led_pc'[c] = IF call.op = "none" THEN "idle" ELSE "take"
    BY <2>2, <2>3 DEF LedTypes, CallTypes
  <2>5. \A d \in Callers : led_pc'[d] # "idle" => request'[d] # Led!NoCall
    <3>1. led_pc'[c] # "idle" => request'[c] # Led!NoCall
      BY <2>3, <2>4 DEF Led!NoCall
    <3>2. QED
      BY <1>1, <2>3, <3>1 DEF LedTypes, CallTypes
  <2>6. /\ script' \in [Callers -> Nat]
        /\ \A d \in Callers : script'[d] \in 1..ScriptLength[d]
    <3> DEFINE next == IF script[c] = n THEN back ELSE script[c] + 1
    <3>1. next \in 1..n
      BY <2>1
    <3>2. script' = [script EXCEPT ![c] = next]
      BY <2>1, <2>2
    <3> HIDE DEF next
    <3>3. next \in 1..ScriptLength[c] /\ next \in Nat
      BY <2>1, <3>1 DEF n
    <3>4. QED
      BY <3>2, <3>3 DEF LedTypes, CallTypes
  <2>7. CallTypes'
    BY <1>1, <2>2, <2>3, <2>5, <2>6 DEF LedTypes, CallTypes
  <2>8. led_pc[c] \notin Holds /\ led_pc'[c] \notin Holds
    BY <2>2, <2>4 DEF Holds
  <2>9. Exclusion'
    BY <1>1, <2>2, <2>8 DEF Exclusion
  <2>10. AtRest'
    BY <1>1, <2>2 DEF AtRest, BitmapsAre, Shown
  <2>11. UnderWay'
    <3>1. SUFFICES ASSUME NEW d \in Callers PROVE Reached(led_pc[d], request[d])'
      BY DEF UnderWay
    <3>2. CASE d = c
      BY <2>8, <3>2 DEF Reached, Holds
    <3>3. CASE d # c
      <4>1. led_pc'[d] = led_pc[d] /\ request'[d] = request[d] /\ Reached(led_pc[d], request[d])
        BY <1>1, <2>3, <3>3 DEF UnderWay
      <4>2. QED
        BY <1>1, <4>1 DEF Reached, BitmapsAre, Shown, Led!Asked
    <3>4. QED
      BY <3>2, <3>3
  <2>12. QED
    BY <1>2, <2>7, <2>9, <2>10, <2>11 DEF LedTypes
<1>4. CASE Led!Take(c) \/ Led!TimesOut(c)
  <2>1. /\ UNCHANGED <<request, script>> /\ led_pc[c] = "take"
        /\ \/ /\ led_pc'[c] = "change" /\ xLEDMutex = "nobody" /\ xLEDMutex' = c
           \/ /\ led_pc'[c] = "idle" /\ UNCHANGED xLEDMutex
    BY <1>4 DEF Led!Take, Led!TimesOut, Led!Goto, Led!StaysInCall, LedTypes, CallTypes
  <2>2. CallTypes'
    BY <1>1, <2>1 DEF LedTypes, CallTypes
  <2>3. Exclusion'
    <3>1. CASE led_pc'[c] = "change" /\ xLEDMutex = "nobody" /\ xLEDMutex' = c
      <4>1. \A d \in Callers : led_pc[d] \notin Holds
        <5>1. SUFFICES ASSUME NEW d \in Callers PROVE led_pc[d] \notin Holds
          OBVIOUS
        <5>2. d # "nobody"
          BY CallerNames
        <5>3. QED
          BY <3>1, <5>2 DEF Exclusion
      <4>2. QED
        BY <1>1, <3>1, <4>1 DEF Exclusion, Holds
    <3>2. CASE led_pc'[c] = "idle" /\ UNCHANGED xLEDMutex
      <4>1. led_pc[c] \notin Holds /\ led_pc'[c] \notin Holds
        BY <2>1, <3>2 DEF Holds
      <4>2. QED
        BY <1>1, <3>2, <4>1 DEF Exclusion
    <3>3. QED
      BY <2>1, <3>1, <3>2
  <2>4. AtRest'
    BY <1>1, <2>1, CallerNames DEF AtRest, BitmapsAre, Shown
  <2>5. UnderWay'
    <3>1. SUFFICES ASSUME NEW d \in Callers PROVE Reached(led_pc[d], request[d])'
      BY DEF UnderWay
    <3>2. CASE d = c
      <4>1. led_pc'[c] = "change" => BitmapsAre(asked)'
        BY <1>1, <2>1 DEF AtRest, BitmapsAre
      <4>2. led_pc'[c] \in {"change", "idle"}
        BY <2>1
      <4>3. QED
        BY <3>2, <4>1, <4>2 DEF Reached
    <3>3. CASE d # c
      <4>1. led_pc'[d] = led_pc[d] /\ request'[d] = request[d] /\ Reached(led_pc[d], request[d])
        BY <1>1, <2>1, <3>3 DEF UnderWay
      <4>2. QED
        BY <1>1, <4>1 DEF Reached, BitmapsAre, Shown, Led!Asked
    <3>4. QED
      BY <3>2, <3>3
  <2>6. QED
    BY <1>2, <2>2, <2>3, <2>4, <2>5 DEF LedTypes
<1>5. QED
  BY <1>3, <1>4

(* Every step of the lights keeps their invariant.                         *)
LEMMA LedStep ==
  ASSUME Led!StatusLEDsAssumption, LedInv, [Led!Next]_(Led!ledVars)
  PROVE  LedInv'
<1>1. ASSUME NEW c \in Callers, Led!CallerStep(c)
      PROVE  LedInv'
  BY <1>1, HolderStep, OtherStep DEF Led!CallerStep
<1>2. CASE Led!LatchModFault \/ UNCHANGED Led!ledVars
  <2>1. UNCHANGED <<LEDbitmap, modFaultBitmap, xLEDMutex, led_pc, request, script, first_fault,
                    chain, outputs, asked>>
    BY <1>2 DEF Led!LatchModFault, Led!ledVars, Led!bitmaps, Led!calls, Led!lights
  <2>2. mod_fault_num' \in Nat
    BY <1>2 DEF Led!LatchModFault, Led!StatusLEDsAssumption, Led!ledVars, Led!calls, LedInv,
                LedTypes, CallTypes
  <2>3. LightTypes'
    BY <2>1 DEF LedInv, LedTypes, LightTypes
  <2>4. CallTypes'
    BY <2>1, <2>2 DEF LedInv, LedTypes, CallTypes
  <2>5. Exclusion'
    BY <2>1 DEF LedInv, Exclusion
  <2>6. AtRest'
    BY <2>1 DEF LedInv, AtRest, BitmapsAre, Shown
  <2>7. UnderWay'
    <3>1. SUFFICES ASSUME NEW d \in Callers PROVE Reached(led_pc[d], request[d])'
      BY DEF UnderWay
    <3>2. Reached(led_pc[d], request[d])
      BY DEF LedInv, UnderWay
    <3>3. QED
      BY <2>1, <3>2 DEF Reached, BitmapsAre, Shown, Led!Asked
  <2>8. QED
    BY <2>3, <2>4, <2>5, <2>6, <2>7 DEF LedInv, LedTypes
<1>3. QED
  BY <1>1, <1>2, CallerNames DEF Led!Next

(* What LedInv says of the types is what TypeOK says. *)
LEMMA LedTypesGiveTypeOK ==
  ASSUME LedInv
  PROVE  Led!TypeOK
<1>1. 2^Led!MOD_FAULT_BITS - 1 = 31
  BY DEF Led!MOD_FAULT_BITS
<1>2. QED
  BY <1>1, CallerNames DEF LedInv, LedTypes, LightTypes, CallTypes, Led!TypeOK, Lights

(* When nobody has the mutex, the lights show what has been asked for. *)
LEMMA LightsAtRest ==
  ASSUME LedInv
  PROVE  Led!LightsAreAsAsked
<1> SUFFICES ASSUME xLEDMutex = "nobody"
             PROVE  outputs = Led!Picture(asked.on, asked.module)
  BY DEF Led!LightsAreAsAsked
<1>1. asked.module \in Nat
  BY DEF LedInv, LedTypes, CallTypes, LightTypes, Asking
<1>2. outputs = Led!Picture(asked.on, asked.module % 32)
  BY DEF LedInv, AtRest, BitmapsAre, Shown
<1>3. QED
  BY <1>1, <1>2, PictureOfLowBits

-----------------------------------------------------------------------------
(* TapMessages: two messages, either of which may be lost, with a frame id *)
(* that wraps.                                                             *)

(* The two entries of the tap, and what the car has of it, are each of one *)
(* message, of value v and frame f.                                        *)
Frames == 0..FRAME_ID_MAX
EntriesAre(v, f) == /\ temp_can_data = [data |-> v % 2^DATA_BITS, frame |-> f]
                    /\ temp_can_data2 = [rawv |-> v, frame |-> f]
EntriesOfOne ==
  \/ temp_can_data = Msg!Nothing /\ temp_can_data2 = Msg!Nothing
  \/ \E v \in TapValues, f \in Frames : EntriesAre(v, f)
CarTempOfOne ==
  \/ carTemp = Msg!Nothing
  \/ /\ temp_can_data # Msg!Nothing
     /\ \E v \in TapValues, f \in Frames : carTemp = [temperature |-> v, frame |-> f]
CarRawVOfOne ==
  \/ carRawV = Msg!Nothing
  \/ /\ temp_can_data # Msg!Nothing
     /\ \E v \in TapValues, f \in Frames : carRawV = [rawv |-> v, frame |-> f]

MsgTypes ==
  /\ frame_id \in Frames
  /\ msg_pc \in -2..NUM_TEMPERATURE_SENSORS
  /\ lost \in [{"temperature", "rawv"} -> 0..MAX_LOST]
  /\ silent \in 0..(MAX_SILENT + 1)
  /\ msg_pc < 0 => silent <= MAX_SILENT
  /\ EntriesOfOne /\ CarTempOfOne /\ CarRawVOfOne

(* Frame f is one of the last n that the counter has given, of one round.  *)
Within(id, f, n) == \E k \in 1..n : id = f + k \/ id + (FRAME_ID_MAX + 1) = f + k

(* In a pass as many frames are given as messages have been unpacked.  The *)
(* entries were written within the passes the tap has been silent for, and *)
(* what the car has was sent, within as many passes, before as many passes *)
(* as messages have been lost.                                             *)
Given == IF msg_pc < 0 THEN NUM_TEMPERATURE_SENSORS ELSE NUM_TEMPERATURE_SENSORS - msg_pc
EntryFrames == silent * NUM_TEMPERATURE_SENSORS + Given
CarFrames(m) ==
  (MAX_SILENT + 1 + lost[m]) * NUM_TEMPERATURE_SENSORS
    + (IF m = "temperature" /\ msg_pc = -2 THEN 0 ELSE Given)

EntriesAreRecent ==
  temp_can_data # Msg!Nothing => Within(frame_id, temp_can_data.frame, EntryFrames)
CarIsRecent ==
  /\ carTemp # Msg!Nothing => Within(frame_id, carTemp.frame, CarFrames("temperature"))
  /\ carRawV # Msg!Nothing => Within(frame_id, carRawV.frame, CarFrames("rawv"))

(* Within a round, equal frames are of the same message. *)
SameMessage ==
  /\ carTemp # Msg!Nothing /\ carTemp.frame = temp_can_data2.frame
       => carTemp.temperature = temp_can_data2.rawv
  /\ carRawV # Msg!Nothing /\ carRawV.frame = temp_can_data2.frame
       => carRawV.rawv = temp_can_data2.rawv

MsgInv ==
  MsgTypes /\ EntriesAreRecent /\ CarIsRecent /\ SameMessage /\ Msg!PairsBelongTogether

(* A bit more doubles the subsets: those with it and those without.        *)
LEMMA PowerDoubles == ASSUME NEW b \in Nat \ {0} PROVE 2^b = 2 * 2^(b - 1)
<1> DEFINE low == 1..(b - 1)
           without == SUBSET low
           with == {s \union {b} : s \in without}
<1>1. IsFiniteSet(low) /\ Cardinality(low) = b - 1
  BY FS_Interval
<1>2. IsFiniteSet(without) /\ Cardinality(without) = 2^(b - 1)
  BY <1>1, FS_SUBSET
<1>3. b \notin low /\ low \union {b} = 1..b
  OBVIOUS
<1>4. IsFiniteSet(with) /\ Cardinality(with) = Cardinality(without)
  <2> DEFINE f == [s \in without |-> s \union {b}]
  <2>1. f \in Bijection(without, with)
    <3>1. f \in [without -> with]
      OBVIOUS
    <3>2. \A s, t \in without : f[s] = f[t] => s = t
      BY <1>3
    <3>3. \A u \in with : \E s \in without : f[s] = u
      OBVIOUS
    <3>4. QED
      BY <3>1, <3>2, <3>3, Fun_IsBij
  <2>2. ExistsBijection(without, with)
    BY <2>1, Fun_ExistsBij
  <2>3. QED
    BY <1>2, <2>2, FS_Bijection
<1>5. without \intersect with = {}
  BY <1>3
<1>6. without \union with = SUBSET (1..b)
  <2>1. ASSUME NEW u \in SUBSET (1..b)
        PROVE  u \in without \union with
    <3>1. CASE b \in u
      <4>1. u \ {b} \in without /\ u = (u \ {b}) \union {b}
        BY <1>3, <3>1
      <4>2. QED
        BY <4>1
    <3>2. CASE b \notin u
      BY <1>3, <3>2
    <3>3. QED
      BY <3>1, <3>2
  <2>2. without \subseteq SUBSET (1..b) /\ with \subseteq SUBSET (1..b)
    BY <1>3
  <2>3. QED
    BY <2>1, <2>2
<1> HIDE DEF low, without, with
<1>7. Cardinality(SUBSET (1..b)) = Cardinality(without) + Cardinality(with)
  <2>1. Cardinality(without \intersect with) = 0
    BY <1>5, FS_EmptySet
  <2>2. Cardinality(without \union with) = Cardinality(without) + Cardinality(with)
                                            - Cardinality(without \intersect with)
    BY <1>2, <1>4, FS_Union
  <2>3. Cardinality(without) \in Nat /\ Cardinality(with) \in Nat
    BY <1>2, <1>4, FS_CardinalityType
  <2>4. Cardinality(SUBSET (1..b)) = Cardinality(without \union with)
    BY <1>6, Zenon
  <2>5. QED
    BY <2>1, <2>2, <2>3, <2>4
<1>8. IsFiniteSet(1..b) /\ Cardinality(1..b) = b
  BY FS_Interval
<1>9. Cardinality(SUBSET (1..b)) = 2^b
  BY <1>8, FS_SUBSET
<1>10. Cardinality(without) \in Nat
  BY <1>2, FS_CardinalityType
<1>11. QED
  BY <1>2, <1>4, <1>7, <1>9, <1>10

(* The car reads the value that the tap sent, below zero too.              *)
LEMMA SignIsKept ==
  ASSUME Msg!TapMessagesAssumption, NEW v \in TapValues
  PROVE  Msg!Signed(v % 2^DATA_BITS) = v
<1> DEFINE half == 2^(DATA_BITS - 1)
           round == 2^DATA_BITS
<1>1. half \in Nat \ {0} /\ round = 2 * half
  BY PowerOfTwo, PowerDoubles DEF Msg!TapMessagesAssumption
<1>2. v \in (-half)..(half - 1)
  BY DEF Msg!TapMessagesAssumption
<1>3. \A d : Msg!Signed(d) = IF d >= half THEN d - round ELSE d
  BY DEF Msg!Signed
<1> HIDE DEF half, round
<1>4. CASE v >= 0
  <2>1. v % round = v
    BY <1>1, <1>2, <1>4
  <2>2. Msg!Signed(v % round) = v
    BY <1>1, <1>2, <1>3, <1>4, <2>1
  <2>3. QED
    BY <2>2 DEF round
<1>5. CASE v < 0
  <2>1. v % round = v + round
    BY <1>1, <1>2, <1>5
  <2>2. Msg!Signed(v % round) = v
    BY <1>1, <1>2, <1>3, <1>5, <2>1
  <2>3. QED
    BY <2>2 DEF round
<1>6. QED
  BY <1>1, <1>2, <1>4, <1>5

(* The counter's next frame, without the remainder.                        *)
LEMMA NextFrameIs ==
  ASSUME Msg!TapMessagesAssumption, frame_id \in Frames
  PROVE  /\ Msg!NextFrame = IF frame_id = FRAME_ID_MAX THEN 0 ELSE frame_id + 1
         /\ Msg!NextFrame \in Frames
<1>1. FRAME_ID_MAX \in Nat
  BY DEF Msg!TapMessagesAssumption
<1>2. CASE frame_id = FRAME_ID_MAX
  <2>1. (FRAME_ID_MAX + 1) % (FRAME_ID_MAX + 1) = 0
    BY <1>1
  <2>2. QED
    BY <1>1, <1>2, <2>1 DEF Msg!NextFrame, Frames
<1>3. CASE frame_id # FRAME_ID_MAX
  <2>1. frame_id + 1 \in 0..FRAME_ID_MAX
    BY <1>1, <1>3 DEF Frames
  <2>2. (frame_id + 1) % (FRAME_ID_MAX + 1) = frame_id + 1
    BY <1>1, <2>1
  <2>3. QED
    BY <1>3, <2>1, <2>2 DEF Msg!NextFrame, Frames
<1>4. QED
  BY <1>2, <1>3

(* With the next frame, a frame lies one further back; the counter does    *)
(* not come to a frame of less than a round ago.                           *)
LEMMA OneFrameOn ==
  ASSUME FRAME_ID_MAX \in Nat, NEW id \in Frames, NEW f \in Frames, NEW n \in 0..FRAME_ID_MAX,
         Within(id, f, n)
  PROVE  /\ f # id
         /\ Within(IF id = FRAME_ID_MAX THEN 0 ELSE id + 1, f, n + 1)
<1>1. PICK k \in 1..n : id = f + k \/ id + (FRAME_ID_MAX + 1) = f + k
  BY DEF Within
<1> DEFINE next == IF id = FRAME_ID_MAX THEN 0 ELSE id + 1
<1>2. f # id
  BY <1>1 DEF Frames
<1>3. k + 1 \in 1..(n + 1)
  BY <1>1
<1>4. next = f + (k + 1) \/ next + (FRAME_ID_MAX + 1) = f + (k + 1)
  BY <1>1 DEF Frames
<1>5. QED
  BY <1>2, <1>3, <1>4 DEF Within

(* The frame just given is the last one. *)
LEMMA FrameJustGiven ==
  ASSUME FRAME_ID_MAX \in Nat, NEW id \in Frames, NEW n \in Nat \ {0}
  PROVE  Within(IF id = FRAME_ID_MAX THEN 0 ELSE id + 1, id, n)
<1> DEFINE next == IF id = FRAME_ID_MAX THEN 0 ELSE id + 1
<1>1. 1 \in 1..n
  OBVIOUS
<1>2. next = id + 1 \/ next + (FRAME_ID_MAX + 1) = id + 1
  BY DEF Frames
<1>3. QED
  BY <1>1, <1>2 DEF Within

(* What lies within the last n frames lies within more of them.            *)
LEMMA WithinMore ==
  ASSUME NEW id, NEW f, NEW n \in Nat, NEW m \in Nat, n <= m, Within(id, f, n)
  PROVE  Within(id, f, m)
  BY DEF Within

(* Products of natural numbers, for the bounds on the frames.              *)
LEMMA Multiples ==
  ASSUME NEW a \in Nat, NEW b \in Nat, NEW n \in Nat, a <= b
  PROVE  /\ a * n \in Nat /\ b * n \in Nat /\ a * n <= b * n
         /\ (a + 1) * n = a * n + n
<1>1. PICK d \in Nat : b = a + d
  <2>1. b - a \in Nat /\ b = a + (b - a)
    OBVIOUS
  <2>2. QED
    BY <2>1
<1>2. d * n \in Nat /\ a * n \in Nat
  OBVIOUS
<1>3. (a + d) * n = a * n + d * n
  OBVIOUS
<1>4. QED
  BY <1>1, <1>2, <1>3

(* An entry of a message is not the entry of a tap never heard of.         *)
LEMMA Heard ==
  ASSUME FRAME_ID_MAX \in Nat, NEW v, NEW f \in Frames
  PROVE  /\ [data |-> v, frame |-> f] # Msg!Nothing
         /\ [rawv |-> v, frame |-> f] # Msg!Nothing
         /\ [temperature |-> v, frame |-> f] # Msg!Nothing
<1>1. Msg!Nothing.frame \notin Frames
  BY DEF Msg!Nothing, Frames
<1>2. /\ [data |-> v, frame |-> f].frame = f /\ [rawv |-> v, frame |-> f].frame = f
      /\ [temperature |-> v, frame |-> f].frame = f
  OBVIOUS
<1>3. QED
  BY <1>1, <1>2

(* The entries were written, and what the car has was sent, within a round *)
(* of the frame id, and while messages are unpacked, within less.          *)
LEMMA RoundIsLong ==
  ASSUME Msg!TapMessagesAssumption, MsgTypes, NEW m \in {"temperature", "rawv"}
  PROVE  /\ EntryFrames \in Nat /\ CarFrames(m) \in Nat
         /\ msg_pc > 0 => EntryFrames <= FRAME_ID_MAX /\ CarFrames(m) <= FRAME_ID_MAX
<1> DEFINE n == NUM_TEMPERATURE_SENSORS
           top == MAX_SILENT + 1 + MAX_LOST
           before == MAX_SILENT + 1 + lost[m]
<1>1. /\ n \in Nat \ {0} /\ FRAME_ID_MAX \in Nat /\ MAX_LOST \in Nat /\ MAX_SILENT \in Nat
      /\ (MAX_SILENT + MAX_LOST + 2) * n <= FRAME_ID_MAX + 1
  BY DEF Msg!TapMessagesAssumption
<1>2. /\ msg_pc \in -2..n /\ lost[m] \in 0..MAX_LOST /\ silent \in 0..(MAX_SILENT + 1)
  BY DEF MsgTypes
<1>3. /\ top \in Nat /\ before \in Nat /\ silent \in Nat /\ before <= top /\ silent <= top
      /\ MAX_SILENT + MAX_LOST + 2 = top + 1
  BY <1>1, <1>2
<1>4. Given \in Nat /\ (msg_pc > 0 => Given < n)
  BY <1>1, <1>2 DEF Given
<1>5. CarFrames(m) = before * n + Given \/ CarFrames(m) = before * n
  BY <1>1, <1>3, <1>4, Multiples DEF CarFrames
<1> HIDE DEF top, before
<1>6. /\ before * n \in Nat /\ before * n <= top * n /\ top * n \in Nat
      /\ silent * n \in Nat /\ silent * n <= top * n
      /\ (top + 1) * n = top * n + n
  BY <1>1, <1>3, Multiples
<1>7. top * n + n <= FRAME_ID_MAX + 1
  BY <1>1, <1>3, <1>6
<1>8. EntryFrames = silent * n + Given
  BY DEF EntryFrames
<1> HIDE DEF n
<1>9. QED
  BY <1>1, <1>4, <1>5, <1>6, <1>7, <1>8

(* The initial state satisfies the invariant: nothing has been heard.      *)
LEMMA MsgInit ==
  ASSUME Msg!TapMessagesAssumption, Msg!Init
  PROVE  MsgInv
<1>1. /\ frame_id = 0 /\ temp_can_data = Msg!Nothing /\ temp_can_data2 = Msg!Nothing
      /\ msg_pc = NUM_TEMPERATURE_SENSORS /\ carTemp = Msg!Nothing /\ carRawV = Msg!Nothing
      /\ lost = [m \in {"temperature", "rawv"} |-> 0] /\ silent = 0
  BY DEF Msg!Init
<1>2. MsgTypes
  BY <1>1 DEF MsgTypes, Msg!TapMessagesAssumption, Frames, EntriesOfOne, CarTempOfOne, CarRawVOfOne
<1>3. EntriesAreRecent /\ CarIsRecent /\ SameMessage /\ Msg!PairsBelongTogether
  BY <1>1 DEF EntriesAreRecent, CarIsRecent, SameMessage, Msg!PairsBelongTogether
<1>4. QED
  BY <1>2, <1>3 DEF MsgInv

(* The frames of what is there are frames. *)
LEMMA FramesAreFrames ==
  ASSUME FRAME_ID_MAX \in Nat, MsgTypes
  PROVE  /\ temp_can_data # Msg!Nothing => /\ temp_can_data2 # Msg!Nothing
                                           /\ temp_can_data.frame \in Frames
                                           /\ temp_can_data2.frame = temp_can_data.frame
         /\ carTemp # Msg!Nothing => carTemp.frame \in Frames /\ temp_can_data # Msg!Nothing
         /\ carRawV # Msg!Nothing => carRawV.frame \in Frames /\ temp_can_data # Msg!Nothing
<1>1. temp_can_data # Msg!Nothing => /\ temp_can_data2 # Msg!Nothing
                                     /\ temp_can_data.frame \in Frames
                                     /\ temp_can_data2.frame = temp_can_data.frame
  <2> SUFFICES ASSUME temp_can_data # Msg!Nothing
               PROVE  /\ temp_can_data2 # Msg!Nothing
                      /\ temp_can_data.frame \in Frames
                      /\ temp_can_data2.frame = temp_can_data.frame
    OBVIOUS
  <2>1. PICK v \in TapValues, f \in Frames : EntriesAre(v, f)
    BY DEF MsgTypes, EntriesOfOne
  <2>2. temp_can_data2 = [rawv |-> v, frame |-> f] /\ temp_can_data.frame = f
    BY <2>1 DEF EntriesAre
  <2>3. QED
    BY <2>2, Heard
<1>2. carTemp # Msg!Nothing => carTemp.frame \in Frames /\ temp_can_data # Msg!Nothing
  BY DEF MsgTypes, CarTempOfOne
<1>3. carRawV # Msg!Nothing => carRawV.frame \in Frames /\ temp_can_data # Msg!Nothing
  BY DEF MsgTypes, CarRawVOfOne
<1>4. QED
  BY <1>1, <1>2, <1>3

(* A message is unpacked, of the tap or of another.                        *)
LEMMA MsgUnpack ==
  ASSUME Msg!TapMessagesAssumption, MsgInv,
         Msg!UnpackOther \/ \E v \in TapValues : Msg!Unpack(v)
  PROVE  MsgInv'
<1> DEFINE next == IF frame_id = FRAME_ID_MAX THEN 0 ELSE frame_id + 1
<1>1. /\ msg_pc \in 1..NUM_TEMPERATURE_SENSORS /\ msg_pc' = msg_pc - 1
      /\ frame_id' = Msg!NextFrame /\ UNCHANGED <<carTemp, carRawV, lost>>
  BY DEF Msg!UnpackOther, Msg!Unpack
<1>2. /\ FRAME_ID_MAX \in Nat /\ frame_id \in Frames /\ frame_id' = next /\ next \in Frames
      /\ NUM_TEMPERATURE_SENSORS \in Nat /\ MAX_SILENT \in Nat
  BY <1>1, NextFrameIs DEF MsgInv, MsgTypes, Msg!TapMessagesAssumption
<1>3. /\ EntryFrames \in 0..FRAME_ID_MAX
      /\ \A m \in {"temperature", "rawv"} : CarFrames(m) \in 0..FRAME_ID_MAX
  BY <1>1, <1>2, RoundIsLong DEF MsgInv
<1>4. \A m \in {"temperature", "rawv"} : CarFrames(m)' = CarFrames(m) + 1
  <2>1. Given' = Given + 1 /\ Given \in Nat
    BY <1>1, <1>2 DEF Given
  <2>2. \A m \in {"temperature", "rawv"} : lost'[m] = lost[m] /\ lost[m] \in Nat
    BY <1>1 DEF MsgInv, MsgTypes
  <2>3. SUFFICES ASSUME NEW m \in {"temperature", "rawv"}
                 PROVE  CarFrames(m)' = CarFrames(m) + 1
    OBVIOUS
  <2> DEFINE before == (MAX_SILENT + 1 + lost[m]) * NUM_TEMPERATURE_SENSORS
  <2>4. CarFrames(m) = before + Given /\ CarFrames(m)' = before + Given'
    BY <1>1, <1>2, <2>2 DEF CarFrames
  <2>5. before \in Nat
    BY <1>2, <2>2, Multiples
  <2> HIDE DEF before
  <2>6. QED
    BY <2>1, <2>4, <2>5
<1> HIDE DEF next
<1>5. carTemp # Msg!Nothing => /\ carTemp.frame # frame_id
                               /\ Within(next, carTemp.frame, CarFrames("temperature")')
  BY <1>2, <1>3, <1>4, OneFrameOn, FramesAreFrames DEF MsgInv, CarIsRecent, next
<1>6. carRawV # Msg!Nothing => /\ carRawV.frame # frame_id
                               /\ Within(next, carRawV.frame, CarFrames("rawv")')
  BY <1>2, <1>3, <1>4, OneFrameOn, FramesAreFrames DEF MsgInv, CarIsRecent, next
<1>7. CarIsRecent'
  BY <1>1, <1>2, <1>5, <1>6 DEF CarIsRecent
<1>8. Msg!PairsBelongTogether'
  BY <1>1 DEF MsgInv, Msg!PairsBelongTogether, Msg!Nothing
<1>9. CASE Msg!UnpackOther
  <2>1. UNCHANGED <<temp_can_data, temp_can_data2, silent>>
    BY <1>9 DEF Msg!UnpackOther
  <2>2. MsgTypes'
    BY <1>1, <1>2, <2>1 DEF MsgInv, MsgTypes, EntriesOfOne, EntriesAre, CarTempOfOne,
                            CarRawVOfOne, Msg!Nothing
  <2>3. EntryFrames' = EntryFrames + 1
    <3>1. Given' = Given + 1 /\ Given \in Nat
      BY <1>1, <1>2 DEF Given
    <3>2. silent \in Nat
      BY <1>2 DEF MsgInv, MsgTypes
    <3> DEFINE before == silent * NUM_TEMPERATURE_SENSORS
    <3>3. before \in Nat /\ EntryFrames = before + Given /\ EntryFrames' = before + Given'
      BY <1>2, <2>1, <3>2, Multiples DEF EntryFrames
    <3> HIDE DEF before
    <3>4. QED
      BY <3>1, <3>3
  <2>4. EntriesAreRecent'
    <3>1. temp_can_data # Msg!Nothing => Within(next, temp_can_data.frame, EntryFrames + 1)
      BY <1>2, <1>3, OneFrameOn, FramesAreFrames DEF MsgInv, EntriesAreRecent, next
    <3>2. QED
      BY <1>2, <2>1, <2>3, <3>1 DEF EntriesAreRecent, Msg!Nothing
  <2>5. SameMessage'
    BY <1>1, <2>1 DEF MsgInv, SameMessage, Msg!Nothing
  <2>6. QED
    BY <1>7, <1>8, <2>2, <2>4, <2>5 DEF MsgInv
<1>10. ASSUME NEW v \in TapValues, Msg!Unpack(v)
       PROVE  MsgInv'
  <2>1. /\ temp_can_data' = [data |-> v % 2^DATA_BITS, frame |-> frame_id]
        /\ temp_can_data2' = [rawv |-> v, frame |-> frame_id] /\ silent' = 0
    BY <1>10 DEF Msg!Unpack
  <2>2. temp_can_data' # Msg!Nothing
    BY <1>2, <2>1, Heard
  <2>3. EntriesOfOne' /\ CarTempOfOne' /\ CarRawVOfOne'
    <3>1. EntriesOfOne'
      BY <1>2, <2>1 DEF EntriesOfOne, EntriesAre
    <3>2. CarTempOfOne'
      BY <1>1, <2>2 DEF MsgInv, MsgTypes, CarTempOfOne
    <3>3. CarRawVOfOne'
      BY <1>1, <2>2 DEF MsgInv, MsgTypes, CarRawVOfOne
    <3>4. QED
      BY <3>1, <3>2, <3>3
  <2>4. MsgTypes'
    BY <1>1, <1>2, <2>1, <2>3 DEF MsgInv, MsgTypes
  <2>5. EntriesAreRecent'
    <3>1. EntryFrames' \in Nat \ {0}
      <4>1. Given' \in Nat \ {0}
        BY <1>1, <1>2 DEF Given
      <4>2. EntryFrames' = 0 * NUM_TEMPERATURE_SENSORS + Given'
        BY <2>1 DEF EntryFrames
      <4>3. 0 * NUM_TEMPERATURE_SENSORS = 0
        BY <1>2
      <4>4. QED
        BY <4>1, <4>2, <4>3
    <3>2. Within(next, frame_id, EntryFrames')
      BY <1>2, <3>1, FrameJustGiven DEF next
    <3>3. temp_can_data'.frame = frame_id
      BY <2>1
    <3>4. QED
      BY <1>2, <3>2, <3>3 DEF EntriesAreRecent
  <2>6. SameMessage'
    <3>1. temp_can_data2'.frame = frame_id
      BY <2>1
    <3>2. QED
      BY <1>1, <1>5, <1>6, <3>1 DEF SameMessage
  <2>7. QED
    BY <1>7, <1>8, <2>4, <2>5, <2>6 DEF MsgInv
<1>11. QED
  BY <1>9, <1>10

(* A pass receives less, or begins to send: no frame is given, and the     *)
(* bounds do not shrink.                                                   *)
LEMMA MsgWait ==
  ASSUME Msg!TapMessagesAssumption, MsgInv, Msg!ReceiveNothing \/ Msg!StartSending
  PROVE  MsgInv'
<1> DEFINE n == NUM_TEMPERATURE_SENSORS
<1>1. /\ UNCHANGED <<frame_id, temp_can_data, temp_can_data2, carTemp, carRawV, lost, silent>>
      /\ \/ msg_pc \in 1..n /\ msg_pc' = msg_pc - 1
         \/ msg_pc = 0 /\ msg_pc' = -1 /\ silent <= MAX_SILENT
  BY DEF Msg!ReceiveNothing, Msg!StartSending
<1>2. FRAME_ID_MAX \in Nat /\ n \in Nat /\ MAX_SILENT \in Nat
  BY DEF Msg!TapMessagesAssumption
<1>3. MsgTypes'
  BY <1>1, <1>2 DEF MsgInv, MsgTypes, EntriesOfOne, EntriesAre, CarTempOfOne, CarRawVOfOne,
                    Msg!Nothing
<1>4. Given \in Nat /\ Given' \in Nat /\ Given <= Given'
  BY <1>1, <1>2 DEF Given
<1>5. /\ EntryFrames \in Nat /\ EntryFrames' \in Nat /\ EntryFrames <= EntryFrames'
      /\ \A m \in {"temperature", "rawv"} :
           CarFrames(m) \in Nat /\ CarFrames(m)' \in Nat /\ CarFrames(m) <= CarFrames(m)'
  <2>1. silent \in Nat /\ silent' = silent
    BY <1>1 DEF MsgInv, MsgTypes
  <2> DEFINE quiet_frames == silent * n
  <2>2. /\ quiet_frames \in Nat /\ EntryFrames = quiet_frames + Given
        /\ EntryFrames' = quiet_frames + Given'
    BY <1>2, <2>1, Multiples DEF EntryFrames
  <2> HIDE DEF quiet_frames
  <2>3. EntryFrames \in Nat /\ EntryFrames' \in Nat /\ EntryFrames <= EntryFrames'
    <3>1. \A q, g, h \in Nat : g <= h => q + g \in Nat /\ q + h \in Nat /\ q + g <= q + h
      OBVIOUS
    <3>2. /\ quiet_frames + Given \in Nat /\ quiet_frames + Given' \in Nat
          /\ quiet_frames + Given <= quiet_frames + Given'
      BY <1>4, <2>2, <3>1, Zenon
    <3>3. QED
      BY <2>2, <3>2, Zenon
  <2>4. ASSUME NEW m \in {"temperature", "rawv"}
        PROVE  CarFrames(m) \in Nat /\ CarFrames(m)' \in Nat /\ CarFrames(m) <= CarFrames(m)'
    <3> DEFINE before == (MAX_SILENT + 1 + lost[m]) * n
    <3>1. lost[m] \in Nat /\ lost'[m] = lost[m]
      BY <1>1 DEF MsgInv, MsgTypes
    <3>2. before \in Nat
      BY <1>2, <3>1, Multiples
    <3>3. CarFrames(m) = before + Given /\ CarFrames(m)' = before + Given'
      BY <1>1, <1>2, <3>1 DEF CarFrames
    <3>4. \A q, g, h \in Nat : g <= h => q + g \in Nat /\ q + h \in Nat /\ q + g <= q + h
      OBVIOUS
    <3> HIDE DEF before
    <3>5. /\ before + Given \in Nat /\ before + Given' \in Nat
          /\ before + Given <= before + Given'
      BY <1>4, <3>2, <3>4, Zenon
    <3>6. QED
      BY <3>3, <3>5, Zenon
  <2>5. QED
    BY <2>3, <2>4
<1>6. EntriesAreRecent'
  <2>1. temp_can_data # Msg!Nothing => Within(frame_id, temp_can_data.frame, EntryFrames')
    BY <1>5, WithinMore DEF MsgInv, EntriesAreRecent
  <2>2. QED
    BY <1>1, <2>1 DEF EntriesAreRecent, Msg!Nothing
<1>7. CarIsRecent'
  <2>1. carTemp # Msg!Nothing => Within(frame_id, carTemp.frame, CarFrames("temperature")')
    BY <1>5, WithinMore DEF MsgInv, CarIsRecent
  <2>2. carRawV # Msg!Nothing => Within(frame_id, carRawV.frame, CarFrames("rawv")')
    BY <1>5, WithinMore DEF MsgInv, CarIsRecent
  <2>3. QED
    BY <1>1, <2>1, <2>2 DEF CarIsRecent, Msg!Nothing
<1>8. SameMessage' /\ Msg!PairsBelongTogether'
  BY <1>1 DEF MsgInv, SameMessage, Msg!PairsBelongTogether, Msg!Nothing
<1>9. QED
  BY <1>3, <1>6, <1>7, <1>8 DEF MsgInv

(* Of a message that is sent the car has a recent frame, of one that is    *)
(* lost one that is a pass older.                                          *)
LEMMA SentOrLost ==
  ASSUME Msg!TapMessagesAssumption, MsgInv, msg_pc < 0, NEW m \in {"temperature", "rawv"}
  PROVE  /\ EntryFrames = (silent + 1) * NUM_TEMPERATURE_SENSORS
         /\ EntryFrames <= (MAX_SILENT + 1) * NUM_TEMPERATURE_SENSORS
         /\ (MAX_SILENT + 1 + lost[m]) * NUM_TEMPERATURE_SENSORS + NUM_TEMPERATURE_SENSORS =
               (MAX_SILENT + 1 + (lost[m] + 1)) * NUM_TEMPERATURE_SENSORS
         /\ {EntryFrames, (MAX_SILENT + 1) * NUM_TEMPERATURE_SENSORS,
             (MAX_SILENT + 1 + lost[m]) * NUM_TEMPERATURE_SENSORS} \subseteq Nat
<1> DEFINE n == NUM_TEMPERATURE_SENSORS
           before == MAX_SILENT + 1 + lost[m]
<1>1. /\ n \in Nat /\ MAX_SILENT \in Nat /\ silent \in Nat /\ silent <= MAX_SILENT
      /\ lost[m] \in Nat
  BY DEF Msg!TapMessagesAssumption, MsgInv, MsgTypes
<1>2. EntryFrames = silent * n + n
  BY DEF EntryFrames, Given
<1>3. (silent + 1) * n = silent * n + n /\ silent * n \in Nat
  BY <1>1, Multiples
<1>4. (silent + 1) * n <= (MAX_SILENT + 1) * n /\ (MAX_SILENT + 1) * n \in Nat
  <2>1. silent + 1 \in Nat /\ MAX_SILENT + 1 \in Nat /\ silent + 1 <= MAX_SILENT + 1
    BY <1>1
  <2>2. QED
    BY <1>1, <2>1, Multiples
<1>5. before \in Nat /\ MAX_SILENT + 1 + (lost[m] + 1) = before + 1
  BY <1>1
<1>6. (before + 1) * n = before * n + n /\ before * n \in Nat
  <2> HIDE DEF before
  <2>1. QED
    BY <1>1, <1>5, Multiples
<1>7. EntryFrames \in Nat
  BY <1>1, <1>2, <1>3
<1>8. QED
  BY <1>2, <1>3, <1>4, <1>5, <1>6, <1>7

(* The temperature of the entry is sent, or lost once more.                *)
LEMMA MsgSendTemperature ==
  ASSUME Msg!TapMessagesAssumption, MsgInv, Msg!SendTemperature
  PROVE  MsgInv'
<1> DEFINE n == NUM_TEMPERATURE_SENSORS
<1>1. /\ msg_pc = -1 /\ msg_pc' = -2
      /\ UNCHANGED <<frame_id, temp_can_data, temp_can_data2, carRawV, silent>>
      /\ \/ temp_can_data = Msg!Nothing /\ UNCHANGED <<carTemp, lost>>
         \/ /\ temp_can_data # Msg!Nothing
            /\ carTemp' = [temperature |-> Msg!Signed(temp_can_data.data),
                           frame |-> temp_can_data.frame]
            /\ lost' = [lost EXCEPT !["temperature"] = 0]
         \/ /\ temp_can_data # Msg!Nothing /\ UNCHANGED carTemp
            /\ lost["temperature"] < MAX_LOST
            /\ lost' = [lost EXCEPT !["temperature"] = lost["temperature"] + 1]
  BY DEF Msg!SendTemperature, Msg!Lose
<1>2. FRAME_ID_MAX \in Nat /\ n \in Nat /\ MAX_SILENT \in Nat /\ MAX_LOST \in Nat
  BY DEF Msg!TapMessagesAssumption
<1>3. /\ lost' \in [{"temperature", "rawv"} -> 0..MAX_LOST] /\ lost'["rawv"] = lost["rawv"]
      /\ lost["temperature"] \in Nat
  BY <1>1, <1>2 DEF MsgInv, MsgTypes
<1>4. Given' = Given /\ Given = n
  BY <1>1 DEF Given
<1>5. EntryFrames' = EntryFrames /\ CarFrames("rawv")' = CarFrames("rawv")
  BY <1>1, <1>3, <1>4 DEF EntryFrames, CarFrames
<1>6. EntriesAreRecent'
  BY <1>1, <1>5 DEF MsgInv, EntriesAreRecent, Msg!Nothing
<1>7. carRawV' # Msg!Nothing => Within(frame_id', carRawV'.frame, CarFrames("rawv")')
  BY <1>1, <1>5 DEF MsgInv, CarIsRecent
<1>8. EntriesOfOne' /\ CarRawVOfOne'
  BY <1>1 DEF MsgInv, MsgTypes, EntriesOfOne, EntriesAre, CarRawVOfOne, Msg!Nothing
<1>9. ASSUME CarTempOfOne',
             carTemp' # Msg!Nothing => Within(frame_id', carTemp'.frame, CarFrames("temperature")'),
             carTemp' # Msg!Nothing /\ carTemp'.frame = temp_can_data2.frame
               => carTemp'.temperature = temp_can_data2.rawv,
             carTemp' # Msg!Nothing /\ carTemp'.frame = carRawV.frame
               => carTemp'.temperature = carRawV.rawv
      PROVE  MsgInv'
  <2>1. MsgTypes'
    BY <1>1, <1>2, <1>3, <1>8, <1>9 DEF MsgInv, MsgTypes
  <2>2. CarIsRecent'
    BY <1>7, <1>9 DEF CarIsRecent, Msg!Nothing
  <2>3. SameMessage'
    BY <1>1, <1>9 DEF MsgInv, SameMessage, Msg!Nothing
  <2>4. Msg!PairsBelongTogether'
    BY <1>1, <1>9 DEF Msg!PairsBelongTogether, Msg!Nothing
  <2>5. QED
    BY <1>6, <2>1, <2>2, <2>3, <2>4 DEF MsgInv
<1>10. CarFrames("temperature")' = (MAX_SILENT + 1 + lost'["temperature"]) * n
  <2>1. (MAX_SILENT + 1 + lost'["temperature"]) * n \in Int
    BY <1>2, <1>3
  <2>2. QED
    BY <1>1, <2>1 DEF CarFrames
<1>11. CASE temp_can_data = Msg!Nothing
  <2>1. carTemp' = Msg!Nothing /\ carTemp' = carTemp
    BY <1>1, <1>11 DEF MsgInv, MsgTypes, CarTempOfOne
  <2>2. CarTempOfOne'
    BY <2>1 DEF CarTempOfOne, Msg!Nothing
  <2>3. QED
    BY <1>9, <2>1, <2>2
<1>12. CASE /\ temp_can_data # Msg!Nothing
            /\ carTemp' = [temperature |-> Msg!Signed(temp_can_data.data),
                           frame |-> temp_can_data.frame]
            /\ lost' = [lost EXCEPT !["temperature"] = 0]
  <2>1. PICK v \in TapValues, f \in Frames : EntriesAre(v, f)
    BY <1>12 DEF MsgInv, MsgTypes, EntriesOfOne
  <2>2. /\ temp_can_data.data = v % 2^DATA_BITS /\ temp_can_data.frame = f
        /\ temp_can_data2.rawv = v /\ temp_can_data2.frame = f
    BY <2>1 DEF EntriesAre
  <2>3. carTemp' = [temperature |-> v, frame |-> f]
    BY <1>12, <2>2, SignIsKept
  <2>4. CarTempOfOne'
    BY <1>1, <1>12, <2>3 DEF CarTempOfOne, Msg!Nothing
  <2>5. CarFrames("temperature")' = (MAX_SILENT + 1) * n
    <3>1. lost'["temperature"] = 0
      BY <1>12 DEF MsgInv, MsgTypes
    <3>2. MAX_SILENT + 1 + 0 = MAX_SILENT + 1
      BY <1>2
    <3>3. QED
      BY <1>10, <3>1, <3>2
  <2>6. Within(frame_id', f, CarFrames("temperature")')
    <3>1. Within(frame_id, f, EntryFrames)
      BY <1>12, <2>2 DEF MsgInv, EntriesAreRecent
    <3>2. /\ EntryFrames \in Nat /\ (MAX_SILENT + 1) * n \in Nat
          /\ EntryFrames <= (MAX_SILENT + 1) * n
      BY <1>1, SentOrLost
    <3> HIDE DEF n
    <3>3. Within(frame_id, f, (MAX_SILENT + 1) * n)
      BY <3>1, <3>2, WithinMore
    <3>4. QED
      BY <1>1, <2>5, <3>3
  <2>7. carRawV.frame = f => carRawV.rawv = v
    <3>1. carRawV # Msg!Nothing \/ carRawV.frame \notin Frames
      BY <1>2 DEF Msg!Nothing, Frames
    <3>2. QED
      BY <2>2, <3>1 DEF MsgInv, SameMessage
  <2>8. QED
    BY <1>9, <2>2, <2>3, <2>4, <2>6, <2>7
<1>13. CASE /\ temp_can_data # Msg!Nothing /\ UNCHANGED carTemp
            /\ lost["temperature"] < MAX_LOST
            /\ lost' = [lost EXCEPT !["temperature"] = lost["temperature"] + 1]
  <2>1. CarTempOfOne'
    BY <1>1, <1>13 DEF MsgInv, MsgTypes, CarTempOfOne, Msg!Nothing
  <2>2. CarFrames("temperature")' = CarFrames("temperature")
    <3>1. lost'["temperature"] = lost["temperature"] + 1
      BY <1>13 DEF MsgInv, MsgTypes
    <3>2. CarFrames("temperature") = (MAX_SILENT + 1 + lost["temperature"]) * n + n
      BY <1>1, <1>4 DEF CarFrames
    <3>3. (MAX_SILENT + 1 + lost["temperature"]) * n + n
            = (MAX_SILENT + 1 + (lost["temperature"] + 1)) * n
      BY <1>1, SentOrLost
    <3>4. QED
      BY <1>10, <3>1, <3>2, <3>3
  <2>3. QED
    BY <1>1, <1>9, <1>13, <2>1, <2>2 DEF MsgInv, CarIsRecent, SameMessage, Msg!PairsBelongTogether
<1>14. QED
  BY <1>1, <1>11, <1>12, <1>13

(* The raw voltage of the entry is sent, or lost once more.                *)
LEMMA MsgSendRawV ==
  ASSUME Msg!TapMessagesAssumption, MsgInv, Msg!SendRawV
  PROVE  MsgInv'
<1> DEFINE n == NUM_TEMPERATURE_SENSORS
<1>1. /\ msg_pc = -2 /\ msg_pc' = n
      /\ UNCHANGED <<frame_id, temp_can_data, temp_can_data2, carTemp>>
      /\ silent' = IF temp_can_data = Msg!Nothing THEN 0 ELSE silent + 1
      /\ \/ temp_can_data2 = Msg!Nothing /\ UNCHANGED <<carRawV, lost>>
         \/ /\ temp_can_data2 # Msg!Nothing
            /\ carRawV' = [rawv |-> temp_can_data2.rawv, frame |-> temp_can_data2.frame]
            /\ lost' = [lost EXCEPT !["rawv"] = 0]
         \/ /\ temp_can_data2 # Msg!Nothing /\ UNCHANGED carRawV
            /\ lost["rawv"] < MAX_LOST
            /\ lost' = [lost EXCEPT !["rawv"] = lost["rawv"] + 1]
  BY DEF Msg!SendRawV, Msg!Lose, Msg!temp_can_pack2
<1>2. FRAME_ID_MAX \in Nat /\ n \in Nat \ {0} /\ MAX_SILENT \in Nat /\ MAX_LOST \in Nat
  BY DEF Msg!TapMessagesAssumption
<1>3. /\ lost' \in [{"temperature", "rawv"} -> 0..MAX_LOST]
      /\ lost'["temperature"] = lost["temperature"] /\ lost["rawv"] \in Nat
  BY <1>1, <1>2 DEF MsgInv, MsgTypes
<1>4. Given' = 0 /\ Given = n
  BY <1>1, <1>2 DEF Given
<1>5. silent' \in 0..(MAX_SILENT + 1)
  BY <1>1, <1>2 DEF MsgInv, MsgTypes
<1>6. CarFrames("temperature")' = CarFrames("temperature")
  BY <1>1, <1>2, <1>3, <1>4 DEF CarFrames
<1>7. EntriesAreRecent'
  <2>1. CASE temp_can_data = Msg!Nothing
    BY <1>1, <2>1 DEF EntriesAreRecent, Msg!Nothing
  <2>2. CASE temp_can_data # Msg!Nothing
    <3>1. EntryFrames' = (silent + 1) * n + 0
      BY <1>1, <1>4, <2>2 DEF EntryFrames
    <3>2. EntryFrames = (silent + 1) * n /\ EntryFrames \in Nat
      BY <1>1, SentOrLost
    <3>3. EntryFrames' = EntryFrames
      BY <3>1, <3>2
    <3>4. QED
      BY <1>1, <3>3 DEF MsgInv, EntriesAreRecent, Msg!Nothing
  <2>3. QED
    BY <2>1, <2>2
<1>8. carTemp' # Msg!Nothing => Within(frame_id', carTemp'.frame, CarFrames("temperature")')
  BY <1>1, <1>6 DEF MsgInv, CarIsRecent
<1>9. EntriesOfOne' /\ CarTempOfOne'
  BY <1>1 DEF MsgInv, MsgTypes, EntriesOfOne, EntriesAre, CarTempOfOne, Msg!Nothing
<1>10. ASSUME CarRawVOfOne',
              carRawV' # Msg!Nothing => Within(frame_id', carRawV'.frame, CarFrames("rawv")'),
              carRawV' # Msg!Nothing /\ carRawV'.frame = temp_can_data2.frame
                => carRawV'.rawv = temp_can_data2.rawv,
              carTemp # Msg!Nothing /\ carTemp.frame = carRawV'.frame
                => carTemp.temperature = carRawV'.rawv
       PROVE  MsgInv'
  <2>1. MsgTypes'
    BY <1>1, <1>2, <1>3, <1>5, <1>9, <1>10 DEF MsgInv, MsgTypes
  <2>2. CarIsRecent'
    BY <1>8, <1>10 DEF CarIsRecent, Msg!Nothing
  <2>3. SameMessage'
    BY <1>1, <1>10 DEF MsgInv, SameMessage, Msg!Nothing
  <2>4. Msg!PairsBelongTogether'
    BY <1>1, <1>10 DEF Msg!PairsBelongTogether, Msg!Nothing
  <2>5. QED
    BY <1>7, <2>1, <2>2, <2>3, <2>4 DEF MsgInv
<1>11. CarFrames("rawv")' = (MAX_SILENT + 1 + lost'["rawv"]) * n
  <2>1. (MAX_SILENT + 1 + lost'["rawv"]) * n \in Int
    BY <1>2, <1>3
  <2>2. CarFrames("rawv")' = (MAX_SILENT + 1 + lost'["rawv"]) * n + 0
    BY <1>4 DEF CarFrames
  <2>3. QED
    BY <2>1, <2>2
<1>12. CASE temp_can_data2 = Msg!Nothing
  <2>1. temp_can_data = Msg!Nothing
    BY <1>2, <1>12, FramesAreFrames DEF MsgInv
  <2>2. carRawV' = Msg!Nothing /\ carRawV' = carRawV
    BY <1>1, <1>12, <2>1 DEF MsgInv, MsgTypes, CarRawVOfOne
  <2>3. CarRawVOfOne'
    BY <2>2 DEF CarRawVOfOne, Msg!Nothing
  <2>4. QED
    BY <1>10, <2>2, <2>3 DEF MsgInv, Msg!PairsBelongTogether
<1>13. CASE /\ temp_can_data2 # Msg!Nothing
            /\ carRawV' = [rawv |-> temp_can_data2.rawv, frame |-> temp_can_data2.frame]
            /\ lost' = [lost EXCEPT !["rawv"] = 0]
  <2>1. PICK v \in TapValues, f \in Frames : EntriesAre(v, f)
    BY <1>13 DEF MsgInv, MsgTypes, EntriesOfOne
  <2>2. /\ temp_can_data # Msg!Nothing /\ temp_can_data.frame = f
        /\ temp_can_data2.rawv = v /\ temp_can_data2.frame = f
    BY <1>2, <2>1, Heard DEF EntriesAre
  <2>3. carRawV' = [rawv |-> v, frame |-> f]
    BY <1>13, <2>2
  <2>4. CarRawVOfOne'
    BY <1>1, <2>2, <2>3 DEF CarRawVOfOne, Msg!Nothing
  <2>5. CarFrames("rawv")' = (MAX_SILENT + 1) * n
    <3>1. lost'["rawv"] = 0
      BY <1>13 DEF MsgInv, MsgTypes
    <3>2. MAX_SILENT + 1 + 0 = MAX_SILENT + 1
      BY <1>2
    <3>3. QED
      BY <1>11, <3>1, <3>2
  <2>6. Within(frame_id', f, CarFrames("rawv")')
    <3>1. Within(frame_id, f, EntryFrames)
      BY <2>2 DEF MsgInv, EntriesAreRecent
    <3>2. /\ EntryFrames \in Nat /\ (MAX_SILENT + 1) * n \in Nat
          /\ EntryFrames <= (MAX_SILENT + 1) * n
      BY <1>1, SentOrLost
    <3> HIDE DEF n
    <3>3. Within(frame_id, f, (MAX_SILENT + 1) * n)
      BY <3>1, <3>2, WithinMore
    <3>4. QED
      BY <1>1, <2>5, <3>3
  <2>7. carTemp # Msg!Nothing /\ carTemp.frame = f => carTemp.temperature = v
    BY <2>2 DEF MsgInv, SameMessage
  <2>8. QED
    BY <1>10, <2>2, <2>3, <2>4, <2>6, <2>7
<1>14. CASE /\ temp_can_data2 # Msg!Nothing /\ UNCHANGED carRawV
            /\ lost["rawv"] < MAX_LOST
            /\ lost' = [lost EXCEPT !["rawv"] = lost["rawv"] + 1]
  <2>1. CarRawVOfOne'
    BY <1>1, <1>14 DEF MsgInv, MsgTypes, CarRawVOfOne, Msg!Nothing
  <2>2. CarFrames("rawv")' = CarFrames("rawv")
    <3>1. lost'["rawv"] = lost["rawv"] + 1
      BY <1>14 DEF MsgInv, MsgTypes
    <3>2. CarFrames("rawv") = (MAX_SILENT + 1 + lost["rawv"]) * n + n
      BY <1>1, <1>4 DEF CarFrames
    <3>3. (MAX_SILENT + 1 + lost["rawv"]) * n + n = (MAX_SILENT + 1 + (lost["rawv"] + 1)) * n
      BY <1>1, SentOrLost
    <3>4. QED
      BY <1>11, <3>1, <3>2, <3>3
  <2>3. QED
    BY <1>1, <1>10, <1>14, <2>1, <2>2 DEF MsgInv, CarIsRecent, SameMessage, Msg!PairsBelongTogether
<1>15. QED
  BY <1>1, <1>12, <1>13, <1>14

(* Every step keeps the invariant.                                         *)
LEMMA MsgStep ==
  ASSUME Msg!TapMessagesAssumption, MsgInv, [Msg!Next]_(Msg!msgVars)
  PROVE  MsgInv'
<1>1. CASE Msg!UnpackOther \/ \E v \in TapValues : Msg!Unpack(v)
  BY <1>1, MsgUnpack
<1>2. CASE Msg!ReceiveNothing \/ Msg!StartSending
  BY <1>2, MsgWait
<1>3. CASE UNCHANGED Msg!msgVars
  <2>1. MsgTypes'
    BY <1>3 DEF Msg!msgVars, MsgInv, MsgTypes, EntriesOfOne, EntriesAre, CarTempOfOne,
                CarRawVOfOne, Msg!Nothing
  <2>2. EntriesAreRecent' /\ CarIsRecent'
    BY <1>3 DEF Msg!msgVars, MsgInv, EntriesAreRecent, CarIsRecent, EntryFrames, CarFrames,
                Given, Msg!Nothing
  <2>3. SameMessage' /\ Msg!PairsBelongTogether'
    BY <1>3 DEF Msg!msgVars, MsgInv, SameMessage, Msg!PairsBelongTogether, Msg!Nothing
  <2>4. QED
    BY <2>1, <2>2, <2>3 DEF MsgInv
<1>4. QED
  BY <1>1, <1>2, <1>3, MsgSendTemperature, MsgSendRawV DEF Msg!Next

(* The types that MsgInv names are those of TypeOK.                        *)
LEMMA MsgTypesGiveTypeOK ==
  ASSUME MsgInv
  PROVE  Msg!TypeOK
  BY DEF MsgInv, MsgTypes, Frames, Msg!TypeOK

-----------------------------------------------------------------------------
(* The board *)

(* Every component starts in its own initial state. *)
LEMMA BoardInitParts ==
  ASSUME BoardInit
  PROVE  /\ Init /\ Adc!Init /\ Can!Init /\ DogInit /\ Sht!Init /\ Fan!Init /\ Led!Init
         /\ Age!Init /\ Msg!Init
  BY DEF BoardInit

(* A step of the board is a step of every component, or leaves it alone.   *)
LEMMA BoardStep ==
  ASSUME [BoardNext]_boardVars
  PROVE  /\ [Next]_vars /\ [Adc!Next]_(Adc!vars) /\ [Can!Next]_(Can!canVars) /\ [DogNext]_dogVars
         /\ [Sht!Next]_(Sht!shtVars) /\ [Fan!Next]_(Fan!fanVars) /\ [Led!Next]_(Led!ledVars)
         /\ [Age!Next]_(Age!ageVars) /\ [Msg!Next]_(Msg!msgVars)
<1>1. UNCHANGED adcVars => UNCHANGED Adc!vars
  BY DEF adcVars, Adc!vars
<1>2. UNCHANGED canVars => UNCHANGED Can!canVars
  BY DEF canVars, Can!canVars, Can!bus, Can!forward, Can!seen
<1>3. UNCHANGED shtVars => UNCHANGED Sht!shtVars
  BY DEF shtVars, Sht!shtVars, Sht!errors
<1>4. UNCHANGED fanVars => UNCHANGED Fan!fanVars
  BY DEF fanVars, Fan!fanVars
<1>5. UNCHANGED ledVars => UNCHANGED Led!ledVars
  BY DEF ledVars, Led!ledVars, Led!bitmaps, Led!calls, Led!lights
<1>6. UNCHANGED ageVars => UNCHANGED Age!ageVars
  BY DEF ageVars, Age!ageVars
<1>7. UNCHANGED msgVars => UNCHANGED Msg!msgVars
  BY DEF msgVars, Msg!msgVars
<1>8. CASE UNCHANGED boardVars
  <2>1. /\ UNCHANGED vars /\ UNCHANGED adcVars /\ UNCHANGED canVars /\ UNCHANGED dogVars
        /\ UNCHANGED shtVars /\ UNCHANGED fanVars /\ UNCHANGED ledVars /\ UNCHANGED ageVars
        /\ UNCHANGED msgVars
    BY <1>8 DEF boardVars
  <2>2. QED
    BY <1>1, <1>2, <1>3, <1>4, <1>5, <1>6, <1>7, <2>1
<1>9. CASE BoardNext
  <2>1. /\ Next \/ UNCHANGED vars
        /\ Adc!Next \/ UNCHANGED adcVars
        /\ Can!Next \/ UNCHANGED canVars
        /\ DogNext \/ UNCHANGED dogVars
        /\ Sht!Next \/ UNCHANGED shtVars
        /\ Fan!Next \/ UNCHANGED fanVars
        /\ Led!Next \/ UNCHANGED ledVars
        /\ Age!Next \/ UNCHANGED ageVars
        /\ Msg!Next \/ UNCHANGED msgVars
    BY <1>9 DEF BoardNext, Others
  <2>2. QED
    BY <1>1, <1>2, <1>3, <1>4, <1>5, <1>6, <1>7, <2>1
<1>10. QED
  BY <1>8, <1>9

(* The invariants of the components, all of them. *)
BoardInv ==
  /\ AmperesInv /\ AliveInv /\ CanInv /\ AdcInv /\ AgeInv /\ ShtInv /\ FanInv /\ LedInv /\ MsgInv

(* Every reachable state of the board satisfies them. *)
THEOREM BoardInvariant == BoardSpec => []BoardInv
<1>1. BoardInit => BoardInv
  BY ComponentsAssumption, BoardInitParts, AmperesInit, AliveInit, CanInit, AdcInit, AgeInit,
     ShtInit, FanInit, LedInit, MsgInit DEF BoardInv
<1>2. BoardInv /\ [BoardNext]_boardVars => BoardInv'
  BY ComponentsAssumption, BoardStep, AmperesStep, AliveStep, CanStep, AdcStep, AgeStep,
     ShtStep, FanStep, LedStep, MsgStep DEF BoardInv
<1>3. QED
  BY <1>1, <1>2, PTL DEF BoardSpec

(* The variables of every component stay in their types: no queue grows    *)
(* beyond its length, no fan gets a speed nobody asks for, no caller of    *)
(* the lights and no driver comes to a place it has no step for.           *)
THEOREM BoardTypesCorrect == BoardSpec => []TypesOK
<1>1. BoardInv => TypesOK
  <2>1. AdcInv => Adc!TypeOK
    BY DEF AdcInv, AdcTypes, Adc!TypeOK
  <2>2. QED
    BY <2>1, LedTypesGiveTypeOK, MsgTypesGiveTypeOK
       DEF BoardInv, TypesOK, AmperesInv, AliveInv, CanInv, CanTypes, AgeInv, ShtInv, ShtTypes,
           FanInv
<1>2. QED
  BY <1>1, BoardInvariant, PTL

(* No call of Read_ADC that succeeds returns a sample older than the calls *)
(* that have failed: only a failure leaves a sample behind in a queue.     *)
THEOREM DelayOnlyByFailures == BoardSpec => DelayIsFailures
<1>1. BoardInv /\ [BoardNext]_boardVars
        => [Adc!Succeeds => \A a \in Adc!Adcs : result'[a] <= failures]_(Adc!vars)
  BY BoardStep, ReadInTime DEF BoardInv
<1>2. QED
  BY <1>1, BoardInvariant, PTL DEF BoardSpec, DelayIsFailures, Adc!DelayIsFailures

(* The last frame of an identifier is in its queue until a reader has it,  *)
(* and the last frame for the car until Task_CanRxForward has it: a full   *)
(* queue loses the oldest frame, never the newest.                         *)
THEOREM NewestStays == BoardSpec => []NewestIsKept
<1>1. CanInv => Can!NewestIsKept
  <2> SUFFICES ASSUME CanInv PROVE Can!NewestIsKept
    OBVIOUS
  <2>1. ASSUME NEW q \in Seq(Nat), NEW taken
        PROVE  LastOf(q, taken) \in Can!Range(q) \union {taken}
    <3>1. CASE q = <<>>
      BY <3>1 DEF LastOf
    <3>2. CASE q # <<>>
      <4>1. Len(q) \in DOMAIN q
        BY <3>2, TakeHead
      <4>2. QED
        BY <3>2, <4>1 DEF LastOf, Can!Range
    <3>3. QED
      BY <3>1, <3>2
  <2>2. \A id \in Can!Ids : newest[id] \in Can!Range(rx[id]) \union {read[id]}
    BY <2>1 DEF CanInv, CanTypes, LastIsNewest
  <2>3. hooked \in Can!Range(canRxForwardQueue) \union {offered}
    BY <2>1 DEF CanInv, CanTypes, LastIsNewest
  <2>4. QED
    BY <2>2, <2>3 DEF Can!NewestIsKept
<1>2. QED
  BY <1>1, BoardInvariant, PTL DEF BoardInv, NewestIsKept

(* The forwarding implements the channel that may lose frames: none comes  *)
(* to the car twice and none overtakes another, wherever the interrupt and *)
(* Task_CanRxForward meet at the queue.                                    *)
THEOREM ForwardingIsLossyChannel == BoardSpec => ImplementsLossyChannel
<1>1. BoardInit => Can!Channel!Init
  <2> SUFFICES ASSUME BoardInit PROVE Can!Channel!Init
    OBVIOUS
  <2>1. /\ canRxForwardQueue = <<>> /\ forward_pc = "create" /\ arrived = 0 /\ sent = 0
    BY BoardInitParts DEF Can!Init
  <2>2. Can!Range(canRxForwardQueue) = {}
    BY <2>1 DEF Can!Range
  <2>3. QED
    BY <2>1, <2>2 DEF Can!Channel!Init
<1>2. BoardInv /\ [BoardNext]_boardVars => [Can!Channel!Next]_(Can!Channel!vars)
  BY ComponentsAssumption, BoardStep, ChannelStep DEF BoardInv
<1>3. QED
  BY <1>1, <1>2, BoardInvariant, PTL
     DEF BoardSpec, ImplementsLossyChannel, Can!ImplementsLossyChannel, Can!Channel!Spec

(* The values SHT45_get converts are of its own command as long as nothing *)
(* has failed, and older than that by no more calls than have failed, and  *)
(* one.                                                                    *)
THEOREM ReadingsAreFresh == BoardSpec => ReadingIsFresh
<1>1. BoardInv /\ [BoardNext]_boardVars
        => [Sht!Convert => \A p \in Sht!Parts :
              rx_bytes[p] <= IF trouble = 0 THEN 0 ELSE trouble + 1]_(Sht!shtVars)
  BY FreshWhenConverted DEF BoardInv
<1>2. QED
  BY <1>1, BoardInvariant, PTL DEF BoardSpec, ReadingIsFresh, Sht!ReadingIsFresh

(* Whenever nobody is changing them, the lights show exactly what the      *)
(* calls that succeeded have asked for, whichever of them gave up waiting. *)
THEOREM LightsShowCalls == BoardSpec => []LightsAreAsAsked
  BY BoardInvariant, LightsAtRest, PTL DEF BoardInv, LightsAreAsAsked

(* The age stored with a reading is the time since the tap's last message, *)
(* in the bits of its field, wherever the tick count has wrapped.          *)
THEOREM AgesAreRight == BoardSpec => AgeIsRight
<1>1. BoardInv /\ [BoardNext]_boardVars
        => [Age!Unpack => \/ tap_age' = since % 2^AGE_BITS
                          \/ s_last_rx_time = 0 /\ tap_age' = 0]_(Age!ageVars)
  BY ComponentsAssumption, AgeWhenUnpacked DEF BoardInv
<1>2. QED
  BY <1>1, BoardInvariant, PTL DEF BoardSpec, AgeIsRight, Age!AgeIsRight

(* A temperature and a raw voltage that the car pairs by the frame id are  *)
(* of one message of the tap, whichever are lost.                          *)
THEOREM PairsAreOfOneMessage == BoardSpec => []PairsBelongTogether
<1>1. BoardInv => PairsBelongTogether
  BY DEF BoardInv, MsgInv, PairsBelongTogether
<1>2. QED
  BY <1>1, BoardInvariant, PTL
=============================================================================
