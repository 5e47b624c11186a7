----------------------------- MODULE PetWatchdog -----------------------------
(***************************************************************************)
(* Task_PetWatchdog and the independent watchdog it refreshes when every   *)
(* monitor has set its bit of xWDogEventGroup and the window timer has run *)
(* out.  A refresh with more than IWDG_WINDOW_TICKS left resets the        *)
(* processor, as no refresh does; the reset is remembered in a flag of the *)
(* hardware, and the watchdog stays started for as long as the processor   *)
(* runs.                                                                   *)
(*                                                                         *)
(* The same number is the window of the watchdog, in its ticks, and the    *)
(* period of the timer, in ms: WINDOW_TIMER_PERIOD.                        *)
(***************************************************************************)
EXTENDS Integers, FiniteSets

CONSTANTS
  Monitors,                       (* the .._MONITOR_DONE bits               *)
  IWDG_COUNTDOWN_TICKS, IWDG_WINDOW_TICKS, WINDOW_TIMER_PERIOD,
  TICKS_PER_MS                    (* of the watchdog: 32 kHz over 8         *)

PetWatchdogAssumption ==
  /\ "WINDOW_TIMER_DONE" \notin Monitors
  /\ IWDG_COUNTDOWN_TICKS \in Nat /\ IWDG_WINDOW_TICKS \in Nat
  /\ WINDOW_TIMER_PERIOD \in Nat \ {0} /\ TICKS_PER_MS \in Nat \ {0}

VARIABLES
  uxBits,          (* xWDogEventGroup                                       *)
  window_timer,    (* ms until the timer is due, and 1; 0: it does not run  *)
  dog_pc,          (* where Task_PetWatchdog stands                         *)
  iwdg_on, counter,(* the watchdog                                          *)
  IWDGRST,         (* the flag of the reset                                 *)
  watchdog_fault,  (* RTOS_WATCHDOG_ERROR is raised                         *)
  passed,          (* history: monitors that set their bit since the last   *)
                   (* refresh or reset                                      *)
  refreshes        (* history: refreshes since the reset, 2 for any more    *)

software == <<uxBits, window_timer, dog_pc, watchdog_fault>>
hardware == <<iwdg_on, counter, IWDGRST>>
history == <<passed, refreshes>>
dogVars == <<software, hardware, history>>

ALL_TASKS_DONE == Monitors \union {"WINDOW_TIMER_DONE"}

DogInit ==
  /\ uxBits = {} /\ window_timer = 0 /\ dog_pc = "boot" /\ watchdog_fault = FALSE
  /\ iwdg_on = FALSE /\ counter = 0 /\ IWDGRST = FALSE
  /\ passed = {} /\ refreshes = 0

(* Everything starts again but for the flag. *)
Reset ==
  /\ uxBits' = {} /\ window_timer' = 0 /\ dog_pc' = "boot" /\ watchdog_fault' = FALSE
  /\ iwdg_on' = FALSE /\ counter' = 0 /\ IWDGRST' = TRUE
  /\ passed' = {} /\ refreshes' = 0

-----------------------------------------------------------------------------
(* Mutant of StartTimer: the period after which a refresh is allowed.      *)
StartForWindow(from, to) ==
  /\ dog_pc = from /\ dog_pc' = to
  /\ window_timer' = 2 + (IWDG_COUNTDOWN_TICKS - IWDG_WINDOW_TICKS) \div TICKS_PER_MS
  /\ UNCHANGED <<uxBits, watchdog_fault, hardware, history>>

(* xTimerStart does not wait: with the queue of the timer service full it  *)
(* does nothing, and its result is ignored.                                *)
StartTimer(from, to) ==
  /\ dog_pc = from /\ dog_pc' = to
  /\ window_timer' \in {window_timer, WINDOW_TIMER_PERIOD + 1}
  /\ UNCHANGED <<uxBits, watchdog_fault, hardware, history>>

(* IWDG_Start.  HAL_IWDG_Init starts the countdown first: it runs even     *)
(* when the call fails and the task ends in Error_Handler.                 *)
IWDG_Start ==
  /\ dog_pc = "start"
  /\ watchdog_fault' = (watchdog_fault \/ IWDGRST) /\ IWDGRST' = FALSE
  /\ iwdg_on' = TRUE /\ counter' = IWDG_COUNTDOWN_TICKS
  /\ dog_pc' \in {"wait", "Error_Handler"}
  /\ UNCHANGED <<uxBits, window_timer, history>>

(* Mutant of Wait: xEventGroupWaitBits without xWaitForAllBits.            *)
WaitForAny ==
  /\ dog_pc = "wait" /\ uxBits # {}
  /\ dog_pc' = "refresh"
  /\ UNCHANGED <<uxBits, window_timer, watchdog_fault, hardware, history>>

Wait ==
  /\ dog_pc = "wait" /\ uxBits = ALL_TASKS_DONE
  /\ dog_pc' = "refresh"
  /\ UNCHANGED <<uxBits, window_timer, watchdog_fault, hardware, history>>

(* HAL_IWDG_Refresh, in the window and outside it. *)
Refresh ==
  /\ dog_pc = "refresh" /\ counter <= IWDG_WINDOW_TICKS
  /\ counter' = IWDG_COUNTDOWN_TICKS
  /\ passed' = {} /\ refreshes' = IF refreshes < 2 THEN refreshes + 1 ELSE 2
  /\ dog_pc' = "clear"
  /\ UNCHANGED <<uxBits, window_timer, watchdog_fault, iwdg_on, IWDGRST>>

RefreshTooSoon ==
  /\ dog_pc = "refresh" /\ counter > IWDG_WINDOW_TICKS
  /\ Reset

ClearBits ==
  /\ dog_pc = "clear"
  /\ uxBits' = uxBits \ ALL_TASKS_DONE
  /\ dog_pc' = "restart"
  /\ UNCHANGED <<window_timer, watchdog_fault, hardware, history>>

Task_PetWatchdog ==
  \/ StartTimer("boot", "start") \/ IWDG_Start \/ Wait
  \/ Refresh \/ RefreshTooSoon \/ ClearBits \/ StartTimer("restart", "wait")

-----------------------------------------------------------------------------
(* The end of a pass of a monitor. *)
MonitorDone(m) ==
  /\ uxBits' = uxBits \union {m}
  /\ passed' = passed \union {m}
  /\ UNCHANGED <<window_timer, dog_pc, watchdog_fault, hardware, refreshes>>

WDog_WindowCallback ==
  /\ window_timer = 1
  /\ window_timer' = 0
  /\ uxBits' = uxBits \union {"WINDOW_TIMER_DONE"}
  /\ UNCHANGED <<dog_pc, watchdog_fault, hardware, history>>

(* A millisecond passes; a callback that is due may still be late. *)
Tick ==
  /\ ~(iwdg_on /\ counter < TICKS_PER_MS)
  /\ window_timer' = IF window_timer > 1 THEN window_timer - 1 ELSE window_timer
  /\ counter' = IF iwdg_on THEN counter - TICKS_PER_MS ELSE counter
  /\ UNCHANGED <<uxBits, dog_pc, watchdog_fault, iwdg_on, IWDGRST, history>>

Expire == iwdg_on /\ counter < TICKS_PER_MS /\ Reset

DogNext ==
  \/ Task_PetWatchdog
  \/ \E m \in Monitors : MonitorDone(m)
  \/ WDog_WindowCallback \/ Tick \/ Expire

DogSpec == DogInit /\ [][DogNext]_dogVars

-----------------------------------------------------------------------------
(* The variables stay in their types. *)
DogTypeOK ==
  /\ uxBits \subseteq ALL_TASKS_DONE
  /\ window_timer \in 0..(WINDOW_TIMER_PERIOD + 1)
  /\ dog_pc \in {"boot", "start", "wait", "refresh", "clear", "restart",
                 "Error_Handler"}
  /\ counter \in 0..IWDG_COUNTDOWN_TICKS
  /\ iwdg_on \in BOOLEAN /\ IWDGRST \in BOOLEAN /\ watchdog_fault \in BOOLEAN
  /\ passed \subseteq Monitors /\ refreshes \in 0..2

(* The watchdog is refreshed only when every monitor has ended a pass      *)
(* since the last time: a bit that is set while the task refreshes and     *)
(* clears may be lost, but none counts twice.                              *)
RefreshMeansAlive == [][Refresh => passed = Monitors]_dogVars

(* With a timer that runs longer than the watchdog, as 27 ms is more than  *)
(* 80 ticks of it, a second refresh always comes too late: whatever the    *)
(* monitors do, the watchdog resets the processor.                         *)
AtMostOneRefresh == refreshes <= 1
=============================================================================
