------------------------------ MODULE Startup ------------------------------
(***************************************************************************)
(* The running firmware: Task_Init waiting for every monitor to check in   *)
(* before it closes the high-voltage contactors, Task_Contactor_Monitor,   *)
(* the sensor monitors, the timer service task, an interrupt handler and   *)
(* Task_FaultHandler, under the fixed-priority preemptive scheduler.       *)
(*                                                                         *)
(* The fault latch and the contactor driver are the modules FaultHandler   *)
(* and Contactors; the two meet in the queue of the timer service task.    *)
(* A step of a task is taken only when no task of higher priority could    *)
(* run; interrupts, the tick and the contactors need no task.              *)
(***************************************************************************)
EXTENDS Naturals, Sequences, FiniteSets

CONSTANTS
  SensorMonitors,        (* voltage, temperature and current monitors      *)
  TIMER_TASK_PRIORITY,   (* configTIMER_TASK_PRIORITY                      *)
  TIMER_QUEUE_LENGTH,
  NUM_CONTACTORS, NUM_FAULTS, MAX_FAULT_BITS,
  OtherTimer,            (* timers of the monitors, not followed here      *)
  MonitorFaults,         (* the faults a sensor monitor may detect         *)
  InterruptFault,        (* the fault an interrupt handler may detect      *)
  MayStick,              (* the contactors that may get stuck              *)
  MaxFaults              (* bound: faults the environment brings about     *)

ASSUME StartupAssumption ==
  /\ SensorMonitors \intersect {"ContactorMonitor", "Timer", "Init", "Handler"} = {}
  /\ TIMER_TASK_PRIORITY \in Nat
  /\ TIMER_QUEUE_LENGTH \in Nat \ {0}
  /\ NUM_CONTACTORS \in Nat /\ NUM_CONTACTORS >= 2
  /\ NUM_FAULTS \in Nat /\ NUM_FAULTS > 14
  /\ MAX_FAULT_BITS \in Nat \ {0}
  /\ MonitorFaults \subseteq 0..(NUM_FAULTS - 1)
  /\ InterruptFault \in 0..(NUM_FAULTS - 1)
  /\ MaxFaults \in Nat
  /\ MayStick \subseteq 0..(NUM_CONTACTORS - 1)

(* fault_bit_t *)
CONTACTOR_FAULT(c)       == 7 + c    (* CONTACTOR_HV_PLUS_FAULT onwards    *)
CONTACTOR_CALLBACK_FAULT == 11
BPS_ESTOP_FAULT          == 14

HV_PLUS_CONTACTOR  == 0
HV_MINUS_CONTACTOR == 1

VARIABLES
  \* FaultHandler
  fault_bits_initialized, system_has_faulted, first_fault_id, faultBits,
  faultSemaphore, pc, arg, handler_pc, fault_bit_index, raised, droppedBits,
  \* Contactors
  control, state, sense, stuck, senseTimer, covered, contactorsMutex, set_pc,
  set_arg, emergency_pc, emergency_num, reported,
  \* shared by both
  timerQueue,
  \* this module
  xStateBits,       (* the monitors that have set their GOOD bit           *)
  init_pc,          (* where Task_Init stands                              *)
  faultedAtCheck,   (* history: had any fault been latched when it looked? *)
  awake,            (* the periodic tasks inside a pass                    *)
  check_num,        (* the contactor the pass of Task_Contactor_Monitor    *)
                    (* has reached                                         *)
  all_good          (* its all_contactors_good                             *)

Periodic == SensorMonitors \union {"ContactorMonitor"}
Callers  == Periodic \union {"Timer"}

FH == INSTANCE FaultHandler WITH Tasks <- Callers, TimerTask <- "Timer"
CT == INSTANCE Contactors WITH Clients <- {"Init"}

fhVars   == <<fault_bits_initialized, system_has_faulted, first_fault_id,
              faultBits, faultSemaphore, pc, arg, handler_pc,
              fault_bit_index, raised, droppedBits>>
ctVars   == <<control, state, sense, stuck, senseTimer, covered,
              contactorsMutex, set_pc, set_arg, emergency_pc, emergency_num,
              reported>>
initVars == <<init_pc, faultedAtCheck>>
monVars  == <<awake, check_num, all_good>>
vars == <<fhVars, ctVars, timerQueue, xStateBits, initVars, monVars>>

(* Mutant of ALL_TASKS: it also waits for a task that is never created.    *)
WaitForTheWatchdogTaskToo == Periodic \union {"PetWatchdog"}

(* Task_Init waits for all of these (ALL_TASK_BITS). *)
ALL_TASKS == Periodic

InitPc == {"boot", "create", "wait", "check", "plus", "setting plus", "minus",
           "setting minus", "deleted"}

Init ==
  /\ FH!Init
  /\ CT!Init /\ \A c \in CT!Contactors : stuck[c] => c \in MayStick
  /\ xStateBits = {}
  /\ init_pc = "boot"
  /\ faultedAtCheck = FALSE
  /\ awake = {}
  /\ check_num = 0
  /\ all_good = TRUE

-----------------------------------------------------------------------------
(* The scheduler: a task is ready unless it is blocked in a kernel call.   *)
(* The handler may block again while it speaks to the fan controller, and  *)
(* sleeps between two rounds of Fault_Loop.                                *)
Created == init_pc \notin {"boot", "create"}

Ready(task) ==
  CASE task = "Handler" -> \/ handler_pc = "wait" /\ faultSemaphore = 1
                           \/ handler_pc \in {"read", "indicate", "open", "report"}
    [] task = "Timer"   -> \/ FH!Inside("Timer")
                           \/ timerQueue # <<>>
    [] task = "Init"    -> /\ init_pc # "deleted"
                           /\ init_pc = "wait" => ALL_TASKS \subseteq xStateBits
    [] OTHER            -> task \in awake

(* Mutants of Priority: Task_Init among the monitors; the handler sharing  *)
(* the processor with Task_Init.                                           *)
InitAmongTheMonitors(task) ==
  CASE task = "Handler" -> 5
    [] task = "Timer"   -> TIMER_TASK_PRIORITY
    [] OTHER            -> 4
HandlerLikeInit(task) ==
  CASE task \in {"Handler", "Init"} -> 2
    [] task = "Timer"               -> TIMER_TASK_PRIORITY
    [] OTHER                        -> 3

(* BPS_Tasks.h:10-19 *)
Priority(task) ==
  CASE task = "Handler"          -> 5
    [] task = "ContactorMonitor" -> 4
    [] task = "Timer"            -> TIMER_TASK_PRIORITY
    [] task = "Init"             -> 2
    [] OTHER                     -> 3

AllTasks == Periodic \union {"Handler", "Timer", "Init"}

Unhindered(task) ==
  \A other \in AllTasks : Ready(other) => Priority(other) <= Priority(task)
Runs(task) == Ready(task) /\ Unhindered(task)

-----------------------------------------------------------------------------
(* Task_Init.                                                              *)
InitGoto(label) == init_pc' = label

BootFaultHandler ==
  /\ init_pc = "boot" /\ Runs("Init")
  /\ FH!faultHandler_init
  /\ InitGoto("create")
  /\ UNCHANGED <<ctVars, xStateBits, faultedAtCheck, monVars>>

CreateTasks ==
  /\ init_pc = "create" /\ Runs("Init")
  /\ FH!CreateHandler
  /\ InitGoto("wait")
  /\ UNCHANGED <<ctVars, xStateBits, faultedAtCheck, monVars>>

(* xEventGroupWaitBits(ALL_TASK_BITS) returns. *)
AllCheckedIn ==
  /\ init_pc = "wait" /\ Runs("Init")
  /\ InitGoto("check")
  /\ UNCHANGED <<fhVars, ctVars, timerQueue, xStateBits, faultedAtCheck,
                 monVars>>

(* if (is_fault_set(NUM_FAULTS) == false) *)
CheckFaults ==
  /\ init_pc = "check" /\ Runs("Init")
  /\ faultedAtCheck' = system_has_faulted
  /\ \/ FH!is_fault_set(NUM_FAULTS) /\ InitGoto("deleted")
     \/ ~FH!is_fault_set(NUM_FAULTS) /\ InitGoto("plus")
  /\ UNCHANGED <<fhVars, ctVars, timerQueue, xStateBits, monVars>>

(* contactor_set(.., CONTACTOR_CLOSED, 10, NORMAL) on each HV contactor. *)
SetCall ==
  [plus  |-> [num |-> HV_PLUS_CONTACTOR,  to |-> "CLOSED", then |-> "setting plus"],
   minus |-> [num |-> HV_MINUS_CONTACTOR, to |-> "CLOSED", then |-> "setting minus"]]

CloseContactor ==
  /\ init_pc \in DOMAIN SetCall /\ Runs("Init")
  /\ LET call == SetCall[init_pc]
     IN /\ CT!contactor_set("Init", [num |-> call.num, to |-> call.to])
        /\ InitGoto(call.then)
  /\ UNCHANGED <<fhVars, xStateBits, faultedAtCheck, monVars>>

(* Mutant of InContactorSet: goes on before contactor_set has returned.    *)
DoNotWaitForReturn ==
  /\ init_pc \in {"setting plus", "setting minus"} /\ Runs("Init")
  /\ CT!SetStep("Init")
  /\ InitGoto(IF init_pc = "setting plus" THEN "minus" ELSE "deleted")
  /\ UNCHANGED <<fhVars, xStateBits, faultedAtCheck, monVars>>

InContactorSet ==
  /\ init_pc \in {"setting plus", "setting minus"} /\ Runs("Init")
  /\ CT!SetStep("Init")
  /\ InitGoto(IF set_pc'["Init"] # "idle" THEN init_pc
              ELSE IF init_pc = "setting plus" THEN "minus" ELSE "deleted")
  /\ UNCHANGED <<fhVars, xStateBits, faultedAtCheck, monVars>>

InitStep ==
  \/ BootFaultHandler \/ CreateTasks \/ AllCheckedIn \/ CheckFaults
  \/ CloseContactor \/ InContactorSet

-----------------------------------------------------------------------------
(* The periodic tasks.  vTaskDelayUntil returns and a pass begins.         *)
Wake(m) ==
  /\ Created /\ m \notin awake
  /\ awake' = awake \union {m}
  /\ UNCHANGED <<fhVars, ctVars, timerQueue, xStateBits, initVars, check_num,
                 all_good>>

Sleep(m, good) ==
  /\ awake' = awake \ {m}
  /\ xStateBits' = xStateBits \union {n \in {m} : good}
  /\ UNCHANGED <<fhVars, ctVars, timerQueue, initVars>>

(* Any task inside set_faultBit. *)
InSetFaultBit(t) ==
  /\ Runs(t)
  /\ FH!CallStep(t)
  /\ UNCHANGED <<ctVars, xStateBits, initVars, monVars>>

(* The bound on the faults that come from outside the program. *)
Possible(b) == b \in raised \/ Cardinality(raised) < MaxFaults

(* A pass of a voltage, temperature or current monitor raises any faults,  *)
(* then sets its GOOD bit or leaves it.  (Only Task_Temperature_Monitor    *)
(* may do both.)                                                           *)
Detect(m, b) ==
  /\ m \in SensorMonitors /\ Runs(m)
  /\ Possible(b)
  /\ FH!set_faultBit(m, b)
  /\ UNCHANGED <<ctVars, xStateBits, initVars, monVars>>

PassEnds(m) ==
  /\ m \in SensorMonitors /\ Runs(m) /\ ~FH!Inside(m)
  /\ \E good \in BOOLEAN : Sleep(m, good)
  /\ UNCHANGED <<check_num, all_good>>

(* Task_Contactor_Monitor: the emergency stop, then every contactor.       *)
Estop ==
  /\ check_num = 0 /\ all_good /\ Runs("ContactorMonitor")
  /\ Possible(BPS_ESTOP_FAULT)
  /\ FH!set_faultBit("ContactorMonitor", BPS_ESTOP_FAULT)
  /\ all_good' = FALSE
  /\ UNCHANGED <<ctVars, xStateBits, initVars, awake, check_num>>

CheckContactor ==
  /\ check_num < NUM_CONTACTORS /\ Runs("ContactorMonitor")
  /\ ~FH!Inside("ContactorMonitor")
  /\ CT!MonitorVerify(check_num)
  /\ \/ CT!contactor_verify(check_num) /\ UNCHANGED <<fhVars, all_good>>
     \/ /\ ~CT!contactor_verify(check_num)
        /\ FH!set_faultBit("ContactorMonitor", CONTACTOR_FAULT(check_num))
        /\ all_good' = FALSE
  /\ check_num' = check_num + 1
  /\ UNCHANGED <<timerQueue, xStateBits, initVars, awake>>

ContactorPassEnds ==
  /\ check_num = NUM_CONTACTORS /\ Runs("ContactorMonitor")
  /\ ~FH!Inside("ContactorMonitor")
  /\ Sleep("ContactorMonitor", all_good)
  /\ check_num' = 0 /\ all_good' = TRUE

PassStep(m) ==
  \/ InSetFaultBit(m)
  \/ PassEnds(m)
  \/ m = "ContactorMonitor" /\ (CheckContactor \/ ContactorPassEnds)

-----------------------------------------------------------------------------
(* The timer service task: it executes the next command, or finds a sense  *)
(* timer expired and calls vContactorCallback.                             *)
TimerIdle == Unhindered("Timer") /\ ~FH!Inside("Timer")

ExecuteCommand ==
  /\ TimerIdle
  /\ \/ FH!ExecuteSetBits /\ UNCHANGED ctVars
     \/ (\E c \in CT!Contactors : CT!ExecuteStart(c)) /\ UNCHANGED fhVars
  /\ UNCHANGED <<xStateBits, initVars, monVars>>

SenseTimerExpires(c) ==
  /\ TimerIdle
  /\ CT!Expire(c)
  /\ \/ ~CT!Mismatch(c) /\ UNCHANGED fhVars
     \/ CT!Mismatch(c) /\ FH!set_faultBit("Timer", CONTACTOR_CALLBACK_FAULT)
  /\ UNCHANGED <<xStateBits, initVars, monVars>>

(* An interrupt handler, at any moment. *)
Interrupt ==
  /\ Possible(InterruptFault)
  /\ FH!set_faultBitFromISR(InterruptFault)
  /\ UNCHANGED <<ctVars, xStateBits, initVars, monVars>>

-----------------------------------------------------------------------------
(* Task_FaultHandler; "open" is emergency_open_contactors.                 *)
OthersUnchanged == UNCHANGED <<xStateBits, initVars, monVars>>

WakeHandler ==
  /\ Runs("Handler")
  /\ FH!TakeSemaphore \/ FH!ReadFirstFault
  /\ UNCHANGED ctVars /\ OthersUnchanged

RespondStep ==
  /\ Unhindered("Handler")
  /\ FH!Respond
  /\ handler_pc = "open" => emergency_pc = "done"
  /\ \/ handler_pc = "indicate" /\ CT!EmergencyStart
     \/ handler_pc # "indicate" /\ UNCHANGED ctVars
  /\ OthersUnchanged

(* Mutant of OpenStep: the emergency spins for the mutex, which a client   *)
(* it has preempted may hold.                                              *)
OpenUnderMutex ==
  /\ handler_pc = "open" /\ Runs("Handler")
  /\ contactorsMutex = CT!NoClient
  /\ CT!EmergencyStep
  /\ UNCHANGED fhVars /\ OthersUnchanged

OpenStep ==
  /\ handler_pc = "open" /\ Runs("Handler")
  /\ CT!EmergencyStep
  /\ UNCHANGED fhVars /\ OthersUnchanged

HandlerStep == WakeHandler \/ RespondStep \/ OpenStep

(* The contactors move, or get stuck, whatever the processor does. *)
PlantStep ==
  /\ \/ \E c \in CT!Contactors : CT!Settle(c)
     \/ \E c \in MayStick : CT!Stick(c)
  /\ UNCHANGED fhVars /\ OthersUnchanged

-----------------------------------------------------------------------------
Next ==
  \/ InitStep
  \/ \E m \in Periodic : Wake(m) \/ PassStep(m)
  \/ \E m \in SensorMonitors, b \in MonitorFaults : Detect(m, b)
  \/ Estop
  \/ InSetFaultBit("Timer")
  \/ ExecuteCommand
  \/ \E c \in CT!Contactors : SenseTimerExpires(c)
  \/ Interrupt
  \/ HandlerStep
  \/ PlantStep

Spec == Init /\ [][Next]_vars

(* A step that stays enabled is taken.  The passes of the periodic tasks   *)
(* are short against the 90 to 290 ms they sleep: unless the handler or    *)
(* the timer service task keeps the processor, they are all asleep again   *)
(* and again and Task_Init, of the lowest priority, may run.  Nothing      *)
(* obliges a fault to be raised or a sensor to be good.                    *)
Fairness ==
  /\ \A m \in Periodic : WF_vars(Wake(m)) /\ WF_vars(PassStep(m))
  /\ WF_vars(InSetFaultBit("Timer"))
  /\ WF_vars(ExecuteCommand)
  /\ WF_vars(HandlerStep)
  /\ SF_vars(InitStep)
  /\ []<>(awake = {} \/ Ready("Handler") \/ Ready("Timer"))

FairSpec == Spec /\ Fairness

-----------------------------------------------------------------------------
(* The variables stay in their types, those of the two components too when *)
(* they share the queue of the timer service task; and each component      *)
(* stands inside a call exactly when the task that makes it does.          *)
TypeOK ==
  /\ init_pc \in InitPc
  /\ xStateBits \subseteq Periodic /\ awake \subseteq Periodic
  /\ check_num \in 0..NUM_CONTACTORS
  /\ all_good \in BOOLEAN /\ faultedAtCheck \in BOOLEAN
  /\ faultSemaphore \in {0, 1}
  /\ faultBits \in [FH!Groups -> SUBSET (0..(MAX_FAULT_BITS - 1))]
  /\ set_pc["Init"] # "idle" <=> init_pc \in {"setting plus", "setting minus"}
  /\ emergency_pc \in {"pin", "state"} => handler_pc = "open"
  /\ Len(timerQueue) <= TIMER_QUEUE_LENGTH

Closing == init_pc \in {"plus", "setting plus", "minus", "setting minus"}

(* The check of InitTask.c:180 reads the event groups, which lag behind    *)
(* the latch: a caller may stand between the two, and an interrupt handler *)
(* leaves the bit to the timer service task.  Because every setter runs at *)
(* a higher priority than Task_Init, the check misses no fault latched     *)
(* before it, except one the full timer queue discarded.                   *)
CheckSeesEveryFault == Closing /\ faultedAtCheck => droppedBits # {}

(* When emergency_open_contactors returns, every control pin commands      *)
(* OPEN: no other task gets between its writes, whatever Task_Init was     *)
(* doing when it was preempted.                                            *)
OpeningIsComplete ==
  [][handler_pc = "open" /\ handler_pc' # "open" =>
       \A c \in CT!Contactors : control'[c] = "OPEN"]_vars

(* InitTask.c:179 "All tasks have checked in, ensure nothing faulted on    *)
(* startup before closing contactors" and Contactors.h:97 "Opens all       *)
(* contactors immediately in case of a system fault": once the handler has *)
(* opened the contactors, they stay open.                                  *)
SafeStateHolds ==
  handler_pc \in {"fans", "report", "loop"} =>
    \A c \in CT!Contactors : control[c] = "OPEN"

(* Every latched fault, from whatever task, callback or interrupt, is      *)
(* answered: the handler opens the contactors and ends in Fault_Loop.      *)
FaultIsAnswered == system_has_faulted ~> handler_pc = "loop"

(* A start without faults succeeds: when every monitor checks in, the two  *)
(* high-voltage contactors are eventually closed.                          *)
HealthyStart ==
  ([]~system_has_faulted /\ <>(Periodic \subseteq xStateBits)) =>
    <>[](\A c \in {HV_PLUS_CONTACTOR, HV_MINUS_CONTACTOR} :
           control[c] = "CLOSED")
=============================================================================
