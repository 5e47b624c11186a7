----------------------------- MODULE Contactors -----------------------------
(***************************************************************************)
(* The contactor driver, Drivers/Src/Contactors.c, from the moment         *)
(* contactor_init has returned, with the check Task_Contactor_Monitor      *)
(* makes of every contactor.                                               *)
(*                                                                         *)
(* Several tasks call contactor_set under a mutex they may fail to get in  *)
(* time; the fault handler opens every contactor past the mutex.  A        *)
(* contactor takes some time to follow its control pin; a one-shot timer,  *)
(* started through the command queue of the timer service task, gives it   *)
(* CONTACTOR_SENSE_DELAY_TICKS before its sense pin is believed.           *)
(***************************************************************************)
EXTENDS Naturals, Sequences, TimerQueue

CONSTANTS Clients,         (* the tasks that call contactor_set(.., NORMAL) *)
          NUM_CONTACTORS

ASSUME ContactorsAssumption == NUM_CONTACTORS \in Nat \ {0}

Contactors == 0..(NUM_CONTACTORS - 1)
Positions  == {"OPEN", "CLOSED"}
NoClient   == "none"

ASSUME ClientsAssumption == NoClient \notin Clients

VARIABLES
  control,          (* the control pin of each contactor                   *)
  state,            (* contactor_t.state: "Current commanded state"        *)
  sense,            (* the sense pin: where the contactor really is        *)
  stuck,            (* whether the contactor no longer follows its pin     *)
  senseTimer,       (* "dormant" or "active"                               *)
  covered,          (* history: a start of the sense timer was accepted    *)
                    (* after the last write of the control pin             *)
  contactorsMutex,  (* its holder                                          *)
  timerQueue,       (* commands waiting for the timer service task         *)
  set_pc,           (* where each client stands in contactor_set           *)
  set_arg,          (* and what it was asked for                           *)
  emergency_pc,     (* where emergency_open_contactors stands              *)
  emergency_num,    (* and the contactor its loop has reached              *)
  reported          (* contactors a mismatch was reported for              *)

pinVars       == <<control, state, covered>>
plantVars     == <<sense, stuck>>
clientVars    == <<set_pc, set_arg, contactorsMutex>>
emergencyVars == <<emergency_pc, emergency_num>>
vars == <<pinVars, plantVars, senseTimer, clientVars, timerQueue,
          emergencyVars, reported>>

SetPc    == {"idle", "take", "pin", "state", "start", "give"}
Commands == [num : Contactors, to : Positions]
(* The argument of a client that is not inside contactor_set. *)
NoCommand == [num |-> 0, to |-> "OPEN"]

(* contactor_get: the sense pin, not the command. *)
contactor_get(c) == sense[c]

(* Mutant of contactor_verify: believes the sense pin only while the timer *)
(* runs.                                                                   *)
VerifyWhileActive(c) == senseTimer[c] = "dormant" \/ contactor_get(c) = state[c]

(* contactor_verify(c) = CONTACTOR_OK: while the timer runs the contactor  *)
(* may be in either position.                                              *)
contactor_verify(c) == senseTimer[c] = "active" \/ contactor_get(c) = state[c]

-----------------------------------------------------------------------------
(* After contactor_init: every pin commands OPEN and the expected state of *)
(* each contactor is whatever its sense pin shows.                         *)
Init ==
  /\ control = [c \in Contactors |-> "OPEN"]
  /\ stuck \in [Contactors -> BOOLEAN]
  /\ sense \in {s \in [Contactors -> Positions] :
                  \A c \in Contactors : s[c] = control[c] \/ stuck[c]}
  /\ state = [c \in Contactors |-> contactor_get(c)]
  /\ senseTimer = [c \in Contactors |-> "dormant"]
  /\ covered = [c \in Contactors |-> TRUE]
  /\ contactorsMutex = NoClient
  /\ timerQueue = <<>>
  /\ set_pc = [p \in Clients |-> "idle"]
  /\ set_arg = [p \in Clients |-> NoCommand]
  /\ emergency_pc = "idle"
  /\ emergency_num = 0
  /\ reported = {}

-----------------------------------------------------------------------------
(* contactor_set(num, to, wait, NORMAL), step by step.                     *)
Goto(p, label) == set_pc' = [set_pc EXCEPT ![p] = label]
Return(p) == Goto(p, "idle") /\ set_arg' = [set_arg EXCEPT ![p] = NoCommand]

contactor_set(p, cmd) ==
  /\ set_pc[p] = "idle"
  /\ Goto(p, "take")
  /\ set_arg' = [set_arg EXCEPT ![p] = cmd]
  /\ UNCHANGED <<pinVars, plantVars, senseTimer, contactorsMutex, timerQueue,
                 emergencyVars, reported>>

(* Mutant of TakeMutex: the result of xSemaphoreTake is ignored.           *)
GoOnWithoutMutex(p) ==
  /\ set_pc[p] = "take"
  /\ contactorsMutex' = p
  /\ Goto(p, "pin")
  /\ UNCHANGED <<pinVars, plantVars, senseTimer, set_arg, timerQueue,
                 emergencyVars, reported>>

TakeMutex(p) ==
  /\ set_pc[p] = "take"
  /\ contactorsMutex = NoClient
  /\ contactorsMutex' = p
  /\ Goto(p, "pin")
  /\ UNCHANGED <<pinVars, plantVars, senseTimer, set_arg, timerQueue,
                 emergencyVars, reported>>

(* Mutant of TakeTimesOut: pdFALSE is not told apart from pdTRUE.          *)
GoOnAfterTimeout(p) ==
  /\ set_pc[p] = "take"
  /\ contactorsMutex # NoClient
  /\ Goto(p, "pin")
  /\ UNCHANGED <<pinVars, plantVars, senseTimer, contactorsMutex, set_arg,
                 timerQueue, emergencyVars, reported>>

(* The wait runs out while another client holds the mutex: the call        *)
(* returns CONTACTOR_ERROR and commands nothing.                           *)
TakeTimesOut(p) ==
  /\ set_pc[p] = "take"
  /\ contactorsMutex # NoClient
  /\ Return(p)
  /\ UNCHANGED <<pinVars, plantVars, senseTimer, contactorsMutex, timerQueue,
                 emergencyVars, reported>>

(* The pin moves; what the sense timer measures no longer concerns it.     *)
DrivePin(c, to) ==
  /\ control' = [control EXCEPT ![c] = to]
  /\ covered' = [covered EXCEPT ![c] = FALSE]

WritePin(p) ==
  /\ set_pc[p] = "pin"
  /\ DrivePin(set_arg[p].num, set_arg[p].to)
  /\ Goto(p, "state")
  /\ UNCHANGED <<state, plantVars, senseTimer, contactorsMutex, set_arg,
                 timerQueue, emergencyVars, reported>>

WriteState(p) ==
  /\ set_pc[p] = "state"
  /\ state' = [state EXCEPT ![set_arg[p].num] = set_arg[p].to]
  /\ Goto(p, "start")
  /\ UNCHANGED <<control, covered, plantVars, senseTimer, contactorsMutex,
                 set_arg, timerQueue, emergencyVars, reported>>

(* xTimerStart(senseTimer, 0): only a request, and one that is dropped     *)
(* when the queue is full.                                                 *)
StartSenseTimer(p) ==
  /\ set_pc[p] = "start"
  /\ timerQueue' = Posted(timerQueue, StartCmd(set_arg[p].num))
  /\ covered' = [covered EXCEPT ![set_arg[p].num] = @ \/ ~Full(timerQueue)]
  /\ Goto(p, "give")
  /\ UNCHANGED <<control, state, plantVars, senseTimer, contactorsMutex,
                 set_arg, emergencyVars, reported>>

GiveMutex(p) ==
  /\ set_pc[p] = "give"
  /\ contactorsMutex' = NoClient
  /\ Return(p)
  /\ UNCHANGED <<pinVars, plantVars, senseTimer, timerQueue, emergencyVars,
                 reported>>

SetStep(p) ==
  \/ TakeMutex(p) \/ TakeTimesOut(p) \/ WritePin(p) \/ WriteState(p)
  \/ StartSenseTimer(p) \/ GiveMutex(p)

-----------------------------------------------------------------------------
(* emergency_open_contactors: contactor_set(num, OPEN, .., EMERGENCY) for  *)
(* each contactor in turn, without the mutex and without the timer.        *)
EmergencyStart ==
  /\ emergency_pc = "idle"
  /\ emergency_pc' = "pin"
  /\ UNCHANGED <<pinVars, plantVars, senseTimer, clientVars, timerQueue,
                 emergency_num, reported>>

EmergencyPin ==
  /\ emergency_pc = "pin"
  /\ DrivePin(emergency_num, "OPEN")
  /\ emergency_pc' = "state"
  /\ UNCHANGED <<state, plantVars, senseTimer, clientVars, timerQueue,
                 emergency_num, reported>>

EmergencyState ==
  /\ emergency_pc = "state"
  /\ state' = [state EXCEPT ![emergency_num] = "OPEN"]
  /\ \/ /\ emergency_num + 1 \in Contactors
        /\ emergency_num' = emergency_num + 1
        /\ emergency_pc' = "pin"
     \/ /\ emergency_num + 1 \notin Contactors
        /\ emergency_pc' = "done"
        /\ UNCHANGED emergency_num
  /\ UNCHANGED <<control, covered, plantVars, senseTimer, clientVars,
                 timerQueue, reported>>

EmergencyStep == EmergencyPin \/ EmergencyState

-----------------------------------------------------------------------------
(* The contactors themselves.                                              *)
Settled(c) == sense[c] = control[c]

Settle(c) ==
  /\ ~stuck[c] /\ ~Settled(c)
  /\ sense' = [sense EXCEPT ![c] = control[c]]
  /\ UNCHANGED <<pinVars, stuck, senseTimer, clientVars, timerQueue,
                 emergencyVars, reported>>

(* A contactor welds, or its coil fails.                                   *)
Stick(c) ==
  /\ ~stuck[c]
  /\ stuck' = [stuck EXCEPT ![c] = TRUE]
  /\ UNCHANGED <<pinVars, sense, senseTimer, clientVars, timerQueue,
                 emergencyVars, reported>>

-----------------------------------------------------------------------------
(* The timer service task, external, and vContactorCallback.               *)
ExecuteStart(c) ==
  /\ timerQueue # <<>>
  /\ Head(timerQueue) = StartCmd(c)
  /\ timerQueue' = Tail(timerQueue)
  /\ senseTimer' = [senseTimer EXCEPT ![c] = "active"]
  /\ UNCHANGED <<pinVars, plantVars, clientVars, emergencyVars, reported>>

(* The sense delay is chosen longer than a healthy contactor takes, so a   *)
(* timer started after the last write of the pin outlasts the movement.    *)
MayExpire(c) ==
  /\ senseTimer[c] = "active"
  /\ covered[c] => Settled(c) \/ stuck[c]

Mismatch(c) == state[c] # contactor_get(c)
Report(c, alarm) == reported' = reported \union {d \in {c} : alarm}

Expire(c) ==
  /\ MayExpire(c)
  /\ senseTimer' = [senseTimer EXCEPT ![c] = "dormant"]
  /\ Report(c, Mismatch(c))
  /\ UNCHANGED <<pinVars, plantVars, clientVars, timerQueue, emergencyVars>>

(* One check of Task_Contactor_Monitor.                                    *)
MonitorVerify(c) ==
  /\ Report(c, ~contactor_verify(c))
  /\ UNCHANGED <<pinVars, plantVars, senseTimer, clientVars, timerQueue,
                 emergencyVars>>

-----------------------------------------------------------------------------
Next ==
  \/ \E p \in Clients, cmd \in Commands : contactor_set(p, cmd)
  \/ \E p \in Clients : SetStep(p)
  \/ EmergencyStart
  \/ EmergencyStep
  \/ \E c \in Contactors :
       \/ Settle(c) \/ Stick(c) \/ ExecuteStart(c) \/ Expire(c)
       \/ MonitorVerify(c)

Spec == Init /\ [][Next]_vars

(* A call in progress goes on, the timer service task runs, timers expire, *)
(* and the monitor passes over every contactor every 200 ms.  Nothing      *)
(* obliges a task to command a contactor or a contactor to stick.          *)
Fairness ==
  /\ \A p \in Clients : WF_vars(SetStep(p))
  /\ WF_vars(EmergencyStep)
  /\ \A c \in Contactors : /\ WF_vars(Settle(c))
                           /\ WF_vars(ExecuteStart(c))
                           /\ WF_vars(Expire(c))
                           /\ WF_vars(MonitorVerify(c))

FairSpec == Spec /\ Fairness

-----------------------------------------------------------------------------
(* The variables stay in their types; in particular the loop of            *)
(* emergency_open_contactors never runs past the last contactor.           *)
TypeOK ==
  /\ control \in [Contactors -> Positions]
  /\ state \in [Contactors -> Positions]
  /\ sense \in [Contactors -> Positions]
  /\ stuck \in [Contactors -> BOOLEAN]
  /\ senseTimer \in [Contactors -> {"dormant", "active"}]
  /\ covered \in [Contactors -> BOOLEAN]
  /\ contactorsMutex \in Clients \union {NoClient}
  /\ timerQueue \in Seq({StartCmd(c) : c \in Contactors})
  /\ Len(timerQueue) <= TIMER_QUEUE_LENGTH
  /\ set_pc \in [Clients -> SetPc]
  /\ set_arg \in [Clients -> Commands]
  /\ emergency_pc \in {"idle", "pin", "state", "done"}
  /\ emergency_num \in Contactors
  /\ reported \subseteq Contactors

(* A healthy contactor can be reported, by the monitor or by the callback  *)
(* of its timer, only in a window that contactor_set itself opens: between *)
(* its write of the control pin and the moment the timer service task has  *)
(* acted on its request to start the timer (for ever, if the full queue    *)
(* dropped the request).  Two clients, a mutex that may time out and the   *)
(* restart of a running timer never widen it.  An emergency opening does:  *)
(* it bypasses the mutex and starts no timer.                              *)
StartPending(c) == Queued(timerQueue, StartCmd(c))
AlarmArmed(c)   == Mismatch(c) /\ (senseTimer[c] = "active" => Settled(c))
FalseAlarmWindow ==
  emergency_pc = "idle" =>
    \A c \in Contactors :
      ~stuck[c] /\ AlarmArmed(c) => ~covered[c] \/ StartPending(c)

(* The mutex makes the pin and the expected state of a contactor one       *)
(* variable, as far as anyone outside contactor_set can tell: they differ  *)
(* only while the holder stands between the two writes, or because the     *)
(* contactor was stuck closed at contactor_init and never commanded since. *)
PinStateAgree ==
  emergency_pc = "idle" =>
    \A c \in Contactors : state[c] # control[c] =>
      \/ \E p \in Clients : /\ contactorsMutex = p /\ set_pc[p] = "state"
                            /\ set_arg[p].num = c
      \/ stuck[c] /\ control[c] = "OPEN" /\ covered[c]

(* A contactor that stays where it was not commanded to be, once nobody    *)
(* commands it any more, is eventually reported: by the monitor when its   *)
(* timer is dormant, by the callback otherwise.                            *)
Abandoned(c) == Mismatch(c) /\ \A p \in Clients : set_pc[p] = "idle"
MismatchReported ==
  \A c \in Contactors : <>[]Abandoned(c) => <>(c \in reported)
=============================================================================
