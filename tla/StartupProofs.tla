---------------------------- MODULE StartupProofs ----------------------------
(***************************************************************************)
(* Theorems about the running firmware, for any sensor monitors, any       *)
(* number of contactors and faults and any length of the queue the fault   *)
(* handler and the contactor driver share.                                 *)
(***************************************************************************)
EXTENDS Startup, TLAPS

USE StartupAssumption

Commands ==
  {FH!SetBitsCmd(b) : b \in FH!Faults} \union {CT!StartCmd(c) : c \in CT!Contactors}

(* What a step does to the fault handler: one of its actions, or nothing   *)
(* but a command that starts a sense timer coming or going in the queue.   *)
FaultStep ==
  \/ FH!faultHandler_init \/ FH!CreateHandler
  \/ \E t \in Callers, b \in FH!Faults : FH!set_faultBit(t, b)
  \/ \E t \in Callers : FH!CallStep(t)
  \/ \E b \in FH!Faults : FH!set_faultBitFromISR(b)
  \/ FH!ExecuteSetBits
  \/ FH!HandlerStep

StartPosted ==
  \E c \in CT!Contactors : timerQueue' = FH!Posted(timerQueue, FH!StartCmd(c))
StartTaken ==
  /\ timerQueue # <<>> /\ timerQueue' = Tail(timerQueue)
  /\ \E c \in CT!Contactors : Head(timerQueue) = FH!StartCmd(c)
QueueStep ==
  UNCHANGED fhVars /\ (UNCHANGED timerQueue \/ StartPosted \/ StartTaken)

(* What it does to the contactor driver. *)
ContactorStep ==
  \/ \E cmd \in CT!Commands : CT!contactor_set("Init", cmd)
  \/ CT!SetStep("Init")
  \/ CT!EmergencyStart \/ CT!EmergencyStep
  \/ \E c \in CT!Contactors :
       CT!Settle(c) \/ CT!Stick(c) \/ CT!ExecuteStart(c) \/ CT!Expire(c) \/ CT!MonitorVerify(c)

SetBitsPosted ==
  \E b \in FH!Faults : timerQueue' = FH!Posted(timerQueue, FH!SetBitsCmd(b))
SetBitsTaken ==
  /\ timerQueue # <<>> /\ timerQueue' = Tail(timerQueue)
  /\ \E b \in FH!Faults : Head(timerQueue) = FH!SetBitsCmd(b)
NoContactorStep ==
  UNCHANGED ctVars /\ (UNCHANGED timerQueue \/ SetBitsPosted \/ SetBitsTaken)

-----------------------------------------------------------------------------
(* Where the tasks stand: a caller of set_faultBit inside its pass, the    *)
(* contactor driver and the handler where those that call them say.        *)
TaskInv ==
  /\ init_pc \in InitPc
  /\ xStateBits \subseteq Periodic /\ awake \subseteq Periodic
  /\ check_num \in 0..NUM_CONTACTORS
  /\ all_good \in BOOLEAN /\ faultedAtCheck \in BOOLEAN
  /\ \A m \in Periodic : FH!Inside(m) => m \in awake

(* The types of the fault handler with the queue it shares, and the half   *)
(* of its register that Task_Init relies on: a fault raised is on record   *)
(* unless its bit was discarded.  Nothing is, before faultHandler_init     *)
(* clears the event groups.                                                *)
FaultInv ==
  /\ fault_bits_initialized \in BOOLEAN /\ system_has_faulted \in BOOLEAN
  /\ faultBits \in [FH!Groups -> SUBSET (0..(MAX_FAULT_BITS - 1))]
  /\ faultSemaphore \in {0, 1}
  /\ timerQueue \in Seq(Commands) /\ Len(timerQueue) <= TIMER_QUEUE_LENGTH
  /\ pc \in [Callers -> FH!CallPc]
  /\ arg \in [Callers -> FH!Faults \union {FH!NoFault}]
  /\ \A t \in Callers : FH!Inside(t) => arg[t] \in FH!Faults
  /\ handler_pc \in FH!HandlerPc
  /\ raised \subseteq FH!Faults
RegisterInv ==
  /\ system_has_faulted => raised # {}
  /\ ~fault_bits_initialized => raised = {}
  /\ \A b \in raised : FH!OnRecord(b) \/ b \in droppedBits

(* emergency_open_contactors starts at the first contactor, runs while the *)
(* handler stands in "open", and has written every pin it has passed.      *)
DriverInv ==
  /\ control \in [CT!Contactors -> CT!Positions]
  /\ set_pc \in [{"Init"} -> CT!SetPc]
  /\ set_arg \in [{"Init"} -> CT!Commands]
  /\ set_pc["Init"] # "idle" <=> init_pc \in {"setting plus", "setting minus"}
  /\ emergency_pc \in {"idle", "pin", "state", "done"}
  /\ emergency_num \in CT!Contactors
  /\ emergency_pc = "idle" => emergency_num = 0
  /\ emergency_pc \in {"pin", "state"} => handler_pc = "open"
Passed(c) ==
  \/ emergency_pc = "done"
  \/ c < emergency_num
  \/ emergency_pc = "state" /\ c = emergency_num
PassedAreOpen ==
  handler_pc = "open" =>
    \A c \in CT!Contactors : Passed(c) => control[c] = "OPEN"

StartupInv == TaskInv /\ FaultInv /\ RegisterInv /\ DriverInv /\ PassedAreOpen

-----------------------------------------------------------------------------
(* The queue of the timer service task, whatever is posted to it.          *)
LEMMA QueueType ==
  ASSUME FaultInv
  PROVE  /\ \A cmd \in Commands :
              /\ FH!Posted(timerQueue, cmd) \in Seq(Commands)
              /\ Len(FH!Posted(timerQueue, cmd)) <= TIMER_QUEUE_LENGTH
         /\ timerQueue # <<>> =>
              /\ Tail(timerQueue) \in Seq(Commands)
              /\ Len(Tail(timerQueue)) <= TIMER_QUEUE_LENGTH
  BY DEF FaultInv, FH!Posted, FH!Full

(* A command stays queued when another is posted, and is queued when it is *)
(* posted to a queue that is not full.                                     *)
LEMMA QueuedPosted ==
  ASSUME NEW q \in Seq(Commands), NEW cmd \in Commands, NEW c \in Commands
  PROVE  /\ FH!Queued(FH!Posted(q, cmd), c) => FH!Queued(q, c) \/ c = cmd
         /\ FH!Queued(q, c) => FH!Queued(FH!Posted(q, cmd), c)
         /\ ~FH!Full(q) => FH!Queued(FH!Posted(q, cmd), cmd)
<1>1. CASE FH!Full(q)
  BY <1>1 DEF FH!Posted
<1>2. CASE ~FH!Full(q)
  <2>1. /\ FH!Posted(q, cmd) = Append(q, cmd)
        /\ Len(Append(q, cmd)) = Len(q) + 1
        /\ Append(q, cmd)[Len(q) + 1] = cmd
        /\ \A i \in 1..Len(q) : Append(q, cmd)[i] = q[i]
        /\ Len(q) \in Nat
    BY <1>2 DEF FH!Posted
  <2>2. QED
    BY <2>1 DEF FH!Queued
<1>3. QED
  BY <1>1, <1>2

(* Taking the first command loses that one and no other.                   *)
LEMMA QueuedTail ==
  ASSUME NEW q \in Seq(Commands), q # <<>>, NEW c \in Commands
  PROVE  /\ FH!Queued(Tail(q), c) => FH!Queued(q, c)
         /\ FH!Queued(q, c) => Head(q) = c \/ FH!Queued(Tail(q), c)
<1>1. /\ Len(Tail(q)) = Len(q) - 1 /\ Len(q) \in Nat \ {0}
      /\ Head(q) = q[1]
      /\ \A i \in 1..Len(Tail(q)) : Tail(q)[i] = q[i + 1]
  OBVIOUS
<1>2. ASSUME NEW i \in 1..Len(Tail(q)), Tail(q)[i] = c
      PROVE  i + 1 \in 1..Len(q) /\ q[i + 1] = c
  BY <1>1, <1>2
<1>3. ASSUME NEW i \in 1..Len(q), q[i] = c, i # 1
      PROVE  i - 1 \in 1..Len(Tail(q)) /\ Tail(q)[i - 1] = c
  BY <1>1, <1>3
<1>4. QED
  BY <1>1, <1>2, <1>3 DEF FH!Queued

(* The commands of the two components differ. *)
LEMMA CommandsDiffer ==
  /\ \A b \in FH!Faults : FH!SetBitsCmd(b) \in Commands
  /\ \A c \in CT!Contactors : FH!StartCmd(c) \in Commands
  /\ \A b \in FH!Faults, c \in CT!Contactors : FH!SetBitsCmd(b) # FH!StartCmd(c)
  /\ \A a, b \in FH!Faults : FH!SetBitsCmd(a) = FH!SetBitsCmd(b) => a = b
  BY DEF Commands, FH!SetBitsCmd, FH!StartCmd, CT!StartCmd

(* A fault is a bit of an event group, and two faults share none.          *)
LEMMA FaultAddress ==
  ASSUME NEW a \in FH!Faults
  PROVE  /\ FH!GroupOf(a) \in FH!Groups /\ FH!BitOf(a) \in 0..(MAX_FAULT_BITS - 1)
         /\ \A b \in FH!Faults :
              FH!GroupOf(a) = FH!GroupOf(b) /\ FH!BitOf(a) = FH!BitOf(b) => a = b
<1>1. FH!BitOf(a) \in 0..(MAX_FAULT_BITS - 1)
  BY DEF FH!Faults, FH!BitOf
<1>2. a \in Nat /\ a <= NUM_FAULTS - 1 /\ NUM_FAULTS - 1 \in Nat
  BY DEF FH!Faults
<1>3. a \div MAX_FAULT_BITS <= (NUM_FAULTS - 1) \div MAX_FAULT_BITS
  BY <1>2
<1>4. FH!GroupOf(a) \in FH!Groups
  BY <1>2, <1>3 DEF FH!GroupOf, FH!Groups
<1>5. \A b \in FH!Faults :
        FH!GroupOf(a) = FH!GroupOf(b) /\ FH!BitOf(a) = FH!BitOf(b) => a = b
  BY DEF FH!Faults, FH!GroupOf, FH!BitOf
<1>6. QED
  BY <1>1, <1>4, <1>5

-----------------------------------------------------------------------------
(* Every step of the firmware is a step of the fault handler, or leaves it *)
(* alone and at most moves a command that starts a sense timer.            *)
LEMMA StepIsFaultStep ==
  ASSUME TaskInv, DriverInv, [Next]_vars
  PROVE  FaultStep \/ QueueStep
<1>0. ASSUME NEW t \in Callers, NEW b \in Nat, FH!set_faultBit(t, b)
      PROVE  FaultStep
  <2>1. b \in FH!Faults
    BY <1>0 DEF FH!set_faultBit, FH!Faults
  <2>2. QED
    BY <1>0, <2>1 DEF FaultStep
<1>1. CASE InitStep
  <2>1. CASE CloseContactor
    BY <2>1 DEF CloseContactor, CT!contactor_set, QueueStep
  <2>2. CASE InContactorSet
    <3>1. UNCHANGED fhVars /\ CT!SetStep("Init")
      BY <2>2 DEF InContactorSet
    <3>2. CASE CT!StartSenseTimer("Init")
      <4>1. set_arg["Init"].num \in CT!Contactors
        BY DEF DriverInv, CT!Commands
      <4>2. StartPosted
        BY <3>2, <4>1 DEF CT!StartSenseTimer, StartPosted, CT!Posted, FH!Posted,
           CT!Full, FH!Full, CT!StartCmd, FH!StartCmd
      <4>3. QED
        BY <3>1, <4>2 DEF QueueStep
    <3>3. CASE ~CT!StartSenseTimer("Init")
      BY <3>1, <3>3 DEF CT!SetStep, CT!TakeMutex, CT!TakeTimesOut, CT!WritePin,
         CT!WriteState, CT!GiveMutex, QueueStep
    <3>4. QED
      BY <3>2, <3>3
  <2>3. QED
    BY <1>1, <2>1, <2>2 DEF InitStep, BootFaultHandler, CreateTasks, AllCheckedIn,
       CheckFaults, FaultStep, QueueStep
<1>2. ASSUME NEW m \in Periodic, Wake(m) \/ PassStep(m)
      PROVE  FaultStep \/ QueueStep
  <2>1. CASE m = "ContactorMonitor" /\ CheckContactor
    <3>1. UNCHANGED timerQueue
      BY <2>1 DEF CheckContactor
    <3>2. CASE UNCHANGED fhVars
      BY <3>1, <3>2 DEF QueueStep
    <3>3. CASE FH!set_faultBit("ContactorMonitor", CONTACTOR_FAULT(check_num))
      BY <1>0, <3>3 DEF TaskInv, CONTACTOR_FAULT, Callers, Periodic
    <3>4. QED
      BY <2>1, <3>2, <3>3 DEF CheckContactor
  <2>2. QED
    BY <1>2, <2>1 DEF Wake, PassStep, InSetFaultBit, PassEnds, ContactorPassEnds, Sleep,
       FaultStep, QueueStep, Callers
<1>3. ASSUME NEW m \in SensorMonitors, NEW b \in MonitorFaults, Detect(m, b)
      PROVE  FaultStep \/ QueueStep
  BY <1>0, <1>3 DEF Detect, Callers, Periodic
<1>4. CASE Estop
  BY <1>0, <1>4 DEF Estop, BPS_ESTOP_FAULT, Callers, Periodic
<1>5. CASE InSetFaultBit("Timer")
  BY <1>5 DEF InSetFaultBit, FaultStep, Callers
<1>6. CASE ExecuteCommand
  BY <1>6 DEF ExecuteCommand, FaultStep, QueueStep, StartTaken, CT!ExecuteStart,
     CT!StartCmd, FH!StartCmd
<1>7. ASSUME NEW c \in CT!Contactors, SenseTimerExpires(c)
      PROVE  FaultStep \/ QueueStep
  <2>1. CASE UNCHANGED fhVars
    BY <1>7, <2>1 DEF SenseTimerExpires, CT!Expire, QueueStep
  <2>2. QED
    BY <1>0, <1>7, <2>1 DEF SenseTimerExpires, CONTACTOR_CALLBACK_FAULT, Callers
<1>8. CASE Interrupt
  BY <1>8 DEF Interrupt, FaultStep, FH!Faults
<1>9. CASE HandlerStep
  <2>1. CASE OpenStep
    <3>1. UNCHANGED fhVars /\ UNCHANGED timerQueue
      BY <2>1 DEF OpenStep, CT!EmergencyStep, CT!EmergencyPin, CT!EmergencyState
    <3>2. QED
      BY <3>1 DEF QueueStep
  <2>2. QED
    BY <1>9, <2>1 DEF HandlerStep, WakeHandler, RespondStep, FH!HandlerStep, FaultStep
<1>10. CASE PlantStep
  BY <1>10 DEF PlantStep, CT!Settle, CT!Stick, QueueStep
<1>11. CASE UNCHANGED vars
  BY <1>11 DEF vars, QueueStep
<1>12. QED
  BY <1>1, <1>2, <1>3, <1>4, <1>5, <1>6, <1>7, <1>8, <1>9, <1>10, <1>11 DEF Next

(* Every step of the firmware is a step of the contactor driver, or leaves *)
(* it alone and at most moves a command that sets an event bit; what it    *)
(* commands is a contactor.                                                *)
LEMMA StepIsContactorStep ==
  ASSUME TaskInv, [Next]_vars
  PROVE  ContactorStep \/ NoContactorStep
<1>0. ASSUME NEW t, NEW b, FH!set_faultBit(t, b) \/ FH!CallStep(t)
      PROVE  UNCHANGED timerQueue
  BY <1>0 DEF FH!set_faultBit, FH!CallStep, FH!TestBit, FH!SetBits, FH!GiveSemaphore
<1>1. CASE InitStep
  <2>1. CASE CloseContactor
    <3>1. init_pc \in {"plus", "minus"}
      BY <2>1 DEF CloseContactor, SetCall
    <3>2. SetCall[init_pc].num \in {0, 1} /\ SetCall[init_pc].to = "CLOSED"
      <4>1. /\ SetCall["plus"].num = 0 /\ SetCall["plus"].to = "CLOSED"
            /\ SetCall["minus"].num = 1 /\ SetCall["minus"].to = "CLOSED"
        BY DEF SetCall, HV_PLUS_CONTACTOR, HV_MINUS_CONTACTOR
      <4>2. QED
        BY <3>1, <4>1
    <3>3. [num |-> SetCall[init_pc].num, to |-> SetCall[init_pc].to] \in CT!Commands
      BY <3>2 DEF CT!Commands, CT!Contactors, CT!Positions
    <3>4. QED
      BY <2>1, <3>3 DEF CloseContactor, ContactorStep
  <2>2. CASE InContactorSet
    BY <2>2 DEF InContactorSet, ContactorStep
  <2>3. CASE BootFaultHandler \/ CreateTasks \/ AllCheckedIn \/ CheckFaults
    BY <2>3 DEF BootFaultHandler, CreateTasks, AllCheckedIn, CheckFaults,
       FH!faultHandler_init, FH!CreateHandler, NoContactorStep
  <2>4. QED
    BY <1>1, <2>1, <2>2, <2>3 DEF InitStep
<1>2. ASSUME NEW m \in Periodic, Wake(m) \/ PassStep(m)
      PROVE  ContactorStep \/ NoContactorStep
  <2>1. CASE CheckContactor
    BY <2>1 DEF CheckContactor, TaskInv, ContactorStep, CT!Contactors
  <2>2. CASE InSetFaultBit(m)
    BY <1>0, <2>2 DEF InSetFaultBit, NoContactorStep
  <2>3. QED
    BY <1>2, <2>1, <2>2 DEF Wake, PassStep, PassEnds, ContactorPassEnds, Sleep,
       NoContactorStep
<1>3. CASE \/ \E m \in SensorMonitors, b \in MonitorFaults : Detect(m, b)
           \/ Estop \/ InSetFaultBit("Timer")
  BY <1>0, <1>3 DEF Detect, Estop, InSetFaultBit, NoContactorStep
<1>4. CASE Interrupt
  <2>1. UNCHANGED timerQueue \/ SetBitsPosted
    BY <1>4 DEF Interrupt, FH!set_faultBitFromISR, SetBitsPosted, FH!Faults
  <2>2. QED
    BY <1>4, <2>1 DEF Interrupt, NoContactorStep
<1>5. CASE ExecuteCommand
  <2>1. CASE FH!ExecuteSetBits /\ UNCHANGED ctVars
    BY <2>1 DEF FH!ExecuteSetBits, FH!TimerTaskReady, SetBitsTaken, NoContactorStep
  <2>2. QED
    BY <1>5, <2>1 DEF ExecuteCommand, ContactorStep
<1>6. CASE \E c \in CT!Contactors : SenseTimerExpires(c)
  BY <1>6 DEF SenseTimerExpires, ContactorStep
<1>7. CASE HandlerStep
  <2>1. CASE WakeHandler \/ RespondStep
    BY <2>1 DEF WakeHandler, RespondStep, ContactorStep, NoContactorStep,
       FH!TakeSemaphore, FH!ReadFirstFault, FH!Respond
  <2>2. QED
    BY <1>7, <2>1 DEF HandlerStep, OpenStep, ContactorStep
<1>8. CASE PlantStep
  BY <1>8 DEF PlantStep, ContactorStep, CT!Contactors
<1>9. CASE UNCHANGED vars
  BY <1>9 DEF vars, NoContactorStep
<1>10. QED
  BY <1>1, <1>2, <1>3, <1>4, <1>5, <1>6, <1>7, <1>8, <1>9 DEF Next

-----------------------------------------------------------------------------
(* A task that runs is inside a pass.                                      *)
LEMMA RunningIsAwake ==
  ASSUME NEW m \in Periodic, Runs(m)
  PROVE  m \in awake
  BY DEF Runs, Ready, Periodic

(* A call of set_faultBit that goes on puts nobody else into one.          *)
LEMMA CallGoesOn ==
  ASSUME FaultInv, NEW t \in Callers, FH!CallStep(t), NEW s \in Callers, FH!Inside(s)'
  PROVE  FH!Inside(s)
  BY DEF FaultInv, FH!CallStep, FH!TestBit, FH!SetBits, FH!GiveSemaphore, FH!Return,
     FH!Goto, FH!Inside

(* A call of set_faultBit that begins puts only its caller into one.       *)
LEMMA CallBegins ==
  ASSUME FaultInv, NEW t \in Callers, NEW b, FH!set_faultBit(t, b),
         NEW s \in Callers, FH!Inside(s)'
  PROVE  FH!Inside(s) \/ s = t
  BY DEF FaultInv, FH!set_faultBit, FH!Goto, FH!Inside

(* Every step keeps TaskInv: a periodic task raises faults inside a pass,  *)
(* and ends the pass when it is through with them.                         *)
LEMMA TaskStep ==
  ASSUME TaskInv, FaultInv, [Next]_vars
  PROVE  TaskInv'
<1> USE DEF TaskInv
<1> DEFINE InPass == \A m \in Periodic : FH!Inside(m) => m \in awake
<1>0. ASSUME UNCHANGED pc, awake \subseteq awake'
      PROVE  InPass'
  BY <1>0 DEF FH!Inside
<1>1. ASSUME NEW m \in Periodic, NEW b, Runs(m), FH!set_faultBit(m, b), UNCHANGED awake
      PROVE  InPass'
  BY <1>1, RunningIsAwake, CallBegins DEF Callers
<1>2. ASSUME NEW t \in Callers, FH!CallStep(t), UNCHANGED awake
      PROVE  InPass'
  BY <1>2, CallGoesOn DEF Callers
<1>3. CASE InitStep
  <2>1. UNCHANGED <<pc, monVars, xStateBits>>
    BY <1>3 DEF InitStep, BootFaultHandler, CreateTasks, AllCheckedIn, CheckFaults,
       CloseContactor, InContactorSet, fhVars, FH!faultHandler_init, FH!CreateHandler,
       FH!callVars
  <2>2. init_pc' \in InitPc /\ faultedAtCheck' \in BOOLEAN
    <3>1. CASE BootFaultHandler \/ CreateTasks \/ AllCheckedIn
      BY <3>1 DEF BootFaultHandler, CreateTasks, AllCheckedIn, InitGoto, InitPc
    <3>2. CASE CheckFaults
      BY <3>2 DEF CheckFaults, InitGoto, InitPc, FaultInv
    <3>3. CASE CloseContactor
      <4>1. SetCall["plus"].then = "setting plus" /\ SetCall["minus"].then = "setting minus"
        BY DEF SetCall
      <4>2. init_pc \in {"plus", "minus"}
        BY <3>3 DEF CloseContactor, SetCall
      <4>3. QED
        BY <3>3, <4>1, <4>2 DEF CloseContactor, InitGoto, InitPc
    <3>4. CASE InContactorSet
      BY <3>4 DEF InContactorSet, InitGoto, InitPc
    <3>5. QED
      BY <1>3, <3>1, <3>2, <3>3, <3>4 DEF InitStep
  <2>3. QED
    BY <1>0, <2>1, <2>2 DEF monVars
<1>4. ASSUME NEW m \in Periodic, Wake(m)
      PROVE  TaskInv'
  BY <1>0, <1>4 DEF Wake, fhVars, initVars
<1>5. ASSUME NEW t \in Callers, InSetFaultBit(t)
      PROVE  TaskInv'
  BY <1>2, <1>5 DEF InSetFaultBit, initVars, monVars
<1>6. ASSUME NEW m \in Periodic, PassEnds(m)
      PROVE  TaskInv'
  <2>1. InPass'
    BY <1>6 DEF PassEnds, Sleep, fhVars, FH!Inside
  <2>2. QED
    BY <1>6, <2>1 DEF PassEnds, Sleep, initVars, Periodic
<1>7. CASE CheckContactor
  <2>1. Runs("ContactorMonitor") /\ UNCHANGED <<xStateBits, initVars, awake>>
    BY <1>7 DEF CheckContactor
  <2>2. InPass'
    <3>1. CASE UNCHANGED fhVars
      BY <1>0, <2>1, <3>1 DEF fhVars
    <3>2. CASE FH!set_faultBit("ContactorMonitor", CONTACTOR_FAULT(check_num))
      BY <1>1, <2>1, <3>2 DEF Periodic
    <3>3. QED
      BY <1>7, <3>1, <3>2 DEF CheckContactor
  <2>3. check_num' \in 0..NUM_CONTACTORS
    BY <1>7 DEF CheckContactor
  <2>4. all_good' \in BOOLEAN
    BY <1>7 DEF CheckContactor
  <2>5. QED
    BY <2>1, <2>2, <2>3, <2>4 DEF initVars
<1>8. CASE ContactorPassEnds
  <2>1. InPass'
    BY <1>8 DEF ContactorPassEnds, Sleep, fhVars, FH!Inside
  <2>2. QED
    BY <1>8, <2>1 DEF ContactorPassEnds, Sleep, initVars, Periodic
<1>9. ASSUME NEW m \in SensorMonitors, NEW b \in MonitorFaults, Detect(m, b)
      PROVE  TaskInv'
  BY <1>1, <1>9 DEF Detect, Periodic, initVars, monVars
<1>10. CASE Estop
  BY <1>1, <1>10 DEF Estop, Periodic, initVars
<1>11. ASSUME NEW c \in CT!Contactors, SenseTimerExpires(c)
       PROVE  TaskInv'
  <2>1. InPass'
    <3>1. CASE UNCHANGED fhVars
      BY <1>0, <1>11, <3>1 DEF SenseTimerExpires, fhVars, monVars
    <3>2. CASE FH!set_faultBit("Timer", CONTACTOR_CALLBACK_FAULT)
      BY <1>11, <3>2, CallBegins DEF SenseTimerExpires, Callers, Periodic, monVars
    <3>3. QED
      BY <1>11, <3>1, <3>2 DEF SenseTimerExpires
  <2>2. QED
    BY <1>11, <2>1 DEF SenseTimerExpires, initVars, monVars
<1>12. CASE ExecuteCommand \/ Interrupt \/ HandlerStep \/ PlantStep \/ UNCHANGED vars
  <2>1. UNCHANGED <<pc, xStateBits, initVars, monVars>>
    BY <1>12 DEF ExecuteCommand, Interrupt, HandlerStep, WakeHandler, RespondStep, OpenStep,
       PlantStep, OthersUnchanged, vars, fhVars, FH!ExecuteSetBits,
       FH!set_faultBitFromISR, FH!TakeSemaphore, FH!ReadFirstFault, FH!Respond,
       FH!callVars
  <2>2. QED
    BY <1>0, <2>1 DEF initVars, monVars
<1>13. QED
  BY <1>3, <1>4, <1>5, <1>6, <1>7, <1>8, <1>9, <1>10, <1>11, <1>12
     DEF Next, PassStep, Callers

-----------------------------------------------------------------------------
(* Every step of the fault handler keeps its types.                        *)
LEMMA FaultTypeStep ==
  ASSUME FaultInv, FaultStep \/ QueueStep
  PROVE  FaultInv'
<1>1. CASE FH!faultHandler_init
  BY <1>1 DEF FaultInv, FH!faultHandler_init, FH!callVars, FH!handlerVars, FH!history,
     FH!Inside
<1>2. CASE FH!CreateHandler
  BY <1>2 DEF FaultInv, FH!CreateHandler, FH!HandlerPc, FH!latchVars, FH!callVars,
     FH!history, FH!Inside
<1>3. ASSUME NEW t \in Callers, NEW b \in FH!Faults, FH!set_faultBit(t, b)
      PROVE  FaultInv'
  BY <1>3 DEF FaultInv, FH!set_faultBit, FH!Latch, FH!Goto, FH!CallPc, FH!handlerVars,
     FH!Inside
<1>4. ASSUME NEW t \in Callers, FH!TestBit(t)
      PROVE  FaultInv'
  BY <1>4 DEF FaultInv, FH!TestBit, FH!Goto, FH!Return, FH!CallPc, FH!latchVars,
     FH!handlerVars, FH!history, FH!Inside
<1>5. ASSUME NEW b \in FH!Faults
      PROVE  FH!WithBit(b) \in [FH!Groups -> SUBSET (0..(MAX_FAULT_BITS - 1))]
  BY FaultAddress DEF FaultInv, FH!WithBit
<1>6. ASSUME NEW t \in Callers, FH!SetBits(t)
      PROVE  FaultInv'
  BY <1>5, <1>6 DEF FaultInv, FH!SetBits, FH!Goto, FH!CallPc, FH!latchVars,
     FH!handlerVars, FH!history, FH!Inside
<1>7. ASSUME NEW t \in Callers, FH!GiveSemaphore(t)
      PROVE  FaultInv'
  BY <1>7 DEF FaultInv, FH!GiveSemaphore, FH!Goto, FH!Return, FH!CallPc, FH!latchVars,
     FH!handlerVars, FH!history, FH!Inside
<1>8. ASSUME NEW b \in FH!Faults, FH!set_faultBitFromISR(b)
      PROVE  FaultInv'
  BY <1>8, QueueType, CommandsDiffer DEF FaultInv, FH!set_faultBitFromISR, FH!Latch,
     FH!callVars, FH!handlerVars, FH!Inside
<1>9. CASE FH!ExecuteSetBits
  BY <1>5, <1>9, QueueType DEF FaultInv, FH!ExecuteSetBits, FH!TimerTaskReady,
     FH!latchVars, FH!callVars, FH!handlerVars, FH!history, FH!Inside
<1>10. CASE FH!HandlerStep
  BY <1>10 DEF FaultInv, FH!HandlerStep, FH!TakeSemaphore, FH!ReadFirstFault, FH!Respond,
     FH!NextStage, FH!HandlerPc, FH!latchVars, FH!callVars, FH!history, FH!Inside
<1>11. CASE QueueStep
  BY <1>11, QueueType, CommandsDiffer DEF FaultInv, QueueStep, StartPosted, StartTaken,
     fhVars, FH!Inside
<1>12. QED
  BY <1>1, <1>2, <1>3, <1>4, <1>6, <1>7, <1>8, <1>9, <1>10, <1>11 DEF FaultStep,
     FH!CallStep

(* Setting the bit of a fault shows that fault, and hides none.            *)
LEMMA WithBitShows ==
  ASSUME FaultInv, NEW a \in FH!Faults, faultBits' = FH!WithBit(a)
  PROVE  /\ FH!BitSet(a)'
         /\ \A b \in FH!Faults : FH!BitSet(b) => FH!BitSet(b)'
  BY FaultAddress DEF FaultInv, FH!WithBit, FH!BitSet

(* Every step of the fault handler keeps a raised fault on record: its     *)
(* caller sets the bit before it is done, or the queue holds the command   *)
(* that does.                                                              *)
LEMMA RegisterStep ==
  ASSUME FaultInv, RegisterInv, FaultStep \/ QueueStep
  PROVE  RegisterInv'
<1> DEFINE InQueue(b) == FH!Queued(timerQueue, FH!SetBitsCmd(b))
<1>0. \A b \in FH!Faults : /\ FH!is_fault_set(b) <=> FH!BitSet(b)
                           /\ FH!is_fault_set(b)' <=> FH!BitSet(b)'
  BY DEF FH!is_fault_set, FH!Faults
<1>1. ASSUME UNCHANGED <<system_has_faulted, fault_bits_initialized, raised>>,
             droppedBits \subseteq droppedBits',
             \A b \in FH!Faults : FH!OnRecord(b) => FH!OnRecord(b)'
      PROVE  RegisterInv'
  BY <1>1 DEF RegisterInv, FaultInv
<1>2. CASE FH!faultHandler_init
  BY <1>2 DEF RegisterInv, FH!faultHandler_init, FH!history
<1>3. ASSUME NEW t \in Callers, NEW a \in FH!Faults, FH!set_faultBit(t, a)
      PROVE  RegisterInv'
  <2>1. FH!BeingSet(a)' /\ \A b \in FH!Faults : FH!BeingSet(b) => FH!BeingSet(b)'
    BY <1>3 DEF FH!set_faultBit, FH!Goto, FaultInv, FH!BeingSet
  <2>2. \A b \in FH!Faults : FH!OnRecord(b) \/ b = a => FH!OnRecord(b)'
    BY <1>3, <2>1 DEF FH!set_faultBit, FH!OnRecord, FH!is_fault_set, FH!BitSet
  <2>3. raised' = raised \union {a} /\ fault_bits_initialized'
    BY <1>3 DEF FH!set_faultBit, FH!Latch
  <2>4. QED
    BY <1>3, <2>2, <2>3 DEF FH!set_faultBit, RegisterInv, FaultInv
<1>4. ASSUME NEW t \in Callers, FH!TestBit(t)
      PROVE  RegisterInv'
  <2>1. \A b \in FH!Faults : FH!BitSet(b) \/ FH!BeingSet(b)
                             => FH!BitSet(b)' \/ FH!BeingSet(b)'
    BY <1>4 DEF FH!TestBit, FH!Return, FH!Goto, FaultInv, FH!BeingSet, FH!BitSet
  <2>2. QED
    BY <1>0, <1>1, <1>4, <2>1 DEF FH!TestBit, FH!OnRecord, FH!latchVars, FH!history
<1>5. ASSUME NEW t \in Callers, FH!SetBits(t)
      PROVE  RegisterInv'
  <2>1. arg[t] \in FH!Faults
    BY <1>5 DEF FH!SetBits, FaultInv, FH!Inside
  <2>2. /\ FH!BitSet(arg[t])'
        /\ \A b \in FH!Faults : FH!BitSet(b) => FH!BitSet(b)'
    BY <1>5, <2>1, WithBitShows DEF FH!SetBits
  <2>3. \A b \in FH!Faults : b # arg[t] /\ FH!BeingSet(b) => FH!BeingSet(b)'
    BY <1>5 DEF FH!SetBits, FH!Goto, FaultInv, FH!BeingSet
  <2>4. QED
    BY <1>0, <1>1, <1>5, <2>2, <2>3 DEF FH!SetBits, FH!OnRecord, FH!latchVars, FH!history
<1>6. ASSUME NEW t \in Callers, FH!GiveSemaphore(t)
      PROVE  RegisterInv'
  <2>1. \A b \in FH!Faults : FH!BeingSet(b) => FH!BeingSet(b)'
    BY <1>6 DEF FH!GiveSemaphore, FH!Return, FH!Goto, FaultInv, FH!BeingSet
  <2>2. QED
    BY <1>1, <1>6, <2>1 DEF FH!GiveSemaphore, FH!OnRecord, FH!is_fault_set, FH!BitSet,
       FH!latchVars, FH!history
<1>7. ASSUME NEW a \in FH!Faults, FH!set_faultBitFromISR(a)
      PROVE  RegisterInv'
  <2>1. \A b \in FH!Faults : /\ FH!BitSet(b)' <=> FH!BitSet(b)
                             /\ FH!BeingSet(b)' <=> FH!BeingSet(b)
    BY <1>7 DEF FH!set_faultBitFromISR, FH!BitSet, FH!BeingSet, FH!callVars
  <2>2. /\ raised' = raised \union {a} /\ fault_bits_initialized'
        /\ droppedBits \subseteq droppedBits'
    BY <1>7 DEF FH!set_faultBitFromISR, FH!Latch
  <2>3. \A b \in FH!Faults : InQueue(b) => InQueue(b)'
    BY <1>7, QueuedPosted, CommandsDiffer DEF FH!set_faultBitFromISR, FaultInv
  <2>4. FH!BitSet(a) \/ InQueue(a)' \/ a \in droppedBits'
    BY <1>7, QueuedPosted, CommandsDiffer DEF FH!set_faultBitFromISR, FaultInv
  <2>5. QED
    BY <1>0, <2>1, <2>2, <2>3, <2>4 DEF RegisterInv, FaultInv, FH!OnRecord
<1>8. CASE FH!ExecuteSetBits
  <2>1. PICK a \in FH!Faults : /\ Head(timerQueue) = FH!SetBitsCmd(a)
                               /\ faultBits' = FH!WithBit(a)
    BY <1>8 DEF FH!ExecuteSetBits
  <2>2. \A b \in FH!Faults : InQueue(b) => InQueue(b)' \/ b = a
    BY <1>8, <2>1, QueuedTail, CommandsDiffer
       DEF FH!ExecuteSetBits, FH!TimerTaskReady, FaultInv
  <2>3. FH!BitSet(a)' /\ \A b \in FH!Faults : FH!BitSet(b) => FH!BitSet(b)'
    BY <2>1, WithBitShows
  <2>4. \A b \in FH!Faults : FH!BeingSet(b)' <=> FH!BeingSet(b)
    BY <1>8 DEF FH!ExecuteSetBits, FH!BeingSet, FH!callVars
  <2>5. QED
    BY <1>0, <1>1, <1>8, <2>2, <2>3, <2>4 DEF FH!ExecuteSetBits, FH!OnRecord,
       FH!latchVars, FH!history
<1>9. CASE QueueStep
  <2>1. \A b \in FH!Faults : InQueue(b) => InQueue(b)'
    <3>1. CASE UNCHANGED timerQueue
      BY <3>1
    <3>2. CASE StartPosted
      BY <3>2, QueuedPosted, CommandsDiffer DEF StartPosted, FaultInv
    <3>3. CASE StartTaken
      BY <3>3, QueuedTail, CommandsDiffer DEF StartTaken, FaultInv
    <3>4. QED
      BY <1>9, <3>1, <3>2, <3>3 DEF QueueStep
  <2>2. QED
    BY <1>1, <1>9, <2>1 DEF QueueStep, fhVars, FH!OnRecord, FH!BeingSet,
       FH!is_fault_set, FH!BitSet
<1>10. CASE FH!CreateHandler \/ FH!HandlerStep
  <2>1. UNCHANGED <<system_has_faulted, fault_bits_initialized, faultBits, timerQueue,
                    pc, arg, raised, droppedBits>>
    BY <1>10 DEF FH!CreateHandler, FH!HandlerStep, FH!TakeSemaphore, FH!ReadFirstFault,
       FH!Respond, FH!latchVars, FH!callVars, FH!history
  <2>2. QED
    BY <1>1, <2>1 DEF FH!OnRecord, FH!BeingSet, FH!is_fault_set, FH!BitSet
<1>11. QED
  BY <1>2, <1>3, <1>4, <1>5, <1>6, <1>7, <1>8, <1>9, <1>10 DEF FaultStep, FH!CallStep

-----------------------------------------------------------------------------
(* A task other than the handler runs only while the handler does not open *)
(* the contactors: it would be preempted.                                  *)
LEMMA HandlerPreempts ==
  ASSUME handler_pc = "open"
  PROVE  ~Runs("Init")
<1>1. Ready("Handler") /\ Priority("Handler") = 5 /\ Priority("Init") = 2
  BY DEF Ready, Priority
<1>2. QED
  BY <1>1 DEF Runs, Unhindered, AllTasks

(* Every step keeps DriverInv and PassedAreOpen: Task_Init writes no pin   *)
(* while the handler opens the contactors one after the other.             *)
LEMMA DriverStep ==
  ASSUME DriverInv, PassedAreOpen, [Next]_vars
  PROVE  DriverInv' /\ PassedAreOpen'
<1>1. ASSUME UNCHANGED <<control, set_pc, set_arg, emergency_pc, emergency_num,
                         handler_pc, init_pc>>
      PROVE  DriverInv' /\ PassedAreOpen'
  BY <1>1 DEF DriverInv, PassedAreOpen, Passed
<1>2. CASE InitStep
  <2>1. /\ UNCHANGED <<emergency_pc, emergency_num>>
        /\ handler_pc' = "open" <=> handler_pc = "open"
    BY <1>2 DEF InitStep, BootFaultHandler, CreateTasks, AllCheckedIn, CheckFaults,
       CloseContactor, InContactorSet, fhVars, ctVars, FH!faultHandler_init,
       FH!CreateHandler, FH!handlerVars, CT!contactor_set, CT!SetStep, CT!TakeMutex,
       CT!TakeTimesOut, CT!WritePin, CT!WriteState, CT!StartSenseTimer, CT!GiveMutex,
       CT!emergencyVars
  <2>2. handler_pc' # "open"
    BY <1>2, <2>1, HandlerPreempts DEF InitStep, BootFaultHandler, CreateTasks,
       AllCheckedIn, CheckFaults, CloseContactor, InContactorSet
  <2>3. CASE BootFaultHandler \/ CreateTasks \/ AllCheckedIn \/ CheckFaults
    BY <2>1, <2>2, <2>3 DEF BootFaultHandler, CreateTasks, AllCheckedIn, CheckFaults,
       InitGoto, ctVars, DriverInv, PassedAreOpen
  <2>4. CASE CloseContactor
    <3>1. /\ init_pc \in {"plus", "minus"}
          /\ init_pc' = SetCall[init_pc].then
      BY <2>4 DEF CloseContactor, SetCall, InitGoto
    <3>2. SetCall["plus"].then = "setting plus" /\ SetCall["minus"].then = "setting minus"
      BY DEF SetCall
    <3>3. PICK cmd \in CT!Commands : CT!contactor_set("Init", cmd)
      <4>1. SetCall[init_pc].num \in {0, 1} /\ SetCall[init_pc].to = "CLOSED"
        <5>1. /\ SetCall["plus"].num = 0 /\ SetCall["plus"].to = "CLOSED"
              /\ SetCall["minus"].num = 1 /\ SetCall["minus"].to = "CLOSED"
          BY DEF SetCall, HV_PLUS_CONTACTOR, HV_MINUS_CONTACTOR
        <5>2. QED
          BY <3>1, <5>1
      <4>2. [num |-> SetCall[init_pc].num, to |-> SetCall[init_pc].to] \in CT!Commands
        BY <4>1 DEF CT!Commands, CT!Contactors, CT!Positions
      <4>3. QED
        BY <2>4, <4>2 DEF CloseContactor
    <3>4. /\ set_pc'["Init"] = "take" /\ set_pc' \in [{"Init"} -> CT!SetPc]
          /\ set_arg' \in [{"Init"} -> CT!Commands] /\ UNCHANGED control
      BY <3>3 DEF CT!contactor_set, CT!Goto, CT!SetPc, CT!pinVars, DriverInv
    <3>5. QED
      BY <2>1, <2>2, <3>1, <3>2, <3>4 DEF DriverInv, PassedAreOpen
  <2>5. CASE InContactorSet
    <3>1. CT!SetStep("Init")
      BY <2>5 DEF InContactorSet
    <3>2. CT!NoCommand \in CT!Commands
      BY DEF CT!NoCommand, CT!Commands, CT!Contactors, CT!Positions
    <3>3. /\ set_pc' \in [{"Init"} -> CT!SetPc]
          /\ set_arg' \in [{"Init"} -> CT!Commands]
      BY <3>1, <3>2 DEF CT!SetStep, CT!TakeMutex, CT!TakeTimesOut, CT!WritePin,
         CT!WriteState, CT!StartSenseTimer, CT!GiveMutex, CT!Return, CT!Goto, CT!SetPc,
         DriverInv
    <3>4. control' \in [CT!Contactors -> CT!Positions]
      BY <3>1 DEF CT!SetStep, CT!TakeMutex, CT!TakeTimesOut, CT!WritePin, CT!DrivePin,
         CT!WriteState, CT!StartSenseTimer, CT!GiveMutex, CT!Commands, CT!pinVars,
         DriverInv
    <3>5. set_pc'["Init"] # "idle" <=> init_pc' \in {"setting plus", "setting minus"}
      BY <2>5 DEF InContactorSet, InitGoto
    <3>6. QED
      BY <2>1, <2>2, <3>3, <3>4, <3>5 DEF DriverInv, PassedAreOpen
  <2>6. QED
    BY <1>2, <2>3, <2>4, <2>5 DEF InitStep
<1>3. CASE WakeHandler \/ RespondStep
  <2>1. /\ UNCHANGED <<control, set_pc, set_arg, emergency_num, init_pc>>
        /\ \/ handler_pc = "indicate" /\ emergency_pc = "idle" /\ emergency_pc' = "pin"
              /\ handler_pc' = "open"
           \/ UNCHANGED emergency_pc /\ handler_pc' # "open"
              /\ (handler_pc = "open" => emergency_pc = "done")
    BY <1>3 DEF WakeHandler, RespondStep, OthersUnchanged, initVars, ctVars,
       FH!TakeSemaphore, FH!ReadFirstFault, FH!Respond, FH!NextStage,
       CT!EmergencyStart, CT!pinVars, CT!clientVars
  <2>2. CASE /\ handler_pc = "indicate" /\ emergency_pc = "idle"
             /\ emergency_pc' = "pin" /\ handler_pc' = "open"
    <3>1. DriverInv'
      BY <2>1, <2>2 DEF DriverInv
    <3>2. emergency_num' = 0
      BY <2>1, <2>2 DEF DriverInv
    <3>3. PassedAreOpen'
      BY <2>2, <3>2 DEF PassedAreOpen, Passed, CT!Contactors
    <3>4. QED
      BY <3>1, <3>3
  <2>3. CASE /\ UNCHANGED emergency_pc /\ handler_pc' # "open"
             /\ (handler_pc = "open" => emergency_pc = "done")
    BY <2>1, <2>3 DEF DriverInv, PassedAreOpen
  <2>4. QED
    BY <2>1, <2>2, <2>3
<1>4. CASE OpenStep
  <2>1. UNCHANGED <<set_pc, set_arg, init_pc, handler_pc>> /\ handler_pc = "open"
    BY <1>4 DEF OpenStep, OthersUnchanged, initVars, fhVars, CT!EmergencyStep,
       CT!EmergencyPin, CT!EmergencyState, CT!clientVars
  <2>2. CASE CT!EmergencyPin
    <3>1. /\ emergency_pc = "pin" /\ emergency_pc' = "state" /\ UNCHANGED emergency_num
          /\ control' = [control EXCEPT ![emergency_num] = "OPEN"]
      BY <2>2 DEF CT!EmergencyPin, CT!DrivePin
    <3>2. DriverInv'
      BY <2>1, <3>1 DEF DriverInv, CT!Positions
    <3>3. PassedAreOpen'
      BY <2>1, <3>1 DEF DriverInv, PassedAreOpen, Passed, CT!Contactors
    <3>4. QED
      BY <3>2, <3>3
  <2>3. CASE CT!EmergencyState
    <3>1. emergency_pc = "state" /\ UNCHANGED control
      BY <2>3 DEF CT!EmergencyState
    <3>2. CASE /\ emergency_num + 1 \in CT!Contactors
               /\ emergency_num' = emergency_num + 1 /\ emergency_pc' = "pin"
      <4>1. DriverInv'
        BY <2>1, <3>1, <3>2 DEF DriverInv
      <4>2. emergency_num \in CT!Contactors
        BY DEF DriverInv
      <4>3. ASSUME NEW c \in CT!Contactors
            PROVE  Passed(c)' => Passed(c)
        BY <3>1, <3>2, <4>2 DEF Passed, CT!Contactors
      <4>4. PassedAreOpen'
        BY <2>1, <3>1, <4>3 DEF PassedAreOpen
      <4>5. QED
        BY <4>1, <4>4
    <3>3. CASE /\ emergency_num + 1 \notin CT!Contactors
               /\ emergency_pc' = "done" /\ UNCHANGED emergency_num
      <4>1. DriverInv'
        BY <2>1, <3>1, <3>3 DEF DriverInv
      <4>2. emergency_num \in CT!Contactors
        BY DEF DriverInv
      <4>3. ASSUME NEW c \in CT!Contactors
            PROVE  Passed(c)' => Passed(c)
        BY <3>1, <3>3, <4>2 DEF Passed, CT!Contactors
      <4>4. PassedAreOpen'
        BY <2>1, <3>1, <4>3 DEF PassedAreOpen
      <4>5. QED
        BY <4>1, <4>4
    <3>4. QED
      BY <2>3, <3>2, <3>3 DEF CT!EmergencyState
  <2>4. QED
    BY <1>4, <2>2, <2>3 DEF OpenStep, CT!EmergencyStep
<1>5. ASSUME NEW m \in Periodic, Wake(m) \/ PassStep(m)
      PROVE  DriverInv' /\ PassedAreOpen'
  BY <1>1, <1>5 DEF Wake, PassStep, InSetFaultBit, PassEnds, CheckContactor,
     ContactorPassEnds, Sleep, FH!CallStep, FH!TestBit, FH!SetBits, FH!GiveSemaphore,
     FH!set_faultBit, FH!handlerVars, CT!MonitorVerify, CT!pinVars, CT!clientVars,
     CT!emergencyVars, fhVars, ctVars, initVars
<1>6. ASSUME NEW c \in CT!Contactors, SenseTimerExpires(c)
      PROVE  DriverInv' /\ PassedAreOpen'
  BY <1>1, <1>6 DEF SenseTimerExpires, CT!Expire, CT!pinVars, CT!clientVars,
     CT!emergencyVars, FH!set_faultBit, FH!handlerVars, fhVars, initVars
<1>7. CASE \/ \E m \in SensorMonitors, b \in MonitorFaults : Detect(m, b)
           \/ Estop \/ InSetFaultBit("Timer") \/ Interrupt
  BY <1>1, <1>7 DEF Detect, Estop, InSetFaultBit, Interrupt, FH!set_faultBit,
     FH!set_faultBitFromISR, FH!CallStep, FH!TestBit, FH!SetBits, FH!GiveSemaphore,
     FH!handlerVars, ctVars, initVars
<1>8. CASE ExecuteCommand
  BY <1>1, <1>8 DEF ExecuteCommand, FH!ExecuteSetBits, CT!ExecuteStart, FH!handlerVars,
     CT!pinVars, CT!clientVars, CT!emergencyVars, fhVars, ctVars, initVars
<1>9. CASE PlantStep \/ UNCHANGED vars
  BY <1>1, <1>9 DEF PlantStep, OthersUnchanged, CT!Settle, CT!Stick, CT!pinVars,
     CT!clientVars, CT!emergencyVars, fhVars, ctVars, initVars, vars
<1>10. QED
  BY <1>2, <1>3, <1>4, <1>5, <1>6, <1>7, <1>8, <1>9 DEF Next, HandlerStep

-----------------------------------------------------------------------------
(* The state in which Task_Init starts satisfies the invariant.            *)
LEMMA StartupInit == Init => StartupInv
<1> SUFFICES ASSUME Init PROVE StartupInv
  OBVIOUS
<1>1. TaskInv
  <2>1. \A m \in Periodic : ~FH!Inside(m)
    BY DEF Init, FH!Init, FH!Inside, Callers
  <2>2. all_good \in BOOLEAN /\ faultedAtCheck \in BOOLEAN
    BY Zenon DEF Init
  <2>3. QED
    BY <2>1, <2>2 DEF Init, TaskInv, InitPc
<1>2. FaultInv
  <2>1. timerQueue \in Seq(Commands) /\ Len(timerQueue) <= TIMER_QUEUE_LENGTH
    BY DEF Init, FH!Init
  <2>2. QED
    BY <2>1 DEF Init, FH!Init, FaultInv, FH!CallPc, FH!Inside, FH!HandlerPc
<1>3. RegisterInv
  BY DEF Init, FH!Init, RegisterInv
<1>4. DriverInv
  <2>1. CT!NoCommand \in CT!Commands
    BY DEF CT!NoCommand, CT!Commands, CT!Contactors, CT!Positions
  <2>2. QED
    BY <2>1 DEF Init, CT!Init, DriverInv, CT!SetPc, CT!Contactors, CT!Positions
<1>5. PassedAreOpen
  BY DEF Init, FH!Init, PassedAreOpen
<1>6. QED
  BY <1>1, <1>2, <1>3, <1>4, <1>5 DEF StartupInv

(* Every step of the firmware keeps the whole invariant.                   *)
LEMMA StartupStep == StartupInv /\ [Next]_vars => StartupInv'
  BY TaskStep, DriverStep, StepIsFaultStep, FaultTypeStep, RegisterStep DEF StartupInv

(* The inductive invariant of the running firmware: where each task stands, *)
(* the types of the two components and of the queue they share, the faults *)
(* on record, and the contactors emergency_open_contactors has passed.     *)
THEOREM StartupInvariant == Spec => []StartupInv
  BY StartupInit, StartupStep, PTL DEF Spec

(* The variables of the two components stay in their types when they share *)
(* the queue of the timer service task, and each component stands inside a *)
(* call exactly when the task that makes it does.                          *)
THEOREM TypeCorrect == Spec => []TypeOK
<1>1. StartupInv => TypeOK
  BY DEF StartupInv, TaskInv, FaultInv, DriverInv, TypeOK
<1>2. QED
  BY <1>1, StartupInvariant, PTL

(* The handler leaves "open" when emergency_open_contactors has returned.  *)
LEMMA OpenEndsDone ==
  ASSUME [Next]_vars, handler_pc = "open", handler_pc' # "open"
  PROVE  emergency_pc = "done" /\ UNCHANGED control
<1>1. CASE HandlerStep
  BY <1>1 DEF HandlerStep, WakeHandler, RespondStep, OpenStep, FH!TakeSemaphore,
     FH!ReadFirstFault, fhVars, ctVars
<1>2. CASE InitStep
  BY <1>2, HandlerPreempts DEF InitStep, BootFaultHandler, CreateTasks, AllCheckedIn,
     CheckFaults, CloseContactor, InContactorSet
<1>3. ASSUME NEW m \in Periodic, Wake(m) \/ PassStep(m)
      PROVE  FALSE
  BY <1>3 DEF Wake, PassStep, InSetFaultBit, PassEnds, CheckContactor, ContactorPassEnds,
     Sleep, FH!CallStep, FH!TestBit, FH!SetBits, FH!GiveSemaphore, FH!set_faultBit,
     FH!handlerVars, fhVars
<1>4. ASSUME ~HandlerStep, ~InitStep,
             \A m \in Periodic : ~(Wake(m) \/ PassStep(m))
      PROVE  FALSE
  BY <1>4 DEF Next, Detect, Estop, InSetFaultBit, SenseTimerExpires, ExecuteCommand,
     Interrupt, PlantStep, OthersUnchanged, FH!set_faultBit, FH!set_faultBitFromISR,
     FH!CallStep, FH!TestBit, FH!SetBits, FH!GiveSemaphore, FH!ExecuteSetBits,
     FH!handlerVars, fhVars, vars
<1>5. QED
  BY <1>1, <1>2, <1>3, <1>4

(* When emergency_open_contactors returns, every contactor is commanded    *)
(* open, for any number of contactors and whatever Task_Init was doing     *)
(* when it was preempted.                                                  *)
THEOREM EmergencyOpensAll == Spec => OpeningIsComplete
<1>1. StartupInv /\ [Next]_vars =>
        [handler_pc = "open" /\ handler_pc' # "open" =>
           \A c \in CT!Contactors : control'[c] = "OPEN"]_vars
  <2> SUFFICES ASSUME StartupInv, [Next]_vars, handler_pc = "open", handler_pc' # "open"
               PROVE  \A c \in CT!Contactors : control'[c] = "OPEN"
    OBVIOUS
  <2>1. emergency_pc = "done" /\ UNCHANGED control
    BY OpenEndsDone DEF StartupInv
  <2>2. QED
    BY <2>1 DEF StartupInv, PassedAreOpen, Passed
<1>2. QED
  BY <1>1, StartupInvariant, PTL DEF Spec, OpeningIsComplete

-----------------------------------------------------------------------------
(* FreeRTOSConfig.h, not in the repository, has to put the timer service   *)
(* task above Task_Init.                                                   *)
TimerOutranksInit == TIMER_TASK_PRIORITY > Priority("Init")

(* When Task_Init runs, nobody is inside set_faultBit and no command waits.*)
LEMMA NobodyElseRuns ==
  ASSUME TimerOutranksInit, StartupInv, Runs("Init")
  PROVE  timerQueue = <<>> /\ \A t \in Callers : ~FH!Inside(t)
<1>1. Priority("Init") = 2 /\ Priority("Timer") = TIMER_TASK_PRIORITY
  BY DEF Priority
<1>2. \A m \in Periodic : Priority(m) \in {3, 4}
  BY DEF Priority, Periodic
<1>3. ~Ready("Timer") /\ \A m \in Periodic : ~Ready(m)
  BY <1>1, <1>2 DEF TimerOutranksInit, Runs, Unhindered, AllTasks, Periodic
<1>4. ~FH!Inside("Timer") /\ timerQueue = <<>>
  BY <1>3 DEF Ready
<1>5. \A m \in Periodic : m \notin awake
  BY <1>3 DEF Ready, Periodic
<1>6. QED
  BY <1>4, <1>5 DEF StartupInv, TaskInv, Callers

(* The check finds any fault that has been latched, unless its bit was     *)
(* discarded.                                                              *)
LEMMA CheckFindsFaults ==
  ASSUME TimerOutranksInit, StartupInv, CheckFaults, system_has_faulted,
         ~FH!is_fault_set(NUM_FAULTS)
  PROVE  droppedBits # {}
<1>1. PICK b \in raised : FH!OnRecord(b) \/ b \in droppedBits
  BY DEF StartupInv, RegisterInv
<1>2. b \in FH!Faults
  BY DEF StartupInv, FaultInv
<1>3. ~FH!is_fault_set(b)
  BY <1>2, FaultAddress DEF FH!is_fault_set, FH!BitSet, FH!Faults
<1>4. timerQueue = <<>> /\ \A t \in Callers : ~FH!Inside(t)
  BY NobodyElseRuns DEF CheckFaults
<1>5. ~FH!BeingSet(b) /\ ~FH!Queued(timerQueue, FH!SetBitsCmd(b))
  BY <1>4 DEF FH!BeingSet, FH!Inside, FH!Queued
<1>6. QED
  BY <1>1, <1>3, <1>5 DEF FH!OnRecord

(* A bit that was discarded stays so.                                      *)
LEMMA DroppedForGood ==
  ASSUME FaultStep \/ QueueStep
  PROVE  droppedBits \subseteq droppedBits'
  BY DEF FaultStep, QueueStep, fhVars, FH!faultHandler_init, FH!CreateHandler,
     FH!set_faultBit, FH!CallStep, FH!TestBit, FH!SetBits, FH!GiveSemaphore,
     FH!set_faultBitFromISR, FH!ExecuteSetBits, FH!HandlerStep, FH!TakeSemaphore,
     FH!ReadFirstFault, FH!Respond, FH!history

(* No step begins to close contactors with a fault that the check missed.  *)
LEMMA CheckStep ==
  ASSUME TimerOutranksInit, StartupInv, CheckSeesEveryFault, [Next]_vars
  PROVE  CheckSeesEveryFault'
<1>1. droppedBits \subseteq droppedBits'
  BY StepIsFaultStep, DroppedForGood DEF StartupInv
<1>2. CASE CheckFaults
  BY <1>1, <1>2, CheckFindsFaults DEF CheckFaults, InitGoto, CheckSeesEveryFault, Closing
<1>3. CASE ~CheckFaults
  <2>1. UNCHANGED faultedAtCheck /\ (Closing' => Closing)
    <3>1. CASE InitStep
      BY <1>3, <3>1 DEF InitStep, BootFaultHandler, CreateTasks, AllCheckedIn,
         CloseContactor, InContactorSet, InitGoto, Closing, SetCall
    <3>2. CASE ~InitStep
      BY <3>2 DEF Next, Wake, PassStep, PassEnds, CheckContactor, ContactorPassEnds,
         Sleep, Detect, Estop, InSetFaultBit, ExecuteCommand, SenseTimerExpires,
         Interrupt, HandlerStep, WakeHandler, RespondStep, OpenStep, PlantStep,
         OthersUnchanged, vars, initVars, Closing
    <3>3. QED
      BY <3>1, <3>2
  <2>2. QED
    BY <1>1, <2>1 DEF CheckSeesEveryFault
<1>4. QED
  BY <1>2, <1>3

(* With the timer service task above Task_Init, the check before the       *)
(* contactors close misses no fault latched before it, for any monitors    *)
(* and any interleaving of their calls, but one the full queue discarded.  *)
THEOREM CheckIsComplete == TimerOutranksInit => (Spec => []CheckSeesEveryFault)
<1> SUFFICES ASSUME TimerOutranksInit PROVE Spec => []CheckSeesEveryFault
  OBVIOUS
<1>1. Init => CheckSeesEveryFault
  BY DEF Init, CheckSeesEveryFault, Closing
<1>2. StartupInv /\ CheckSeesEveryFault /\ [Next]_vars => CheckSeesEveryFault'
  BY CheckStep
<1>3. QED
  BY <1>1, <1>2, StartupInvariant, PTL DEF Spec

(* Until Task_Init has found no fault, and for good when there was one, no *)
(* contactor is commanded closed.                                          *)
AllOpen == \A c \in CT!Contactors : control[c] = "OPEN"
OpenUntilCleared ==
  init_pc \in {"boot", "create", "wait", "check"} => AllOpen
FaultedStartStaysOpen == faultedAtCheck /\ droppedBits = {} => AllOpen

(* Only contactor_set, called by Task_Init once it has passed the check,   *)
(* drives a pin to CLOSED.                                                 *)
LEMMA OnlyInitCloses ==
  ASSUME StartupInv, [Next]_vars, AllOpen, ~Closing
  PROVE  AllOpen'
<1>1. set_pc["Init"] = "idle"
  BY DEF StartupInv, DriverInv, Closing
<1>2. CASE NoContactorStep
  BY <1>2 DEF NoContactorStep, ctVars, AllOpen
<1>3. CASE CT!EmergencyStep
  <2>1. CASE CT!EmergencyPin
    BY <2>1 DEF CT!EmergencyPin, CT!DrivePin, AllOpen, StartupInv, DriverInv
  <2>2. CASE CT!EmergencyState
    BY <2>2 DEF CT!EmergencyState, AllOpen
  <2>3. QED
    BY <1>3, <2>1, <2>2 DEF CT!EmergencyStep
<1>4. CASE ContactorStep /\ ~CT!EmergencyStep
  <2>1. ~CT!SetStep("Init")
    BY <1>1 DEF CT!SetStep, CT!TakeMutex, CT!TakeTimesOut, CT!WritePin, CT!WriteState,
       CT!StartSenseTimer, CT!GiveMutex
  <2>2. UNCHANGED control
    BY <1>4, <2>1 DEF ContactorStep, CT!contactor_set, CT!EmergencyStart, CT!Settle,
       CT!Stick, CT!ExecuteStart, CT!Expire, CT!MonitorVerify, CT!pinVars
  <2>3. QED
    BY <2>2 DEF AllOpen
<1>5. QED
  BY <1>2, <1>3, <1>4, StepIsContactorStep DEF StartupInv

(* Every step keeps both, given that the check misses no fault.            *)
LEMMA StaysOpenStep ==
  ASSUME StartupInv, CheckSeesEveryFault, OpenUntilCleared, FaultedStartStaysOpen,
         [Next]_vars
  PROVE  OpenUntilCleared' /\ FaultedStartStaysOpen'
<1>1. droppedBits \subseteq droppedBits'
  BY StepIsFaultStep, DroppedForGood DEF StartupInv
<1>2. CASE init_pc \in {"boot", "create", "wait", "check"}
  <2>1. AllOpen /\ ~Closing
    BY <1>2 DEF OpenUntilCleared, Closing
  <2>2. QED
    BY <2>1, OnlyInitCloses DEF OpenUntilCleared, FaultedStartStaysOpen
<1>3. CASE init_pc \notin {"boot", "create", "wait", "check"}
  <2>1. /\ UNCHANGED faultedAtCheck
        /\ init_pc' \notin {"boot", "create", "wait", "check"}
    <3>1. CASE InitStep
      <4>1. CASE CloseContactor
        <5>1. SetCall["plus"].then = "setting plus" /\ SetCall["minus"].then = "setting minus"
          BY DEF SetCall
        <5>2. init_pc \in {"plus", "minus"}
          BY <4>1 DEF CloseContactor, SetCall
        <5>3. QED
          BY <4>1, <5>1, <5>2 DEF CloseContactor, InitGoto
      <4>2. CASE InContactorSet
        BY <4>2 DEF InContactorSet, InitGoto
      <4>3. QED
        BY <1>3, <3>1, <4>1, <4>2 DEF InitStep, BootFaultHandler, CreateTasks,
           AllCheckedIn, CheckFaults
    <3>2. CASE ~InitStep
      BY <1>3, <3>2 DEF Next, Wake, PassStep, PassEnds, CheckContactor,
         ContactorPassEnds, Sleep, Detect, Estop, InSetFaultBit, ExecuteCommand,
         SenseTimerExpires, Interrupt, HandlerStep, WakeHandler, RespondStep, OpenStep,
         PlantStep, OthersUnchanged, vars, initVars
    <3>3. QED
      BY <3>1, <3>2
  <2>2. OpenUntilCleared'
    BY <2>1 DEF OpenUntilCleared
  <2>3. ASSUME faultedAtCheck', droppedBits' = {}
        PROVE  AllOpen'
    <3>1. faultedAtCheck /\ droppedBits = {}
      BY <1>1, <2>1, <2>3
    <3>2. AllOpen /\ ~Closing
      BY <3>1 DEF FaultedStartStaysOpen, CheckSeesEveryFault
    <3>3. QED
      BY <3>2, OnlyInitCloses
  <2>4. QED
    BY <2>2, <2>3 DEF FaultedStartStaysOpen
<1>4. QED
  BY <1>2, <1>3

(* InitTask.c:179, where it holds: when a fault was latched before         *)
(* Task_Init looked, and the full queue discarded none, no contactor is    *)
(* ever commanded closed.  A fault latched after the look is another       *)
(* matter (SafeStateHolds).                                                *)
THEOREM FaultBeforeCheckKeepsOpen ==
  TimerOutranksInit => (Spec => [](OpenUntilCleared /\ FaultedStartStaysOpen))
<1> SUFFICES ASSUME TimerOutranksInit
             PROVE  Spec => [](OpenUntilCleared /\ FaultedStartStaysOpen)
  OBVIOUS
<1>1. Init => OpenUntilCleared /\ FaultedStartStaysOpen
  BY DEF Init, CT!Init, AllOpen, OpenUntilCleared, FaultedStartStaysOpen
<1>2. StartupInv /\ CheckSeesEveryFault /\ OpenUntilCleared /\ FaultedStartStaysOpen
        /\ [Next]_vars => (OpenUntilCleared /\ FaultedStartStaysOpen)'
  BY StaysOpenStep
<1>3. QED
  BY <1>1, <1>2, CheckIsComplete, StartupInvariant, PTL DEF Spec

-----------------------------------------------------------------------------
(* The fault handler under the scheduler, with all its callers, the        *)
(* interrupt handler and the commands of the contactor driver in its queue *)
(* still acts in the name of the first fault latched.                      *)
LEMMA RootCauseStep ==
  ASSUME FaultInv, FH!RootCause, FaultStep \/ QueueStep
  PROVE  FH!RootCause'
<1> USE DEF FH!RootCause, FH!Waiting, FH!Inside
<1>1. CASE FH!faultHandler_init \/ FH!CreateHandler
  BY <1>1 DEF FH!faultHandler_init, FH!CreateHandler, FH!latchVars, FH!callVars,
     FH!handlerVars
<1>2. ASSUME NEW t \in Callers, NEW b \in FH!Faults, FH!set_faultBit(t, b)
      PROVE  FH!RootCause'
  BY <1>2 DEF FH!set_faultBit, FH!Latch, FH!handlerVars
<1>3. ASSUME NEW t \in Callers, FH!TestBit(t) \/ FH!SetBits(t)
      PROVE  FH!RootCause'
  BY <1>3 DEF FH!TestBit, FH!SetBits, FH!Goto, FH!Return, FaultInv, FH!latchVars,
     FH!handlerVars
<1>4. ASSUME NEW t \in Callers, FH!GiveSemaphore(t)
      PROVE  FH!RootCause'
  BY <1>4 DEF FH!GiveSemaphore, FH!Return, FH!Goto, FaultInv, FH!latchVars,
     FH!handlerVars
<1>5. ASSUME NEW b \in FH!Faults, FH!set_faultBitFromISR(b)
      PROVE  FH!RootCause'
  BY <1>5 DEF FH!set_faultBitFromISR, FH!Latch, FH!callVars, FH!handlerVars
<1>6. CASE FH!ExecuteSetBits \/ QueueStep
  BY <1>6 DEF FH!ExecuteSetBits, QueueStep, fhVars, FH!latchVars, FH!callVars,
     FH!handlerVars
<1>7. CASE FH!HandlerStep
  BY <1>7 DEF FH!HandlerStep, FH!TakeSemaphore, FH!ReadFirstFault, FH!Respond,
     FH!NextStage, FH!latchVars, FH!callVars
<1>8. QED
  BY <1>1, <1>2, <1>3, <1>4, <1>5, <1>6, <1>7 DEF FaultStep, FH!CallStep

(* Whatever the scheduler and the other tasks do, the running firmware     *)
(* opens the contactors and ends in Fault_Loop for the fault that was      *)
(* latched first, and only when one was.                                   *)
THEOREM FirmwareHandlesRootCause == Spec => []FH!RootCause
<1>1. Init => FH!RootCause
  BY DEF Init, FH!Init, FH!RootCause, FH!Waiting, FH!Inside
<1>2. StartupInv /\ FH!RootCause /\ [Next]_vars => FH!RootCause'
  BY RootCauseStep, StepIsFaultStep DEF StartupInv
<1>3. QED
  BY <1>1, <1>2, StartupInvariant, PTL DEF Spec

-----------------------------------------------------------------------------
(* A command posted for a sense timer makes no event bit pending.          *)
LEMMA PendingAfterPost ==
  ASSUME FaultInv, NEW cmd \in Commands, timerQueue' = FH!Posted(timerQueue, cmd),
         UNCHANGED faultBits, FH!BitPending'
  PROVE  FH!BitPending \/ \E b \in FH!Faults : cmd = FH!SetBitsCmd(b)
  BY QueuedPosted, CommandsDiffer DEF FaultInv, FH!BitPending

(* Nor does taking one off the queue: the bit it sets was pending before.  *)
LEMMA PendingAfterTail ==
  ASSUME FaultInv, timerQueue # <<>>, timerQueue' = Tail(timerQueue),
         \/ UNCHANGED faultBits
         \/ \E b \in FH!Faults : Head(timerQueue) = FH!SetBitsCmd(b),
         FH!BitPending'
  PROVE  FH!BitPending
<1>1. CASE \E b \in FH!Faults : Head(timerQueue) = FH!SetBitsCmd(b)
  <2>1. Head(timerQueue) = timerQueue[1] /\ 1 \in 1..Len(timerQueue)
    BY DEF FaultInv
  <2>2. QED
    BY <1>1, <2>1 DEF FH!BitPending, FH!Queued
<1>2. CASE UNCHANGED faultBits
  BY <1>2, QueuedTail, CommandsDiffer DEF FaultInv, FH!BitPending
<1>3. QED
  BY <1>1, <1>2

(* Every step of the firmware keeps a pending bit announced.               *)
LEMMA WakeupStep ==
  ASSUME FaultInv, FH!WakeupInv, FaultStep \/ QueueStep
  PROVE  FH!WakeupInv'
<1> USE DEF FH!WakeupInv, FH!NoLostWakeup, FH!Waiting, FH!Inside
<1>1. CASE FH!faultHandler_init
  <2>1. ~FH!BitPending'
    BY <1>1 DEF FH!faultHandler_init, FH!BitPending
  <2>2. QED
    BY <1>1, <2>1 DEF FH!faultHandler_init, FH!callVars, FH!handlerVars
<1>2. CASE FH!CreateHandler
  <2>1. FH!BitPending' = FH!BitPending
    BY <1>2 DEF FH!CreateHandler, FH!BitPending
  <2>2. QED
    BY <1>2, <2>1 DEF FH!CreateHandler, FH!latchVars, FH!callVars
<1>3. ASSUME NEW t \in Callers, NEW b \in FH!Faults, FH!set_faultBit(t, b)
      PROVE  FH!WakeupInv'
  <2>1. FH!BitPending' = FH!BitPending
    BY <1>3 DEF FH!set_faultBit, FH!BitPending
  <2>2. pc'[t] = "test" /\ \A s \in Callers : pc[s] = "give" => pc'[s] = "give"
    BY <1>3 DEF FH!set_faultBit, FH!Goto, FaultInv
  <2>3. QED
    BY <1>3, <2>1, <2>2 DEF FH!set_faultBit, FH!handlerVars
<1>4. ASSUME NEW t \in Callers, FH!TestBit(t)
      PROVE  FH!WakeupInv'
  <2>1. /\ FH!BitPending' = FH!BitPending
        /\ UNCHANGED <<FH!latchVars, FH!handlerVars, faultSemaphore>>
    BY <1>4 DEF FH!TestBit, FH!BitPending
  <2>2. \A s \in Callers : pc[s] = "give" => pc'[s] = "give"
    BY <1>4 DEF FH!TestBit, FH!Goto, FH!Return, FaultInv
  <2>3. CASE FH!BitSet(arg[t])
    <3>1. FH!BitPending
      BY <1>4, <2>3, FaultAddress DEF FH!BitPending, FH!BitSet, FH!TestBit, FaultInv
    <3>2. fault_bits_initialized
      BY <3>1
    <3>3. QED
      BY <2>1, <2>2, <3>1, <3>2 DEF FH!latchVars, FH!handlerVars
  <2>4. CASE ~FH!BitSet(arg[t])
    <3>1. pc'[t] = "set" /\ fault_bits_initialized
      BY <1>4, <2>4 DEF FH!TestBit, FH!Goto, FaultInv
    <3>2. QED
      BY <2>1, <2>2, <3>1 DEF FH!latchVars, FH!handlerVars
  <2>5. QED
    BY <2>3, <2>4
<1>5. ASSUME NEW t \in Callers, FH!SetBits(t)
      PROVE  FH!WakeupInv'
  <2>1. pc'[t] = "give" /\ fault_bits_initialized
    BY <1>5 DEF FH!SetBits, FH!Goto, FaultInv
  <2>2. QED
    BY <1>5, <2>1 DEF FH!SetBits, FH!latchVars
<1>6. ASSUME NEW t \in Callers, FH!GiveSemaphore(t)
      PROVE  FH!WakeupInv'
  <2>1. fault_bits_initialized
    BY <1>6 DEF FH!GiveSemaphore
  <2>2. QED
    BY <1>6, <2>1 DEF FH!GiveSemaphore, FH!latchVars
<1>7. ASSUME NEW b \in FH!Faults, FH!set_faultBitFromISR(b)
      PROVE  FH!WakeupInv'
  <2>1. CASE FH!BitSet(b)
    <3>1. FH!BitPending
      BY <2>1, FaultAddress DEF FH!BitPending, FH!BitSet
    <3>2. UNCHANGED <<timerQueue, faultSemaphore>>
      BY <1>7, <2>1 DEF FH!set_faultBitFromISR
    <3>3. QED
      BY <1>7, <3>1, <3>2 DEF FH!set_faultBitFromISR, FH!callVars, FH!handlerVars
  <2>2. CASE ~FH!BitSet(b)
    BY <1>7, <2>2 DEF FH!set_faultBitFromISR
  <2>3. QED
    BY <2>1, <2>2
<1>8. CASE QueueStep
  <2>1. FH!BitPending' => FH!BitPending
    <3>1. CASE UNCHANGED timerQueue
      BY <1>8, <3>1 DEF QueueStep, fhVars, FH!BitPending
    <3>2. CASE StartPosted
      BY <1>8, <3>2, PendingAfterPost, CommandsDiffer DEF QueueStep, StartPosted, fhVars
    <3>3. CASE StartTaken
      BY <1>8, <3>3, PendingAfterTail DEF QueueStep, StartTaken, fhVars
    <3>4. QED
      BY <1>8, <3>1, <3>2, <3>3 DEF QueueStep
  <2>2. QED
    BY <1>8, <2>1 DEF QueueStep, fhVars
<1>9. CASE FH!ExecuteSetBits
  <2>1. FH!BitPending' => FH!BitPending
    BY <1>9, PendingAfterTail DEF FH!ExecuteSetBits, FH!TimerTaskReady
  <2>2. QED
    BY <1>9, <2>1 DEF FH!ExecuteSetBits, FH!latchVars, FH!callVars, FH!handlerVars
<1>10. CASE FH!HandlerStep
  <2>1. FH!BitPending' = FH!BitPending /\ UNCHANGED <<FH!latchVars, FH!callVars>>
    BY <1>10 DEF FH!HandlerStep, FH!TakeSemaphore, FH!ReadFirstFault, FH!Respond,
       FH!BitPending
  <2>2. handler_pc' \notin {"absent", "wait"}
    BY <1>10 DEF FH!HandlerStep, FH!TakeSemaphore, FH!ReadFirstFault, FH!Respond,
       FH!NextStage
  <2>3. QED
    BY <2>1, <2>2 DEF FH!latchVars, FH!callVars
<1>11. QED
  BY <1>1, <1>2, <1>3, <1>4, <1>5, <1>6, <1>7, <1>8, <1>9, <1>10 DEF FaultStep,
     FH!CallStep

(* The running firmware loses no wake-up of Task_FaultHandler, though the  *)
(* scheduler orders the callers, the timer service task may lag behind the *)
(* interrupt handler, and the handler is created after the first faults.   *)
THEOREM FirmwareLosesNoWakeup == Spec => []FH!NoLostWakeup
<1>1. Init => FH!WakeupInv
  BY DEF Init, FH!Init, FH!WakeupInv, FH!NoLostWakeup, FH!BitPending, FH!Queued,
     FH!Inside
<1>2. StartupInv /\ FH!WakeupInv /\ [Next]_vars => FH!WakeupInv'
  BY WakeupStep, StepIsFaultStep DEF StartupInv
<1>3. FH!WakeupInv => FH!NoLostWakeup
  BY DEF FH!WakeupInv
<1>4. QED
  BY <1>1, <1>2, <1>3, StartupInvariant, PTL DEF Spec

-----------------------------------------------------------------------------
(* Every step of the firmware trips the latch of FaultLatch, makes it safe *)
(* or leaves it alone.                                                     *)
LEMMA LatchStep ==
  ASSUME FaultInv, FH!RootCause, FaultStep \/ QueueStep
  PROVE  [FH!Promise!Next]_(FH!Promise!latch)
<1> USE DEF FH!Promise!Next, FH!Promise!latch, FH!Promise!Trip, FH!Promise!MakeSafe
<1>1. ASSUME UNCHANGED <<system_has_faulted, first_fault_id, fault_bit_index>>,
             handler_pc = "loop" <=> handler_pc' = "loop"
      PROVE  UNCHANGED FH!Promise!latch
  BY <1>1
<1>2. ASSUME NEW b \in FH!Faults, FH!Latch(b), UNCHANGED FH!handlerVars
      PROVE  [FH!Promise!Next]_(FH!Promise!latch)
  <2>1. CASE system_has_faulted
    BY <1>2, <2>1 DEF FH!Latch, FH!handlerVars, FaultInv
  <2>2. CASE ~system_has_faulted
    <3>1. handler_pc # "loop" /\ handler_pc' # "loop"
      BY <1>2, <2>2 DEF FH!RootCause, FH!Waiting, FH!handlerVars
    <3>2. FH!Promise!Trip(b)
      BY <1>2, <2>2, <3>1 DEF FH!Latch
    <3>3. QED
      BY <3>2
  <2>3. QED
    BY <2>1, <2>2
<1>3. CASE FH!HandlerStep
  <2>1. CASE FH!Respond /\ handler_pc = "report"
    <3>1. system_has_faulted /\ fault_bit_index = first_fault_id
      BY <2>1 DEF FH!RootCause, FH!Waiting
    <3>2. FH!Promise!MakeSafe
      BY <2>1, <3>1 DEF FH!Respond, FH!NextStage, FH!latchVars
    <3>3. QED
      BY <3>2
  <2>2. CASE ~(FH!Respond /\ handler_pc = "report")
    <3>1. /\ UNCHANGED <<system_has_faulted, first_fault_id>>
          /\ handler_pc # "loop" /\ handler_pc' # "loop"
      BY <1>3, <2>2 DEF FH!HandlerStep, FH!TakeSemaphore, FH!ReadFirstFault,
         FH!Respond, FH!NextStage, FH!latchVars
    <3>2. QED
      BY <3>1
  <2>3. QED
    BY <2>1, <2>2
<1>4. CASE FH!faultHandler_init \/ FH!CreateHandler \/ FH!ExecuteSetBits \/ QueueStep
  BY <1>1, <1>4 DEF FH!faultHandler_init, FH!CreateHandler, FH!ExecuteSetBits,
     QueueStep, fhVars, FH!latchVars, FH!handlerVars
<1>5. ASSUME NEW t \in Callers, FH!CallStep(t)
      PROVE  [FH!Promise!Next]_(FH!Promise!latch)
  BY <1>1, <1>5 DEF FH!CallStep, FH!TestBit, FH!SetBits, FH!GiveSemaphore,
     FH!latchVars, FH!handlerVars
<1>6. ASSUME NEW t \in Callers, NEW b \in FH!Faults, FH!set_faultBit(t, b)
      PROVE  [FH!Promise!Next]_(FH!Promise!latch)
  BY <1>2, <1>6 DEF FH!set_faultBit
<1>7. ASSUME NEW b \in FH!Faults, FH!set_faultBitFromISR(b)
      PROVE  [FH!Promise!Next]_(FH!Promise!latch)
  BY <1>2, <1>7 DEF FH!set_faultBitFromISR
<1>8. QED
  BY <1>3, <1>4, <1>5, <1>6, <1>7 DEF FaultStep

(* The running firmware implements the abstract latch, safety part: it     *)
(* trips once, on the first fault of any task, callback or interrupt, and  *)
(* is made safe once, in the name of that fault.                           *)
THEOREM FirmwareImplementsLatch == Spec => FH!Promise!Safety
<1>1. Init => FH!Promise!Init
  BY DEF Init, FH!Init, FH!Promise!Init
<1>2. StartupInv /\ FH!RootCause /\ [Next]_vars => [FH!Promise!Next]_(FH!Promise!latch)
  BY LatchStep, StepIsFaultStep DEF StartupInv
<1>3. QED
  BY <1>1, <1>2, StartupInvariant, FirmwareHandlesRootCause, PTL
     DEF Spec, FH!Promise!Safety
-----------------------------------------------------------------------------
(* The contactor driver inside the firmware.  The strengthening is the one *)
(* of the driver alone, with Task_Init as its only client: a write of the  *)
(* pin uncovers the movement until the request to time it is accepted, and *)
(* a covered movement has ended, is timed or is about to be.               *)
PinsTyped ==
  /\ state \in [CT!Contactors -> CT!Positions]
  /\ sense \in [CT!Contactors -> CT!Positions]
  /\ stuck \in [CT!Contactors -> BOOLEAN]
  /\ senseTimer \in [CT!Contactors -> {"dormant", "active"}]
  /\ covered \in [CT!Contactors -> BOOLEAN]

InitHoldsMutex ==
  set_pc["Init"] \in {"pin", "state", "start", "give"} => contactorsMutex = "Init"
PinWritten ==
  emergency_pc = "idle" /\ set_pc["Init"] = "state" =>
    control[set_arg["Init"].num] = set_arg["Init"].to
WriteUncovers ==
  set_pc["Init"] \in {"state", "start"} => ~covered[set_arg["Init"].num]
MovementIsTimed ==
  \A c \in CT!Contactors : covered[c] /\ ~stuck[c] =>
    CT!StartPending(c) \/ senseTimer[c] = "active" \/ CT!Settled(c)

ContactorInv ==
  /\ PinsTyped /\ InitHoldsMutex /\ PinWritten /\ WriteUncovers
  /\ MovementIsTimed /\ CT!PinStateAgree

(* Both components see one queue, and each posts to it alike.              *)
LEMMA OneQueue ==
  /\ \A q, cmd : /\ CT!Posted(q, cmd) = FH!Posted(q, cmd)
                 /\ CT!Queued(q, cmd) <=> FH!Queued(q, cmd)
  /\ \A q : CT!Full(q) <=> FH!Full(q)
  /\ \A c : CT!StartCmd(c) = FH!StartCmd(c)
  BY DEF CT!Posted, FH!Posted, CT!Queued, FH!Queued, CT!Full, FH!Full, CT!StartCmd,
     FH!StartCmd

(* Two contactors have two commands.                                       *)
LEMMA StartsDiffer ==
  ASSUME NEW c, NEW d, CT!StartCmd(c) = CT!StartCmd(d)
  PROVE  c = d
  BY DEF CT!StartCmd

(* Every step of the firmware keeps what the driver relies on, although    *)
(* the fault handler puts its commands into the queue of the sense timers. *)
LEMMA ContactorInvStep ==
  ASSUME FaultInv, DriverInv, ContactorInv, ContactorStep \/ NoContactorStep
  PROVE  ContactorInv'
<1> DEFINE num == set_arg["Init"].num
<1>0. /\ control \in [CT!Contactors -> CT!Positions]
      /\ set_pc \in [{"Init"} -> CT!SetPc] /\ set_arg \in [{"Init"} -> CT!Commands]
      /\ num \in CT!Contactors /\ set_arg["Init"].to \in CT!Positions
      /\ emergency_num \in CT!Contactors
      /\ timerQueue \in Seq(Commands)
  BY DEF DriverInv, FaultInv, CT!Commands
<1>a. /\ PinsTyped /\ InitHoldsMutex /\ PinWritten /\ WriteUncovers
      /\ MovementIsTimed /\ CT!PinStateAgree
  BY DEF ContactorInv
<1> HIDE DEF num
<1> USE DEF ContactorInv, PinsTyped, InitHoldsMutex, PinWritten, WriteUncovers,
    MovementIsTimed, CT!PinStateAgree, CT!StartPending, CT!Settled
<1>1. ASSUME NEW cmd \in CT!Commands, CT!contactor_set("Init", cmd)
      PROVE  ContactorInv'
  BY <1>0, <1>1 DEF CT!contactor_set, CT!Goto, CT!pinVars, CT!plantVars,
     CT!emergencyVars
<1>2. CASE CT!TakeMutex("Init")
  BY <1>0, <1>2 DEF CT!TakeMutex, CT!Goto, CT!pinVars, CT!plantVars, CT!emergencyVars
<1>3. CASE CT!TakeTimesOut("Init")
  BY <1>0, <1>3 DEF CT!TakeTimesOut, CT!Return, CT!Goto, CT!pinVars, CT!plantVars,
     CT!emergencyVars
<1>4. CASE CT!WritePin("Init")
  BY <1>0, <1>4 DEF CT!WritePin, CT!DrivePin, CT!Goto, CT!plantVars, CT!emergencyVars,
     num
<1>5. CASE CT!WriteState("Init")
  BY <1>0, <1>5 DEF CT!WriteState, CT!Goto, CT!plantVars, CT!emergencyVars, num
<1>6. CASE CT!StartSenseTimer("Init")
  <2>1. /\ ~CT!Full(timerQueue) => CT!StartPending(num)'
        /\ \A c \in CT!Contactors : CT!StartPending(c) => CT!StartPending(c)'
    BY <1>0, <1>6, QueuedPosted, OneQueue, CommandsDiffer
       DEF CT!StartSenseTimer, CT!StartPending, num
  <2>2. InitHoldsMutex' /\ PinWritten' /\ WriteUncovers' /\ CT!PinStateAgree'
    BY <1>0, <1>6 DEF CT!StartSenseTimer, CT!Goto, CT!plantVars, CT!emergencyVars, num
  <2>3. PinsTyped'
    BY <1>0, <1>6 DEF CT!StartSenseTimer, CT!plantVars
  <2>4. MovementIsTimed'
    BY <1>0, <1>6, <2>1 DEF CT!StartSenseTimer, CT!plantVars, num
  <2>5. QED
    BY <2>2, <2>3, <2>4
<1>7. CASE CT!GiveMutex("Init")
  BY <1>0, <1>7 DEF CT!GiveMutex, CT!Return, CT!Goto, CT!pinVars, CT!plantVars,
     CT!emergencyVars
<1>8. CASE CT!EmergencyStart
  BY <1>8 DEF CT!EmergencyStart, CT!pinVars, CT!plantVars, CT!clientVars
<1>9. CASE CT!EmergencyPin
  BY <1>0, <1>9 DEF CT!EmergencyPin, CT!DrivePin, CT!plantVars, CT!clientVars
<1>10. CASE CT!EmergencyState
  BY <1>0, <1>10 DEF CT!EmergencyState, CT!plantVars, CT!clientVars, CT!Positions
<1>11. ASSUME NEW c \in CT!Contactors, CT!Settle(c)
       PROVE  ContactorInv'
  BY <1>0, <1>11 DEF CT!Settle, CT!pinVars, CT!clientVars, CT!emergencyVars
<1>12. ASSUME NEW c \in CT!Contactors, CT!Stick(c)
       PROVE  ContactorInv'
  BY <1>12 DEF CT!Stick, CT!pinVars, CT!clientVars, CT!emergencyVars
<1>13. ASSUME NEW c \in CT!Contactors, CT!ExecuteStart(c)
       PROVE  ContactorInv'
  <2>1. \A d \in CT!Contactors : CT!StartPending(d) => d = c \/ CT!StartPending(d)'
    BY <1>0, <1>13, QueuedTail, OneQueue, CommandsDiffer, StartsDiffer
       DEF CT!ExecuteStart, CT!StartPending
  <2>2. MovementIsTimed'
    BY <1>13, <2>1 DEF CT!ExecuteStart, CT!pinVars, CT!plantVars
  <2>3. PinsTyped' /\ InitHoldsMutex' /\ PinWritten' /\ WriteUncovers'
        /\ CT!PinStateAgree'
    BY <1>13 DEF CT!ExecuteStart, CT!pinVars, CT!plantVars, CT!clientVars,
       CT!emergencyVars
  <2>4. QED
    BY <2>2, <2>3
<1>14. ASSUME NEW c \in CT!Contactors, CT!Expire(c)
       PROVE  ContactorInv'
  BY <1>14 DEF CT!Expire, CT!MayExpire, CT!pinVars, CT!plantVars, CT!clientVars,
     CT!emergencyVars
<1>15. ASSUME NEW c \in CT!Contactors, CT!MonitorVerify(c)
       PROVE  ContactorInv'
  BY <1>15 DEF CT!MonitorVerify, CT!pinVars, CT!plantVars, CT!clientVars,
     CT!emergencyVars
<1>16. CASE NoContactorStep
  <2>1. \A c \in CT!Contactors : CT!StartPending(c) => CT!StartPending(c)'
    <3>1. CASE UNCHANGED timerQueue
      BY <3>1
    <3>2. CASE SetBitsPosted
      BY <1>0, <3>2, QueuedPosted, OneQueue, CommandsDiffer DEF SetBitsPosted
    <3>3. CASE SetBitsTaken
      BY <1>0, <3>3, QueuedTail, OneQueue, CommandsDiffer DEF SetBitsTaken
    <3>4. QED
      BY <1>16, <3>1, <3>2, <3>3 DEF NoContactorStep
  <2>2. QED
    BY <1>16, <2>1 DEF NoContactorStep, ctVars
<1>17. QED
  BY <1>1, <1>2, <1>3, <1>4, <1>5, <1>6, <1>7, <1>8, <1>9, <1>10, <1>11, <1>12,
     <1>13, <1>14, <1>15, <1>16 DEF ContactorStep, CT!SetStep, CT!EmergencyStep

(* contactor_init leaves the strengthening true.                           *)
LEMMA ContactorInvInit == Init => ContactorInv
<1> SUFFICES ASSUME Init PROVE ContactorInv
  OBVIOUS
<1>1. PinsTyped
  BY DEF Init, CT!Init, PinsTyped, CT!contactor_get
<1>2. InitHoldsMutex /\ PinWritten /\ WriteUncovers
  BY DEF Init, CT!Init, InitHoldsMutex, PinWritten, WriteUncovers
<1>3. MovementIsTimed
  BY DEF Init, CT!Init, MovementIsTimed, CT!Settled
<1>4. CT!PinStateAgree
  BY DEF Init, CT!Init, CT!PinStateAgree, CT!contactor_get
<1>5. QED
  BY <1>1, <1>2, <1>3, <1>4 DEF ContactorInv

(* Nor does the running firmware, until an emergency begins, report a      *)
(* healthy contactor outside the window contactor_set opens: the commands  *)
(* of the fault handler in the same queue delay the start of a sense timer *)
(* but take no accepted one away.                                          *)
THEOREM FirmwareNoFalseAlarm == Spec => []CT!FalseAlarmWindow
<1>1. StartupInv /\ ContactorInv /\ [Next]_vars => ContactorInv'
  BY ContactorInvStep, StepIsContactorStep DEF StartupInv
<1>2. ContactorInv => CT!FalseAlarmWindow
  <2> SUFFICES ASSUME ContactorInv, emergency_pc = "idle",
                      NEW c \in CT!Contactors, ~stuck[c], CT!AlarmArmed(c), covered[c],
                      ~CT!StartPending(c)
               PROVE  FALSE
    BY DEF CT!FalseAlarmWindow
  <2>1. CT!Settled(c)
    BY DEF ContactorInv, MovementIsTimed, CT!AlarmArmed
  <2>2. state[c] # control[c]
    BY <2>1 DEF CT!AlarmArmed, CT!Mismatch, CT!contactor_get, CT!Settled
  <2>3. set_pc["Init"] = "state" /\ set_arg["Init"].num = c
    BY <2>2 DEF ContactorInv, CT!PinStateAgree
  <2>4. QED
    BY <2>3 DEF ContactorInv, WriteUncovers
<1>3. QED
  BY <1>1, <1>2, ContactorInvInit, StartupInvariant, PTL DEF Spec
=============================================================================
