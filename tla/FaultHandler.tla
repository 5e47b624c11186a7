---------------------------- MODULE FaultHandler ----------------------------
(***************************************************************************)
(* The fault latch of the battery protection system: Core/Inc/faultHandler.h, *)
(* Core/Src/faultHandler.c and Tasks/Src/FaultHandlerTask.c.               *)
(*                                                                         *)
(* Any task calls set_faultBit, any interrupt handler set_faultBitFromISR. *)
(* The first call latches the root cause; every call records its bit in    *)
(* an event group and wakes the fault handler task through a binary        *)
(* semaphore.  A task may be preempted between any two of its steps; an    *)
(* interrupt handler runs to completion as far as tasks can tell.          *)
(***************************************************************************)
EXTENDS Naturals, Sequences, TimerQueue

CONSTANTS Tasks,           (* the tasks that call set_faultBit             *)
          TimerTask,       (* the timer service task, one of them          *)
          OtherTimer,      (* any timer whose commands share the queue     *)
          NUM_FAULTS,      (* length of the enumeration fault_bit_t        *)
          MAX_FAULT_BITS   (* usable bits of one event group               *)

ASSUME FaultHandlerAssumption ==
  /\ TimerTask \in Tasks
  /\ NUM_FAULTS \in Nat \ {0}
  /\ MAX_FAULT_BITS \in Nat \ {0}

Faults == 0..(NUM_FAULTS - 1)
(* The argument of a task that is not inside set_faultBit. *)
NoFault == NUM_FAULTS

(* Mutant of GroupOf: every fault in the first group.                      *)
OneGroup(bit_index) == 0

(* A fault is one bit of one event group. *)
GroupOf(bit_index) == bit_index \div MAX_FAULT_BITS
BitOf(bit_index)   == bit_index % MAX_FAULT_BITS
Groups == 0..((NUM_FAULTS - 1) \div MAX_FAULT_BITS)

VARIABLES
  fault_bits_initialized,
  system_has_faulted,
  first_fault_id,
  faultBits,        (* event group -> the set of its bits that are set     *)
  faultSemaphore,   (* the count of the binary semaphore                   *)
  timerQueue,       (* commands waiting for the timer service task         *)
  pc,               (* where each task stands in set_faultBit              *)
  arg,              (* and the bit_index it was called with                *)
  handler_pc,       (* where Task_FaultHandler stands                      *)
  fault_bit_index,  (* local variable of Task_FaultHandler                 *)
  raised,           (* history: every fault reported so far                *)
  droppedBits       (* history: bits whose deferred setting was discarded  *)

latchVars   == <<fault_bits_initialized, system_has_faulted, first_fault_id>>
callVars    == <<pc, arg>>
handlerVars == <<handler_pc, fault_bit_index>>
history     == <<raised, droppedBits>>
vars == <<latchVars, faultBits, faultSemaphore, timerQueue, callVars,
          handlerVars, history>>

CallPc    == {"idle", "test", "set", "give"}
HandlerPc == {"absent", "wait", "read", "indicate", "open", "fans", "report",
              "loop"}

(* The event bit of a fault, as xEventGroupGetBits would show it. *)
BitSet(bit_index) == BitOf(bit_index) \in faultBits[GroupOf(bit_index)]
WithBit(bit_index) ==
  [faultBits EXCEPT ![GroupOf(bit_index)] = @ \union {BitOf(bit_index)}]

(* is_fault_set(bit_index); NUM_FAULTS asks for any fault at all. *)
is_fault_set(bit_index) ==
  IF bit_index = NUM_FAULTS
    THEN \E g \in Groups : faultBits[g] # {}
    ELSE BitSet(bit_index)

-----------------------------------------------------------------------------
Init ==
  /\ fault_bits_initialized = FALSE
  /\ system_has_faulted = FALSE
  /\ first_fault_id = 0
  /\ faultBits = [g \in Groups |-> {}]
  /\ faultSemaphore = 0
  /\ timerQueue = <<>>
  /\ pc = [t \in Tasks |-> "idle"]
  /\ arg = [t \in Tasks |-> NoFault]
  /\ handler_pc = "absent"
  /\ fault_bit_index = 0
  /\ raised = {}
  /\ droppedBits = {}

(* faultHandler_init: creates the event groups, all clear, and the         *)
(* semaphore, empty.  A second call returns at once.                       *)
faultHandler_init ==
  /\ ~fault_bits_initialized
  /\ faultBits' = [g \in Groups |-> {}]
  /\ faultSemaphore' = 0
  /\ fault_bits_initialized' = TRUE
  /\ UNCHANGED <<system_has_faulted, first_fault_id, timerQueue, callVars,
                 handlerVars, history>>

(* Task_Init creates Task_FaultHandler only after the drivers are up.      *)
CreateHandler ==
  /\ fault_bits_initialized
  /\ handler_pc = "absent"
  /\ handler_pc' = "wait"
  /\ UNCHANGED <<latchVars, faultBits, faultSemaphore, timerQueue, callVars,
                 fault_bit_index, history>>

-----------------------------------------------------------------------------
(* set_faultBit, called by task t.                                         *)

(* Mutant of Latch: the last fault instead of the first.                   *)
LatchLast(bit_index) ==
  /\ system_has_faulted' = TRUE
  /\ raised' = raised \union {bit_index}
  /\ first_fault_id' = bit_index

(* The critical section both variants share: only the first caller of all  *)
(* sets the root cause.                                                    *)
Latch(bit_index) ==
  /\ system_has_faulted' = TRUE
  /\ raised' = raised \union {bit_index}
  /\ first_fault_id' = IF system_has_faulted THEN first_fault_id ELSE bit_index

Goto(t, label) == pc' = [pc EXCEPT ![t] = label]
Return(t) == Goto(t, "idle") /\ arg' = [arg EXCEPT ![t] = NoFault]

set_faultBit(t, bit_index) ==
  /\ pc[t] = "idle"
  /\ fault_bits_initialized
  /\ bit_index < NUM_FAULTS
  /\ Latch(bit_index)
  /\ Goto(t, "test")
  /\ arg' = [arg EXCEPT ![t] = bit_index]
  /\ UNCHANGED <<fault_bits_initialized, faultBits, faultSemaphore, timerQueue,
                 handlerVars, droppedBits>>

(* Mutant of TestBit: a caller that finds another fault latched already    *)
(* leaves everything to whoever raised that one.                           *)
SkipIfFaulted(t) ==
  /\ pc[t] = "test"
  /\ \/ raised = {arg[t]} /\ Goto(t, "set") /\ UNCHANGED arg
     \/ raised # {arg[t]} /\ Return(t)
  /\ UNCHANGED <<latchVars, faultBits, faultSemaphore, timerQueue, handlerVars,
                 history>>

TestBit(t) ==
  /\ pc[t] = "test"
  /\ \/ ~BitSet(arg[t]) /\ Goto(t, "set") /\ UNCHANGED arg
     \/ BitSet(arg[t]) /\ Return(t)
  /\ UNCHANGED <<latchVars, faultBits, faultSemaphore, timerQueue, handlerVars,
                 history>>

SetBits(t) ==
  /\ pc[t] = "set"
  /\ faultBits' = WithBit(arg[t])
  /\ Goto(t, "give")
  /\ UNCHANGED <<latchVars, faultSemaphore, timerQueue, arg, handlerVars,
                 history>>

GiveSemaphore(t) ==
  /\ pc[t] = "give"
  /\ faultSemaphore' = 1
  /\ Return(t)
  /\ UNCHANGED <<latchVars, faultBits, timerQueue, handlerVars, history>>

(* set_faultBitFromISR: the event bit cannot be set from an interrupt, so  *)
(* a command asks the timer service task to set it; the semaphore is given *)
(* whether or not that command found room.                                 *)
set_faultBitFromISR(bit_index) ==
  /\ fault_bits_initialized
  /\ bit_index < NUM_FAULTS
  /\ Latch(bit_index)
  /\ \/ /\ BitSet(bit_index)
        /\ UNCHANGED <<timerQueue, faultSemaphore, droppedBits>>
     \/ /\ ~BitSet(bit_index)
        /\ timerQueue' = Posted(timerQueue, SetBitsCmd(bit_index))
        /\ droppedBits' = droppedBits \union
                            {b \in {bit_index} : Full(timerQueue)}
        /\ faultSemaphore' = 1
  /\ UNCHANGED <<fault_bits_initialized, faultBits, callVars, handlerVars>>

-----------------------------------------------------------------------------
(* The timer service task, external.  It takes the next command when it is *)
(* not itself inside set_faultBit, called from a timer callback.           *)

(* A task or a callback starts or resets some timer. *)
PostTimerCommand ==
  /\ ~Full(timerQueue)
  /\ timerQueue' = Posted(timerQueue, StartCmd(OtherTimer))
  /\ UNCHANGED <<latchVars, faultBits, faultSemaphore, callVars, handlerVars,
                 history>>

TimerTaskReady == timerQueue # <<>> /\ pc[TimerTask] = "idle"

ExecuteSetBits ==
  /\ TimerTaskReady
  /\ \E b \in Faults : /\ Head(timerQueue) = SetBitsCmd(b)
                       /\ faultBits' = WithBit(b)
  /\ timerQueue' = Tail(timerQueue)
  /\ UNCHANGED <<latchVars, faultSemaphore, callVars, handlerVars, history>>

ExecuteStart ==
  /\ TimerTaskReady
  /\ Head(timerQueue) = StartCmd(OtherTimer)
  /\ timerQueue' = Tail(timerQueue)
  /\ UNCHANGED <<latchVars, faultBits, faultSemaphore, callVars, handlerVars,
                 history>>

-----------------------------------------------------------------------------
(* Task_FaultHandler.                                                      *)

(* faultBit_wait(NUM_FAULTS, portMAX_DELAY): take the semaphore ...        *)
TakeSemaphore ==
  /\ handler_pc = "wait"
  /\ faultSemaphore = 1
  /\ faultSemaphore' = 0
  /\ handler_pc' = "read"
  /\ UNCHANGED <<latchVars, faultBits, timerQueue, callVars, fault_bit_index,
                 history>>

(* ... and return the root cause. *)
ReadFirstFault ==
  /\ handler_pc = "read"
  /\ fault_bit_index' = first_fault_id
  /\ handler_pc' = "indicate"
  /\ UNCHANGED <<latchVars, faultBits, faultSemaphore, timerQueue, callVars,
                 history>>

(* The response, in the order of the code: LEDs and strobe, contactors,    *)
(* fans, the report of the fault; then Fault_Loop, which never returns.    *)
(* Mutant of NextStage: handle_fault and then back to waiting.             *)
NoFaultLoop ==
  [indicate |-> "open", open |-> "fans", fans |-> "report", report |-> "wait"]

NextStage ==
  [indicate |-> "open", open |-> "fans", fans |-> "report", report |-> "loop"]

Respond ==
  /\ handler_pc \in DOMAIN NextStage
  /\ handler_pc' = NextStage[handler_pc]
  /\ UNCHANGED <<latchVars, faultBits, faultSemaphore, timerQueue, callVars,
                 fault_bit_index, history>>

-----------------------------------------------------------------------------
CallStep(t)  == TestBit(t) \/ SetBits(t) \/ GiveSemaphore(t)
HandlerStep  == TakeSemaphore \/ ReadFirstFault \/ Respond
DaemonStep   == ExecuteSetBits \/ ExecuteStart

Next ==
  \/ faultHandler_init
  \/ CreateHandler
  \/ \E t \in Tasks, b \in Faults : set_faultBit(t, b)
  \/ \E t \in Tasks : CallStep(t)
  \/ \E b \in Faults : set_faultBitFromISR(b)
  \/ PostTimerCommand
  \/ DaemonStep
  \/ HandlerStep

Spec == Init /\ [][Next]_vars

(* No task starves for ever: the periodic tasks sleep between two passes,  *)
(* and the handler and the timer service task run when they are woken.     *)
(* Nothing obliges a fault to be raised.                                   *)
Fairness ==
  /\ WF_vars(CreateHandler)
  /\ \A t \in Tasks : WF_vars(CallStep(t))
  /\ WF_vars(HandlerStep)
  /\ WF_vars(DaemonStep)

FairSpec == Spec /\ Fairness

-----------------------------------------------------------------------------
(* The variables stay in their types: in particular the semaphore is       *)
(* binary and the timer command queue never exceeds its length.            *)
Commands == {SetBitsCmd(b) : b \in Faults} \union {StartCmd(OtherTimer)}

TypeOK ==
  /\ fault_bits_initialized \in BOOLEAN
  /\ system_has_faulted \in BOOLEAN
  /\ first_fault_id \in Faults
  /\ faultBits \in [Groups -> SUBSET (0..(MAX_FAULT_BITS - 1))]
  /\ faultSemaphore \in {0, 1}
  /\ timerQueue \in Seq(Commands) /\ Len(timerQueue) <= TIMER_QUEUE_LENGTH
  /\ pc \in [Tasks -> CallPc]
  /\ arg \in [Tasks -> Faults \union {NoFault}]
  /\ \A t \in Tasks : pc[t] # "idle" => arg[t] \in Faults
  /\ handler_pc \in HandlerPc
  /\ fault_bit_index \in Faults
  /\ raised \subseteq Faults /\ droppedBits \subseteq Faults

Waiting   == handler_pc \in {"absent", "wait"}
Inside(t) == pc[t] # "idle"

(* The handler of faultHandler.c acts only on a fault that was latched,    *)
(* and from the moment faultBit_wait returns, everything it does is in the *)
(* name of the first fault, whatever other faults arrive meanwhile.        *)
RootCause ==
  /\ ~Waiting \/ faultSemaphore = 1 \/ (\E t \in Tasks : Inside(t))
       => system_has_faulted
  /\ ~Waiting /\ handler_pc # "read" => fault_bit_index = first_fault_id

(* set_faultBit gives the semaphore only when it finds its bit clear, so a *)
(* second caller may skip the give.  Still no wake-up is lost: once some   *)
(* fault is latched and until the handler is up, either the semaphore is   *)
(* available or some task is on its way to give it.                        *)
NoLostWakeup ==
  system_has_faulted /\ Waiting =>
    faultSemaphore = 1 \/ \E t \in Tasks : Inside(t)

(* Its inductive form.  A bit that is set, or about to be set by the timer *)
(* service task, has been announced: its setter gave the semaphore or is   *)
(* about to.  Nothing is pending before faultHandler_init, which empties   *)
(* both the groups and the semaphore.                                      *)
BitPending ==
  \/ \E g \in Groups : faultBits[g] # {}
  \/ \E b \in Faults : Queued(timerQueue, SetBitsCmd(b))
WakeupInv ==
  /\ ~fault_bits_initialized =>
       ~system_has_faulted /\ ~BitPending /\ \A t \in Tasks : ~Inside(t)
  /\ BitPending /\ Waiting =>
       faultSemaphore = 1 \/ \E t \in Tasks : pc[t] = "give"
  /\ NoLostWakeup

(* The event groups register exactly what was raised.  Every fault raised  *)
(* is a bit that is set, or being set by its caller, or queued, or one the *)
(* full timer queue discarded; and none of these names a fault nobody      *)
(* raised, which needs the split of the enumeration into groups of         *)
(* MAX_FAULT_BITS bits to keep any two faults apart.                       *)
BeingSet(b)  == \E t \in Tasks : pc[t] \in {"test", "set"} /\ arg[t] = b
OnRecord(b)  == is_fault_set(b) \/ BeingSet(b) \/ Queued(timerQueue, SetBitsCmd(b))
FaultRegister ==
  /\ system_has_faulted <=> raised # {}
  /\ \A b \in Faults : /\ b \in raised => OnRecord(b) \/ b \in droppedBits
                       /\ OnRecord(b) => b \in raised

(* The fault handler implements the latch of FaultLatch: the first fault   *)
(* trips it for good, and it is made safe, once, in its name.              *)
Promise == INSTANCE FaultLatch WITH
  mode    <- IF handler_pc = "loop" THEN "safe"
             ELSE IF system_has_faulted THEN "faulted" ELSE "armed",
  cause   <- IF system_has_faulted THEN first_fault_id ELSE NoFault,
  handled <- IF handler_pc = "loop" THEN fault_bit_index ELSE NoFault

ImplementsLatch == Promise!Spec
=============================================================================
