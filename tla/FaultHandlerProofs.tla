------------------------- MODULE FaultHandlerProofs -------------------------
(* Theorems about FaultHandler, for any set of tasks, any number of faults *)
(* and any width of the event groups.                                      *)
EXTENDS FaultHandler, TLAPS

USE FaultHandlerAssumption, TimerQueueLengthAssumption

(* get_target_group and the mask of a fault stay within the array of event *)
(* groups and within the usable bits of one.                               *)
LEMMA FaultAddress ==
  ASSUME NEW b \in Faults
  PROVE  GroupOf(b) \in Groups /\ BitOf(b) \in 0..(MAX_FAULT_BITS - 1)
<1>1. BitOf(b) \in 0..(MAX_FAULT_BITS - 1)
  BY DEF Faults, BitOf
<1>2. b \in Nat /\ b <= NUM_FAULTS - 1 /\ NUM_FAULTS - 1 \in Nat
  BY DEF Faults
<1>3. b \div MAX_FAULT_BITS <= (NUM_FAULTS - 1) \div MAX_FAULT_BITS
  BY <1>2
<1>4. QED
  BY <1>1, <1>2, <1>3 DEF GroupOf, Groups

(* Two faults never share a bit of an event group. *)
LEMMA FaultAddressInjective ==
  ASSUME NEW a \in Faults, NEW b \in Faults,
         GroupOf(a) = GroupOf(b), BitOf(a) = BitOf(b)
  PROVE  a = b
  BY DEF Faults, GroupOf, BitOf

-----------------------------------------------------------------------------
(* Setting an event bit keeps the groups well-formed and sets that bit.    *)
LEMMA WithBitType ==
  ASSUME TypeOK, NEW b \in Faults
  PROVE  WithBit(b) \in [Groups -> SUBSET (0..(MAX_FAULT_BITS - 1))]
  BY FaultAddress DEF TypeOK, WithBit

(* A command posted or executed keeps the queue a bounded sequence of      *)
(* commands.                                                               *)
LEMMA QueueType ==
  ASSUME TypeOK
  PROVE  /\ \A cmd \in Commands :
              /\ Posted(timerQueue, cmd) \in Seq(Commands)
              /\ Len(Posted(timerQueue, cmd)) <= TIMER_QUEUE_LENGTH
         /\ timerQueue # <<>> =>
              /\ Tail(timerQueue) \in Seq(Commands)
              /\ Len(Tail(timerQueue)) <= TIMER_QUEUE_LENGTH
  BY DEF TypeOK, Posted, Full

(* Every reachable state is well-typed: the semaphore is binary, the timer *)
(* queue bounded, the root cause a fault of the enumeration.               *)
THEOREM TypeCorrect == Spec => []TypeOK
<1>1. Init => TypeOK
  <2>1. Len(<<>>) = 0 /\ <<>> \in Seq(Commands)
    OBVIOUS
  <2>2. 0 \in Faults
    BY DEF Faults
  <2>3. [g \in Groups |-> {}] \in [Groups -> SUBSET (0..(MAX_FAULT_BITS - 1))]
    OBVIOUS
  <2>4. Init => /\ pc \in [Tasks -> CallPc]
                /\ arg \in [Tasks -> Faults \union {NoFault}]
                /\ \A t \in Tasks : pc[t] # "idle" => arg[t] \in Faults
    BY DEF Init, CallPc
  <2>5. Init => timerQueue \in Seq(Commands) /\ Len(timerQueue) <= TIMER_QUEUE_LENGTH
    BY <2>1 DEF Init
  <2>6. Init => raised \subseteq Faults /\ droppedBits \subseteq Faults
    BY DEF Init
  <2>7. Init => /\ fault_bits_initialized \in BOOLEAN /\ system_has_faulted \in BOOLEAN
                /\ faultSemaphore \in {0, 1} /\ handler_pc \in HandlerPc
    BY DEF Init, HandlerPc
  <2>8. QED
    BY <2>2, <2>3, <2>4, <2>5, <2>6, <2>7 DEF Init, TypeOK
<1>2. TypeOK /\ [Next]_vars => TypeOK'
  <2> SUFFICES ASSUME TypeOK, [Next]_vars
               PROVE  TypeOK'
    OBVIOUS
  <2>1. CASE faultHandler_init
    BY <2>1 DEF TypeOK, faultHandler_init, callVars, handlerVars, history
  <2>2. CASE CreateHandler
    BY <2>2 DEF TypeOK, CreateHandler, HandlerPc, latchVars, callVars, history
  <2>3. ASSUME NEW t \in Tasks, NEW b \in Faults, set_faultBit(t, b)
        PROVE  TypeOK'
    BY <2>3 DEF TypeOK, set_faultBit, Latch, Goto, CallPc, handlerVars
  <2>4. ASSUME NEW t \in Tasks, TestBit(t)
        PROVE  TypeOK'
    BY <2>4 DEF TypeOK, TestBit, Goto, Return, CallPc, latchVars, handlerVars,
                history
  <2>5. ASSUME NEW t \in Tasks, SetBits(t)
        PROVE  TypeOK'
    BY <2>5, WithBitType DEF TypeOK, SetBits, Goto, CallPc, latchVars,
                             handlerVars, history
  <2>6. ASSUME NEW t \in Tasks, GiveSemaphore(t)
        PROVE  TypeOK'
    BY <2>6 DEF TypeOK, GiveSemaphore, Goto, Return, CallPc, latchVars,
                handlerVars, history
  <2>7. ASSUME NEW b \in Faults, set_faultBitFromISR(b)
        PROVE  TypeOK'
    BY <2>7, QueueType DEF TypeOK, set_faultBitFromISR, Latch, Commands,
                           callVars, handlerVars
  <2>8. CASE PostTimerCommand
    BY <2>8, QueueType DEF TypeOK, PostTimerCommand, Commands, latchVars,
                           callVars, handlerVars, history
  <2>9. CASE ExecuteSetBits
    BY <2>9, QueueType, WithBitType DEF TypeOK, ExecuteSetBits, TimerTaskReady,
                           latchVars, callVars, handlerVars, history
  <2>10. CASE ExecuteStart
    BY <2>10, QueueType DEF TypeOK, ExecuteStart, TimerTaskReady, latchVars,
                            callVars, handlerVars, history
  <2>11. CASE TakeSemaphore
    BY <2>11 DEF TypeOK, TakeSemaphore, HandlerPc, latchVars, callVars, history
  <2>12. CASE ReadFirstFault
    BY <2>12 DEF TypeOK, ReadFirstFault, HandlerPc, latchVars, callVars, history
  <2>13. CASE Respond
    BY <2>13 DEF TypeOK, Respond, NextStage, HandlerPc, latchVars, callVars,
                 history
  <2>14. CASE UNCHANGED vars
    BY <2>14 DEF TypeOK, vars, latchVars, callVars, handlerVars, history
  <2>15. QED
    BY <2>1, <2>2, <2>3, <2>4, <2>5, <2>6, <2>7, <2>8, <2>9, <2>10, <2>11,
       <2>12, <2>13, <2>14 DEF Next, CallStep, HandlerStep, DaemonStep
<1>3. QED
  BY <1>1, <1>2, PTL DEF Spec

-----------------------------------------------------------------------------
(* What is queued after a command is posted, and after one is taken.       *)
LEMMA QueuedPosted ==
  ASSUME NEW q \in Seq(Commands), NEW cmd \in Commands, NEW c \in Commands
  PROVE  /\ Queued(Posted(q, cmd), c) => Queued(q, c) \/ c = cmd
         /\ Queued(q, c) => Queued(Posted(q, cmd), c)
         /\ ~Full(q) => Queued(Posted(q, cmd), cmd)
<1>1. CASE Full(q)
  BY <1>1 DEF Posted
<1>2. CASE ~Full(q)
  <2>1. /\ Posted(q, cmd) = Append(q, cmd)
        /\ Len(Append(q, cmd)) = Len(q) + 1
        /\ Append(q, cmd)[Len(q) + 1] = cmd
        /\ \A i \in 1..Len(q) : Append(q, cmd)[i] = q[i]
        /\ Len(q) \in Nat
    BY <1>2 DEF Posted
  <2>2. QED
    BY <2>1 DEF Queued
<1>3. QED
  BY <1>1, <1>2

(* Taking the first command loses that one and no other.                   *)
LEMMA QueuedTail ==
  ASSUME NEW q \in Seq(Commands), q # <<>>, NEW c \in Commands
  PROVE  /\ Queued(Tail(q), c) => Queued(q, c)
         /\ Queued(q, c) => Head(q) = c \/ Queued(Tail(q), c)
<1>1. /\ Len(Tail(q)) = Len(q) - 1 /\ Len(q) \in Nat \ {0}
      /\ Head(q) = q[1]
      /\ \A i \in 1..Len(Tail(q)) : Tail(q)[i] = q[i + 1]
  OBVIOUS
<1>2. ASSUME NEW i \in 1..Len(Tail(q)), Tail(q)[i] = c
      PROVE  i + 1 \in 1..Len(q) /\ q[i + 1] = c
  BY <1>1, <1>2
<1>3. ASSUME NEW i \in 1..Len(q), q[i] = c, i # 1
      PROVE  i - 1 \in 1..Len(Tail(q)) /\ Tail(q)[i - 1] = c
  BY <1>1, <1>3
<1>4. QED
  BY <1>1, <1>2, <1>3 DEF Queued

(* Commands of different kinds, or for different faults, differ.           *)
LEMMA CommandsDiffer ==
  ASSUME NEW a \in Faults, NEW b \in Faults
  PROVE  /\ SetBitsCmd(a) # StartCmd(OtherTimer)
         /\ SetBitsCmd(a) = SetBitsCmd(b) => a = b
         /\ SetBitsCmd(a) \in Commands /\ StartCmd(OtherTimer) \in Commands
  BY DEF SetBitsCmd, StartCmd, Commands

-----------------------------------------------------------------------------
(* What one step does to the pending bits: a bit becomes pending only when *)
(* a task sets it, on its way to give the semaphore, or when an interrupt  *)
(* handler that gives the semaphore asks the timer service task to set it. *)
LEMMA PendingAfterPost ==
  ASSUME TypeOK, TypeOK', NEW cmd \in Commands,
         timerQueue' = Posted(timerQueue, cmd), UNCHANGED faultBits, BitPending'
  PROVE  BitPending \/ \E b \in Faults : cmd = SetBitsCmd(b)
  BY QueuedPosted, CommandsDiffer DEF TypeOK, BitPending

(* Taking a command off the queue makes no bit pending: the bit it sets    *)
(* was pending as a command already.                                       *)
LEMMA PendingAfterTail ==
  ASSUME TypeOK, timerQueue # <<>>, timerQueue' = Tail(timerQueue),
         \/ UNCHANGED faultBits
         \/ \E b \in Faults : Head(timerQueue) = SetBitsCmd(b),
         BitPending'
  PROVE  BitPending
<1>1. CASE \E b \in Faults : Head(timerQueue) = SetBitsCmd(b)
  <2>1. Head(timerQueue) = timerQueue[1] /\ 1 \in 1..Len(timerQueue)
    BY DEF TypeOK
  <2>2. QED
    BY <1>1, <2>1 DEF BitPending, Queued
<1>2. CASE UNCHANGED faultBits
  BY <1>2, QueuedTail, CommandsDiffer DEF TypeOK, BitPending
<1>3. QED
  BY <1>1, <1>2

(* Every step keeps WakeupInv: the tasks that set a bit still have the     *)
(* semaphore to give, and the interrupt handlers gave it before the timer  *)
(* service task sets theirs.                                               *)
LEMMA WakeupInductive == TypeOK /\ TypeOK' /\ WakeupInv /\ [Next]_vars => WakeupInv'
<1> SUFFICES ASSUME TypeOK, TypeOK', WakeupInv, [Next]_vars
             PROVE  WakeupInv'
  OBVIOUS
<1> USE DEF WakeupInv, NoLostWakeup, Waiting, Inside
<1>1. CASE faultHandler_init
  <2>1. ~BitPending'
    BY <1>1 DEF faultHandler_init, BitPending
  <2>2. QED
    BY <1>1, <2>1 DEF faultHandler_init, callVars, handlerVars
<1>2. CASE CreateHandler
  <2>1. BitPending' = BitPending
    BY <1>2 DEF CreateHandler, BitPending
  <2>2. QED
    BY <1>2, <2>1 DEF CreateHandler, latchVars, callVars
<1>3. ASSUME NEW t \in Tasks, NEW b \in Faults, set_faultBit(t, b)
      PROVE  WakeupInv'
  <2>1. BitPending' = BitPending
    BY <1>3 DEF set_faultBit, BitPending
  <2>2. pc'[t] = "test" /\ \A s \in Tasks : pc[s] = "give" => pc'[s] = "give"
    BY <1>3 DEF set_faultBit, Goto, TypeOK
  <2>3. QED
    BY <1>3, <2>1, <2>2 DEF set_faultBit, handlerVars
<1>4. ASSUME NEW t \in Tasks, TestBit(t)
      PROVE  WakeupInv'
  <2>1. BitPending' = BitPending /\ UNCHANGED <<latchVars, handlerVars, faultSemaphore>>
    BY <1>4 DEF TestBit, BitPending
  <2>2. \A s \in Tasks : pc[s] = "give" => pc'[s] = "give"
    BY <1>4 DEF TestBit, Goto, Return, TypeOK
  <2>3. CASE BitSet(arg[t])
    <3>1. BitPending
      BY <1>4, <2>3, FaultAddress DEF BitPending, BitSet, TestBit, TypeOK
    <3>2. fault_bits_initialized
      BY <3>1
    <3>3. QED
      BY <2>1, <2>2, <3>1, <3>2 DEF latchVars, handlerVars
  <2>4. CASE ~BitSet(arg[t])
    <3>1. pc'[t] = "set" /\ fault_bits_initialized
      BY <1>4, <2>4 DEF TestBit, Goto, TypeOK
    <3>2. QED
      BY <2>1, <2>2, <3>1 DEF latchVars, handlerVars
  <2>5. QED
    BY <2>3, <2>4
<1>5. ASSUME NEW t \in Tasks, SetBits(t)
      PROVE  WakeupInv'
  <2>1. pc'[t] = "give" /\ fault_bits_initialized
    BY <1>5 DEF SetBits, Goto, TypeOK
  <2>2. QED
    BY <1>5, <2>1 DEF SetBits, latchVars
<1>6. ASSUME NEW t \in Tasks, GiveSemaphore(t)
      PROVE  WakeupInv'
  <2>1. fault_bits_initialized
    BY <1>6 DEF GiveSemaphore
  <2>2. QED
    BY <1>6, <2>1 DEF GiveSemaphore, latchVars
<1>7. ASSUME NEW b \in Faults, set_faultBitFromISR(b)
      PROVE  WakeupInv'
  <2>1. CASE BitSet(b)
    <3>1. BitPending
      BY <2>1, FaultAddress DEF BitPending, BitSet
    <3>2. UNCHANGED <<timerQueue, faultSemaphore>>
      BY <1>7, <2>1 DEF set_faultBitFromISR
    <3>3. QED
      BY <1>7, <3>1, <3>2 DEF set_faultBitFromISR, callVars, handlerVars
  <2>2. CASE ~BitSet(b)
    BY <1>7, <2>2 DEF set_faultBitFromISR
  <2>3. QED
    BY <2>1, <2>2
<1>8. CASE PostTimerCommand
  <2>1. BitPending' => BitPending
    BY <1>8, PendingAfterPost, CommandsDiffer DEF PostTimerCommand, Commands
  <2>2. QED
    BY <1>8, <2>1 DEF PostTimerCommand, latchVars, callVars, handlerVars
<1>9. CASE ExecuteSetBits
  <2>1. BitPending' => BitPending
    BY <1>9, PendingAfterTail DEF ExecuteSetBits, TimerTaskReady
  <2>2. QED
    BY <1>9, <2>1 DEF ExecuteSetBits, latchVars, callVars, handlerVars
<1>10. CASE ExecuteStart
  <2>1. BitPending' => BitPending
    BY <1>10, PendingAfterTail DEF ExecuteStart, TimerTaskReady
  <2>2. QED
    BY <1>10, <2>1 DEF ExecuteStart, latchVars, callVars, handlerVars
<1>11. CASE HandlerStep
  <2>1. BitPending' = BitPending /\ UNCHANGED <<latchVars, callVars>>
    BY <1>11 DEF HandlerStep, TakeSemaphore, ReadFirstFault, Respond, BitPending
  <2>2. handler_pc' \notin {"absent", "wait"}
    BY <1>11 DEF HandlerStep, TakeSemaphore, ReadFirstFault, Respond, NextStage
  <2>3. QED
    BY <2>1, <2>2 DEF latchVars, callVars
<1>12. CASE UNCHANGED vars
  <2>1. BitPending' = BitPending
    BY <1>12 DEF vars, BitPending
  <2>2. QED
    BY <1>12, <2>1 DEF vars, latchVars, callVars, handlerVars
<1>13. QED
  BY <1>1, <1>2, <1>3, <1>4, <1>5, <1>6, <1>7, <1>8, <1>9, <1>10, <1>11, <1>12
     DEF Next, CallStep, DaemonStep

(* In every reachable state a pending bit has been announced: its setter   *)
(* gave the semaphore to Task_FaultHandler or is about to.                 *)
THEOREM Wakeup == Spec => []WakeupInv
<1>1. Init => WakeupInv
  BY DEF Init, WakeupInv, NoLostWakeup, BitPending, Queued, Inside
<1>2. QED
  BY <1>1, WakeupInductive, TypeCorrect, PTL DEF Spec

(* No wake-up is lost, for any number of tasks and faults: a latched fault *)
(* never leaves the handler asleep with nobody about to wake it, though    *)
(* set_faultBit skips the semaphore when it finds its bit set.             *)
THEOREM NoWakeupIsLost == Spec => []NoLostWakeup
<1>1. WakeupInv => NoLostWakeup
  BY DEF WakeupInv
<1>2. QED
  BY <1>1, Wakeup, PTL

-----------------------------------------------------------------------------
(* Every step keeps RootCause: first_fault_id is written once, before any  *)
(* semaphore is given.                                                     *)
LEMMA RootCauseInductive == TypeOK /\ RootCause /\ [Next]_vars => RootCause'
<1> SUFFICES ASSUME TypeOK, RootCause, [Next]_vars
             PROVE  RootCause'
  OBVIOUS
<1> USE DEF RootCause, Waiting, Inside
<1>1. CASE faultHandler_init \/ CreateHandler
  BY <1>1 DEF faultHandler_init, CreateHandler, latchVars, callVars, handlerVars
<1>2. ASSUME NEW t \in Tasks, NEW b \in Faults, set_faultBit(t, b)
      PROVE  RootCause'
  BY <1>2 DEF set_faultBit, Latch, handlerVars
<1>3. ASSUME NEW t \in Tasks, TestBit(t) \/ SetBits(t)
      PROVE  RootCause'
  BY <1>3 DEF TestBit, SetBits, Goto, Return, TypeOK, latchVars, handlerVars
<1>4. ASSUME NEW t \in Tasks, GiveSemaphore(t)
      PROVE  RootCause'
  BY <1>4 DEF GiveSemaphore, Return, Goto, TypeOK, latchVars, handlerVars
<1>5. ASSUME NEW b \in Faults, set_faultBitFromISR(b)
      PROVE  RootCause'
  BY <1>5 DEF set_faultBitFromISR, Latch, callVars, handlerVars
<1>6. CASE PostTimerCommand \/ DaemonStep
  BY <1>6 DEF PostTimerCommand, DaemonStep, ExecuteSetBits, ExecuteStart,
              latchVars, callVars, handlerVars
<1>7. CASE HandlerStep
  BY <1>7 DEF HandlerStep, TakeSemaphore, ReadFirstFault, Respond, NextStage,
              latchVars, callVars
<1>8. CASE UNCHANGED vars
  BY <1>8 DEF vars, latchVars, callVars, handlerVars
<1>9. QED
  BY <1>1, <1>2, <1>3, <1>4, <1>5, <1>6, <1>7, <1>8 DEF Next, CallStep

(* For any number of callers and faults, what Task_FaultHandler does is    *)
(* done in the name of the first fault latched.                            *)
THEOREM HandlesRootCause == Spec => []RootCause
<1>1. Init => RootCause
  BY DEF Init, RootCause, Waiting, Inside
<1>2. QED
  BY <1>1, RootCauseInductive, TypeCorrect, PTL DEF Spec

-----------------------------------------------------------------------------
(* The latch starts armed. *)
LEMMA RefinementInit == Init => Promise!Init
  BY DEF Init, Promise!Init

(* Every step trips the latch, makes it safe or leaves it alone.           *)
LEMMA RefinementStep ==
  TypeOK /\ RootCause /\ [Next]_vars => [Promise!Next]_(Promise!latch)
<1> SUFFICES ASSUME TypeOK, RootCause, [Next]_vars
             PROVE  [Promise!Next]_(Promise!latch)
  OBVIOUS
<1> USE DEF Promise!Next, Promise!latch, Promise!Trip, Promise!MakeSafe
<1>1. ASSUME UNCHANGED <<system_has_faulted, first_fault_id, fault_bit_index>>,
             handler_pc = "loop" <=> handler_pc' = "loop"
      PROVE  UNCHANGED Promise!latch
  BY <1>1
<1>2. ASSUME NEW b \in Faults, Latch(b), UNCHANGED handlerVars
      PROVE  [Promise!Next]_(Promise!latch)
  <2>1. CASE system_has_faulted
    BY <1>2, <2>1 DEF Latch, handlerVars, TypeOK
  <2>2. CASE ~system_has_faulted
    <3>1. handler_pc # "loop" /\ handler_pc' # "loop"
      BY <1>2, <2>2 DEF RootCause, Waiting, handlerVars
    <3>2. Promise!Trip(b)
      BY <1>2, <2>2, <3>1 DEF Latch
    <3>3. QED
      BY <3>2
  <2>3. QED
    BY <2>1, <2>2
<1>3. CASE HandlerStep
  <2>1. CASE Respond /\ handler_pc = "report"
    <3>1. system_has_faulted /\ fault_bit_index = first_fault_id
      BY <2>1 DEF RootCause, Waiting
    <3>2. Promise!MakeSafe
      BY <2>1, <3>1 DEF Respond, NextStage, latchVars
    <3>3. QED
      BY <3>2
  <2>2. CASE ~(Respond /\ handler_pc = "report")
    <3>1. UNCHANGED <<system_has_faulted, first_fault_id>>
          /\ handler_pc # "loop" /\ handler_pc' # "loop"
      BY <1>3, <2>2 DEF HandlerStep, TakeSemaphore, ReadFirstFault, Respond,
                        NextStage, latchVars
    <3>2. QED
      BY <3>1
  <2>3. QED
    BY <2>1, <2>2
<1>4. CASE faultHandler_init \/ CreateHandler \/ PostTimerCommand \/ DaemonStep
  BY <1>1, <1>4 DEF faultHandler_init, CreateHandler, PostTimerCommand,
                    DaemonStep, ExecuteSetBits, ExecuteStart, latchVars,
                    handlerVars
<1>5. ASSUME NEW t \in Tasks, CallStep(t)
      PROVE  [Promise!Next]_(Promise!latch)
  BY <1>1, <1>5 DEF CallStep, TestBit, SetBits, GiveSemaphore, latchVars,
                    handlerVars
<1>6. ASSUME NEW t \in Tasks, NEW b \in Faults, set_faultBit(t, b)
      PROVE  [Promise!Next]_(Promise!latch)
  BY <1>2, <1>6 DEF set_faultBit
<1>7. ASSUME NEW b \in Faults, set_faultBitFromISR(b)
      PROVE  [Promise!Next]_(Promise!latch)
  BY <1>2, <1>7 DEF set_faultBitFromISR
<1>8. CASE UNCHANGED vars
  BY <1>1, <1>8 DEF vars, latchVars, handlerVars
<1>9. QED
  BY <1>3, <1>4, <1>5, <1>6, <1>7, <1>8 DEF Next

(* The fault handler refines the latch of FaultLatch, safety part: in any  *)
(* interleaving of any number of callers the system trips once, on the     *)
(* first fault, and is made safe once, in the name of that fault.          *)
THEOREM ImplementsLatchSafety == Spec => Promise!Safety
<1>1. QED
  BY RefinementInit, RefinementStep, TypeCorrect, HandlesRootCause, PTL
     DEF Spec, Promise!Safety

-----------------------------------------------------------------------------
(* Setting the bit of one fault registers that fault and no other.         *)
LEMMA WithBitExact ==
  ASSUME TypeOK, NEW a \in Faults, faultBits' = WithBit(a)
  PROVE  \A b \in Faults : BitSet(b)' <=> BitSet(b) \/ b = a
  BY FaultAddress, FaultAddressInjective DEF TypeOK, WithBit, BitSet

(* Every step keeps FaultRegister: a raised fault passes from its caller   *)
(* to the event groups, through the timer queue if from an interrupt.      *)
LEMMA RegisterInductive ==
  TypeOK /\ WakeupInv /\ FaultRegister /\ [Next]_vars => FaultRegister'
<1> SUFFICES ASSUME TypeOK, WakeupInv, FaultRegister, [Next]_vars
             PROVE  FaultRegister'
  OBVIOUS
<1> DEFINE InQueue(b) == Queued(timerQueue, SetBitsCmd(b))
<1>0. \A b \in Faults : /\ is_fault_set(b) <=> BitSet(b)
                        /\ is_fault_set(b)' <=> BitSet(b)'
  BY DEF is_fault_set, Faults
<1>1. CASE faultHandler_init
  <2>1. raised = {} /\ ~system_has_faulted /\ \A b \in Faults : ~OnRecord(b)
    BY <1>1 DEF faultHandler_init, FaultRegister, WakeupInv
  <2>2. \A b \in Faults : ~OnRecord(b)'
    BY <1>0, <1>1, <2>1, FaultAddress
       DEF faultHandler_init, OnRecord, BeingSet, BitSet, callVars
  <2>3. QED
    BY <1>1, <2>1, <2>2 DEF faultHandler_init, FaultRegister, history
<1>2. ASSUME UNCHANGED <<system_has_faulted, raised, droppedBits>>,
             \A b \in Faults : OnRecord(b)' <=> OnRecord(b)
      PROVE  FaultRegister'
  BY <1>2 DEF FaultRegister
<1>3. ASSUME NEW t \in Tasks, NEW a \in Faults, set_faultBit(t, a)
      PROVE  FaultRegister'
  <2>1. \A b \in Faults : BeingSet(b)' <=> BeingSet(b) \/ b = a
    BY <1>3 DEF set_faultBit, Goto, TypeOK, BeingSet
  <2>2. \A b \in Faults : OnRecord(b)' <=> OnRecord(b) \/ b = a
    BY <1>3, <2>1 DEF set_faultBit, OnRecord, is_fault_set, BitSet
  <2>3. QED
    BY <1>3, <2>2 DEF set_faultBit, Latch, FaultRegister
<1>4. ASSUME NEW t \in Tasks, TestBit(t)
      PROVE  FaultRegister'
  <2>1. CASE BitSet(arg[t])
    <3>1. \A b \in Faults : \/ b = arg[t] /\ is_fault_set(b) /\ is_fault_set(b)'
                            \/ BeingSet(b)' <=> BeingSet(b)
      BY <1>0, <1>4, <2>1 DEF TestBit, Return, Goto, TypeOK, BeingSet, BitSet
    <3>2. QED
      BY <1>2, <1>4, <3>1 DEF TestBit, OnRecord, is_fault_set, BitSet,
                              latchVars, history
  <2>2. CASE ~BitSet(arg[t])
    <3>1. \A b \in Faults : BeingSet(b)' <=> BeingSet(b)
      BY <1>4, <2>2 DEF TestBit, Goto, TypeOK, BeingSet
    <3>2. QED
      BY <1>2, <1>4, <3>1 DEF TestBit, OnRecord, is_fault_set, BitSet,
                              latchVars, history
  <2>3. QED
    BY <2>1, <2>2
<1>5. ASSUME NEW t \in Tasks, SetBits(t)
      PROVE  FaultRegister'
  <2>1. arg[t] \in Faults /\ BeingSet(arg[t])
    BY <1>5 DEF SetBits, TypeOK, BeingSet
  <2>2. \A b \in Faults : BitSet(b)' <=> BitSet(b) \/ b = arg[t]
    BY <1>5, <2>1, WithBitExact DEF SetBits
  <2>3. \A b \in Faults : b # arg[t] => (BeingSet(b)' <=> BeingSet(b))
    BY <1>5 DEF SetBits, Goto, TypeOK, BeingSet
  <2>4. \A b \in Faults : OnRecord(b)' <=> OnRecord(b)
    BY <1>0, <1>5, <2>1, <2>2, <2>3 DEF SetBits, OnRecord
  <2>5. QED
    BY <1>2, <1>5, <2>4 DEF SetBits, latchVars, history
<1>6. ASSUME NEW t \in Tasks, GiveSemaphore(t)
      PROVE  FaultRegister'
  <2>1. \A b \in Faults : BeingSet(b)' <=> BeingSet(b)
    BY <1>6 DEF GiveSemaphore, Return, Goto, TypeOK, BeingSet
  <2>2. QED
    BY <1>2, <1>6, <2>1 DEF GiveSemaphore, OnRecord, is_fault_set, BitSet,
                            latchVars, history
<1>7. ASSUME NEW a \in Faults, set_faultBitFromISR(a)
      PROVE  FaultRegister'
  <2>1. \A b \in Faults : /\ BitSet(b)' <=> BitSet(b)
                          /\ BeingSet(b)' <=> BeingSet(b)
    BY <1>7 DEF set_faultBitFromISR, BitSet, BeingSet, callVars
  <2>2. /\ raised' = raised \union {a} /\ system_has_faulted'
        /\ droppedBits \subseteq droppedBits'
    BY <1>7 DEF set_faultBitFromISR, Latch
  <2>3. \A b \in Faults : /\ InQueue(b) => InQueue(b)'
                          /\ InQueue(b)' => InQueue(b) \/ b = a
    BY <1>7, QueuedPosted, CommandsDiffer DEF set_faultBitFromISR, TypeOK
  <2>4. BitSet(a) \/ InQueue(a)' \/ a \in droppedBits'
    BY <1>7, QueuedPosted, CommandsDiffer DEF set_faultBitFromISR, TypeOK
  <2>5. QED
    BY <1>0, <2>1, <2>2, <2>3, <2>4 DEF FaultRegister, OnRecord
<1>8. CASE PostTimerCommand
  <2>1. \A b \in Faults : InQueue(b)' <=> InQueue(b)
    BY <1>8, QueuedPosted, CommandsDiffer DEF PostTimerCommand, TypeOK, Commands
  <2>2. QED
    BY <1>2, <1>8, <2>1 DEF PostTimerCommand, OnRecord, BeingSet, is_fault_set,
                            BitSet, latchVars, callVars, history
<1>9. CASE ExecuteSetBits
  <2>1. PICK a \in Faults : Head(timerQueue) = SetBitsCmd(a) /\ faultBits' = WithBit(a)
    BY <1>9 DEF ExecuteSetBits
  <2>2. InQueue(a)
    <3>1. Head(timerQueue) = timerQueue[1] /\ 1 \in 1..Len(timerQueue)
      BY <1>9 DEF ExecuteSetBits, TimerTaskReady, TypeOK
    <3>2. QED
      BY <2>1, <3>1 DEF Queued
  <2>3. \A b \in Faults : /\ InQueue(b)' => InQueue(b)
                          /\ InQueue(b) => InQueue(b)' \/ b = a
    BY <1>9, <2>1, QueuedTail, CommandsDiffer
       DEF ExecuteSetBits, TimerTaskReady, TypeOK
  <2>4. \A b \in Faults : BitSet(b)' <=> BitSet(b) \/ b = a
    BY <2>1, WithBitExact
  <2>5. \A b \in Faults : BeingSet(b)' <=> BeingSet(b)
    BY <1>9 DEF ExecuteSetBits, BeingSet, callVars
  <2>6. \A b \in Faults : OnRecord(b)' <=> OnRecord(b)
    BY <1>0, <2>2, <2>3, <2>4, <2>5 DEF OnRecord
  <2>7. QED
    BY <1>2, <1>9, <2>6 DEF ExecuteSetBits, latchVars, history
<1>10. CASE ExecuteStart
  <2>1. \A b \in Faults : InQueue(b)' <=> InQueue(b)
    BY <1>10, QueuedTail, CommandsDiffer DEF ExecuteStart, TimerTaskReady, TypeOK
  <2>2. QED
    BY <1>2, <1>10, <2>1 DEF ExecuteStart, OnRecord, BeingSet, is_fault_set,
                             BitSet, latchVars, callVars, history
<1>11. CASE CreateHandler \/ HandlerStep \/ UNCHANGED vars
  <2>1. UNCHANGED <<system_has_faulted, faultBits, timerQueue, pc, arg, raised, droppedBits>>
    BY <1>11 DEF CreateHandler, HandlerStep, TakeSemaphore, ReadFirstFault,
                 Respond, vars, latchVars, callVars, history
  <2>2. QED
    BY <1>2, <2>1 DEF OnRecord, BeingSet, is_fault_set, BitSet
<1>12. QED
  BY <1>1, <1>3, <1>4, <1>5, <1>6, <1>7, <1>8, <1>9, <1>10, <1>11
     DEF Next, CallStep, DaemonStep

(* The event groups record exactly the faults that were raised, up to the  *)
(* bits a full timer queue discarded.                                      *)
THEOREM RegisterIsExact == Spec => []FaultRegister
<1>1. Init => FaultRegister
  <2>1. Init => \A b \in Faults : ~is_fault_set(b)
    BY FaultAddress DEF Init, is_fault_set, BitSet, Faults
  <2>2. Init => \A b \in Faults : ~BeingSet(b) /\ ~Queued(timerQueue, SetBitsCmd(b))
    BY DEF Init, BeingSet, Queued
  <2>3. QED
    BY <2>1, <2>2 DEF Init, FaultRegister, OnRecord
<1>2. QED
  BY <1>1, RegisterInductive, TypeCorrect, Wakeup, PTL DEF Spec
=============================================================================
