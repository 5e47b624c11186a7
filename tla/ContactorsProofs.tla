-------------------------- MODULE ContactorsProofs --------------------------
(* Theorems about Contactors, for any clients, any number of contactors    *)
(* and any length of the timer queue.                                      *)
EXTENDS Contactors, TLAPS

USE ContactorsAssumption, ClientsAssumption, TimerQueueLengthAssumption

Starts == {StartCmd(c) : c \in Contactors}

(* A command posted or executed keeps the queue a bounded sequence of      *)
(* commands.                                                               *)
LEMMA QueueType ==
  ASSUME TypeOK
  PROVE  /\ \A cmd \in Starts :
              /\ Posted(timerQueue, cmd) \in Seq(Starts)
              /\ Len(Posted(timerQueue, cmd)) <= TIMER_QUEUE_LENGTH
         /\ timerQueue # <<>> =>
              /\ Tail(timerQueue) \in Seq(Starts)
              /\ Len(Tail(timerQueue)) <= TIMER_QUEUE_LENGTH
<1>1. timerQueue \in Seq(Starts) /\ Len(timerQueue) <= TIMER_QUEUE_LENGTH
  BY DEF TypeOK, Starts
<1>2. QED
  BY <1>1 DEF Posted, Full

(* The state contactor_init leaves is well-typed. *)
LEMMA TypeInit == Init => TypeOK
<1> SUFFICES ASSUME Init PROVE TypeOK
  OBVIOUS
<1>1. 0 \in Contactors
  BY DEF Contactors
<1>2. timerQueue \in Seq(Starts) /\ Len(timerQueue) <= TIMER_QUEUE_LENGTH
  BY DEF Init
<1>3. sense \in [Contactors -> Positions]
  BY DEF Init
<1>4. state \in [Contactors -> Positions]
  BY <1>3 DEF Init, contactor_get
<1>5. /\ set_pc \in [Clients -> SetPc]
      /\ set_arg \in [Clients -> Commands]
  BY <1>1 DEF Init, SetPc, Commands, NoCommand, Positions
<1>6. QED
  BY <1>1, <1>2, <1>3, <1>4, <1>5 DEF Init, TypeOK, Starts, Positions

(* Every step keeps the types. *)
LEMMA TypeStep == TypeOK /\ [Next]_vars => TypeOK'
<1> SUFFICES ASSUME TypeOK, [Next]_vars
             PROVE  TypeOK'
  OBVIOUS
<1>1. ASSUME NEW p \in Clients, NEW cmd \in Commands, contactor_set(p, cmd)
      PROVE  TypeOK'
  BY <1>1 DEF TypeOK, contactor_set, Goto, SetPc, pinVars, plantVars,
              emergencyVars
<1>2. ASSUME NEW p \in Clients, TakeMutex(p)
      PROVE  TypeOK'
  BY <1>2 DEF TypeOK, TakeMutex, Goto, SetPc, pinVars, plantVars,
              emergencyVars
<1>3. ASSUME NEW p \in Clients, NEW q \in Clients \union {NoClient}, Return(p),
             contactorsMutex' = q,
             UNCHANGED <<pinVars, plantVars, senseTimer, timerQueue,
                         emergencyVars, reported>>
      PROVE  TypeOK'
  <2>1. NoCommand \in Commands
    BY DEF NoCommand, Commands, Contactors, Positions
  <2>2. QED
    BY <1>3, <2>1 DEF TypeOK, Return, Goto, SetPc, pinVars, plantVars,
                      emergencyVars
<1>4. ASSUME NEW p \in Clients, TakeTimesOut(p)
      PROVE  TypeOK'
  BY <1>3, <1>4 DEF TypeOK, TakeTimesOut
<1>5. ASSUME NEW p \in Clients, WritePin(p)
      PROVE  TypeOK'
  BY <1>5 DEF TypeOK, WritePin, DrivePin, Goto, SetPc, Commands, plantVars,
              emergencyVars
<1>6. ASSUME NEW p \in Clients, WriteState(p)
      PROVE  TypeOK'
  BY <1>6 DEF TypeOK, WriteState, Goto, SetPc, Commands, plantVars,
              emergencyVars
<1>7. ASSUME NEW p \in Clients, StartSenseTimer(p)
      PROVE  TypeOK'
  <2>1. StartCmd(set_arg[p].num) \in Starts
    BY DEF TypeOK, Commands, Starts
  <2>2. Full(timerQueue) \in BOOLEAN
    BY DEF Full
  <2>3. /\ timerQueue' \in Seq(Starts)
        /\ Len(timerQueue') <= TIMER_QUEUE_LENGTH
    BY <1>7, <2>1, QueueType DEF StartSenseTimer
  <2>4. covered' \in [Contactors -> BOOLEAN]
    BY <1>7, <2>2 DEF StartSenseTimer, TypeOK
  <2>5. QED
    BY <1>7, <2>3, <2>4 DEF TypeOK, StartSenseTimer, Starts, Goto, SetPc,
                            plantVars, emergencyVars
<1>8. ASSUME NEW p \in Clients, GiveMutex(p)
      PROVE  TypeOK'
  BY <1>3, <1>8 DEF GiveMutex
<1>9. CASE EmergencyStart
  BY <1>9 DEF TypeOK, EmergencyStart, pinVars, plantVars, clientVars
<1>10. CASE EmergencyPin
  BY <1>10 DEF TypeOK, EmergencyPin, DrivePin, Positions, plantVars,
               clientVars
<1>11. CASE EmergencyState
  BY <1>11 DEF TypeOK, EmergencyState, Positions, plantVars, clientVars
<1>12. ASSUME NEW c \in Contactors, Settle(c)
       PROVE  TypeOK'
  BY <1>12 DEF TypeOK, Settle, pinVars, clientVars, emergencyVars
<1>13. ASSUME NEW c \in Contactors, Stick(c)
       PROVE  TypeOK'
  BY <1>13 DEF TypeOK, Stick, pinVars, clientVars, emergencyVars
<1>14. ASSUME NEW c \in Contactors, ExecuteStart(c)
       PROVE  TypeOK'
  <2>1. /\ timerQueue' \in Seq(Starts)
        /\ Len(timerQueue') <= TIMER_QUEUE_LENGTH
    BY <1>14, QueueType DEF ExecuteStart
  <2>2. QED
    BY <1>14, <2>1 DEF TypeOK, ExecuteStart, Starts, pinVars, plantVars,
                       clientVars, emergencyVars
<1>15. ASSUME NEW c \in Contactors, Expire(c)
       PROVE  TypeOK'
  BY <1>15 DEF TypeOK, Expire, Report, pinVars, plantVars, clientVars,
               emergencyVars
<1>16. ASSUME NEW c \in Contactors, MonitorVerify(c)
       PROVE  TypeOK'
  BY <1>16 DEF TypeOK, MonitorVerify, Report, pinVars, plantVars, clientVars,
               emergencyVars
<1>17. CASE UNCHANGED vars
  BY <1>17 DEF TypeOK, vars, pinVars, plantVars, clientVars, emergencyVars
<1>18. QED
  BY <1>1, <1>2, <1>4, <1>5, <1>6, <1>7, <1>8, <1>9, <1>10, <1>11, <1>12,
     <1>13, <1>14, <1>15, <1>16, <1>17 DEF Next, SetStep, EmergencyStep

(* Every reachable state is well-typed; in particular the loop of          *)
(* emergency_open_contactors commands no contactor past the last.          *)
THEOREM TypeCorrect == Spec => []TypeOK
  BY TypeInit, TypeStep, PTL DEF Spec

-----------------------------------------------------------------------------
(* The strengthening both safety properties rest on: whoever stands behind *)
(* the take holds the mutex; between its two writes the pin already is     *)
(* where it was asked to be; until its request to the timer is accepted    *)
(* the movement is not covered; and a covered movement has ended, is timed *)
(* or is about to be.                                                      *)
Inside(p) == set_pc[p] \in {"pin", "state", "start", "give"}

MutexHeld == \A p \in Clients : Inside(p) => contactorsMutex = p

PinWritten ==
  emergency_pc = "idle" =>
    \A p \in Clients :
      set_pc[p] = "state" => control[set_arg[p].num] = set_arg[p].to

WritesUncover ==
  \A p \in Clients :
    set_pc[p] \in {"state", "start"} => ~covered[set_arg[p].num]

MovementIsTimed ==
  \A c \in Contactors : covered[c] /\ ~stuck[c] =>
    StartPending(c) \/ senseTimer[c] = "active" \/ Settled(c)

DriverInv ==
  /\ TypeOK
  /\ MutexHeld
  /\ PinWritten
  /\ WritesUncover
  /\ MovementIsTimed
  /\ PinStateAgree

(* What is queued after a command is posted, and after one is taken.       *)
LEMMA QueuedPosted ==
  ASSUME NEW q \in Seq(Starts), NEW cmd \in Starts, NEW d \in Starts
  PROVE  /\ Queued(q, d) => Queued(Posted(q, cmd), d)
         /\ ~Full(q) => Queued(Posted(q, cmd), cmd)
<1>1. CASE Full(q)
  BY <1>1 DEF Posted
<1>2. CASE ~Full(q)
  <2>1. /\ Posted(q, cmd) = Append(q, cmd)
        /\ Len(Append(q, cmd)) = Len(q) + 1
        /\ Append(q, cmd)[Len(q) + 1] = cmd
        /\ \A i \in 1..Len(q) : Append(q, cmd)[i] = q[i]
        /\ Len(q) \in Nat
    BY <1>2 DEF Posted
  <2>2. QED
    BY <2>1 DEF Queued
<1>3. QED
  BY <1>1, <1>2

(* Taking the first command of the timer queue loses no other.             *)
LEMMA QueuedTail ==
  ASSUME NEW q \in Seq(Starts), q # <<>>, NEW d \in Starts,
         Queued(q, d), d # Head(q)
  PROVE  Queued(Tail(q), d)
<1>1. PICK i \in 1..Len(q) : q[i] = d
  BY DEF Queued
<1>2. i # 1
  BY <1>1
<1>3. i - 1 \in 1..Len(Tail(q)) /\ Tail(q)[i - 1] = q[i]
  BY <1>2
<1>4. QED
  BY <1>1, <1>3 DEF Queued

(* The start commands of two contactors differ. *)
LEMMA StartsDiffer ==
  ASSUME NEW c, NEW d, StartCmd(c) = StartCmd(d)
  PROVE  c = d
  BY DEF StartCmd

(* The initial state satisfies the strengthening. *)
LEMMA DriverInit == Init => DriverInv
<1> SUFFICES ASSUME Init PROVE DriverInv
  OBVIOUS
<1>1. TypeOK
  BY TypeInit
<1>2. MutexHeld /\ PinWritten /\ WritesUncover
  BY DEF Init, MutexHeld, Inside, PinWritten, WritesUncover
<1>3. MovementIsTimed
  BY DEF Init, MovementIsTimed, Settled
<1>4. PinStateAgree
  BY DEF Init, PinStateAgree, contactor_get
<1>5. QED
  BY <1>1, <1>2, <1>3, <1>4 DEF DriverInv

(* Every step keeps the strengthening. *)
LEMMA DriverStep == DriverInv /\ [Next]_vars => DriverInv'
<1> SUFFICES ASSUME DriverInv, [Next]_vars
             PROVE  DriverInv'
  OBVIOUS
<1>0. TypeOK /\ TypeOK'
  BY TypeStep DEF DriverInv
<1>1. ASSUME NEW p \in Clients, NEW cmd \in Commands, contactor_set(p, cmd)
      PROVE  DriverInv'
  BY <1>0, <1>1 DEF DriverInv, TypeOK, MutexHeld, Inside, PinWritten,
     WritesUncover, MovementIsTimed, PinStateAgree, StartPending, Settled,
     contactor_set, Goto, pinVars, plantVars, emergencyVars
<1>2. ASSUME NEW p \in Clients, TakeMutex(p)
      PROVE  DriverInv'
  BY <1>0, <1>2 DEF DriverInv, TypeOK, MutexHeld, Inside, PinWritten,
     WritesUncover, MovementIsTimed, PinStateAgree, StartPending, Settled,
     TakeMutex, Goto, pinVars, plantVars, emergencyVars
<1>3. ASSUME NEW p \in Clients, TakeTimesOut(p)
      PROVE  DriverInv'
  BY <1>0, <1>3 DEF DriverInv, TypeOK, MutexHeld, Inside, PinWritten,
     WritesUncover, MovementIsTimed, PinStateAgree, StartPending, Settled,
     TakeTimesOut, Return, Goto, pinVars, plantVars, emergencyVars
<1>4. ASSUME NEW p \in Clients, WritePin(p)
      PROVE  DriverInv'
  BY <1>0, <1>4 DEF DriverInv, TypeOK, MutexHeld, Inside, PinWritten,
     WritesUncover, MovementIsTimed, PinStateAgree, StartPending, Settled,
     WritePin, DrivePin, Goto, Commands, plantVars, emergencyVars
<1>5. ASSUME NEW p \in Clients, WriteState(p)
      PROVE  DriverInv'
  BY <1>0, <1>5 DEF DriverInv, TypeOK, MutexHeld, Inside, PinWritten,
     WritesUncover, MovementIsTimed, PinStateAgree, StartPending, Settled,
     WriteState, Goto, Commands, plantVars, emergencyVars
<1>6. ASSUME NEW p \in Clients, StartSenseTimer(p)
      PROVE  DriverInv'
  <2> DEFINE num == set_arg[p].num
  <2>1. timerQueue \in Seq(Starts) /\ StartCmd(num) \in Starts /\ num \in Contactors
    BY <1>0 DEF TypeOK, Starts, Commands
  <2>2. contactorsMutex = p /\ \A q \in Clients : Inside(q) => q = p
    BY <1>6 DEF DriverInv, MutexHeld, Inside, StartSenseTimer
  <2>3. MutexHeld' /\ PinWritten' /\ WritesUncover'
    BY <1>0, <1>6, <2>2 DEF DriverInv, TypeOK, MutexHeld, Inside, PinWritten,
       WritesUncover, StartSenseTimer, Goto, plantVars, emergencyVars
  <2>4. /\ ~Full(timerQueue) => StartPending(num)'
        /\ \A c \in Contactors : StartPending(c) => StartPending(c)'
    BY <1>6, <2>1, QueuedPosted DEF StartSenseTimer, StartPending, Starts
  <2>5. MovementIsTimed'
    BY <1>0, <1>6, <2>1, <2>4 DEF DriverInv, TypeOK, MovementIsTimed, Settled,
       StartSenseTimer, plantVars
  <2>6. PinStateAgree'
    BY <1>0, <1>6, <2>2 DEF DriverInv, TypeOK, PinStateAgree, Inside,
       StartSenseTimer, Goto, plantVars, emergencyVars
  <2>7. QED
    BY <1>0, <2>3, <2>5, <2>6 DEF DriverInv
<1>7. ASSUME NEW p \in Clients, GiveMutex(p)
      PROVE  DriverInv'
  BY <1>0, <1>7 DEF DriverInv, TypeOK, MutexHeld, Inside, PinWritten,
     WritesUncover, MovementIsTimed, PinStateAgree, StartPending, Settled,
     GiveMutex, Return, Goto, pinVars, plantVars, emergencyVars
<1>8. CASE EmergencyStart
  BY <1>0, <1>8 DEF DriverInv, TypeOK, MutexHeld, Inside, PinWritten,
     WritesUncover, MovementIsTimed, PinStateAgree, StartPending, Settled,
     EmergencyStart, pinVars, plantVars, clientVars
<1>9. CASE EmergencyPin
  BY <1>0, <1>9 DEF DriverInv, TypeOK, MutexHeld, Inside, PinWritten,
     WritesUncover, MovementIsTimed, PinStateAgree, StartPending, Settled,
     EmergencyPin, DrivePin, plantVars, clientVars
<1>10. CASE EmergencyState
  BY <1>0, <1>10 DEF DriverInv, TypeOK, MutexHeld, Inside, PinWritten,
     WritesUncover, MovementIsTimed, PinStateAgree, StartPending, Settled,
     EmergencyState, plantVars, clientVars
<1>11. ASSUME NEW c \in Contactors, Settle(c)
       PROVE  DriverInv'
  BY <1>0, <1>11 DEF DriverInv, TypeOK, MutexHeld, Inside, PinWritten,
     WritesUncover, MovementIsTimed, PinStateAgree, StartPending, Settled,
     Settle, pinVars, clientVars, emergencyVars
<1>12. ASSUME NEW c \in Contactors, Stick(c)
       PROVE  DriverInv'
  BY <1>0, <1>12 DEF DriverInv, TypeOK, MutexHeld, Inside, PinWritten,
     WritesUncover, MovementIsTimed, PinStateAgree, StartPending, Settled,
     Stick, pinVars, clientVars, emergencyVars
<1>13. ASSUME NEW c \in Contactors, ExecuteStart(c)
       PROVE  DriverInv'
  <2>1. timerQueue \in Seq(Starts) /\ timerQueue # <<>>
    BY <1>0, <1>13 DEF TypeOK, Starts, ExecuteStart
  <2>2. \A d \in Contactors : StartPending(d) => d = c \/ StartPending(d)'
    BY <1>13, <2>1, QueuedTail, StartsDiffer DEF ExecuteStart, StartPending, Starts
  <2>3. MovementIsTimed'
    BY <1>0, <1>13, <2>2 DEF DriverInv, TypeOK, MovementIsTimed, Settled,
       ExecuteStart, pinVars, plantVars
  <2>4. MutexHeld' /\ PinWritten' /\ WritesUncover' /\ PinStateAgree'
    BY <1>13 DEF DriverInv, MutexHeld, Inside, PinWritten, WritesUncover,
       PinStateAgree, ExecuteStart, pinVars, plantVars, clientVars, emergencyVars
  <2>5. QED
    BY <1>0, <2>3, <2>4 DEF DriverInv
<1>14. ASSUME NEW c \in Contactors, Expire(c)
       PROVE  DriverInv'
  BY <1>0, <1>14 DEF DriverInv, TypeOK, MutexHeld, Inside, PinWritten,
     WritesUncover, MovementIsTimed, PinStateAgree, StartPending, Settled,
     Expire, MayExpire, pinVars, plantVars, clientVars, emergencyVars
<1>15. CASE UNCHANGED <<pinVars, plantVars, senseTimer, clientVars, timerQueue,
                        emergencyVars>>
  BY <1>0, <1>15 DEF DriverInv, TypeOK, MutexHeld, Inside, PinWritten,
     WritesUncover, MovementIsTimed, PinStateAgree, StartPending, Settled,
     pinVars, plantVars, clientVars, emergencyVars
<1>16. QED
  BY <1>1, <1>2, <1>3, <1>4, <1>5, <1>6, <1>7, <1>8, <1>9, <1>10, <1>11,
     <1>12, <1>13, <1>14, <1>15
     DEF Next, SetStep, EmergencyStep, MonitorVerify, vars

(* The mutex makes the control pin and the expected state of a contactor   *)
(* one variable to anyone outside contactor_set, for any number of tasks   *)
(* that command contactors and give up waiting for each other.             *)
THEOREM DriverInvariant == Spec => []DriverInv
  BY DriverInit, DriverStep, PTL DEF Spec

(* Until an emergency begins, the control pin of a contactor and the state *)
(* contactor_verify expects of it differ only between the two writes of the *)
(* holder of the mutex, or since the contactor started stuck closed.       *)
THEOREM PinAndStateAgree == Spec => []PinStateAgree
  BY DriverInvariant, PTL DEF DriverInv

(* No healthy contactor is reported outside the window in which            *)
(* contactor_set has written the pin and its request to start the sense    *)
(* timer is not yet executed, however often the timer is restarted.        *)
THEOREM NoFalseAlarm == Spec => []FalseAlarmWindow
<1>1. DriverInv => FalseAlarmWindow
  <2> SUFFICES ASSUME DriverInv, emergency_pc = "idle",
                      NEW c \in Contactors, ~stuck[c], AlarmArmed(c), covered[c],
                      ~StartPending(c)
               PROVE  FALSE
    BY DEF FalseAlarmWindow
  <2>1. Settled(c)
    BY DEF DriverInv, MovementIsTimed, AlarmArmed
  <2>2. state[c] # control[c]
    BY <2>1 DEF AlarmArmed, Mismatch, contactor_get, Settled
  <2>3. PICK p \in Clients : set_pc[p] = "state" /\ set_arg[p].num = c
    BY <2>2 DEF DriverInv, PinStateAgree
  <2>4. QED
    BY <2>3 DEF DriverInv, WritesUncover
<1>2. QED
  BY <1>1, DriverInvariant, PTL
=============================================================================
