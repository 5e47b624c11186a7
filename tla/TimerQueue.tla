----------------------------- MODULE TimerQueue -----------------------------
(***************************************************************************)
(* The command queue of the FreeRTOS timer service task.  It is external   *)
(* to the repository: only the way the code uses it is modelled.           *)
(* xTimerStart(timer, 0), xTimerReset(timer, 0) and                        *)
(* xEventGroupSetBitsFromISR all post a command with a block time of zero, *)
(* so a command that finds the queue full is discarded and the call        *)
(* returns pdFAIL, which no caller in the repository looks at.             *)
(***************************************************************************)
EXTENDS Naturals, Sequences

CONSTANT TIMER_QUEUE_LENGTH   (* configTIMER_QUEUE_LENGTH *)

ASSUME TimerQueueLengthAssumption == TIMER_QUEUE_LENGTH \in Nat \ {0}

Full(q) == Len(q) >= TIMER_QUEUE_LENGTH

(* The queue after one attempt to post cmd without waiting. *)
Posted(q, cmd) == IF Full(q) THEN q ELSE Append(q, cmd)

(* The commands the repository sends: set an event bit on behalf of an     *)
(* interrupt, or (re)start the timer with the given identity.              *)
SetBitsCmd(bit)  == <<"setBits", bit>>
StartCmd(timer)  == <<"start", timer>>

Queued(q, cmd) == \E i \in 1..Len(q) : q[i] = cmd
=============================================================================
