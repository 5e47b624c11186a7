--------------------------- MODULE CanStatusProofs ---------------------------
(* Theorems about CanStatus, for any set of faults.                         *)
EXTENDS CanStatus, TLAPS

USE CanStatusAssumption

(* No fault is shown as BPS_STATUS_BPS_FAULT_OK. *)
LEMMA NoFaultShownAsOK ==
  ASSUME NEW fault
  PROVE  Shown(fault) # "OK"
<1>1. CASE fault \in DOMAIN ShownAs
  <2>1. ShownAs[fault] # "OK"
    BY <1>1 DEF ShownAs
  <2>2. QED
    BY <1>1, <2>1 DEF Shown
<1>2. CASE fault \notin DOMAIN ShownAs
  BY <1>2 DEF Shown
<1>3. QED
  BY <1>1, <1>2

(* A message being built has the fields and values of its type. *)
Statuses == {"OK"} \union {Shown(f) : f \in Faults} \union {"INTERNAL_WATCHDOG"}
Messages == [BPS_Fault : Statuses, BPS_Charge_OK : BOOLEAN, BPS_Regen_OK : BOOLEAN]

(* The state a pass of Task_Can_Status leaves between its reads.  A pass   *)
(* that began after the fault looks at no event bit and shows the cause;   *)
(* a message with a cause gives no permission; and a wrong message is sent *)
(* only by a pass that began before the fault, so there is no second.      *)
PassAfterFault ==
  faultedAtStart =>
    /\ system_has_faulted
    /\ pc # "bits"
    /\ pc \in {"charge", "send"} => msg.BPS_Fault = Shown(first_fault_id)
Permissions ==
  pc = "send" /\ msg.BPS_Fault # "OK" => ~msg.BPS_Charge_OK /\ ~msg.BPS_Regen_OK
WrongIsLast ==
  /\ wrong <= 1
  /\ wrong = 1 => system_has_faulted /\ (pc = "asleep" \/ faultedAtStart)

StatusInv == TypeOK /\ PassAfterFault /\ Permissions /\ WrongIsLast

(* The initial state satisfies the invariant. *)
LEMMA StatusInit == Init => StatusInv
<1> SUFFICES ASSUME Init PROVE StatusInv
  OBVIOUS
<1>1. NoMessage \in Messages
  BY DEF NoMessage, Messages, Statuses
<1>2. TypeOK
  <2>1. msg \in Messages /\ sent \in Messages
    BY <1>1 DEF Init
  <2>2. /\ system_has_faulted = FALSE /\ faultBits = FALSE /\ faultedAtStart = FALSE
        /\ first_fault_id = NoFault /\ xStateBits = {} /\ pc = "asleep" /\ wrong = 0
    BY DEF Init
  <2>3. \A m \in {msg, sent} : m \in Messages
    BY <2>1
  <2>4. wrong \in 0..2 /\ (system_has_faulted <=> first_fault_id # NoFault)
    BY <2>2
  <2>5. QED
    BY <2>2, <2>3, <2>4, Zenon DEF TypeOK, Messages, Statuses
<1>3. PassAfterFault /\ Permissions /\ WrongIsLast
  BY DEF Init, PassAfterFault, Permissions, WrongIsLast
<1>4. QED
  BY <1>2, <1>3 DEF StatusInv

(* Every step keeps the invariant. *)
LEMMA StatusStep == StatusInv /\ [Next]_vars => StatusInv'
<1> SUFFICES ASSUME StatusInv, [Next]_vars
             PROVE  StatusInv'
  OBVIOUS
<1>0. TypeOK /\ msg \in Messages /\ sent \in Messages
  BY DEF StatusInv, TypeOK, Messages, Statuses
<1>1. CASE Wake
  BY <1>1 DEF StatusInv, TypeOK, PassAfterFault, Permissions, WrongIsLast, Wake,
              latch
<1>2. CASE ShowCause
  <2>1. /\ msg'.BPS_Fault = Shown(first_fault_id)
        /\ first_fault_id \in Faults
    BY <1>0, <1>2 DEF ShowCause, Messages, TypeOK
  <2>2. msg' \in Messages
    BY <1>0, <1>2, <2>1 DEF ShowCause, Messages, Statuses
  <2>3. TypeOK'
    BY <1>0, <1>2, <2>2 DEF ShowCause, TypeOK, latch, Messages, Statuses
  <2>4. QED
    BY <1>2, <2>1, <2>3 DEF StatusInv, PassAfterFault, Permissions, WrongIsLast,
                            ShowCause, latch
<1>3. CASE LookFurther
  BY <1>3 DEF StatusInv, TypeOK, PassAfterFault, Permissions, WrongIsLast,
              LookFurther, latch
<1>4. CASE LookAtBits
  <2>1. msg' \in Messages
    BY <1>0, <1>4 DEF LookAtBits, Messages, Statuses
  <2>2. TypeOK'
    BY <1>0, <1>4, <2>1 DEF LookAtBits, TypeOK, latch, Messages, Statuses
  <2>3. QED
    BY <1>4, <2>2 DEF StatusInv, PassAfterFault, Permissions, WrongIsLast,
                      LookAtBits, latch
<1>5. CASE Permit
  <2>1. /\ msg' \in Messages
        /\ msg'.BPS_Fault = msg.BPS_Fault
        /\ msg.BPS_Fault # "OK" => ~msg'.BPS_Charge_OK /\ ~msg'.BPS_Regen_OK
    BY <1>0, <1>5 DEF Permit, Messages
  <2>2. TypeOK'
    BY <1>0, <1>5, <2>1 DEF Permit, TypeOK, latch, Messages, Statuses
  <2>3. QED
    BY <1>5, <2>1, <2>2 DEF StatusInv, PassAfterFault, Permissions, WrongIsLast,
                            Permit, latch
<1>6. CASE Send
  <2>1. faultedAtStart => ShowsCause(msg)
    BY <1>6 DEF Send, StatusInv, PassAfterFault, ShowsCause
  <2>2. wrong' # wrong => ~ShowsCause(msg) /\ wrong = 0 /\ wrong' = 1
    BY <1>0, <1>6, <2>1 DEF Send, StatusInv, WrongIsLast, TypeOK
  <2>3. TypeOK'
    BY <1>0, <1>6, <2>2 DEF Send, TypeOK, latch
  <2>4. WrongIsLast'
    BY <1>6, <2>2 DEF Send, StatusInv, WrongIsLast, ShowsCause, latch
  <2>5. QED
    BY <1>6, <2>3, <2>4 DEF Send, StatusInv, PassAfterFault, Permissions, latch
<1>7. CASE SendFails
  BY <1>7 DEF StatusInv, TypeOK, PassAfterFault, Permissions, WrongIsLast,
              SendFails, latch
<1>8. ASSUME NEW fault \in Faults, Latch(fault)
      PROVE  StatusInv'
  BY <1>8 DEF StatusInv, TypeOK, PassAfterFault, Permissions, WrongIsLast, Latch
<1>9. CASE SetBits
  BY <1>9 DEF StatusInv, TypeOK, PassAfterFault, Permissions, WrongIsLast,
              SetBits, latch
<1>10. CASE StateBitChanges
  BY <1>10 DEF StatusInv, TypeOK, PassAfterFault, Permissions, WrongIsLast,
               StateBitChanges, latch
<1>11. CASE UNCHANGED vars
  BY <1>11 DEF StatusInv, TypeOK, PassAfterFault, Permissions, WrongIsLast, vars,
               latch
<1>12. QED
  BY <1>1, <1>2, <1>3, <1>4, <1>5, <1>6, <1>7, <1>8, <1>9, <1>10, <1>11
     DEF Next, Pass

-----------------------------------------------------------------------------
(* Every reachable state satisfies the invariant. *)
THEOREM StatusInvariant == Spec => []StatusInv
  BY StatusInit, StatusStep, PTL DEF Spec

(* The variables stay in their types; no event bit is set before the       *)
(* latch.                                                                  *)
THEOREM TypeCorrect == Spec => []TypeOK
  BY StatusInvariant, PTL DEF StatusInv

(* A message begun after a fault permits neither charging nor regenerative *)
(* braking, and names the first fault, whatever faults come while it is    *)
(* put together.                                                           *)
THEOREM NoPermission == Spec => []NoPermissionAfterFault
<1>1. StatusInv => NoPermissionAfterFault
  BY NoFaultShownAsOK
     DEF StatusInv, PassAfterFault, Permissions, NoPermissionAfterFault
<1>2. QED
  BY <1>1, StatusInvariant, PTL

(* At most one message sent after a fault does not show its cause.         *)
THEOREM OneWrongMessage == Spec => []AtMostOneWrong
<1>1. StatusInv => AtMostOneWrong
  BY DEF StatusInv, WrongIsLast, AtMostOneWrong
<1>2. QED
  BY <1>1, StatusInvariant, PTL
=============================================================================
