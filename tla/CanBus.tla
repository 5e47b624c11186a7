------------------------------- MODULE CanBus -------------------------------
(***************************************************************************)
(* The two CAN buses of CANbus.c and the task that copies every frame of   *)
(* the battery's bus to the car's.  A frame is received by an interrupt,   *)
(* which puts it into the queue of its identifier (can_fd, external; every *)
(* entry of the tables of identifiers is circular: a full queue loses its  *)
(* oldest frame) and then calls can_fd_rx_callback_hook.                   *)
(*                                                                         *)
(* A frame is known by its number in the order of arrival.                 *)
(***************************************************************************)
EXTENDS Naturals, Sequences, SequencesExt

CONSTANTS
  BpsIds, CarIds,                 (* CAN_RECV_ENTRY identifiers of each bus *)
  RX_QUEUE_SIZE, CAN_RX_FORWARD_QUEUE_SIZE,
  MAX_FRAMES                      (* bound: frames that arrive              *)

CanBusAssumption ==
  /\ BpsIds \intersect CarIds = {}
  /\ RX_QUEUE_SIZE \in Nat \ {0} /\ CAN_RX_FORWARD_QUEUE_SIZE \in Nat \ {0}

VARIABLES
  can_init,        (* where Task_Init is in CAN_Init, or how that ended     *)
  started,         (* the buses whose receive interrupt is on               *)
  is_initialized,
  rx,              (* identifier -> its receive queue                       *)
  canRxForwardQueue, forward_pc, payload,        (* Task_CanRxForward       *)
  BPS_CAN_ERROR,   (* the fault is raised                                   *)
  arrived,         (* history: frames of any bus so far                     *)
  newest,          (* history: identifier -> its last frame                 *)
  read,            (* history: identifier -> last frame given to a reader   *)
  hooked, offered, (* history: last frame put into, and last one taken from,*)
                   (* the forward queue                                     *)
  sent             (* history: last frame on the car's bus                  *)

bus == <<can_init, started, is_initialized>>
forward == <<canRxForwardQueue, forward_pc, payload>>
seen == <<arrived, newest, hooked>>
canVars == <<bus, rx, forward, BPS_CAN_ERROR, seen, read, offered, sent>>

Ids == BpsIds \union CarIds

Init ==
  /\ can_init = "bps" /\ started = {} /\ is_initialized = FALSE
  /\ rx = [id \in Ids |-> <<>>]
  /\ canRxForwardQueue = <<>> /\ forward_pc = "create" /\ payload = 0
  /\ BPS_CAN_ERROR = FALSE
  /\ arrived = 0 /\ newest = [id \in Ids |-> 0] /\ hooked = 0
  /\ read = [id \in Ids |-> 0] /\ offered = 0 /\ sent = 0

-----------------------------------------------------------------------------
(* CAN_Init: BPS_CAN_Init, then CAR_CAN_Init.  HAL_FDCAN_MspInit may end   *)
(* in Error_Handler; another error ends CAN_Init, and Task_Init, which     *)
(* ignores its result, goes on without CAN.                                *)
BusStarts(b) ==
  /\ can_init = b
  /\ started' = started \union {b}
  /\ can_init' = IF b = "bps" THEN "car" ELSE "done"
  /\ is_initialized' = (b = "car")

BusFails(b) ==
  /\ can_init = b
  /\ can_init' \in {"failed", "Error_Handler"}
  /\ UNCHANGED <<started, is_initialized>>

CAN_Init ==
  /\ \E b \in {"bps", "car"} : BusStarts(b) \/ BusFails(b)
  /\ UNCHANGED <<rx, forward, BPS_CAN_ERROR, seen, read, offered, sent>>

TasksRun == can_init \in {"done", "failed"}

-----------------------------------------------------------------------------
(* Mutant of PushCircular: a full queue keeps what it has.                 *)
PushUnlessFull(q, frame, size) == IF Len(q) = size THEN q ELSE Append(q, frame)

(* xQueueSendCircularBufferFromISR *)
PushCircular(q, frame, size) ==
  Append(IF Len(q) = size THEN Tail(q) ELSE q, frame)

(* can_fd_rx_callback_hook: only frames of the battery's bus, and only     *)
(* once the task has created the queue.                                    *)
Hooked(id) == id \in BpsIds /\ forward_pc \in {"receive", "send"}

ReceiveInterrupt(id) ==
  /\ (IF id \in BpsIds THEN "bps" ELSE "car") \in started
  /\ arrived < MAX_FRAMES
  /\ arrived' = arrived + 1
  /\ newest' = [newest EXCEPT ![id] = arrived']
  /\ rx' = [rx EXCEPT ![id] = PushCircular(@, arrived', RX_QUEUE_SIZE)]
  /\ IF Hooked(id)
     THEN /\ canRxForwardQueue' = PushCircular(canRxForwardQueue, arrived',
                                               CAN_RX_FORWARD_QUEUE_SIZE)
          /\ hooked' = arrived'
     ELSE UNCHANGED <<canRxForwardQueue, hooked>>
  /\ UNCHANGED <<bus, forward_pc, payload, BPS_CAN_ERROR, read, offered, sent>>

(* bps_can_recv and car_can_recv take the oldest frame of the identifier,  *)
(* when the buses are initialized and there is one in time.                *)
can_recv(id) ==
  /\ TasksRun /\ is_initialized
  /\ rx[id] # <<>>
  /\ read' = [read EXCEPT ![id] = Head(rx[id])]
  /\ rx' = [rx EXCEPT ![id] = Tail(@)]
  /\ UNCHANGED <<bus, forward, BPS_CAN_ERROR, seen, offered, sent>>

-----------------------------------------------------------------------------
(* Task_CanRxForward raises a fault and deletes itself when it cannot      *)
(* create its queue.                                                       *)
CreateQueue ==
  /\ TasksRun /\ forward_pc = "create"
  /\ forward_pc' \in {"receive", "deleted"}
  /\ BPS_CAN_ERROR' = (forward_pc' = "deleted")
  /\ UNCHANGED <<bus, rx, canRxForwardQueue, payload, seen, read, offered, sent>>

(* Mutant of TakeFrame: xQueuePeek, the frame stays in the queue.          *)
PeekFrame ==
  /\ forward_pc = "receive" /\ canRxForwardQueue # <<>>
  /\ payload' = Head(canRxForwardQueue) /\ offered' = payload'
  /\ forward_pc' = "send"
  /\ UNCHANGED <<bus, rx, canRxForwardQueue, BPS_CAN_ERROR, seen, read, sent>>

TakeFrame ==
  /\ forward_pc = "receive" /\ canRxForwardQueue # <<>>
  /\ payload' = Head(canRxForwardQueue) /\ offered' = payload'
  /\ canRxForwardQueue' = Tail(canRxForwardQueue)
  /\ forward_pc' = "send"
  /\ UNCHANGED <<bus, rx, BPS_CAN_ERROR, seen, read, sent>>

(* car_can_send accepts the frame, or fails: without CAN_Init it always    *)
(* does.  The task ignores the result.                                     *)
SendFrame ==
  /\ forward_pc = "send"
  /\ sent' \in {sent} \union {f \in {payload} : is_initialized}
  /\ forward_pc' = "receive"
  /\ UNCHANGED <<bus, rx, canRxForwardQueue, payload, BPS_CAN_ERROR, seen, read, offered>>

Next ==
  \/ CAN_Init
  \/ \E id \in Ids : ReceiveInterrupt(id) \/ can_recv(id)
  \/ CreateQueue \/ TakeFrame \/ SendFrame

Spec == Init /\ [][Next]_canVars

-----------------------------------------------------------------------------
(* The variables stay in their types and the queues within their length. *)
TypeOK ==
  /\ can_init \in {"bps", "car", "done", "failed", "Error_Handler"}
  /\ started \subseteq {"bps", "car"} /\ is_initialized \in BOOLEAN
  /\ BPS_CAN_ERROR \in BOOLEAN
  /\ forward_pc \in {"create", "receive", "send", "deleted"}
  /\ Len(canRxForwardQueue) <= CAN_RX_FORWARD_QUEUE_SIZE
  /\ \A id \in Ids : Len(rx[id]) <= RX_QUEUE_SIZE

(* A full queue loses old frames, never the newest: the last frame of each *)
(* identifier is still to be read or was the last one read, and the last   *)
(* one of the battery's bus is still to be sent to the car's or was the    *)
(* last one the task took.                                                 *)
NewestIsKept ==
  /\ \A id \in Ids : newest[id] \in Range(rx[id]) \union {read[id]}
  /\ hooked \in Range(canRxForwardQueue) \union {offered}

(* Whatever is lost where, the car's bus sees the frames of the battery's  *)
(* in their order and none of them twice.                                  *)
Channel == INSTANCE LossyChannel WITH
  inFlight <- Range(canRxForwardQueue) \union {f \in {payload} : forward_pc = "send"},
  delivered <- sent
ImplementsLossyChannel == Channel!Spec
=============================================================================
