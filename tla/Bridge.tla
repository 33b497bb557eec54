------------------------------- MODULE Bridge -------------------------------
(***************************************************************************)
(* can_rx_task of main.c: the loop that takes every frame either bus has   *)
(* received, forwards it to the other bus (bridge) or repeats it changed   *)
(* on its own (parallel), and hands copies to the hosts.  A frame is       *)
(* the bus it came from.  Handling a frame takes no time except where the  *)
(* code blocks, in can_send; one unit of time is one tick (1 ms).          *)
(***************************************************************************)
EXTENDS Naturals, Sequences

CONSTANTS
  RxSlots,    (* slots of the receive queue both buses share               *)
  TxSlots,    (* transmit slots per bus                                    *)
  SendWait,   (* ticks the bridge waits for a slot (2)                     *)
  FastDrop    (* ticks without waiting after a failed send (100)           *)

ASSUME BridgeAssumption ==
  /\ RxSlots \in Nat \ {0} /\ TxSlots \in Nat \ {0}
  /\ SendWait \in Nat \ {0} /\ FastDrop \in Nat \ {0}

(* How the numbers fit (in the code 256, 32, 2 and 100): a live bus takes   *)
(* more between two ticks than arrives for it, a fast-drop window outlasts  *)
(* the wait for the other bus, and the receive queue holds what arrives     *)
(* while the task waits for both buses and works off the backlog.           *)
ASSUME BridgeSizes ==
  /\ TxSlots >= 2
  /\ FastDrop >= 2 * SendWait
  /\ RxSlots + 2 >= 6 * SendWait

Buses == {0, 1}
CarBus == 0

VARIABLES
  bridging,   (* fwd_bridge_en, read once                                  *)
  awake,      (* DEV_AWAKE_BIT                                             *)
  busUp,      (* per bus: CAN_ENABLE_BIT                                   *)
  drains,     (* per bus: it takes the frames we send                      *)
  canq,        (* can_rx_queue                                              *)
  used,       (* per bus: transmit slots in use                            *)
  fast,       (* per bus: ticks left of fwd_fastdrop_until_us              *)
  task,       (* can_rx_task: place, frame in hand, ticks left in can_send *)
  lost        (* history: a frame found the receive queue full             *)

bridgeVars == <<bridging, awake, busUp, drains, canq, used, fast, task, lost>>

BridgeInit ==
  /\ bridging \in BOOLEAN /\ awake = TRUE
  /\ busUp = [b \in Buses |-> TRUE] /\ drains = [b \in Buses |-> TRUE]
  /\ canq = <<>> /\ used = [b \in Buses |-> 0] /\ fast = [b \in Buses |-> 0]
  /\ task = [at |-> "gate", frame |-> 0, left |-> 0]
  /\ lost = FALSE

-----------------------------------------------------------------------------
(* The environment.                                                        *)

(* Both buses deliver at most a frame a tick into the shared queue.        *)
Arrivals(frames) ==
  LET room == RxSlots - Len(canq)
  IN  /\ canq' = canq \o SubSeq(frames, 1, IF Len(frames) < room THEN Len(frames) ELSE room)
      /\ lost' = (lost \/ Len(frames) > room)

Dest(frame) == IF bridging THEN 1 - frame ELSE frame

Down(n) == IF n = 0 THEN 0 ELSE n - 1

(* A tick passes while the task blocks: in can_send, at the gate or in      *)
(* can_receive.  A live bus takes within a tick whatever its slots hold, a  *)
(* dead one nothing.                                                        *)
TickOfBridge ==
  /\ \/ task.at = "send" /\ task.left > 0 /\ busUp[Dest(task.frame)]
        /\ used[Dest(task.frame)] = TxSlots
     \/ task.at = "gate" /\ (~awake \/ canq = <<>>)
  /\ \E frames \in IF awake THEN {<<>>, <<0>>, <<1>>, <<0, 1>>} ELSE {<<>>} :
       (\A i \in DOMAIN frames : busUp[frames[i]]) /\ Arrivals(frames)
  /\ used' = [b \in Buses |-> IF drains[b] THEN 0 ELSE used[b]]
  /\ fast' = [b \in Buses |-> Down(fast[b])]
  /\ task' = IF task.at = "send" THEN [task EXCEPT !.left = @ - 1] ELSE task
  /\ UNCHANGED <<bridging, awake, busUp, drains>>

(* A bus dies, is disabled or enabled; the device falls asleep and is woken. *)
(* Bound: a bus revives only when there is no backlog; one that did so all  *)
(* the time would be a slow bus, of which nothing is promised.              *)
WorldOfBridge ==
  /\ \/ \E b \in Buses :
          \/ /\ ~drains[b] => canq = <<>>
             /\ drains' = [drains EXCEPT ![b] = ~@] /\ UNCHANGED <<busUp, awake>>
          \/ busUp' = [busUp EXCEPT ![b] = ~@] /\ UNCHANGED <<drains, awake>>
     \/ awake' = ~awake /\ UNCHANGED <<drains, busUp>>
  /\ UNCHANGED <<bridging, canq, used, fast, task, lost>>

-----------------------------------------------------------------------------
(* The task.                                                               *)

FwdWait(b) == IF ~bridging THEN 1 ELSE IF fast[b] > 0 THEN 0 ELSE SendWait

(* precondition_fwd_hook passes, changes or blocks; only what goes to the   *)
(* car's bus is ever changed or blocked.  The bridge forwards what is not   *)
(* blocked, parallel mode repeats what is changed.                          *)
Wanted(frame) ==
  IF Dest(frame) # CarBus THEN {bridging} ELSE BOOLEAN

(* The gate is passed only between batches: the inner loop takes frame      *)
(* after frame without looking at DEV_AWAKE_BIT.                            *)
TakeFrame ==
  /\ canq # <<>>
  /\ (task.at = "gate" /\ awake) \/ task.at = "batch"
  /\ canq' = Tail(canq)
  /\ \E wanted \in Wanted(Head(canq)) :
       task' = IF wanted THEN [at |-> "send", frame |-> Head(canq), left |-> FwdWait(Dest(Head(canq)))]
                         ELSE [at |-> "host", frame |-> Head(canq), left |-> 0]
  /\ UNCHANGED <<bridging, awake, busUp, drains, used, fast, lost>>

BatchEnds ==
  /\ task.at = "batch" /\ canq = <<>>
  /\ task' = [task EXCEPT !.at = "gate"]
  /\ UNCHANGED <<bridging, awake, busUp, drains, canq, used, fast, lost>>

(* can_send got a slot, at once or while it waited.                         *)
SendFrame ==
  LET b == Dest(task.frame)
  IN  /\ task.at = "send" /\ busUp[b] /\ used[b] < TxSlots
      /\ used' = [used EXCEPT ![b] = @ + 1]
      /\ task' = [task EXCEPT !.at = "host", !.left = 0]
      /\ UNCHANGED <<bridging, awake, busUp, drains, canq, fast, lost>>

(* Mutant: the bridge goes on waiting for a bus that takes nothing.         *)
DropFrame_KeepsWaiting ==
  LET b == Dest(task.frame)
  IN  /\ task.at = "send"
      /\ ~busUp[b] \/ (task.left = 0 /\ used[b] = TxSlots)
      /\ task' = [task EXCEPT !.at = "host", !.left = 0]
      /\ UNCHANGED <<bridging, awake, busUp, drains, canq, used, fast, lost>>

(* It failed: the bus is off, or no slot came free in time.  A failure that *)
(* was given time makes the bridge stop waiting for this bus for a while.   *)
DropFrame ==
  LET b == Dest(task.frame)
      waited == FwdWait(b) # 0
  IN  /\ task.at = "send"
      /\ ~busUp[b] \/ (task.left = 0 /\ used[b] = TxSlots)
      /\ fast' = IF bridging /\ waited THEN [fast EXCEPT ![b] = FastDrop] ELSE fast
      /\ task' = [task EXCEPT !.at = "host", !.left = 0]
      /\ UNCHANGED <<bridging, awake, busUp, drains, canq, used, lost>>

(* The copies for the hosts (TCP, WebSocket, BLE, MQTT, ELM327) are all     *)
(* enqueued with no waiting: a full queue drops them.                       *)
StreamFrame ==
  /\ task.at = "host"
  /\ task' = [task EXCEPT !.at = "batch"]
  /\ UNCHANGED <<bridging, awake, busUp, drains, canq, used, fast, lost>>

BridgeTask == TakeFrame \/ BatchEnds \/ SendFrame \/ DropFrame \/ StreamFrame

BridgeNext == TickOfBridge \/ WorldOfBridge \/ BridgeTask

-----------------------------------------------------------------------------
BridgeSpec == BridgeInit /\ [][BridgeNext]_bridgeVars

(* A dead or saturated bus never starves reception: whatever the two buses *)
(* and the host do, no frame finds the receive queue full while the bridge *)
(* is on (main.c:367-374 promise it of bus 1; the second destination has   *)
(* a window of its own).                                                   *)
NothingLost == bridging => ~lost
=============================================================================
