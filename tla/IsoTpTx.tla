-------------------------------- MODULE IsoTpTx --------------------------------
(***************************************************************************)
(* The ISO-TP transmitter of main/isotp_tx.c.  Three parties meet in it:   *)
(* clients that start transfers (request_lock), the worker that sends the  *)
(* frames when a deadline is due, and the CAN receive task that delivers   *)
(* flow control.  Worker and receiver dispatch into one state machine      *)
(* under its lock; the flags they share with the clients (busy,            *)
(* start_pending, result, the deadline) are read and written outside it.   *)
(*                                                                         *)
(* A dispatch is one step up to finish(), whose three stores are steps of  *)
(* their own, as are the stores of isotp_tx_start.  A payload is a token   *)
(* and a number of frames; a deadline is a moment that lies ahead or has   *)
(* come.  tx->worker is set: the owner starts the worker before it starts  *)
(* a transfer.                                                             *)
(***************************************************************************)
EXTENDS Naturals

CONSTANTS
  Clients,      (* tasks that start transfers                              *)
  Sizes,        (* frames a payload takes: 1 is a single frame             *)
  BlockSizes,   (* block sizes flow control may grant, 0 for no limit      *)
  MaxWait,      (* config.max_wait_frames                                  *)
  SeqModulus    (* sequence numbers: 16 in the code                        *)

ASSUME ClientAssumption == "free" \notin Clients
ASSUME SizeAssumption == Sizes \subseteq Nat \ {0}
ASSUME FlowAssumption == BlockSizes \subseteq Nat /\ MaxWait \in Nat
ASSUME SequenceAssumption == SeqModulus \in Nat \ {0, 1}

VARIABLES
  state,         (* the machine: "idle", "wait-fc" or "consecutive"        *)
  lock,          (* who holds the machine's lock                           *)
  fin,           (* the next store of a finish() that has begun, or "none" *)
  finResult,     (* the result that finish() was given                     *)
  busy, startPending, result, deadline,
  transfer,      (* payload (a token), payload_size, payload_offset,       *)
                 (* sequence_number                                        *)
  flow,          (* block_size, block_sent, wait_frames, separation_time_us*)
  reqLock,       (* request_lock                                           *)
  client,        (* how far each client is in isotp_tx_start               *)
  worker,        (* where the worker is                                    *)
  waitFor,       (* the deadline the worker waits for                      *)
  notified,      (* the worker's notification                              *)
  rx,            (* the flow control the receive task is delivering        *)
  receiver       (* history: what the far end has assembled                *)

machineVars == <<state, lock, fin, finResult>>
clientVars  == <<reqLock, client>>
workerVars  == <<worker, waitFor>>
isoVars == <<state, lock, fin, finResult, busy, startPending, result, deadline, transfer, flow,
          reqLock, client, worker, waitFor, notified, rx, receiver>>

\* Flow control, as the receive task holds it; the last two say where the task is.
Control(status) == [status |-> status, block |-> 0, separation |-> "due"]
FlowControl == [status : {"continue"}, block : BlockSizes, separation : {"due", "future"}]
               \cup {Control(status) : status \in {"wait", "overflow", "malformed"}}
NoFrame == Control("none")
ToWake  == Control("wake")

---------------------------------------------------------------------------
(* isotp_tx_start, by a client.                                            *)

\* Mutant: a start does not look at busy.
StartCheck_Blind(c) ==
  /\ client[c] = "out" /\ reqLock = "free"
  /\ reqLock' = c
  /\ client' = [client EXCEPT ![c] = "copy"]
  /\ UNCHANGED <<machineVars, busy, startPending, result, deadline, transfer, flow, workerVars,
                 notified, rx, receiver>>

\* A start that finds a transfer running returns false and changes nothing.
StartCheck(c) ==
  /\ client[c] = "out" /\ reqLock = "free" /\ ~busy
  /\ reqLock' = c
  /\ client' = [client EXCEPT ![c] = "copy"]
  /\ UNCHANGED <<machineVars, busy, startPending, result, deadline, transfer, flow, workerVars,
                 notified, rx, receiver>>

\* The token of the payload alternates, which tells two successive ones apart.
StartCopy(c) ==
  /\ client[c] = "copy"
  /\ \E size \in Sizes :
       transfer' = [transfer EXCEPT !.token = 1 - @, !.size = size, !.offset = 0]
  /\ client' = [client EXCEPT ![c] = "result"]
  /\ UNCHANGED <<machineVars, busy, startPending, result, deadline, flow, reqLock, workerVars,
                 notified, rx, receiver>>

StartResult(c) ==
  /\ client[c] = "result"
  /\ result' = "in-progress"
  /\ client' = [client EXCEPT ![c] = "busy"]
  /\ UNCHANGED <<machineVars, busy, startPending, deadline, transfer, flow, reqLock, workerVars,
                 notified, rx, receiver>>

StartBusy(c) ==
  /\ client[c] = "busy"
  /\ busy' = TRUE
  /\ client' = [client EXCEPT ![c] = "pending"]
  /\ UNCHANGED <<machineVars, startPending, result, deadline, transfer, flow, reqLock, workerVars,
                 notified, rx, receiver>>

StartPending(c) ==
  /\ client[c] = "pending"
  /\ startPending' = TRUE
  /\ client' = [client EXCEPT ![c] = "deadline"]
  /\ UNCHANGED <<machineVars, busy, result, deadline, transfer, flow, reqLock, workerVars,
                 notified, rx, receiver>>

StartDeadline(c) ==
  /\ client[c] = "deadline"
  /\ deadline' = "due"
  /\ reqLock' = "free"
  /\ client' = [client EXCEPT ![c] = "wake"]
  /\ UNCHANGED <<machineVars, busy, startPending, result, transfer, flow, workerVars,
                 notified, rx, receiver>>

\* Mutant: the deadline alone is trusted to bring the worker.
StartWake_Silent(c) ==
  /\ client[c] = "wake"
  /\ client' = [client EXCEPT ![c] = "out"]
  /\ UNCHANGED <<machineVars, busy, startPending, result, deadline, transfer, flow, reqLock,
                 workerVars, notified, rx, receiver>>

StartWake(c) ==
  /\ client[c] = "wake"
  /\ notified' = TRUE
  /\ client' = [client EXCEPT ![c] = "out"]
  /\ UNCHANGED <<machineVars, busy, startPending, result, deadline, transfer, flow, reqLock,
                 workerVars, rx, receiver>>

---------------------------------------------------------------------------
(* Handlers: what a dispatch does once it has the lock.                    *)

\* finish() begins; the dispatch keeps the lock until its stores are done.
Finish(who, r) ==
  /\ lock' = who /\ fin' = "result" /\ finResult' = r
  /\ UNCHANGED <<state, busy, result, deadline>>

\* The dispatch ends here, in `to`, with this deadline.
End(to, at) ==
  /\ state' = to /\ deadline' = at
  /\ UNCHANGED <<lock, fin, finResult, busy, result>>

\* The far end hears a first or single frame, or the next consecutive one.
HearFirst == receiver' = [token |-> transfer.token, got |-> 1, seq |-> 1, ok |-> TRUE, block |-> 0]

HearConsecutive ==
  receiver' = [receiver EXCEPT !.got = @ + 1,
                               !.seq = (@ + 1) % SeqModulus,
                               !.ok = @ /\ receiver.token = transfer.token
                                        /\ receiver.seq = transfer.seq,
                               !.block = @ + 1]

\* can_send queues the frame, or fails.
SendFirst ==
  \/ /\ HearFirst
     /\ transfer' = [transfer EXCEPT !.offset = 1, !.seq = 1]
     /\ flow' = [flow EXCEPT !.waits = 0]
     /\ End("wait-fc", "future")
  \/ Finish("worker", "send-error") /\ UNCHANGED <<transfer, flow, receiver>>

SendSingle ==
  \/ HearFirst /\ Finish("worker", "success") /\ UNCHANGED <<transfer, flow>>
  \/ Finish("worker", "send-error") /\ UNCHANGED <<transfer, flow, receiver>>

\* Mutant: one frame more than the receiver granted.
AfterConsecutive_OffByOne ==
  LET granted == flow.block # 0 /\ flow.sent >= flow.block IN
  IF transfer'.offset >= transfer.size
  THEN Finish("worker", "success") /\ flow' = [flow EXCEPT !.sent = @ + 1]
  ELSE IF granted
       THEN End("wait-fc", "future") /\ flow' = [flow EXCEPT !.waits = 0, !.sent = @ + 1]
       ELSE End("consecutive", flow.separation) /\ flow' = [flow EXCEPT !.sent = @ + 1]

\* The last frame, the end of a granted block, or one more after the separation.
AfterConsecutive ==
  LET granted == flow.block # 0 /\ flow.sent + 1 >= flow.block IN
  IF transfer'.offset >= transfer.size
  THEN Finish("worker", "success") /\ flow' = [flow EXCEPT !.sent = @ + 1]
  ELSE IF granted
       THEN End("wait-fc", "future") /\ flow' = [flow EXCEPT !.waits = 0, !.sent = @ + 1]
       ELSE End("consecutive", flow.separation) /\ flow' = [flow EXCEPT !.sent = @ + 1]

SendConsecutive ==
  \/ /\ HearConsecutive
     /\ transfer' = [transfer EXCEPT !.offset = @ + 1, !.seq = (@ + 1) % SeqModulus]
     /\ AfterConsecutive
  \/ Finish("worker", "send-error") /\ UNCHANGED <<transfer, flow, receiver>>

OnFlowControl(fc) ==
  CASE fc.status = "continue" ->
         /\ flow' = [block |-> fc.block, sent |-> 0, waits |-> 0, separation |-> fc.separation]
         /\ receiver' = [receiver EXCEPT !.block = 0]
         /\ End("consecutive", "due")
    [] fc.status = "wait" ->
         /\ flow' = [flow EXCEPT !.waits = @ + 1]
         /\ IF flow'.waits > MaxWait THEN Finish("rx", "timeout") ELSE End("wait-fc", "future")
         /\ UNCHANGED receiver
    [] fc.status = "overflow"  -> Finish("rx", "overflow") /\ UNCHANGED <<flow, receiver>>
    [] fc.status = "malformed" -> Finish("rx", "protocol-error") /\ UNCHANGED <<flow, receiver>>

---------------------------------------------------------------------------
(* The worker.                                                             *)

\* wait_until_deadline, then ulTaskNotifyTake.
WorkerPlan ==
  /\ worker = "plan"
  /\ waitFor' = deadline
  /\ worker' = "blocked"
  /\ UNCHANGED <<machineVars, busy, startPending, result, deadline, transfer, flow, clientVars,
                 notified, rx, receiver>>

WorkerWake ==
  /\ worker = "blocked"
  /\ notified \/ waitFor = "due"
  /\ notified' = FALSE
  /\ worker' = "tick" /\ waitFor' = "none"
  /\ UNCHANGED <<machineVars, busy, startPending, result, deadline, transfer, flow, clientVars,
                 rx, receiver>>

\* isotp_tx_tick takes the pending start, if there is one, before the lock.
WorkerTick ==
  /\ worker = "tick"
  /\ worker' = IF startPending THEN "start" ELSE "poll"
  /\ startPending' = FALSE
  /\ UNCHANGED <<machineVars, busy, result, deadline, transfer, flow, clientVars, waitFor,
                 notified, rx, receiver>>

\* EV_START, which only IDLE handles.
WorkerStart ==
  /\ worker = "start" /\ lock = "free"
  /\ worker' = "plan"
  /\ IF state # "idle"
     THEN UNCHANGED <<machineVars, busy, result, deadline, transfer, flow, receiver>>
     ELSE IF transfer.size = 1 THEN SendSingle ELSE SendFirst
  /\ UNCHANGED <<startPending, clientVars, waitFor, notified, rx>>

\* sm_tick: only the states that wait for a deadline have a tick handler.
WorkerPoll ==
  /\ worker = "poll" /\ lock = "free"
  /\ worker' = "plan"
  /\ CASE state = "wait-fc" /\ deadline = "due" ->
            Finish("worker", "timeout") /\ UNCHANGED <<transfer, flow, receiver>>
       [] state = "consecutive" /\ deadline = "due" -> SendConsecutive
       [] OTHER -> UNCHANGED <<machineVars, busy, result, deadline, transfer, flow, receiver>>
  /\ UNCHANGED <<startPending, clientVars, waitFor, notified, rx>>

---------------------------------------------------------------------------
(* The CAN receive task: isotp_tx_rx.                                      *)

RxBegin ==
  /\ rx = NoFrame /\ busy
  /\ rx' \in FlowControl
  /\ UNCHANGED <<machineVars, busy, startPending, result, deadline, transfer, flow, clientVars,
                 workerVars, notified, receiver>>

\* Flow control that finds another state than WAIT_FLOW_CONTROL is ignored.
RxDispatch ==
  /\ rx \in FlowControl /\ lock = "free"
  /\ rx' = ToWake
  /\ IF state = "wait-fc" THEN OnFlowControl(rx)
     ELSE UNCHANGED <<machineVars, busy, result, deadline, flow, receiver>>
  /\ UNCHANGED <<startPending, transfer, clientVars, workerVars, notified>>

RxWake ==
  /\ rx = ToWake /\ lock # "rx"
  /\ rx' = NoFrame
  /\ notified' = TRUE
  /\ UNCHANGED <<machineVars, busy, startPending, result, deadline, transfer, flow, clientVars,
                 workerVars, receiver>>

---------------------------------------------------------------------------
(* finish(): the stores of a dispatch that ends a transfer.                *)

FinishResult ==
  /\ fin = "result"
  /\ result' = finResult
  /\ fin' = "busy"
  /\ UNCHANGED <<state, lock, finResult, busy, startPending, deadline, transfer, flow, clientVars,
                 workerVars, notified, rx, receiver>>

FinishBusy ==
  /\ fin = "busy"
  /\ busy' = FALSE
  /\ fin' = "deadline"
  /\ UNCHANGED <<state, lock, finResult, result, startPending, deadline, transfer, flow, clientVars,
                 workerVars, notified, rx, receiver>>

\* The transition to IDLE is taken and the lock released with the last store.
FinishDeadline ==
  /\ fin = "deadline"
  /\ deadline' = "none"
  /\ state' = "idle" /\ lock' = "free" /\ fin' = "none" /\ finResult' = "idle"
  /\ UNCHANGED <<busy, result, startPending, transfer, flow, clientVars,
                 workerVars, notified, rx, receiver>>

---------------------------------------------------------------------------
\* A moment that was ahead has come: the machine's, or the one the worker read
\* when it began to wait.
DeadlineComes ==
  /\ deadline = "future" /\ deadline' = "due"
  /\ UNCHANGED <<machineVars, busy, startPending, result, transfer, flow, clientVars, workerVars,
                 notified, rx, receiver>>

WaitEnds ==
  /\ waitFor = "future" /\ waitFor' = "due"
  /\ UNCHANGED <<machineVars, busy, startPending, result, deadline, transfer, flow, clientVars,
                 worker, notified, rx, receiver>>

IsoInit ==
  /\ state = "idle" /\ lock = "free" /\ fin = "none" /\ finResult = "idle"
  /\ busy = FALSE /\ startPending = FALSE /\ result = "idle" /\ deadline = "none"
  /\ transfer = [token |-> 0, size |-> 0, offset |-> 0, seq |-> 0]
  /\ flow = [block |-> 0, sent |-> 0, waits |-> 0, separation |-> "due"]
  /\ reqLock = "free" /\ client = [c \in Clients |-> "out"]
  /\ worker = "plan" /\ waitFor = "none" /\ notified = TRUE
  /\ rx = NoFrame
  /\ receiver = [token |-> 0, got |-> 0, seq |-> 0, ok |-> TRUE, block |-> 0]

StartGoesOn(c) == \/ StartCopy(c) \/ StartResult(c) \/ StartBusy(c)
                  \/ StartPending(c) \/ StartDeadline(c) \/ StartWake(c)
FinishGoesOn == FinishResult \/ FinishBusy \/ FinishDeadline
Worker == WorkerPlan \/ WorkerWake \/ WorkerTick \/ WorkerStart \/ WorkerPoll
RxGoesOn == RxDispatch \/ RxWake

IsoNext == \/ \E c \in Clients : StartCheck(c) \/ StartGoesOn(c)
        \/ Worker \/ FinishGoesOn \/ RxBegin \/ RxGoesOn \/ DeadlineComes \/ WaitEnds

IsoSpec == IsoInit /\ [][IsoNext]_isoVars

\* Calls that began go on, time passes, and the worker is scheduled: the receive
\* task, of higher priority, holds the lock only for the length of a dispatch.
IsoFairness ==
  /\ \A c \in Clients : WF_isoVars(StartGoesOn(c))
  /\ WF_isoVars(FinishGoesOn) /\ WF_isoVars(RxGoesOn)
  /\ WF_isoVars(DeadlineComes) /\ WF_isoVars(WaitEnds)
  /\ WF_isoVars(WorkerPlan \/ WorkerWake \/ WorkerTick)
  /\ SF_isoVars(WorkerStart \/ WorkerPoll)
IsoFairSpec == IsoSpec /\ IsoFairness
================================================================================
