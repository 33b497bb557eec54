------------------------------ MODULE IsoTpProofs ------------------------------
(***************************************************************************)
(* What is proved about the ISO-TP transmitter, for any number of clients  *)
(* and any payloads: messages arrive in order and within what the receiver *)
(* granted, success means delivery, and clients see one transfer at a time *)
(* with one result.  The flags that clients, worker and finish() store     *)
(* without a common lock are what makes this delicate; the invariant says  *)
(* where a transfer is at every moment between two stores.                 *)
(***************************************************************************)
EXTENDS IsoTpTxProps, TLAPS

(* How far the start under request_lock is; "out" if there is none.        *)
Stage == IF reqLock = "free" THEN "out" ELSE client[reqLock]

Locked == {"copy", "result", "busy", "pending", "deadline"}

(* The machine has a transfer in hand.                                     *)
Under == fin \in {"result", "busy"} \/ (state # "idle" /\ fin # "deadline")

Delivered == receiver.token = transfer.token /\ receiver.got = transfer.size

(* The records have their fields.                                          *)
Shapes ==
  /\ transfer = [token |-> transfer.token, size |-> transfer.size,
                 offset |-> transfer.offset, seq |-> transfer.seq]
  /\ flow = [block |-> flow.block, sent |-> flow.sent, waits |-> flow.waits,
             separation |-> flow.separation]
  /\ receiver = [token |-> receiver.token, got |-> receiver.got, seq |-> receiver.seq,
                 ok |-> receiver.ok, block |-> receiver.block]

Values ==
  /\ transfer.token \in 0 .. 1 /\ transfer.size \in Sizes \cup {0}
  /\ transfer.offset \in Nat /\ transfer.seq \in 0 .. (SeqModulus - 1)
  /\ flow.block \in BlockSizes \cup {0} /\ flow.sent \in Nat /\ flow.waits \in Nat
  /\ flow.separation \in {"due", "future"}
  /\ receiver.got \in Nat /\ receiver.block \in Nat

Flags ==
  /\ state \in {"idle", "wait-fc", "consecutive"}
  /\ lock \in {"free", "worker", "rx"}
  /\ fin \in {"none", "result", "busy", "deadline"}
  /\ result \in Ends \cup {"idle", "in-progress"}
  /\ deadline \in {"none", "future", "due"} /\ waitFor \in {"none", "future", "due"}
  /\ worker \in {"plan", "blocked", "tick", "start", "poll"}
  /\ rx \in FlowControl \cup {NoFrame, ToWake}

Bits == busy \in BOOLEAN /\ startPending \in BOOLEAN /\ notified \in BOOLEAN

(* request_lock: its holder is the one client between the check and the    *)
(* last store.                                                             *)
Section ==
  /\ reqLock \in Clients \cup {"free"}
  /\ client \in [Clients -> Locked \cup {"out", "wake"}]
  /\ \A c \in Clients : client[c] \in Locked <=> reqLock = c

(* The machine's lock is held exactly while a finish() is storing.         *)
Finishing ==
  /\ lock = "free" <=> fin = "none"
  /\ IF fin = "none" THEN finResult = "idle" ELSE finResult \in Ends

(* `busy` covers one transfer, which is in one place at a time: announced, *)
(* pending, taken by the worker, or in the machine's hands.                *)
OneTransfer ==
  /\ Stage \in {"copy", "result", "busy"} => ~busy
  /\ busy <=> Stage = "pending" \/ startPending \/ worker = "start" \/ Under
  /\ Stage = "pending" => ~startPending /\ worker # "start" /\ ~Under
  /\ startPending => worker # "start" /\ ~Under
  /\ worker = "start" => ~Under

(* What the far end has is what was sent, and within what it granted.      *)
InStep ==
  /\ state # "idle" /\ fin # "deadline" =>
       /\ receiver.token = transfer.token /\ receiver.seq = transfer.seq
       /\ receiver.got = transfer.offset
       /\ fin = "none" => transfer.offset < transfer.size
  /\ state = "consecutive" /\ fin = "none" /\ flow.block # 0 =>
       receiver.block = flow.sent /\ flow.sent < flow.block
  /\ state = "wait-fc" /\ fin = "none" => flow.waits <= MaxWait
  /\ flow.waits <= MaxWait + 1 /\ transfer.offset <= transfer.size
  /\ receiver.ok /\ (flow.block # 0 => receiver.block <= flow.block)
  /\ Stage \in {"result", "busy"} \/ busy => transfer.size \in Sizes

(* The result stands from the finish() on, until the next start clears it. *)
ResultStands ==
  /\ Stage = "busy" \/ (busy /\ fin # "busy") => result = "in-progress"
  /\ fin = "busy" => result = finResult
  /\ fin \in {"result", "busy"} /\ finResult = "success" => Delivered
  /\ result = "success" => Delivered \/ Stage = "result"

IsoInv ==
  /\ Shapes /\ Values /\ Flags /\ Bits
  /\ Section /\ Finishing /\ OneTransfer /\ InStep /\ ResultStands

-----------------------------------------------------------------------------
USE ClientAssumption, SizeAssumption, FlowAssumption, SequenceAssumption
USE DEF machineVars, clientVars, workerVars, Locked

(* Sequence numbers stay below the modulus.                                *)
LEMMA SeqInRange == ASSUME NEW n \in Nat PROVE n % SeqModulus \in 0 .. (SeqModulus - 1)
  OBVIOUS

\* Nothing is under way when the transmitter starts.
LEMMA IsoInvInit == ASSUME IsoInit PROVE IsoInv
<1>1. Shapes /\ Values
  BY DEF IsoInit, Shapes, Values
<1>2. Flags /\ Bits
  BY DEF IsoInit, Flags, Bits
<1>3. Section /\ Stage = "out"
  BY DEF IsoInit, Section, Stage
<1>4. Finishing /\ OneTransfer /\ InStep /\ ResultStands
  BY <1>3 DEF IsoInit, Finishing, OneTransfer, Under, InStep, ResultStands
<1>. QED BY <1>1, <1>2, <1>3, <1>4 DEF IsoInv

(* A start is admitted.                                                    *)
LEMMA StartCheckStep == ASSUME IsoInv, NEW c \in Clients, StartCheck(c) PROVE IsoInv'
<1>1. CASE StartCheck(c)
  <2>. USE <1>1 DEF IsoInv, StartCheck
  <2>1. Shapes' /\ Values' /\ Section'
    BY DEF Shapes, Values, Flags, Section
  <2>2. Flags' /\ Finishing' /\ OneTransfer'
    BY DEF Values, Flags, Section, Stage, Finishing, OneTransfer, Under, Ends
  <2>3. Bits'
    BY Zenon DEF Bits
  <2>4. InStep' /\ ResultStands'
    BY DEF Shapes, Values, Flags, Section, Stage, Finishing, OneTransfer, Under, InStep,
       ResultStands, Delivered, Ends
  <2>. QED BY <2>1, <2>2, <2>3, <2>4
<1>. QED BY <1>1

(* The stores of a start.                                                  *)
LEMMA StartStep == ASSUME IsoInv, NEW c \in Clients, StartGoesOn(c) PROVE IsoInv'
<1>1. CASE StartCopy(c)
  <2>. USE <1>1 DEF IsoInv, StartCopy
  <2>. PICK size \in Sizes :
         transfer' = [token |-> 1 - transfer.token, size |-> size, offset |-> 0, seq |-> transfer.seq]
    BY DEF Shapes
  <2>1. Shapes'
    BY DEF Shapes, Flags
  <2>2. Values'
    BY DEF Shapes, Values, Flags
  <2>3. Flags'
    BY DEF Values, Flags, Finishing, Ends
  <2>4. Bits'
    BY Zenon DEF Bits
  <2>5. Section'
    BY DEF Section
  <2>6. Finishing' /\ OneTransfer'
    BY DEF Flags, Section, Stage, Finishing, OneTransfer, Under, Ends
  <2>7. InStep'
    BY DEF Shapes, Values, Flags, Section, Stage, Finishing, OneTransfer, Under, InStep
  <2>8. ResultStands'
    BY DEF Shapes, Values, Flags, Section, Stage, Finishing, OneTransfer, Under, InStep,
       ResultStands, Delivered, Ends
  <2>. QED BY <2>1, <2>2, <2>3, <2>4, <2>5, <2>6, <2>7, <2>8
<1>2. CASE StartResult(c)
  <2>. USE <1>2 DEF IsoInv, StartResult
  <2>1. Shapes' /\ Values' /\ Section'
    BY DEF Shapes, Values, Flags, Section
  <2>2. Flags' /\ Finishing' /\ OneTransfer'
    BY DEF Values, Flags, Section, Stage, Finishing, OneTransfer, Under, Ends
  <2>3. Bits'
    BY Zenon DEF Bits
  <2>4. InStep' /\ ResultStands'
    BY DEF Shapes, Values, Flags, Section, Stage, Finishing, OneTransfer, Under, InStep,
       ResultStands, Delivered, Ends
  <2>. QED BY <2>1, <2>2, <2>3, <2>4
<1>3. CASE StartBusy(c)
  <2>. USE <1>3 DEF IsoInv, StartBusy
  <2>1. Shapes' /\ Values' /\ Section'
    BY DEF Shapes, Values, Flags, Section
  <2>2. Flags' /\ Finishing' /\ OneTransfer'
    BY DEF Values, Flags, Section, Stage, Finishing, OneTransfer, Under, Ends
  <2>3. Bits'
    BY Zenon DEF Bits
  <2>4. InStep' /\ ResultStands'
    BY DEF Shapes, Values, Flags, Section, Stage, Finishing, OneTransfer, Under, InStep,
       ResultStands, Delivered, Ends
  <2>. QED BY <2>1, <2>2, <2>3, <2>4
<1>4. CASE StartPending(c)
  <2>. USE <1>4 DEF IsoInv, StartPending
  <2>1. Shapes' /\ Values' /\ Section'
    BY DEF Shapes, Values, Flags, Section
  <2>2. Flags' /\ Finishing' /\ OneTransfer'
    BY DEF Values, Flags, Section, Stage, Finishing, OneTransfer, Under, Ends
  <2>3. Bits'
    BY Zenon DEF Bits
  <2>4. InStep' /\ ResultStands'
    BY DEF Shapes, Values, Flags, Section, Stage, Finishing, OneTransfer, Under, InStep,
       ResultStands, Delivered, Ends
  <2>. QED BY <2>1, <2>2, <2>3, <2>4
<1>5. CASE StartDeadline(c)
  <2>. USE <1>5 DEF IsoInv, StartDeadline
  <2>1. Shapes' /\ Values' /\ Section'
    BY DEF Shapes, Values, Flags, Section
  <2>2. Flags' /\ Finishing' /\ OneTransfer'
    BY DEF Values, Flags, Section, Stage, Finishing, OneTransfer, Under, Ends
  <2>3. Bits'
    BY Zenon DEF Bits
  <2>4. InStep' /\ ResultStands'
    BY DEF Shapes, Values, Flags, Section, Stage, Finishing, OneTransfer, Under, InStep,
       ResultStands, Delivered, Ends
  <2>. QED BY <2>1, <2>2, <2>3, <2>4
<1>6. CASE StartWake(c)
  <2>. USE <1>6 DEF IsoInv, StartWake
  <2>1. Shapes' /\ Values' /\ Section'
    BY DEF Shapes, Values, Flags, Section
  <2>2. Flags' /\ Finishing' /\ OneTransfer'
    BY DEF Values, Flags, Section, Stage, Finishing, OneTransfer, Under, Ends
  <2>3. Bits'
    BY Zenon DEF Bits
  <2>4. InStep' /\ ResultStands'
    BY DEF Shapes, Values, Flags, Section, Stage, Finishing, OneTransfer, Under, InStep,
       ResultStands, Delivered, Ends
  <2>. QED BY <2>1, <2>2, <2>3, <2>4
<1>. QED BY <1>1, <1>2, <1>3, <1>4, <1>5, <1>6 DEF StartGoesOn

(* The stores of a finish.                                                 *)
LEMMA FinishStep == ASSUME IsoInv, FinishGoesOn PROVE IsoInv'
<1>1. CASE FinishResult
  <2>. USE <1>1 DEF IsoInv, FinishResult
  <2>1. Shapes' /\ Values' /\ Section'
    BY DEF Shapes, Values, Flags, Section
  <2>2. Flags' /\ Finishing' /\ OneTransfer'
    BY DEF Values, Flags, Section, Stage, Finishing, OneTransfer, Under, Ends
  <2>3. Bits'
    BY Zenon DEF Bits
  <2>4. InStep' /\ ResultStands'
    BY DEF Shapes, Values, Flags, Section, Stage, Finishing, OneTransfer, Under, InStep,
       ResultStands, Delivered, Ends
  <2>. QED BY <2>1, <2>2, <2>3, <2>4
<1>2. CASE FinishBusy
  <2>. USE <1>2 DEF IsoInv, FinishBusy
  <2>1. Shapes' /\ Values' /\ Section'
    BY DEF Shapes, Values, Flags, Section
  <2>2. Flags' /\ Finishing' /\ OneTransfer'
    BY DEF Values, Flags, Section, Stage, Finishing, OneTransfer, Under, Ends
  <2>3. Bits'
    BY Zenon DEF Bits
  <2>4. InStep' /\ ResultStands'
    BY DEF Shapes, Values, Flags, Section, Stage, Finishing, OneTransfer, Under, InStep,
       ResultStands, Delivered, Ends
  <2>. QED BY <2>1, <2>2, <2>3, <2>4
<1>3. CASE FinishDeadline
  <2>. USE <1>3 DEF IsoInv, FinishDeadline
  <2>1. Shapes' /\ Values' /\ Section'
    BY DEF Shapes, Values, Flags, Section
  <2>2. Flags' /\ Finishing' /\ OneTransfer'
    BY DEF Values, Flags, Section, Stage, Finishing, OneTransfer, Under, Ends
  <2>3. Bits'
    BY Zenon DEF Bits
  <2>4. InStep' /\ ResultStands'
    BY DEF Shapes, Values, Flags, Section, Stage, Finishing, OneTransfer, Under, InStep,
       ResultStands, Delivered, Ends
  <2>. QED BY <2>1, <2>2, <2>3, <2>4
<1>. QED BY <1>1, <1>2, <1>3 DEF FinishGoesOn

(* Tasks that wait, and time.                                              *)
LEMMA WaitingStep ==
  ASSUME IsoInv,
         \/ WorkerPlan \/ WorkerWake \/ WorkerTick \/ RxBegin \/ RxWake
         \/ DeadlineComes \/ WaitEnds
  PROVE  IsoInv'
<1>1. CASE WorkerPlan
  <2>. USE <1>1 DEF IsoInv, WorkerPlan
  <2>1. Shapes' /\ Values' /\ Section'
    BY DEF Shapes, Values, Flags, Section
  <2>2. Flags' /\ Finishing' /\ OneTransfer'
    BY DEF Values, Flags, Section, Stage, Finishing, OneTransfer, Under, Ends
  <2>3. Bits'
    BY Zenon DEF Bits
  <2>4. InStep' /\ ResultStands'
    BY DEF Shapes, Values, Flags, Section, Stage, Finishing, OneTransfer, Under, InStep,
       ResultStands, Delivered, Ends
  <2>. QED BY <2>1, <2>2, <2>3, <2>4
<1>2. CASE WorkerWake
  <2>. USE <1>2 DEF IsoInv, WorkerWake
  <2>1. Shapes' /\ Values' /\ Section'
    BY DEF Shapes, Values, Flags, Section
  <2>2. Flags' /\ Finishing' /\ OneTransfer'
    BY DEF Values, Flags, Section, Stage, Finishing, OneTransfer, Under, Ends
  <2>3. Bits'
    BY Zenon DEF Bits
  <2>4. InStep' /\ ResultStands'
    BY DEF Shapes, Values, Flags, Section, Stage, Finishing, OneTransfer, Under, InStep,
       ResultStands, Delivered, Ends
  <2>. QED BY <2>1, <2>2, <2>3, <2>4
<1>3. CASE WorkerTick
  <2>. USE <1>3 DEF IsoInv, WorkerTick
  <2>1. Shapes' /\ Values' /\ Section'
    BY DEF Shapes, Values, Flags, Section
  <2>2. Flags' /\ Finishing' /\ OneTransfer'
    BY DEF Values, Flags, Section, Stage, Finishing, OneTransfer, Under, Ends
  <2>3. Bits'
    BY Zenon DEF Bits
  <2>4. InStep' /\ ResultStands'
    BY DEF Shapes, Values, Flags, Section, Stage, Finishing, OneTransfer, Under, InStep,
       ResultStands, Delivered, Ends
  <2>. QED BY <2>1, <2>2, <2>3, <2>4
<1>4. CASE DeadlineComes
  <2>. USE <1>4 DEF IsoInv, DeadlineComes
  <2>1. Shapes' /\ Values' /\ Section'
    BY DEF Shapes, Values, Flags, Section
  <2>2. Flags' /\ Finishing' /\ OneTransfer'
    BY DEF Values, Flags, Section, Stage, Finishing, OneTransfer, Under, Ends
  <2>3. Bits'
    BY Zenon DEF Bits
  <2>4. InStep' /\ ResultStands'
    BY DEF Shapes, Values, Flags, Section, Stage, Finishing, OneTransfer, Under, InStep,
       ResultStands, Delivered, Ends
  <2>. QED BY <2>1, <2>2, <2>3, <2>4
<1>5. CASE WaitEnds
  <2>. USE <1>5 DEF IsoInv, WaitEnds
  <2>1. Shapes' /\ Values' /\ Section'
    BY DEF Shapes, Values, Flags, Section
  <2>2. Flags' /\ Finishing' /\ OneTransfer'
    BY DEF Values, Flags, Section, Stage, Finishing, OneTransfer, Under, Ends
  <2>3. Bits'
    BY Zenon DEF Bits
  <2>4. InStep' /\ ResultStands'
    BY DEF Shapes, Values, Flags, Section, Stage, Finishing, OneTransfer, Under, InStep,
       ResultStands, Delivered, Ends
  <2>. QED BY <2>1, <2>2, <2>3, <2>4
<1>6. CASE RxBegin
  <2>. USE <1>6 DEF IsoInv, RxBegin
  <2>1. Shapes' /\ Values' /\ Section'
    BY DEF Shapes, Values, Flags, Section
  <2>2. Flags' /\ Finishing' /\ OneTransfer'
    BY DEF Values, Flags, Section, Stage, Finishing, OneTransfer, Under, Ends
  <2>3. Bits'
    BY Zenon DEF Bits
  <2>4. InStep' /\ ResultStands'
    BY DEF Shapes, Values, Flags, Section, Stage, Finishing, OneTransfer, Under, InStep,
       ResultStands, Delivered, Ends
  <2>. QED BY <2>1, <2>2, <2>3, <2>4
<1>7. CASE RxWake
  <2>. USE <1>7 DEF IsoInv, RxWake
  <2>1. Shapes' /\ Values' /\ Section'
    BY DEF Shapes, Values, Flags, Section
  <2>2. Flags' /\ Finishing' /\ OneTransfer'
    BY DEF Values, Flags, Section, Stage, Finishing, OneTransfer, Under, Ends
  <2>3. Bits'
    BY Zenon DEF Bits
  <2>4. InStep' /\ ResultStands'
    BY DEF Shapes, Values, Flags, Section, Stage, Finishing, OneTransfer, Under, InStep,
       ResultStands, Delivered, Ends
  <2>. QED BY <2>1, <2>2, <2>3, <2>4
<1>. QED BY <1>1, <1>2, <1>3, <1>4, <1>5, <1>6, <1>7

(* EV_START: only an idle machine is asked, and only once.                 *)
LEMMA WorkerStartStep == ASSUME IsoInv, WorkerStart PROVE IsoInv'
<1>1. /\ lock = "free" /\ fin = "none" /\ state = "idle" /\ worker = "start" /\ worker' = "plan"
      /\ Stage' = Stage /\ UNCHANGED <<startPending, clientVars, waitFor, notified, rx>>
  BY DEF IsoInv, WorkerStart, Finishing, OneTransfer, Under, Flags, Stage
<1>2. busy /\ result = "in-progress" /\ transfer.size \in Sizes
  BY <1>1 DEF IsoInv, OneTransfer, InStep, ResultStands
<1>. USE <1>1, <1>2 DEF Finish, End, HearFirst
<1>3. CASE transfer.size = 1 /\ HearFirst /\ Finish("worker", "success") /\ UNCHANGED <<transfer, flow>>
  <2>. USE <1>3 DEF IsoInv
  <2>1. Shapes' /\ Values' /\ Section'
    BY DEF Shapes, Values, Flags, Section
  <2>2. Flags' /\ Finishing' /\ OneTransfer'
    BY DEF Values, Flags, Section, Stage, Finishing, OneTransfer, Under, Ends
  <2>3. Bits'
    BY Zenon DEF Bits
  <2>4. InStep' /\ ResultStands'
    BY DEF Shapes, Values, Flags, Section, Stage, Finishing, OneTransfer, Under, InStep,
       ResultStands, Delivered, Ends
  <2>. QED BY <2>1, <2>2, <2>3, <2>4
<1>4. CASE Finish("worker", "send-error") /\ UNCHANGED <<transfer, flow, receiver>>
  <2>. USE <1>4 DEF IsoInv
  <2>1. Shapes' /\ Values' /\ Section'
    BY DEF Shapes, Values, Flags, Section
  <2>2. Flags' /\ Finishing' /\ OneTransfer'
    BY DEF Values, Flags, Section, Stage, Finishing, OneTransfer, Under, Ends
  <2>3. Bits'
    BY Zenon DEF Bits
  <2>4. InStep' /\ ResultStands'
    BY DEF Shapes, Values, Flags, Section, Stage, Finishing, OneTransfer, Under, InStep,
       ResultStands, Delivered, Ends
  <2>. QED BY <2>1, <2>2, <2>3, <2>4
<1>5. CASE /\ transfer.size # 1 /\ HearFirst
          /\ transfer' = [transfer EXCEPT !.offset = 1, !.seq = 1]
          /\ flow' = [flow EXCEPT !.waits = 0]
          /\ End("wait-fc", "future")
  <2>. USE <1>5 DEF IsoInv
  <2>. transfer' = [token |-> transfer.token, size |-> transfer.size, offset |-> 1, seq |-> 1]
    BY DEF Shapes
  <2>1. Shapes'
    BY DEF Shapes, Flags
  <2>2. Values'
    BY DEF Shapes, Values, Flags
  <2>3. Flags'
    BY DEF Values, Flags, Finishing, Ends
  <2>4. Bits'
    BY Zenon DEF Bits
  <2>5. Section'
    BY DEF Section
  <2>6. Finishing' /\ OneTransfer'
    BY DEF Flags, Section, Stage, Finishing, OneTransfer, Under, Ends
  <2>7. InStep'
    BY DEF Shapes, Values, Flags, Section, Stage, Finishing, OneTransfer, Under, InStep
  <2>8. ResultStands'
    BY DEF Shapes, Values, Flags, Section, Stage, Finishing, OneTransfer, Under, InStep,
       ResultStands, Delivered, Ends
  <2>. QED BY <2>1, <2>2, <2>3, <2>4, <2>5, <2>6, <2>7, <2>8
<1>. QED BY <1>3, <1>4, <1>5 DEF WorkerStart, SendSingle, SendFirst

(* The worker sends a consecutive frame...                                 *)
Consecutive ==
  /\ state = "consecutive" /\ HearConsecutive /\ AfterConsecutive
  /\ transfer' = [transfer EXCEPT !.offset = @ + 1, !.seq = (@ + 1) % SeqModulus]

(* ... and this is what it and the far end are left with.                  *)
SentOne(next) ==
  /\ state = "consecutive" /\ transfer.offset < transfer.size
  /\ transfer' = [token |-> transfer.token, size |-> transfer.size,
                  offset |-> transfer.offset + 1, seq |-> next]
  /\ receiver' = [token |-> transfer.token, got |-> transfer.offset + 1, seq |-> next,
                  ok |-> TRUE, block |-> receiver.block + 1]
  /\ flow' = [block |-> flow.block, sent |-> flow.sent + 1, waits |-> flow'.waits,
              separation |-> flow.separation]
  /\ flow'.waits \in {0, flow.waits}

(* The far end hears the frame it expects, and both sides count it.        *)
LEMMA ConsecutiveSent ==
  ASSUME IsoInv, fin = "none", Consecutive
  PROVE  \E next \in 0 .. (SeqModulus - 1) : SentOne(next)
<1>. DEFINE next == (transfer.seq + 1) % SeqModulus
<1>1. next \in 0 .. (SeqModulus - 1)
  BY SeqInRange DEF IsoInv, Values
<1>2. transfer' = [token |-> transfer.token, size |-> transfer.size,
                   offset |-> transfer.offset + 1, seq |-> next]
  BY DEF Consecutive, IsoInv, Shapes
<1>3. receiver' = [token |-> transfer.token, got |-> transfer.offset + 1, seq |-> next,
                   ok |-> TRUE, block |-> receiver.block + 1]
  BY DEF Consecutive, HearConsecutive, IsoInv, Shapes, InStep
<1>4. flow' = [block |-> flow.block, sent |-> flow.sent + 1, waits |-> flow'.waits,
               separation |-> flow.separation] /\ flow'.waits \in {0, flow.waits}
  BY DEF Consecutive, AfterConsecutive, IsoInv, Shapes
<1>5. state = "consecutive" /\ transfer.offset < transfer.size
  BY DEF Consecutive, IsoInv, InStep
<1>. HIDE DEF next
<1>. QED BY <1>1, <1>2, <1>3, <1>4, <1>5 DEF SentOne

(* The tick of the two states that have a deadline.                        *)
LEMMA WorkerPollStep == ASSUME IsoInv, WorkerPoll PROVE IsoInv'
<1>1. /\ lock = "free" /\ fin = "none" /\ worker = "poll" /\ worker' = "plan"
      /\ Stage' = Stage /\ UNCHANGED <<startPending, clientVars, waitFor, notified, rx>>
  BY DEF IsoInv, WorkerPoll, Finishing, Stage
<1>2. state # "idle" => busy /\ result = "in-progress" /\ transfer.size \in Sizes
  BY <1>1 DEF IsoInv, OneTransfer, Under, InStep, ResultStands
<1>. USE <1>1, <1>2 DEF Finish, End
<1>3. CASE UNCHANGED <<machineVars, busy, result, deadline, transfer, flow, receiver>>
  <2>. USE <1>3 DEF IsoInv
  <2>1. Shapes' /\ Values' /\ Section'
    BY DEF Shapes, Values, Flags, Section
  <2>2. Flags' /\ Finishing' /\ OneTransfer'
    BY DEF Values, Flags, Section, Stage, Finishing, OneTransfer, Under, Ends
  <2>3. Bits'
    BY Zenon DEF Bits
  <2>4. InStep' /\ ResultStands'
    BY DEF Shapes, Values, Flags, Section, Stage, Finishing, OneTransfer, Under, InStep,
       ResultStands, Delivered, Ends
  <2>. QED BY <2>1, <2>2, <2>3, <2>4
<1>4. CASE state # "idle" /\ (\E r \in {"timeout", "send-error"} : Finish("worker", r))
          /\ UNCHANGED <<transfer, flow, receiver>>
  <2>. USE <1>4 DEF IsoInv
  <2>1. Shapes' /\ Values' /\ Section'
    BY DEF Shapes, Values, Flags, Section
  <2>2. Flags' /\ Finishing' /\ OneTransfer'
    BY DEF Values, Flags, Section, Stage, Finishing, OneTransfer, Under, Ends
  <2>3. Bits'
    BY Zenon DEF Bits
  <2>4. InStep' /\ ResultStands'
    BY DEF Shapes, Values, Flags, Section, Stage, Finishing, OneTransfer, Under, InStep,
       ResultStands, Delivered, Ends
  <2>. QED BY <2>1, <2>2, <2>3, <2>4
<1>5. CASE Consecutive /\ transfer'.offset >= transfer.size /\ Finish("worker", "success")
  <2>. USE <1>5 DEF IsoInv
  <2>. PICK next \in 0 .. (SeqModulus - 1) : SentOne(next)
    BY ConsecutiveSent
  <2>. USE DEF SentOne
  <2>1. Shapes' /\ Values' /\ Section'
    BY DEF Shapes, Values, Flags, Section
  <2>2. Flags' /\ Finishing' /\ OneTransfer'
    BY DEF Values, Flags, Section, Stage, Finishing, OneTransfer, Under, Ends
  <2>3. Bits'
    BY Zenon DEF Bits
  <2>4. InStep' /\ ResultStands'
    BY DEF Shapes, Values, Flags, Section, Stage, Finishing, OneTransfer, Under, InStep,
       ResultStands, Delivered, Ends
  <2>. QED BY <2>1, <2>2, <2>3, <2>4
<1>6. CASE Consecutive /\ transfer'.offset < transfer.size /\ flow.block # 0 /\ flow.sent + 1 >= flow.block
          /\ End("wait-fc", "future") /\ flow'.waits = 0
  <2>. USE <1>6 DEF IsoInv
  <2>. PICK next \in 0 .. (SeqModulus - 1) : SentOne(next)
    BY ConsecutiveSent
  <2>. USE DEF SentOne
  <2>1. Shapes' /\ Values' /\ Section'
    BY DEF Shapes, Values, Flags, Section
  <2>2. Flags' /\ Finishing' /\ OneTransfer'
    BY DEF Values, Flags, Section, Stage, Finishing, OneTransfer, Under, Ends
  <2>3. Bits'
    BY Zenon DEF Bits
  <2>4. InStep' /\ ResultStands'
    BY DEF Shapes, Values, Flags, Section, Stage, Finishing, OneTransfer, Under, InStep,
       ResultStands, Delivered, Ends
  <2>. QED BY <2>1, <2>2, <2>3, <2>4
<1>7. CASE Consecutive /\ transfer'.offset < transfer.size /\ (flow.block = 0 \/ flow.sent + 1 < flow.block)
          /\ End("consecutive", flow.separation) /\ flow'.waits = flow.waits
  <2>. USE <1>7 DEF IsoInv
  <2>. PICK next \in 0 .. (SeqModulus - 1) : SentOne(next)
    BY ConsecutiveSent
  <2>. USE DEF SentOne
  <2>1. Shapes' /\ Values' /\ Section'
    BY DEF Shapes, Values, Flags, Section
  <2>2. Flags' /\ Finishing' /\ OneTransfer'
    BY DEF Values, Flags, Section, Stage, Finishing, OneTransfer, Under, Ends
  <2>3. Bits'
    BY Zenon DEF Bits
  <2>4. InStep' /\ ResultStands'
    BY DEF Shapes, Values, Flags, Section, Stage, Finishing, OneTransfer, Under, InStep,
       ResultStands, Delivered, Ends
  <2>. QED BY <2>1, <2>2, <2>3, <2>4
<1>8. CASE state = "consecutive" /\ deadline = "due"
  <2>1. CASE Consecutive
    <3>0. PICK next \in 0 .. (SeqModulus - 1) : SentOne(next)
      BY <1>1, <2>1, ConsecutiveSent
    <3>1. transfer'.offset \in Nat /\ flow.block \in Nat /\ flow.sent \in Nat /\ transfer.size \in Nat
      BY <3>0 DEF SentOne, IsoInv, Values
    <3>2. flow' = [flow EXCEPT !.sent = @ + 1] => flow'.waits = flow.waits
      BY DEF IsoInv, Shapes
    <3>3. flow' = [flow EXCEPT !.waits = 0, !.sent = @ + 1] => flow'.waits = 0
      BY DEF IsoInv, Shapes
    <3>. DEFINE granted == flow.block # 0 /\ flow.sent + 1 >= flow.block
    <3>. HIDE DEF Finish, End
    <3>4. CASE transfer'.offset >= transfer.size
      BY <1>5, <2>1, <3>4 DEF Consecutive, AfterConsecutive
    <3>5. CASE ~(transfer'.offset >= transfer.size) /\ granted
      <4>1. End("wait-fc", "future") /\ flow' = [flow EXCEPT !.waits = 0, !.sent = @ + 1]
        BY <2>1, <3>5 DEF Consecutive, AfterConsecutive
      <4>. QED BY <1>6, <2>1, <3>1, <3>3, <3>5, <4>1
    <3>6. CASE ~(transfer'.offset >= transfer.size) /\ ~granted
      <4>1. End("consecutive", flow.separation) /\ flow' = [flow EXCEPT !.sent = @ + 1]
        BY <2>1, <3>6 DEF Consecutive, AfterConsecutive
      <4>. QED BY <1>7, <2>1, <3>1, <3>2, <3>6, <4>1
    <3>. QED BY <3>4, <3>5, <3>6
  <2>. QED BY <1>4, <1>8, <2>1 DEF WorkerPoll, SendConsecutive, Consecutive
<1>. QED BY <1>3, <1>4, <1>8 DEF WorkerPoll

(* Flow control acts on a machine that waits for it, and on no other.      *)
LEMMA RxDispatchStep == ASSUME IsoInv, RxDispatch PROVE IsoInv'
<1>1. /\ lock = "free" /\ fin = "none" /\ rx \in FlowControl /\ rx' = ToWake
      /\ Stage' = Stage /\ UNCHANGED <<startPending, transfer, clientVars, workerVars, notified>>
  BY DEF IsoInv, RxDispatch, Finishing, Stage
<1>2. state = "wait-fc" => busy /\ result = "in-progress" /\ transfer.size \in Sizes
  BY <1>1 DEF IsoInv, OneTransfer, Under, InStep, ResultStands
<1>. USE <1>1, <1>2 DEF Finish, End
<1>3. CASE UNCHANGED <<machineVars, busy, result, deadline, flow, receiver>>
  <2>. USE <1>3 DEF IsoInv
  <2>1. Shapes' /\ Values' /\ Section'
    BY DEF Shapes, Values, Flags, Section
  <2>2. Flags' /\ Finishing' /\ OneTransfer'
    BY DEF Values, Flags, Section, Stage, Finishing, OneTransfer, Under, Ends
  <2>3. Bits'
    BY Zenon DEF Bits
  <2>4. InStep' /\ ResultStands'
    BY DEF Shapes, Values, Flags, Section, Stage, Finishing, OneTransfer, Under, InStep,
       ResultStands, Delivered, Ends
  <2>. QED BY <2>1, <2>2, <2>3, <2>4
<1>4. CASE /\ state = "wait-fc" /\ (\E r \in {"timeout", "overflow", "protocol-error"} : Finish("rx", r))
          /\ flow' \in {flow, [flow EXCEPT !.waits = @ + 1]} /\ UNCHANGED receiver
  <2>. USE <1>4 DEF IsoInv
  <2>1. Shapes' /\ Values' /\ Section'
    BY DEF Shapes, Values, Flags, Section
  <2>2. Flags' /\ Finishing' /\ OneTransfer'
    BY DEF Values, Flags, Section, Stage, Finishing, OneTransfer, Under, Ends
  <2>3. Bits'
    BY Zenon DEF Bits
  <2>4. InStep' /\ ResultStands'
    BY DEF Shapes, Values, Flags, Section, Stage, Finishing, OneTransfer, Under, InStep,
       ResultStands, Delivered, Ends
  <2>. QED BY <2>1, <2>2, <2>3, <2>4
<1>5. CASE /\ state = "wait-fc" /\ flow' = [flow EXCEPT !.waits = @ + 1] /\ flow'.waits <= MaxWait
          /\ End("wait-fc", "future") /\ UNCHANGED receiver
  <2>. USE <1>5 DEF IsoInv
  <2>1. Shapes' /\ Values' /\ Section'
    BY DEF Shapes, Values, Flags, Section
  <2>2. Flags' /\ Finishing' /\ OneTransfer'
    BY DEF Values, Flags, Section, Stage, Finishing, OneTransfer, Under, Ends
  <2>3. Bits'
    BY Zenon DEF Bits
  <2>4. InStep' /\ ResultStands'
    BY DEF Shapes, Values, Flags, Section, Stage, Finishing, OneTransfer, Under, InStep,
       ResultStands, Delivered, Ends
  <2>. QED BY <2>1, <2>2, <2>3, <2>4
<1>6. CASE /\ state = "wait-fc" /\ End("consecutive", "due")
          /\ flow' = [block |-> rx.block, sent |-> 0, waits |-> 0, separation |-> rx.separation]
          /\ rx.block \in BlockSizes /\ rx.separation \in {"due", "future"}
          /\ receiver' = [receiver EXCEPT !.block = 0]
  <2>. USE <1>6 DEF IsoInv
  <2>1. Shapes' /\ Values' /\ Section'
    BY DEF Shapes, Values, Flags, Section
  <2>2. Flags' /\ Finishing' /\ OneTransfer'
    BY DEF Values, Flags, Section, Stage, Finishing, OneTransfer, Under, Ends
  <2>3. Bits'
    BY Zenon DEF Bits
  <2>4. InStep' /\ ResultStands'
    BY DEF Shapes, Values, Flags, Section, Stage, Finishing, OneTransfer, Under, InStep,
       ResultStands, Delivered, Ends
  <2>. QED BY <2>1, <2>2, <2>3, <2>4
<1>7. CASE state = "wait-fc" /\ rx.status = "continue"
  <2>1. rx.block \in BlockSizes /\ rx.separation \in {"due", "future"}
    BY <1>7 DEF FlowControl, Control
  <2>. QED BY <1>6, <1>7, <2>1 DEF RxDispatch, OnFlowControl
<1>8. CASE state = "wait-fc" /\ rx.status = "wait"
  <2>1. flow' = [flow EXCEPT !.waits = @ + 1] /\ flow'.waits \in Nat /\ UNCHANGED receiver
    BY <1>8 DEF RxDispatch, OnFlowControl, IsoInv, Shapes, Values
  <2>2. CASE flow'.waits > MaxWait
    BY <1>4, <1>8, <2>1, <2>2 DEF RxDispatch, OnFlowControl
  <2>3. CASE flow'.waits <= MaxWait
    <3>1. ~(flow'.waits > MaxWait)
      BY <2>1, <2>3
    <3>2. End("wait-fc", "future")
      BY <1>8, <3>1 DEF RxDispatch, OnFlowControl
    <3>. QED BY <1>5, <1>8, <2>1, <2>3, <3>2
  <2>. QED BY <2>1, <2>2, <2>3
<1>9. CASE state = "wait-fc" /\ rx.status \in {"overflow", "malformed"}
  BY <1>4, <1>9 DEF RxDispatch, OnFlowControl
<1>10. rx.status \in {"continue", "wait", "overflow", "malformed"}
  BY DEF FlowControl, Control
<1>. QED BY <1>3, <1>7, <1>8, <1>9, <1>10 DEF RxDispatch

\* Every store of a client, of the worker and of the receive task keeps the
\* invariant.
LEMMA IsoInvStep == ASSUME IsoInv, [IsoNext]_isoVars PROVE IsoInv'
<1>1. CASE \E c \in Clients : StartCheck(c) \/ StartGoesOn(c)
  BY <1>1, StartCheckStep, StartStep
<1>2. CASE Worker
  BY <1>2, WaitingStep, WorkerStartStep, WorkerPollStep DEF Worker
<1>3. CASE FinishGoesOn
  BY <1>3, FinishStep
<1>4. CASE RxBegin \/ RxGoesOn \/ DeadlineComes \/ WaitEnds
  BY <1>4, WaitingStep, RxDispatchStep DEF RxGoesOn
<1>5. CASE UNCHANGED isoVars
  BY <1>5 DEF isoVars, IsoInv, Shapes, Values, Flags, Bits, Section, Stage, Finishing,
     OneTransfer, Under,
              InStep, ResultStands, Delivered
<1>. QED BY <1>1, <1>2, <1>3, <1>4, <1>5 DEF IsoNext

(* Where a transfer is between any two stores, for every client and size.  *)
THEOREM IsoInvariant == IsoSpec => []IsoInv
<1>. QED BY IsoInvInit, IsoInvStep, PTL DEF IsoSpec

(* No variable leaves its type: above all the payload is never read past   *)
(* its end and the wait frames stop one above the configured number.       *)
THEOREM IsoTypeCorrect == IsoSpec => []IsoTypeOK
<1>1. ASSUME IsoInv PROVE IsoTypeOK
  <2>. USE <1>1 DEF IsoInv
  <2>1. transfer.offset \in 0 .. transfer.size /\ flow.waits \in 0 .. (MaxWait + 1)
    BY DEF Values, InStep
  <2>2. finResult \in Ends \cup {"idle"}
    BY DEF Finishing
  <2>3. \A c \in Clients : client[c] \in {"out", "copy", "result", "busy", "pending", "deadline", "wake"}
    BY DEF Section
  <2>. QED BY <2>1, <2>2, <2>3 DEF IsoTypeOK, Values, Flags, Bits, Section
<1>. QED BY <1>1, IsoInvariant, PTL

(* The far end never hears frames of two payloads or out of order in one   *)
(* message, nor more of them than it granted: until the machine is done    *)
(* with a transfer no client can touch the payload, however starts and     *)
(* finishes interleave.                                                    *)
THEOREM FramesInOrderCorrect == IsoSpec => []FramesInOrder
<1>1. IsoInv => FramesInOrder
  BY DEF IsoInv, InStep, FramesInOrder
<1>. QED BY <1>1, IsoInvariant, PTL

(* A client that may start the next transfer and reads "success" knows     *)
(* that the far end has the whole payload of the last one.                 *)
THEOREM SuccessIsDeliveredCorrect == IsoSpec => []SuccessIsDelivered
<1>1. ASSUME IsoInv PROVE SuccessIsDelivered
  <2>1. reqLock = "free" => Stage = "out"
    BY DEF Stage
  <2>. QED BY <1>1, <2>1 DEF IsoInv, InStep, ResultStands, Delivered, SuccessIsDelivered
<1>. QED BY <1>1, IsoInvariant, PTL

-----------------------------------------------------------------------------
(* The service.                                                            *)

Busy == busy \/ Unannounced
Outcome == IF fin = "busy" THEN "in-progress" ELSE result

(* A start that stored its result is the one under request_lock.           *)
LEMMA UnannouncedIsStage == ASSUME Section PROVE Unannounced <=> Stage = "busy"
  BY DEF Section, Stage, Unannounced
\* The same in the next state.
LEMMA UnannouncedIsStageNext == ASSUME Section' PROVE Unannounced' <=> Stage' = "busy"
  BY DEF Section, Stage, Unannounced

(* A start is accepted by the store of its result...                       *)
LEMMA StartIsAccept == ASSUME IsoInv, IsoInv', NEW c \in Clients, StartResult(c)
                       PROVE ~Busy /\ Busy' /\ Outcome' = "in-progress"
<1>1. Stage = "result" /\ Stage' = "busy"
  BY DEF IsoInv, Section, Stage, StartResult
<1>2. ~busy /\ result' = "in-progress"
  BY <1>1 DEF IsoInv, OneTransfer, StartResult
<1>. QED BY <1>1, <1>2, UnannouncedIsStage, UnannouncedIsStageNext DEF IsoInv, Busy, Outcome

(* ... and its end is the store that clears busy.                          *)
LEMMA FinishIsEnd == ASSUME IsoInv, IsoInv', FinishBusy
                     PROVE Busy /\ ~Busy' /\ Outcome' \in AsService!Outcomes
<1>1. busy /\ ~busy' /\ Stage' # "busy"
  BY DEF IsoInv, OneTransfer, Under, Stage, FinishBusy, clientVars
<1>2. Outcome' \in Ends
  BY DEF IsoInv, Finishing, ResultStands, FinishBusy, Outcome
<1>. QED BY <1>1, <1>2, UnannouncedIsStage, UnannouncedIsStageNext DEF IsoInv, Busy, Ends,
            AsService!Outcomes

(* No other step shows.                                                    *)
LEMMA RestIsHidden ==
  ASSUME IsoInv, IsoInv', IsoNext, ~FinishBusy, \A c \in Clients : ~StartResult(c)
  PROVE  Busy' = Busy /\ Outcome' = Outcome
<1>. SUFFICES /\ busy' \/ Stage' = "busy" <=> busy \/ Stage = "busy"
              /\ Outcome' = Outcome
  BY UnannouncedIsStage, UnannouncedIsStageNext DEF IsoInv, Busy, Unannounced
<1>1. ASSUME NEW c \in Clients, StartBusy(c) PROVE busy' /\ Stage = "busy" /\ Outcome' = Outcome
  BY <1>1 DEF StartBusy, IsoInv, Section, Stage, Outcome, machineVars
<1>2. ASSUME NEW c \in Clients, StartCheck(c) \/ StartCopy(c) \/ StartPending(c) \/ StartDeadline(c)
      PROVE  busy' = busy /\ Stage # "busy" /\ Stage' # "busy" /\ Outcome' = Outcome
  <2>1. busy' = busy /\ Outcome' = Outcome
    BY <1>2 DEF StartCheck, StartCopy, StartPending, StartDeadline, Outcome, machineVars
  <2>2. CASE StartCheck(c)
    BY <2>1, <2>2 DEF StartCheck, IsoInv, Section, Stage
  <2>3. CASE StartCopy(c) \/ StartPending(c)
    <3>1. reqLock' = c /\ reqLock = c /\ client[c] # "busy" /\ client'[c] # "busy"
      BY <2>3 DEF StartCopy, StartPending, IsoInv, Section
    <3>. QED BY <2>1, <3>1 DEF Stage
  <2>4. CASE StartDeadline(c)
    BY <2>1, <2>4 DEF StartDeadline, IsoInv, Section, Stage
  <2>. QED BY <1>2, <2>2, <2>3, <2>4
<1>7. ASSUME NEW c \in Clients, StartWake(c) PROVE busy' = busy /\ Stage' = Stage /\ Outcome' = Outcome
  <2>1. reqLock # c
    BY <1>7 DEF StartWake, IsoInv, Section
  <2>. QED BY <1>7, <2>1 DEF StartWake, IsoInv, Section, Stage, Outcome, machineVars
<1>3. CASE FinishResult
  BY <1>3 DEF FinishResult, IsoInv, OneTransfer, Under, ResultStands, Stage, Outcome, clientVars
<1>4. CASE FinishDeadline
  BY <1>4 DEF FinishDeadline, Stage, Outcome, clientVars
<1>5. CASE WorkerPlan \/ WorkerWake \/ WorkerTick \/ RxBegin \/ RxWake \/ DeadlineComes \/ WaitEnds
  BY <1>5 DEF WorkerPlan, WorkerWake, WorkerTick, RxBegin, RxWake, DeadlineComes, WaitEnds,
     Stage, Outcome,
              machineVars, clientVars
<1>6. CASE WorkerStart \/ WorkerPoll \/ RxDispatch
  <2>1. fin = "none" /\ UNCHANGED <<reqLock, client>>
    BY <1>6 DEF WorkerStart, WorkerPoll, RxDispatch, IsoInv, Finishing, clientVars
  <2>2. UNCHANGED <<busy, result>> /\ fin' \in {fin, "result"}
    <3>1. CASE WorkerStart
      BY <3>1 DEF WorkerStart, SendSingle, SendFirst, Finish, End, machineVars
    <3>2. CASE WorkerPoll
      BY <3>2 DEF WorkerPoll, SendConsecutive, AfterConsecutive, Finish, End, machineVars
    <3>3. CASE RxDispatch
      <4>1. CASE UNCHANGED <<machineVars, busy, result, deadline, flow, receiver>>
        BY <4>1 DEF machineVars
      <4>2. CASE OnFlowControl(rx)
        <5>1. rx.status \in {"continue", "wait", "overflow", "malformed"}
          BY <3>3 DEF RxDispatch, FlowControl, Control
        <5>. QED BY <4>2, <5>1 DEF OnFlowControl, Finish, End
      <4>. QED BY <3>3, <4>1, <4>2 DEF RxDispatch
    <3>. QED BY <1>6, <3>1, <3>2, <3>3
  <2>. QED BY <2>1, <2>2 DEF Stage, Outcome
<1>. QED BY <1>1, <1>2, <1>3, <1>4, <1>5, <1>6, <1>7 DEF IsoNext, StartGoesOn, Worker,
            FinishGoesOn, RxGoesOn

(* Clients see one transfer at a time, each with one result that stays     *)
(* until the next start: every store of the transmitter is a step of the   *)
(* service or hidden.                                                      *)
THEOREM ServiceCorrect == IsoSpec => ImplementsService
<1>1. IsoInit => AsService!Init
  BY DEF IsoInit, AsService!Init, Unannounced
<1>2. ASSUME IsoInv, IsoInv', [IsoNext]_isoVars
      PROVE  [AsService!Next]_<<busy \/ Unannounced, IF fin = "busy" THEN "in-progress" ELSE result>>
  <2>1. CASE \E c \in Clients : StartResult(c)
    BY <1>2, <2>1, StartIsAccept DEF AsService!Next, AsService!Accept, Busy, Outcome
  <2>2. CASE FinishBusy
    BY <1>2, <2>2, FinishIsEnd DEF AsService!Next, AsService!End, Busy, Outcome
  <2>3. CASE IsoNext /\ ~FinishBusy /\ \A c \in Clients : ~StartResult(c)
    BY <1>2, <2>3, RestIsHidden DEF Busy, Outcome
  <2>4. CASE UNCHANGED isoVars
    BY <2>4 DEF isoVars, Unannounced
  <2>. QED BY <1>2, <2>1, <2>2, <2>3, <2>4
<1>. QED BY <1>1, <1>2, IsoInvariant, PTL DEF IsoSpec, ImplementsService, AsService!Spec
=============================================================================
