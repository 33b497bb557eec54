-------------------------------- MODULE Mcp2515 --------------------------------
(***************************************************************************)
(* The driver of the second bus, components/esp_twai_mcp2515: the holder   *)
(* of can.c's node_lock that transmits, disables, deletes and creates the  *)
(* node; the interrupt task, which the falling edge of the INT pin wakes;  *)
(* and the controller itself, external, with two transmit and two receive  *)
(* buffers behind one SPI bus.                                             *)
(*                                                                         *)
(* Each SPI transfer is a step, and so is each access of the driver to     *)
(* what the other task shares.  A transfer may fail, and then changes      *)
(* nothing.  Frames are numbered in the order they are handed over, from   *)
(* the bus and to it; 0 is no frame.  can.c recreates a node rather than   *)
(* enable it again, so a node that is enabled has nothing queued.          *)
(***************************************************************************)
EXTENDS Naturals, Sequences, FiniteSets

CONSTANTS
  TxDepthMcp,  (* tx_queue_depth                                           *)
  Workloads    (* how often each thing may happen: transmit, receive,      *)
               (* change of the error state, failed transfer, disable      *)

ASSUME WorkloadAssumption ==
  /\ TxDepthMcp \in Nat \ {0}
  /\ Workloads \subseteq [sends : Nat, hears : Nat, errors : Nat, faults : Nat, rounds : Nat]

VARIABLES
  left,     (* bounds: what of the workload is left                        *)
  chip,     (* the controller: mode, CANINTE, CANINTF, the buffers whose   *)
            (* TXREQ is set, the contents of both kinds of buffer, EFLG    *)
  irq,      (* the GPIO interrupt is enabled                               *)
  woken,    (* the notification of the interrupt task                      *)
  queueMcp, (* tx_queue                                                    *)
  drv,      (* state, hw_busy, p_curr_tx, p_staged_tx, curr_txb            *)
  api,      (* where the holder of node_lock is, and with which frame      *)
  work,     (* where the interrupt task is, with its local variables       *)
  went,     (* history: the frames that went over the wire, in order       *)
  done,     (* history: the frames on_tx_done was called with, in order    *)
  failed,   (* history: a transfer of this node failed                     *)
  deaf      (* history: INT was low when the GPIO interrupt was enabled,   *)
            (* or was left so by a failed transfer                         *)

mcpVars == <<left, chip, irq, woken, queueMcp, drv, api, work, went, done, failed, deaf>>

TxFlags == {"tx0", "tx1"}
TxIf(b) == IF b = 0 THEN "tx0" ELSE "tx1"

FreshChip ==
  [mode |-> "config", inte |-> FALSE, intf |-> {}, txreq |-> {},
   txb |-> [b \in {0, 1} |-> 0], rxb |-> [b \in {0, 1} |-> 0], eflg |-> "active"]
FreshDrv  == [state |-> "off", busy |-> FALSE, curr |-> 0, staged |-> 0, txb |-> 0]
FreshWork == [at |-> "sleep", intf |-> {}, frame |-> 0, txb |-> 0, next |-> 0, eflg |-> "active"]

IntLow(c) == c.inte /\ c.intf # {}

Does(n) == left' = [left EXCEPT ![n] = @ - 1]

\* What a transfer does to the controller, or the failure that leaves it alone.
Works(c) == chip' = c /\ UNCHANGED <<left, failed>>
Fails == /\ left.faults > 0 /\ Does("faults")
         /\ failed' = TRUE /\ UNCHANGED chip

\* What transfers do: LOAD TX BUFFER, RTS, a bit modify of CANINTF, READ RX BUFFER.
Loads(b, f) == [chip EXCEPT !.txb[b] = f]
Requests(b) == [chip EXCEPT !.txreq = @ \cup {b}]
Clears(fs)  == [chip EXCEPT !.intf = @ \ fs]
Takes(f, b) == [chip EXCEPT !.intf = @ \ {f}, !.rxb[b] = 0]

At(to)     == api' = [api EXCEPT !.at = to]
WorkAt(to) == work' = [work EXCEPT !.at = to]

---------------------------------------------------------------------------
(* The controller.  A flag that pulls INT low is an edge, which wakes the  *)
(* interrupt task if the GPIO interrupt is enabled (mcp2515_gpio_isr).     *)

Raise(c) ==
  /\ chip' = c
  /\ woken' = (woken \/ (irq /\ ~IntLow(chip) /\ IntLow(c)))

ChipSends(b) ==
  /\ chip.mode = "normal" /\ chip.eflg # "off" /\ b \in chip.txreq
  /\ Raise([chip EXCEPT !.txreq = @ \ {b}, !.intf = @ \cup {TxIf(b)}])
  /\ went' = Append(went, chip.txb[b])
  /\ UNCHANGED <<left, irq, queueMcp, drv, api, work, done, failed, deaf>>

\* A frame goes to RXB0, rolls over into RXB1, or is lost with an error flag.
ChipHears ==
  /\ chip.mode = "normal" /\ left.hears > 0
  /\ Does("hears")
  /\ Raise(IF chip.rxb[0] = 0
           THEN [chip EXCEPT !.rxb[0] = left.hears, !.intf = @ \cup {"rx0"}]
           ELSE IF chip.rxb[1] = 0
           THEN [chip EXCEPT !.rxb[1] = left.hears, !.intf = @ \cup {"rx1"}]
           ELSE [chip EXCEPT !.intf = @ \cup {"err"}])
  /\ UNCHANGED <<irq, queueMcp, drv, api, work, went, done, failed, deaf>>

ChipErrs ==
  /\ chip.mode = "normal" /\ left.errors > 0
  /\ Does("errors")
  /\ \E e \in {"active", "passive", "off"} \ {chip.eflg} :
       Raise([chip EXCEPT !.eflg = e, !.intf = @ \cup {"err"}])
  /\ UNCHANGED <<irq, queueMcp, drv, api, work, went, done, failed, deaf>>

---------------------------------------------------------------------------
(* mcp2515_node_transmit.                                                  *)

\* A node that is off refuses; the compare-and-swap decides who owns the transmit
\* state, and the winner starts a transfer in buffer 0.
TransmitSwap ==
  /\ api.at = "out" /\ drv.state # "off" /\ left.sends > 0
  /\ Does("sends")
  /\ LET f == api.frame + 1 IN
       IF drv.busy
       THEN api' = [at |-> "queue", frame |-> f] /\ UNCHANGED drv
       ELSE /\ api' = [at |-> "load", frame |-> f]
            /\ drv' = [drv EXCEPT !.busy = TRUE, !.curr = f, !.txb = 0]
  /\ UNCHANGED <<chip, irq, woken, queueMcp, work, went, done, failed, deaf>>

\* An SPI error does not leave the path wedged busy.
GiveUp ==
  /\ drv' = [drv EXCEPT !.curr = 0, !.busy = FALSE]
  /\ At("out")

TransmitLoad ==
  /\ api.at = "load"
  /\ \/ Works(Loads(0, api.frame)) /\ At("rts") /\ UNCHANGED drv
     \/ Fails /\ GiveUp
  /\ UNCHANGED <<irq, woken, queueMcp, work, went, done, deaf>>

TransmitRts ==
  /\ api.at = "rts"
  /\ \/ Works(Requests(0)) /\ At("out") /\ UNCHANGED drv
     \/ Fails /\ GiveUp
  /\ UNCHANGED <<irq, woken, queueMcp, work, went, done, deaf>>

\* The time-out is 0: a full queue refuses.
TransmitQueue ==
  /\ api.at = "queue"
  /\ queueMcp' = IF Len(queueMcp) < TxDepthMcp THEN Append(queueMcp, api.frame) ELSE queueMcp
  /\ At("out")
  /\ UNCHANGED <<left, chip, irq, woken, drv, work, went, done, failed, deaf>>

---------------------------------------------------------------------------
(* can_disable: mcp2515_node_disable, whatever it returns, then            *)
(* mcp2515_node_delete.                                                    *)

\* A node that is off by itself is not disabled again.
Disable ==
  /\ api.at = "out" /\ left.rounds > 0
  /\ Does("rounds")
  /\ IF drv.state = "off" THEN At("delete") /\ UNCHANGED irq
     ELSE At("inte") /\ irq' = FALSE
  /\ UNCHANGED <<chip, woken, queueMcp, drv, work, went, done, failed, deaf>>

\* CANINTE, configuration mode, TXREQ of both buffers, CANINTF; an error ends it.
DisableChip ==
  /\ \/ api.at = "inte"  /\ Works([chip EXCEPT !.inte = FALSE]) /\ At("mode")
     \/ api.at = "mode"  /\ Works([chip EXCEPT !.mode = "config", !.eflg = "active"]) /\ At("txreq")
     \/ api.at = "txreq" /\ Works([chip EXCEPT !.txreq = {}]) /\ At("intf")
     \/ api.at = "intf"  /\ Works([chip EXCEPT !.intf = {}, !.rxb = FreshChip.rxb]) /\ At("drop")
     \/ api.at \in {"inte", "mode", "txreq", "intf"} /\ Fails /\ At("delete")
  /\ UNCHANGED <<irq, woken, queueMcp, drv, work, went, done, deaf>>

DisableDrop ==
  /\ api.at = "drop"
  /\ drv' = [drv EXCEPT !.curr = 0, !.staged = 0, !.busy = FALSE, !.state = "off"]
  /\ At("delete")
  /\ UNCHANGED <<left, chip, irq, woken, queueMcp, work, went, done, failed, deaf>>

\* A node that is not off is not deleted, and can.c forgets it: the next one waits
\* for the SPI bus that this one keeps acquired.
Delete ==
  /\ api.at = "delete"
  /\ IF drv.state # "off"
     THEN At("leaked") /\ UNCHANGED <<irq, woken, queueMcp, work>>
     ELSE /\ At("gone")
          /\ irq' = FALSE /\ woken' = FALSE /\ queueMcp' = <<>>
          /\ work' = [FreshWork EXCEPT !.at = "dead"]
  /\ UNCHANGED <<left, chip, drv, went, done, failed, deaf>>

---------------------------------------------------------------------------
(* can_enable: twai_new_node_mcp2515, which resets the controller, then    *)
(* mcp2515_node_enable; a node that refuses is deleted, and one that could *)
(* not be created leaves nothing.                                          *)

Create ==
  /\ api.at = "gone"
  /\ chip' = FreshChip /\ drv' = FreshDrv /\ work' = FreshWork
  /\ went' = <<>> /\ done' = <<>> /\ failed' = FALSE /\ deaf' = FALSE
  /\ api' = [at |-> "normal", frame |-> 0]
  /\ UNCHANGED <<left, irq, woken, queueMcp>>

EnableChip ==
  /\ \/ api.at = "normal" /\ Works([chip EXCEPT !.mode = "normal"]) /\ At("ints")
     \/ api.at = "ints" /\ Works([chip EXCEPT !.inte = TRUE]) /\ At("irq")
     \/ api.at \in {"normal", "ints"} /\ Fails /\ At("delete")
  /\ UNCHANGED <<irq, woken, queueMcp, drv, work, went, done, deaf>>

\* An edge that came before is lost.
EnableIrq ==
  /\ api.at = "irq"
  /\ drv' = [drv EXCEPT !.state = "active"]
  /\ irq' = TRUE /\ deaf' = IntLow(chip)
  /\ At("out")
  /\ UNCHANGED <<left, chip, woken, queueMcp, work, went, done, failed>>

---------------------------------------------------------------------------
(* mcp2515_intr_work, in the interrupt task.                               *)

Sleep ==
  /\ work.at = "sleep" /\ woken
  /\ woken' = FALSE /\ WorkAt("read")
  /\ UNCHANGED <<left, chip, irq, queueMcp, drv, api, went, done, failed, deaf>>

\* The flags are read once per round; without them the task sleeps again.
ReadFlags ==
  /\ work.at = "read"
  /\ \/ /\ Works(chip) /\ UNCHANGED deaf
        /\ work' = [work EXCEPT !.at = IF chip.intf = {} THEN "sleep" ELSE "tx", !.intf = chip.intf]
     \/ /\ Fails /\ WorkAt("sleep")
        /\ deaf' = (deaf \/ (IntLow(chip) /\ ~woken))
  /\ UNCHANGED <<irq, woken, queueMcp, drv, api, went, done>>

\* A transmission is over: the staged frame is next, or the first of the queue, or
\* none.  A flag that belongs to no frame is only cleared.
TxIsOver ==
  /\ work.at = "tx"
  /\ IF work.intf \cap TxFlags = {} THEN WorkAt("rx0") /\ UNCHANGED <<queueMcp, drv>>
     ELSE IF drv.curr = 0 \/ TxIf(drv.txb) \notin work.intf
     THEN WorkAt("stale") /\ UNCHANGED <<queueMcp, drv>>
     ELSE LET w == [work EXCEPT !.frame = drv.curr, !.txb = drv.txb] IN
          \/ /\ drv.staged # 0
             /\ work' = [w EXCEPT !.at = "rts"] /\ UNCHANGED <<queueMcp, drv>>
          \/ /\ drv.staged = 0 /\ queueMcp # <<>>
             /\ work' = [w EXCEPT !.at = "reuse", !.next = Head(queueMcp)]
             /\ queueMcp' = Tail(queueMcp) /\ UNCHANGED drv
          \/ /\ drv.staged = 0 /\ queueMcp = <<>>
             /\ work' = [w EXCEPT !.at = "clear"]
             /\ drv' = [drv EXCEPT !.curr = 0] /\ UNCHANGED queueMcp
  /\ UNCHANGED <<left, chip, irq, woken, api, went, done, failed, deaf>>

\* A transfer of the interrupt task whose result it does not look at, or only to stop:
\* from one place to the next, or to `instead` if it failed.
Transfer(from, effect, to, instead) ==
  /\ work.at = from
  /\ \/ Works(effect) /\ WorkAt(to)
     \/ Fails /\ WorkAt(instead)
  /\ UNCHANGED <<irq, woken, queueMcp, drv, api, went, done, deaf>>

TxTransfers ==
  \/ Transfer("stale", Clears(work.intf \cap TxFlags), "rx0", "rx0")
  \/ Transfer("rts", Requests(1 - work.txb), "shift", "shift")
  \/ Transfer("clear", Clears({TxIf(work.txb)}), "report", "report")
  \/ Transfer("reuse", Clears({TxIf(work.txb)}), "start", "start")
  \/ Transfer("load", Loads(work.txb, work.next), "go", "report")
  \/ Transfer("go", Requests(work.txb), "report", "report")
  \/ Transfer("preload", Loads(1 - drv.txb, work.next), "rx0", "rx0")

\* Mutant: the staged frame stays staged.
TxShift_Keeps ==
  /\ \/ /\ work.at = "shift" /\ WorkAt("clear")
        /\ drv' = [drv EXCEPT !.curr = drv.staged, !.txb = 1 - work.txb]
     \/ /\ work.at = "start" /\ WorkAt("load")
        /\ drv' = [drv EXCEPT !.curr = work.next, !.txb = work.txb]
  /\ UNCHANGED <<left, chip, irq, woken, queueMcp, api, went, done, failed, deaf>>

\* p_curr_tx follows what was started.
TxShift ==
  /\ \/ /\ work.at = "shift" /\ WorkAt("clear")
        /\ drv' = [drv EXCEPT !.curr = drv.staged, !.txb = 1 - work.txb, !.staged = 0]
     \/ /\ work.at = "start" /\ WorkAt("load")
        /\ drv' = [drv EXCEPT !.curr = work.next, !.txb = work.txb]
  /\ UNCHANGED <<left, chip, irq, woken, queueMcp, api, went, done, failed, deaf>>

\* on_tx_done.
TxReport ==
  /\ work.at = "report"
  /\ done' = Append(done, work.frame)
  /\ WorkAt("after")
  /\ UNCHANGED <<left, chip, irq, woken, queueMcp, drv, api, went, failed, deaf>>

\* Nothing follows: the transmit state is the senders' again.  Otherwise the frame
\* after the next is loaded into the buffer that has become free.
TxAfter ==
  /\ work.at = "after"
  /\ \/ /\ drv.curr = 0
        /\ drv' = [drv EXCEPT !.busy = FALSE] /\ WorkAt("rx0") /\ UNCHANGED queueMcp
     \/ /\ drv.curr # 0 /\ drv.staged = 0 /\ queueMcp # <<>>
        /\ drv' = [drv EXCEPT !.staged = Head(queueMcp)] /\ queueMcp' = Tail(queueMcp)
        /\ work' = [work EXCEPT !.at = "preload", !.next = Head(queueMcp)]
     \/ /\ drv.curr # 0 /\ (drv.staged # 0 \/ queueMcp = <<>>)
        /\ WorkAt("rx0") /\ UNCHANGED <<queueMcp, drv>>
  /\ UNCHANGED <<left, chip, irq, woken, api, went, done, failed, deaf>>

\* Reading a receive buffer clears its flag and frees it.
RxTransfers ==
  \/ "rx0" \in work.intf /\ Transfer("rx0", Takes("rx0", 0), "rx1", "rx1")
  \/ "rx1" \in work.intf /\ Transfer("rx1", Takes("rx1", 1), "err", "err")

\* The error flags, and the state they stand for, which can_on_state_change hears of.
ErrRead ==
  /\ work.at = "err" /\ "err" \in work.intf
  /\ \/ Works(chip) /\ work' = [work EXCEPT !.at = "state", !.eflg = chip.eflg]
     \/ Fails /\ WorkAt("errclear")
  /\ UNCHANGED <<irq, woken, queueMcp, drv, api, went, done, deaf>>

ErrState ==
  /\ work.at = "state"
  /\ drv' = [drv EXCEPT !.state = work.eflg]
  /\ WorkAt("errclear")
  /\ UNCHANGED <<left, chip, irq, woken, queueMcp, api, went, done, failed, deaf>>

ErrClear == Transfer("errclear", Clears({"err"}), "pin", "pin")

\* What the snapshot does not hold is skipped.
Skip ==
  /\ \/ work.at = "rx0" /\ "rx0" \notin work.intf /\ WorkAt("rx1")
     \/ work.at = "rx1" /\ "rx1" \notin work.intf /\ WorkAt("err")
     \/ work.at = "err" /\ "err" \notin work.intf /\ WorkAt("pin")
  /\ UNCHANGED <<left, chip, irq, woken, queueMcp, drv, api, went, done, failed, deaf>>

\* Mutant: one round per edge.
CheckPin_Once ==
  /\ work.at = "pin"
  /\ WorkAt("sleep")
  /\ UNCHANGED <<left, chip, irq, woken, queueMcp, drv, api, went, done, failed, deaf>>

\* Another round while INT is low: the flag that holds it will give no edge.
CheckPin ==
  /\ work.at = "pin"
  /\ WorkAt(IF IntLow(chip) THEN "read" ELSE "sleep")
  /\ UNCHANGED <<left, chip, irq, woken, queueMcp, drv, api, went, done, failed, deaf>>

---------------------------------------------------------------------------
McpInit ==
  /\ left \in Workloads
  /\ chip = FreshChip /\ irq = FALSE /\ woken = FALSE /\ queueMcp = <<>>
  /\ drv = FreshDrv /\ work = [FreshWork EXCEPT !.at = "dead"]
  /\ api = [at |-> "gone", frame |-> 0]
  /\ went = <<>> /\ done = <<>> /\ failed = FALSE /\ deaf = FALSE

Chip == (\E b \in {0, 1} : ChipSends(b)) \/ ChipHears \/ ChipErrs
Transmits == TransmitSwap \/ TransmitLoad \/ TransmitRts \/ TransmitQueue
TurnsOff == Disable \/ DisableChip \/ DisableDrop \/ Delete
TurnsOn == Create \/ EnableChip \/ EnableIrq
Interrupt == \/ Sleep \/ ReadFlags \/ TxIsOver \/ TxTransfers \/ TxShift \/ TxReport \/ TxAfter
             \/ RxTransfers \/ ErrRead \/ ErrState \/ ErrClear \/ Skip \/ CheckPin

McpNext == Chip \/ Transmits \/ TurnsOff \/ TurnsOn \/ Interrupt

\* The interrupt task has the highest priority of its core.
McpFairness == WF_mcpVars(Interrupt)

McpSpec == McpInit /\ [][McpNext]_mcpVars /\ McpFairness

---------------------------------------------------------------------------
\* One transmission is pending at a time; no frame goes out twice; and can.c is told
\* of the frames that went, of each once and in that order, whatever is queued,
\* staged, received or disabled meanwhile (esp_twai_mcp2515.c:56-63, 306) - as long as
\* no transfer fails: of most nobody looks at the result.
TxPipeline ==
  ~failed =>
    /\ Cardinality(chip.txreq) <= 1
    /\ \A i, j \in DOMAIN went : went[i] = went[j] => i = j
    /\ Len(done) <= Len(went) /\ \A i \in DOMAIN done : done[i] = went[i]

\* INT never stays low: every flag is taken up, also one raised while the interrupt
\* task is at work on others (esp_twai_mcp2515.c:543-547) - unless the node is deaf: INT
\* was low when it was enabled, or the flags could not be read.
FlagsServed == IntLow(chip) /\ irq /\ ~deaf ~> ~IntLow(chip) \/ ~irq \/ deaf

\* "Exactly one TXREQ is ever pending, so frame order is preserved."
\* (esp_twai_mcp2515.c:59)
FrameOrder == \A i, j \in DOMAIN went : i < j => went[i] < went[j]

\* "Tear a bus down: stops the interrupt sources (no callbacks after this), then
\* delete frees the node." (can.c:554)
TornDown == api.at # "leaked"
=================================================================================
