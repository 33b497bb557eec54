----------------------------- MODULE Mcp2515Proofs -----------------------------
(***************************************************************************)
(* The transmit path of the driver of the second bus, for every depth of   *)
(* the queue and every workload.  Two tasks share the transmit state       *)
(* without a lock, and the controller sends when it likes: the invariant   *)
(* follows each frame from the queue through the staged and the current    *)
(* place to the wire and to the report, place by place.                    *)
(***************************************************************************)
EXTENDS Mcp2515, FiniteSetTheorems, TLAPS

\* The interrupt task has a frame in hand: it is over, and not yet reported.
InHand == {"rts", "shift", "clear", "report", "reuse", "start", "load", "go"}

\* The frames reported once the one in hand is.
Due == Len(done) + (IF work.at \in InHand THEN 1 ELSE 0)

\* The controller may send, now or once it is set to normal mode.
Ready == chip.mode = "normal" \/ api.at = "normal"

\* And the node has its interrupt task.
Live == work.at # "dead" /\ Ready

\* The numbers of the frames the driver has taken.
Top == IF api.at = "queue" THEN api.frame - 1 ELSE api.frame

Raised(b) == TxIf(b) \in chip.intf
Fresh(f) == f \in 1 .. Top /\ \A i \in DOMAIN went : went[i] # f

McpTypes ==
  /\ chip = [mode |-> chip.mode, inte |-> chip.inte, intf |-> chip.intf, txreq |-> chip.txreq,
             txb |-> chip.txb, rxb |-> chip.rxb, eflg |-> chip.eflg]
  /\ chip.txreq \subseteq {0, 1} /\ chip.txb \in [{0, 1} -> Nat]
  /\ drv = [state |-> drv.state, busy |-> drv.busy, curr |-> drv.curr, staged |-> drv.staged,
            txb |-> drv.txb]
  /\ drv.curr \in Nat /\ drv.staged \in Nat /\ drv.txb \in {0, 1}
  /\ work.txb \in {0, 1} /\ work.next \in Nat /\ api.frame \in Nat
  /\ queueMcp \in Seq(Nat) /\ went \in Seq(Nat) /\ done \in Seq(Nat)

\* Where the holder of node_lock is tells the mode of the controller.
ModeInv ==
  /\ api.at \in {"out", "load", "rts", "queue", "ints", "irq", "inte", "mode"} =>
       chip.mode = "normal"
  /\ api.at \in {"txreq", "intf", "drop"} => chip.mode # "normal"

\* What is reported went, and the frame in hand is the next to report.
ReportInv ==
  /\ Due <= Len(went)
  /\ \A i \in 1 .. Len(done) : done[i] = went[i]
  /\ work.at \in InHand => work.frame = went[Due]

\* One request at a time, for a frame that has not gone out.
RequestInv ==
  /\ \A b, c \in chip.txreq : b = c
  /\ Ready => \A b \in chip.txreq : Fresh(chip.txb[b])
  /\ \A i, j \in DOMAIN went : went[i] = went[j] => i = j
  /\ \A i \in DOMAIN went : went[i] <= Top

\* Of frame f, in buffer t: it has gone out if the flag of t is set, and only then, and
\* it is the last that has.
InBuffer(f, t) ==
  /\ chip.txreq \subseteq {t}
  /\ Raised(t) => chip.txreq = {} /\ Len(went) = Due + 1 /\ went[Due + 1] = f
  /\ Live /\ ~Raised(t) => Len(went) = Due /\ Fresh(f)
  /\ Live /\ t \in chip.txreq => chip.txb[t] = f

\* The current frame, if there is one.
CurrInv ==
  work.at \notin {"dead", "rts", "shift", "reuse", "start"} =>
    /\ drv.curr # 0 => InBuffer(drv.curr, drv.txb)
    /\ drv.curr # 0 /\ work.at # "clear" => ~Raised(1 - drv.txb)
    /\ drv.curr # 0 /\ work.at = "clear" => drv.txb = 1 - work.txb
    /\ drv.curr = 0 /\ Live =>
         /\ chip.txreq = {} /\ Len(went) = Due
         /\ work.at # "clear" => ~Raised(0) /\ ~Raised(1)
         /\ work.at = "clear" => ~Raised(1 - work.txb)

\* The frame that follows the one in hand, on its way to be the current one.
NextInv ==
  /\ work.at = "shift" /\ drv.staged # 0 => InBuffer(drv.staged, 1 - work.txb)
  /\ work.at = "shift" /\ Live => drv.staged # 0
  /\ work.at \in {"rts", "reuse", "start", "load", "go"} =>
       chip.txreq = {} /\ ~Raised(1 - work.txb) /\ (Live => Len(went) = Due)
  /\ work.at = "rts" /\ Live => drv.staged # 0 /\ drv.txb = work.txb
  /\ work.at \in {"reuse", "start"} /\ Live => Fresh(work.next)
  /\ work.at = "start" => ~Raised(work.txb)
  /\ work.at \in {"load", "go"} =>
       /\ ~Raised(work.txb) /\ (drv.curr # 0 => drv.txb = work.txb)
       /\ Live => drv.curr = work.next /\ drv.curr # 0
  /\ work.at = "go" /\ Live => chip.txb[work.txb] = work.next

\* The staged frame is in the other buffer.
StagedInv ==
  drv.staged # 0 =>
    /\ work.at \notin {"clear", "report", "after", "reuse", "start", "load", "go"}
    /\ Live /\ work.at # "shift" =>
         /\ Fresh(drv.staged) /\ drv.curr # 0 /\ drv.staged # drv.curr
         /\ work.at # "preload" => chip.txb[1 - drv.txb] = drv.staged
         /\ work.at = "preload" => work.next = drv.staged

\* The queue.
QueueInv ==
  Live =>
    /\ drv.curr <= Top /\ drv.staged <= Top
    /\ \A i \in DOMAIN queueMcp :
         /\ Fresh(queueMcp[i]) /\ queueMcp[i] # drv.curr /\ queueMcp[i] # drv.staged
         /\ work.at \in {"reuse", "start"} => queueMcp[i] # work.next
    /\ \A i, j \in DOMAIN queueMcp : queueMcp[i] = queueMcp[j] => i = j

\* A sender that owns the transmit state.
OwnerInv ==
  /\ Live /\ ~drv.busy => drv.curr = 0 /\ work.at \notin InHand \cup {"after", "preload"}
  /\ api.at \in {"load", "rts"} =>
       /\ drv.curr = api.frame /\ drv.curr # 0 /\ drv.txb = 0 /\ drv.staged = 0
       /\ work.at \notin InHand \cup {"after", "preload"}
       /\ chip.txreq = {} /\ ~Raised(0) /\ ~Raised(1)
  /\ api.at = "rts" => chip.txb[0] = api.frame

\* What the interrupt task read of the flags.
SnapshotInv ==
  /\ work.at = "tx" =>
       /\ drv.curr # 0 /\ TxIf(drv.txb) \in work.intf =>
            chip.txreq = {} /\ Len(went) = Due + 1 /\ went[Due + 1] = drv.curr
       /\ Live => work.intf \cap TxFlags \subseteq chip.intf
  /\ work.at = "stale" => ~Live

PipelineInv ==
  /\ McpTypes /\ ModeInv /\ ReportInv /\ RequestInv /\ CurrInv /\ NextInv /\ StagedInv
  /\ QueueInv /\ OwnerInv /\ SnapshotInv

\* A failed transfer ends what is promised, until the node is created anew.
McpInv ==
  /\ api = [at |-> api.at, frame |-> api.frame]
  /\ work = [at |-> work.at, intf |-> work.intf, frame |-> work.frame, txb |-> work.txb,
             next |-> work.next, eflg |-> work.eflg]
  /\ api.at = "gone" => queueMcp = <<>>
  /\ api.at = "gone" <=> work.at = "dead"
  /\ ~failed => PipelineInv

\* The two transmit buffers and their interrupt flags are different.
LEMMA TxFlagFacts ==
  /\ \A b \in {0, 1} : /\ 1 - b \in {0, 1} /\ 1 - (1 - b) = b /\ 1 - b # b
                       /\ TxIf(b) \in TxFlags /\ TxIf(b) # TxIf(1 - b)
                       /\ TxIf(b) \notin {"rx0", "rx1", "err"}
  /\ TxFlags = {TxIf(0), TxIf(1)}
  BY DEF TxIf, TxFlags

\* The places at which nothing is in hand and nothing was read.
Plain == {"sleep", "read", "rx0", "rx1", "err", "state", "errclear", "pin"}

\* Steps that leave the transmit state alone.
LEMMA Quiet ==
  ASSUME PipelineInv, McpTypes',
         chip'.mode = chip.mode, chip'.txreq = chip.txreq, chip'.txb = chip.txb,
         chip'.intf \cap TxFlags = chip.intf \cap TxFlags,
         drv'.curr = drv.curr, drv'.staged = drv.staged, drv'.txb = drv.txb,
         drv'.busy = drv.busy,
         UNCHANGED <<api, queueMcp, went, done>>,
         \/ work' = work
         \/ work.at \in Plain \cup {"tx"} /\ work'.at \in Plain
         \/ work.at = "tx" /\ work'.at = "stale" /\ ~Live
  PROVE  PipelineInv'
  <1>1. \/ work' = work
        \/ work.at \in Plain \cup {"tx"} /\ work'.at \in Plain \cup {"stale"}
    OBVIOUS
  <1>2. Top' = Top /\ Due' = Due /\ Live' = Live /\ Ready' = Ready
    BY <1>1 DEF Top, Due, Live, Ready, InHand, Plain
  <1>3. \A b \in {0, 1} : TxIf(b) \in chip'.intf <=> TxIf(b) \in chip.intf
    BY TxFlagFacts
  <1>4. drv.txb \in {0, 1} /\ 1 - drv.txb \in {0, 1} /\ work.txb \in {0, 1} /\ 1 - work.txb \in {0, 1}
    BY DEF PipelineInv, McpTypes
  <1>5. ModeInv'
    BY DEF PipelineInv, ModeInv
  <1>6. ReportInv'
    BY <1>1, <1>2 DEF PipelineInv, ReportInv, InHand, Plain
  <1>7. RequestInv'
    BY <1>2 DEF PipelineInv, RequestInv, Fresh
  <1>8. CurrInv'
    BY <1>1, <1>2, <1>3, <1>4 DEF PipelineInv, CurrInv, InBuffer, Raised, Fresh, Plain
  <1>9. NextInv'
    BY <1>1, <1>2, <1>3, <1>4 DEF PipelineInv, NextInv, InBuffer, Raised, Fresh, Plain
  <1>10. StagedInv'
    BY <1>1, <1>2 DEF PipelineInv, StagedInv, Fresh, Plain
  <1>11. QueueInv'
    BY <1>1, <1>2 DEF PipelineInv, QueueInv, Fresh, Plain
  <1>12. OwnerInv'
    BY <1>1, <1>2, <1>3 DEF PipelineInv, OwnerInv, Raised, Plain, InHand
  <1>13. SnapshotInv'
    BY <1>1, <1>2, <1>3 DEF PipelineInv, SnapshotInv, Plain
  <1>14. QED
    BY <1>5, <1>6, <1>7, <1>8, <1>9, <1>10, <1>11, <1>12, <1>13 DEF PipelineInv

\* What every step of one of these lemmas starts from.
Steady ==
  /\ PipelineInv
  /\ api = [at |-> api.at, frame |-> api.frame]
  /\ work = [at |-> work.at, intf |-> work.intf, frame |-> work.frame, txb |-> work.txb,
             next |-> work.next, eflg |-> work.eflg]
  /\ api.at = "gone" => queueMcp = <<>>
  /\ api.at = "gone" <=> work.at = "dead"

\* The controller sends what is requested.
LEMMA SendKeeps ==
  ASSUME Steady, NEW b \in {0, 1}, ChipSends(b)
  PROVE  PipelineInv'
  <1> DEFINE f == chip.txb[b]
  <1>1. /\ chip.mode = "normal" /\ b \in chip.txreq
        /\ chip'.mode = "normal" /\ chip'.txreq = chip.txreq \ {b} /\ chip'.txb = chip.txb
        /\ chip'.intf = chip.intf \cup {TxIf(b)}
        /\ went' = Append(went, f)
        /\ UNCHANGED <<queueMcp, drv, api, work, done>>
    BY DEF ChipSends, Raise, Steady, PipelineInv, McpTypes
  <1>2. f \in Nat /\ went \in Seq(Nat) /\ done \in Seq(Nat)
    BY DEF Steady, PipelineInv, McpTypes
  <1>3. McpTypes'
    <2>1. chip' = [mode |-> chip'.mode, inte |-> chip'.inte, intf |-> chip'.intf,
                   txreq |-> chip'.txreq, txb |-> chip'.txb, rxb |-> chip'.rxb,
                   eflg |-> chip'.eflg]
      BY DEF ChipSends, Raise, Steady, PipelineInv, McpTypes
    <2>2. went' \in Seq(Nat)
      BY <1>1, <1>2
    <2>3. QED
      BY <1>1, <2>1, <2>2 DEF Steady, PipelineInv, McpTypes
  <1>4. chip'.txreq = {} /\ chip.txreq = {b}
    BY <1>1 DEF Steady, PipelineInv, RequestInv
  <1>5. /\ Len(went') = Len(went) + 1 /\ Len(went) \in Nat
        /\ \A i \in 1 .. Len(went) : went'[i] = went[i]
        /\ went'[Len(went) + 1] = f
    BY <1>1, <1>2
  <1>6. Top' = Top /\ Due' = Due /\ Live' = Live /\ Ready' = Ready
    BY <1>1 DEF Top, Due, Live, Ready
  <1>7. Fresh(f) /\ Ready /\ (work.at # "dead" => Live)
    BY <1>1 DEF Steady, PipelineInv, RequestInv, Ready, Live
  <1>8. \A c \in {0, 1} : TxIf(c) \in chip'.intf <=> c = b \/ TxIf(c) \in chip.intf
    BY <1>1, TxFlagFacts
  <1>9. drv.txb \in {0, 1} /\ 1 - drv.txb \in {0, 1} /\ work.txb \in {0, 1} /\ 1 - work.txb \in {0, 1}
    BY DEF Steady, PipelineInv, McpTypes
  <1>10. ModeInv'
    BY <1>1 DEF Steady, PipelineInv, ModeInv
  <1>11. Due \in Nat /\ Len(done) \in Nat /\ Len(done) <= Due /\ (work.at \in InHand => Due >= 1)
    BY <1>2 DEF Due
  <1>12. ReportInv'
    BY <1>1, <1>2, <1>5, <1>6, <1>11 DEF Steady, PipelineInv, ReportInv
  <1>13. RequestInv'
    <2>1. \A i \in 1 .. Len(went) : went[i] # f /\ went[i] <= Top
      BY <1>2, <1>7 DEF Steady, PipelineInv, RequestInv, Fresh
    <2>2. \A i \in 1 .. Len(went) + 1 : i = Len(went) + 1 \/ i \in 1 .. Len(went)
      BY <1>5
    <2>3. \A i, j \in 1 .. Len(went) + 1 : went'[i] = went'[j] => i = j
      <3>1. \A i, j \in 1 .. Len(went) : went[i] = went[j] => i = j
        BY <1>2 DEF Steady, PipelineInv, RequestInv
      <3>2. QED
        BY <1>5, <2>1, <2>2, <3>1
    <2>4. \A i \in 1 .. Len(went) + 1 : went'[i] <= Top
      BY <1>5, <1>7, <2>1, <2>2 DEF Fresh
    <2>5. DOMAIN went' = 1 .. Len(went) + 1
      BY <1>1, <1>2
    <2>6. QED
      BY <1>4, <1>6, <2>3, <2>4, <2>5 DEF RequestInv
  <1>14. CurrInv'
    BY <1>1, <1>2, <1>4, <1>5, <1>6, <1>7, <1>8, <1>9, <1>11
    DEF Steady, PipelineInv, CurrInv, InBuffer, Raised, Fresh
  <1>15. NextInv'
    BY <1>1, <1>2, <1>4, <1>5, <1>6, <1>7, <1>8, <1>9, <1>11
    DEF Steady, PipelineInv, NextInv, InBuffer, Raised, Fresh
  <1>16. StagedInv'
    <2>1. drv.staged # 0 /\ Live /\ work.at # "shift" => f = drv.curr
      BY <1>1, <1>4, <1>7, <1>9 DEF Steady, PipelineInv, StagedInv, CurrInv, NextInv, InBuffer,
         Live
    <2>2. DOMAIN went' = 1 .. Len(went) + 1 /\ DOMAIN went = 1 .. Len(went)
      BY <1>1, <1>2
    <2>3. drv.staged # 0 /\ Live /\ work.at # "shift" =>
            \A i \in DOMAIN went' : went'[i] # drv.staged
      BY <1>5, <2>1, <2>2 DEF Steady, PipelineInv, StagedInv, Fresh
    <2>4. QED
      BY <1>1, <1>6, <2>3 DEF Steady, PipelineInv, StagedInv, Fresh
  <1>17. QueueInv'
    BY <1>1, <1>2, <1>4, <1>5, <1>6, <1>7, <1>9
    DEF Steady, PipelineInv, QueueInv, CurrInv, NextInv, InBuffer, Fresh
  <1>18. OwnerInv'
    BY <1>1, <1>4, <1>6 DEF Steady, PipelineInv, OwnerInv, Raised
  <1>19. SnapshotInv'
    BY <1>1, <1>2, <1>4, <1>5, <1>6, <1>11 DEF Steady, PipelineInv, SnapshotInv, CurrInv,
       InBuffer
  <1>20. QED
    BY <1>3, <1>10, <1>12, <1>13, <1>14, <1>15, <1>16, <1>17, <1>18, <1>19 DEF PipelineInv

\* A sender takes the transmit state, or goes to the queue.
LEMMA SwapKeeps ==
  ASSUME Steady, TransmitSwap
  PROVE  PipelineInv'
  <1> DEFINE f == api.frame + 1
  <1>1. api.at = "out" /\ UNCHANGED <<chip, queueMcp, work, went, done>>
    BY DEF TransmitSwap
  <1>2. chip.mode = "normal" /\ work.at # "dead" /\ api.frame \in Nat /\ f \in Nat /\ f # 0
    BY <1>1 DEF Steady, PipelineInv, ModeInv, McpTypes
  <1>3. Live /\ Live' /\ Ready /\ Ready' /\ Due' = Due /\ Top = api.frame
    BY <1>1, <1>2 DEF Live, Ready, Due, Top
  <1>4. CASE drv.busy
    <2>1. api' = [at |-> "queue", frame |-> f] /\ drv' = drv
      BY <1>4 DEF TransmitSwap
    <2>2. Top' = Top
      BY <1>1, <1>2, <2>1 DEF Top
    <2>3. McpTypes' /\ ModeInv' /\ ReportInv' /\ RequestInv'
      BY <1>1, <1>2, <1>3, <2>1, <2>2
      DEF Steady, PipelineInv, McpTypes, ModeInv, ReportInv, RequestInv, Fresh
    <2>4. CurrInv' /\ NextInv' /\ StagedInv'
      BY <1>1, <1>3, <2>1, <2>2
      DEF Steady, PipelineInv, CurrInv, NextInv, StagedInv, InBuffer, Raised, Fresh
    <2>5. QueueInv' /\ OwnerInv' /\ SnapshotInv'
      BY <1>1, <1>3, <2>1, <2>2
      DEF Steady, PipelineInv, QueueInv, OwnerInv, SnapshotInv, Raised, Fresh
    <2>6. QED
      BY <2>3, <2>4, <2>5 DEF PipelineInv
  <1>5. CASE ~drv.busy
    <2>1. /\ api' = [at |-> "load", frame |-> f]
          /\ drv' = [drv EXCEPT !.busy = TRUE, !.curr = f, !.txb = 0]
      BY <1>5 DEF TransmitSwap
    <2>2. /\ drv'.curr = f /\ drv'.txb = 0 /\ drv'.staged = drv.staged /\ drv'.busy
          /\ api'.at = "load" /\ api'.frame = f
      BY <2>1 DEF Steady, PipelineInv, McpTypes
    <2>3. Top' = f /\ Top = f - 1 /\ Top \in Nat
      BY <1>2, <1>3, <2>2 DEF Top
    <2>4. drv.curr = 0 /\ work.at \notin InHand \cup {"after", "preload"}
      BY <1>3, <1>5 DEF Steady, PipelineInv, OwnerInv
    <2>5. chip.txreq = {} /\ Len(went) = Due /\ ~Raised(0) /\ ~Raised(1)
      BY <1>2, <1>3, <2>4 DEF Steady, PipelineInv, CurrInv, InHand
    <2>6. drv.staged = 0
      BY <1>2, <1>3, <2>4 DEF Steady, PipelineInv, StagedInv, InHand
    <2>7. drv.staged' <= f
      BY <1>2, <2>2, <2>6
    <2>8. \A i \in DOMAIN went : went[i] # f /\ went[i] <= f
      BY <1>2, <2>3 DEF Steady, PipelineInv, RequestInv, McpTypes
    <2>9. McpTypes' /\ ModeInv' /\ ReportInv'
      BY <1>1, <1>2, <1>3, <2>1, <2>2, <2>3
      DEF Steady, PipelineInv, McpTypes, ModeInv, ReportInv
    <2>10. RequestInv'
      BY <1>1, <1>2, <1>3, <2>2, <2>3, <2>5, <2>8
      DEF Steady, PipelineInv, McpTypes, RequestInv
    <2>11. CurrInv' /\ NextInv' /\ StagedInv'
      BY <1>1, <1>2, <1>3, <2>2, <2>3, <2>4, <2>5, <2>6, <2>8
      DEF Steady, PipelineInv, CurrInv, NextInv, StagedInv, InBuffer, Raised, Fresh, InHand
    <2>12. QueueInv'
      BY <1>1, <1>2, <1>3, <2>2, <2>3, <2>4, <2>6, <2>7, <2>8
      DEF Steady, PipelineInv, McpTypes, QueueInv, Fresh, InHand
    <2>13. OwnerInv' /\ SnapshotInv'
      BY <1>1, <1>2, <1>3, <2>2, <2>3, <2>4, <2>5, <2>6, TxFlagFacts
      DEF Steady, PipelineInv, OwnerInv, SnapshotInv, Raised
    <2>14. QED
      BY <2>9, <2>10, <2>11, <2>12, <2>13 DEF PipelineInv
  <1>6. QED
    BY <1>4, <1>5

\* It loads buffer 0 and requests it; with a failed transfer nothing is promised.
LEMMA LoadKeeps ==
  ASSUME Steady, TransmitLoad, ~failed'
  PROVE  PipelineInv'
  <1>1. /\ api.at = "load" /\ api' = [api EXCEPT !.at = "rts"]
        /\ chip' = [chip EXCEPT !.txb[0] = api.frame]
        /\ UNCHANGED <<drv, queueMcp, work, went, done>>
    BY DEF TransmitLoad, Works, Fails, Loads, At
  <1>2. /\ chip'.mode = chip.mode /\ chip'.txreq = chip.txreq /\ chip'.intf = chip.intf
        /\ chip'.txb[0] = api.frame /\ chip'.txb \in [{0, 1} -> Nat]
        /\ api'.at = "rts" /\ api'.frame = api.frame
    BY <1>1 DEF Steady, PipelineInv, McpTypes
  <1>3. work.at # "dead" /\ chip.mode = "normal"
    BY <1>1 DEF Steady, PipelineInv, ModeInv
  <1>4. Live /\ Live' /\ Ready /\ Ready' /\ Due' = Due /\ Top' = Top
    BY <1>1, <1>2, <1>3 DEF Live, Ready, Due, Top
  <1>5. /\ drv.curr = api.frame /\ drv.curr # 0 /\ drv.txb = 0 /\ drv.staged = 0
        /\ work.at \notin InHand \cup {"after", "preload"}
        /\ chip.txreq = {} /\ ~Raised(0) /\ ~Raised(1)
    BY <1>1 DEF Steady, PipelineInv, OwnerInv
  <1>6. McpTypes'
    BY <1>1, <1>2 DEF Steady, PipelineInv, McpTypes
  <1>7. ModeInv' /\ ReportInv' /\ RequestInv'
    BY <1>1, <1>2, <1>3, <1>4, <1>5 DEF Steady, PipelineInv, ModeInv, ReportInv, RequestInv,
       Fresh
  <1>8. CurrInv' /\ NextInv' /\ StagedInv'
    BY <1>1, <1>2, <1>3, <1>4, <1>5
    DEF Steady, PipelineInv, CurrInv, NextInv, StagedInv, InBuffer, Raised, Fresh, InHand
  <1>9. QueueInv' /\ OwnerInv' /\ SnapshotInv'
    BY <1>1, <1>2, <1>4, <1>5
    DEF Steady, PipelineInv, QueueInv, OwnerInv, SnapshotInv, Raised, Fresh
  <1>10. QED
    BY <1>6, <1>7, <1>8, <1>9 DEF PipelineInv

\* Asking the chip to send a loaded buffer keeps the pipeline.
LEMMA RtsKeeps ==
  ASSUME Steady, TransmitRts, ~failed'
  PROVE  PipelineInv'
  <1>1. /\ api.at = "rts" /\ api' = [api EXCEPT !.at = "out"]
        /\ chip' = [chip EXCEPT !.txreq = @ \cup {0}]
        /\ UNCHANGED <<drv, queueMcp, work, went, done>>
    BY DEF TransmitRts, Works, Fails, Requests, At
  <1>2. /\ chip'.mode = chip.mode /\ chip'.intf = chip.intf
        /\ chip'.txreq = chip.txreq \cup {0} /\ chip'.txb = chip.txb
        /\ api'.at = "out" /\ api'.frame = api.frame
    BY <1>1 DEF Steady, PipelineInv, McpTypes
  <1>3. work.at # "dead" /\ chip.mode = "normal"
    BY <1>1 DEF Steady, PipelineInv, ModeInv
  <1>4. Live /\ Live' /\ Ready /\ Ready' /\ Due' = Due /\ Top' = Top
    BY <1>1, <1>2, <1>3 DEF Live, Ready, Due, Top
  <1>5. /\ drv.curr = api.frame /\ drv.curr # 0 /\ drv.txb = 0 /\ drv.staged = 0
        /\ work.at \notin InHand \cup {"after", "preload"}
        /\ chip.txreq = {} /\ ~Raised(0) /\ ~Raised(1) /\ chip.txb[0] = drv.curr
    BY <1>1 DEF Steady, PipelineInv, OwnerInv
  <1>6. Fresh(drv.curr)
    BY <1>3, <1>4, <1>5 DEF Steady, PipelineInv, CurrInv, InBuffer, InHand
  <1>7. McpTypes'
    BY <1>1, <1>2 DEF Steady, PipelineInv, McpTypes
  <1>8. ModeInv' /\ ReportInv' /\ RequestInv'
    BY <1>1, <1>2, <1>3, <1>4, <1>5, <1>6
    DEF Steady, PipelineInv, ModeInv, ReportInv, RequestInv, Fresh
  <1>9. CurrInv' /\ NextInv' /\ StagedInv'
    BY <1>1, <1>2, <1>3, <1>4, <1>5
    DEF Steady, PipelineInv, CurrInv, NextInv, StagedInv, InBuffer, Raised, Fresh, InHand
  <1>10. QueueInv' /\ OwnerInv'
    BY <1>1, <1>2, <1>4, <1>5 DEF Steady, PipelineInv, QueueInv, OwnerInv, Fresh
  <1>11. SnapshotInv'
    BY <1>1, <1>2, <1>4, <1>5, TxFlagFacts DEF Steady, PipelineInv, SnapshotInv, Raised
  <1>12. QED
    BY <1>7, <1>8, <1>9, <1>10, <1>11 DEF PipelineInv

\* A frame is queued behind the others, or refused.
LEMMA QueueKeeps ==
  ASSUME Steady, TransmitQueue
  PROVE  PipelineInv'
  <1> DEFINE f == api.frame
  <1>1. api.at = "queue" /\ UNCHANGED <<chip, drv, work, went, done>>
    BY DEF TransmitQueue
  <1>2. api'.at = "out" /\ api'.frame = f /\ f \in Nat /\ work.at # "dead" /\ chip.mode = "normal"
    BY <1>1 DEF TransmitQueue, At, Steady, PipelineInv, McpTypes, ModeInv
  <1>3. Live /\ Live' /\ Ready /\ Ready' /\ Due' = Due /\ Top' = f /\ Top = f - 1
    BY <1>1, <1>2 DEF Live, Ready, Due, Top
  <1>4. McpTypes' /\ ModeInv' /\ ReportInv'
    BY <1>1, <1>2, <1>3 DEF TransmitQueue, Steady, PipelineInv, McpTypes, ModeInv, ReportInv
  <1>5. RequestInv' /\ CurrInv'
    <2>1. \A i \in DOMAIN went : went[i] \in Nat
      BY DEF Steady, PipelineInv, McpTypes
    <2>2. RequestInv'
      BY <1>1, <1>2, <1>3, <2>1 DEF Steady, PipelineInv, RequestInv, Fresh
    <2>3. CurrInv'
      BY <1>1, <1>2, <1>3 DEF Steady, PipelineInv, CurrInv, InBuffer, Raised, Fresh
    <2>4. QED
      BY <2>2, <2>3
  <1>6. NextInv' /\ StagedInv'
    <2>1. NextInv'
      BY <1>1, <1>2, <1>3 DEF Steady, PipelineInv, NextInv, InBuffer, Raised, Fresh
    <2>2. StagedInv'
      BY <1>1, <1>2, <1>3 DEF Steady, PipelineInv, StagedInv, Fresh
    <2>3. QED
      BY <2>1, <2>2
  <1>7. OwnerInv' /\ SnapshotInv'
    BY <1>1, <1>2, <1>3 DEF Steady, PipelineInv, OwnerInv, SnapshotInv, Raised
  <1>8. QueueInv'
    <2>1. queueMcp \in Seq(Nat) /\ drv.curr \in Nat /\ drv.staged \in Nat /\ work.next \in Nat
          /\ \A i \in DOMAIN went : went[i] \in Nat
      BY DEF Steady, PipelineInv, McpTypes
    <2>2. /\ drv.curr < f /\ drv.staged < f
          /\ work.at \in {"reuse", "start"} => work.next < f
          /\ \A i \in DOMAIN queueMcp : queueMcp[i] < f
          /\ \A i \in DOMAIN went : went[i] < f
      BY <1>2, <1>3, <2>1 DEF Steady, PipelineInv, QueueInv, NextInv, RequestInv, Fresh
    <2>3. CASE queueMcp' = queueMcp
      BY <1>1, <1>2, <1>3, <2>1, <2>2, <2>3 DEF Steady, PipelineInv, QueueInv, Fresh
    <2>4. CASE queueMcp' = Append(queueMcp, f)
      <3>1. /\ DOMAIN queueMcp' = 1 .. Len(queueMcp) + 1 /\ DOMAIN queueMcp = 1 .. Len(queueMcp)
            /\ Len(queueMcp) \in Nat
            /\ \A i \in 1 .. Len(queueMcp) : queueMcp'[i] = queueMcp[i]
            /\ queueMcp'[Len(queueMcp) + 1] = f
        BY <1>2, <2>1, <2>4
      <3>2. \A i \in DOMAIN queueMcp' : i = Len(queueMcp) + 1 \/ i \in DOMAIN queueMcp
        BY <3>1
      <3>3. \A i \in DOMAIN queueMcp :
              /\ queueMcp[i] \in 1 .. f /\ \A j \in DOMAIN went : went[j] # queueMcp[i]
              /\ queueMcp[i] # drv.curr /\ queueMcp[i] # drv.staged
              /\ work.at \in {"reuse", "start"} => queueMcp[i] # work.next
        BY <1>2, <1>3, <2>1, <2>2 DEF Steady, PipelineInv, QueueInv, Fresh
      <3>4. \A i, j \in DOMAIN queueMcp : queueMcp[i] = queueMcp[j] => i = j
        BY <1>3 DEF Steady, PipelineInv, QueueInv
      <3>5. f \in 1 .. f
        BY <1>2, <2>1, <2>2
      <3>6. \A i \in DOMAIN queueMcp' :
              /\ queueMcp'[i] \in 1 .. f /\ \A j \in DOMAIN went : went[j] # queueMcp'[i]
              /\ queueMcp'[i] # drv.curr /\ queueMcp'[i] # drv.staged
              /\ work.at \in {"reuse", "start"} => queueMcp'[i] # work.next
        BY <1>2, <2>1, <2>2, <3>1, <3>2, <3>3, <3>5
      <3>7. \A i, j \in DOMAIN queueMcp' : queueMcp'[i] = queueMcp'[j] => i = j
        BY <1>2, <2>1, <2>2, <3>1, <3>2, <3>4
      <3>8. QED
        BY <1>1, <1>2, <1>3, <2>1, <2>2, <3>6, <3>7 DEF QueueInv, Fresh
    <2>5. QED
      BY <2>3, <2>4 DEF TransmitQueue
  <1>9. QED
    BY <1>4, <1>5, <1>6, <1>7, <1>8 DEF PipelineInv

\* Steps of the holder of node_lock that neither send nor touch a buffer or a flag.
LEMMA ApiMoves ==
  ASSUME Steady, McpTypes', ModeInv',
         chip'.txreq = chip.txreq, chip'.txb = chip.txb, chip'.intf = chip.intf,
         drv'.curr = drv.curr, drv'.staged = drv.staged, drv'.txb = drv.txb,
         drv'.busy = drv.busy,
         UNCHANGED <<work, queueMcp, went, done>>,
         api'.frame = api.frame, api.at # "queue", api'.at \notin {"queue", "load", "rts"},
         Ready' => Ready
  PROVE  PipelineInv'
  <1>1. Top' = Top /\ Due' = Due /\ (Live' => Live)
    BY DEF Top, Due, Live
  <1>2. ReportInv' /\ RequestInv'
    BY <1>1 DEF Steady, PipelineInv, ReportInv, RequestInv, Fresh
  <1>3. CurrInv' /\ NextInv'
    BY <1>1 DEF Steady, PipelineInv, CurrInv, NextInv, InBuffer, Raised, Fresh
  <1>4. StagedInv' /\ QueueInv'
    BY <1>1 DEF Steady, PipelineInv, StagedInv, QueueInv, Fresh
  <1>5. OwnerInv' /\ SnapshotInv'
    BY <1>1 DEF Steady, PipelineInv, OwnerInv, SnapshotInv, Raised
  <1>6. QED
    BY <1>2, <1>3, <1>4, <1>5 DEF PipelineInv

\* Beginning to disable keeps the pipeline.
LEMMA DisableKeeps == ASSUME Steady, Disable PROVE PipelineInv'
  <1>1. /\ api.at = "out" /\ api'.at \in {"delete", "inte"} /\ api'.frame = api.frame
        /\ UNCHANGED <<chip, queueMcp, drv, work, went, done>>
    BY DEF Disable, At, Steady
  <1>2. McpTypes' /\ ModeInv'
    BY <1>1 DEF Steady, PipelineInv, McpTypes, ModeInv
  <1>3. QED
    BY <1>1, <1>2, ApiMoves DEF Ready

\* The last steps of enabling keep it.
LEMMA EnableKeeps ==
  ASSUME Steady, EnableChip \/ EnableIrq, ~failed'
  PROVE  PipelineInv'
  <1>1. /\ api.at \in {"normal", "ints", "irq"} /\ api'.at \in {"ints", "irq", "out"}
        /\ api'.frame = api.frame
        /\ UNCHANGED <<queueMcp, work, went, done>>
    BY DEF EnableChip, EnableIrq, At, Steady, Fails
  <1>2. \/ chip' = [chip EXCEPT !.mode = "normal"] /\ drv' = drv /\ api.at = "normal"
        \/ chip' = [chip EXCEPT !.inte = TRUE] /\ drv' = drv /\ api.at = "ints"
        \/ drv' = [drv EXCEPT !.state = "active"] /\ chip' = chip /\ api.at = "irq"
    BY DEF EnableChip, EnableIrq, Works, Fails
  <1>3. /\ chip'.txreq = chip.txreq /\ chip'.txb = chip.txb /\ chip'.intf = chip.intf
        /\ drv'.curr = drv.curr /\ drv'.staged = drv.staged /\ drv'.txb = drv.txb
        /\ drv'.busy = drv.busy
        /\ chip'.mode = IF api.at = "normal" THEN "normal" ELSE chip.mode
    BY <1>2 DEF Steady, PipelineInv, McpTypes
  <1>4. McpTypes'
    <2>1. chip' = [mode |-> chip'.mode, inte |-> chip'.inte, intf |-> chip'.intf,
                   txreq |-> chip'.txreq, txb |-> chip'.txb, rxb |-> chip'.rxb,
                   eflg |-> chip'.eflg]
      BY <1>2 DEF Steady, PipelineInv, McpTypes
    <2>2. drv' = [state |-> drv'.state, busy |-> drv'.busy, curr |-> drv'.curr,
                  staged |-> drv'.staged, txb |-> drv'.txb]
      BY <1>2 DEF Steady, PipelineInv, McpTypes
    <2>3. QED
      BY <1>1, <1>3, <2>1, <2>2 DEF Steady, PipelineInv, McpTypes
  <1>5. ModeInv'
    BY <1>1, <1>3 DEF Steady, PipelineInv, ModeInv
  <1>6. Ready' => Ready
    BY <1>1, <1>3 DEF Ready
  <1>7. QED
    BY <1>1, <1>3, <1>4, <1>5, <1>6, ApiMoves

\* In configuration mode the requests and the flags go.
LEMMA DisableChipKeeps ==
  ASSUME Steady, DisableChip, ~failed'
  PROVE  PipelineInv'
  <1>1. /\ api'.frame = api.frame
        /\ UNCHANGED <<queueMcp, drv, work, went, done>>
    BY DEF DisableChip, At, Steady
  <1>2. CASE api.at = "inte" /\ chip' = [chip EXCEPT !.inte = FALSE] /\ api'.at = "mode"
    <2>1. /\ chip'.txreq = chip.txreq /\ chip'.txb = chip.txb /\ chip'.intf = chip.intf
          /\ chip'.mode = chip.mode
      BY <1>2 DEF Steady, PipelineInv, McpTypes
    <2>2. McpTypes'
      BY <1>1, <1>2, <2>1 DEF Steady, PipelineInv, McpTypes
    <2>3. ModeInv'
      BY <1>2, <2>1 DEF Steady, PipelineInv, ModeInv
    <2>4. QED
      BY <1>1, <1>2, <2>1, <2>2, <2>3, ApiMoves DEF Ready
  <1>3. CASE api.at = "mode" /\ chip' = [chip EXCEPT !.mode = "config", !.eflg = "active"]
             /\ api'.at = "txreq"
    <2>1. /\ chip'.txreq = chip.txreq /\ chip'.txb = chip.txb /\ chip'.intf = chip.intf
          /\ chip'.mode = "config"
      BY <1>3 DEF Steady, PipelineInv, McpTypes
    <2>2. McpTypes'
      BY <1>1, <1>3, <2>1 DEF Steady, PipelineInv, McpTypes
    <2>3. ModeInv'
      BY <1>3, <2>1 DEF ModeInv
    <2>4. QED
      BY <1>1, <1>3, <2>1, <2>2, <2>3, ApiMoves DEF Ready
  <1>4. CASE /\ api.at \in {"txreq", "intf"} /\ api'.at \in {"intf", "drop"}
             /\ \/ chip' = [chip EXCEPT !.txreq = {}]
                \/ chip' = [chip EXCEPT !.intf = {}, !.rxb = FreshChip.rxb]
    <2>1. /\ chip'.txreq \in {chip.txreq, {}} /\ chip'.intf \in {chip.intf, {}}
          /\ chip'.txb = chip.txb /\ chip'.mode = chip.mode /\ chip.mode # "normal"
      BY <1>4 DEF Steady, PipelineInv, McpTypes, ModeInv
    <2>2. McpTypes'
      <3>1. chip' = [mode |-> chip'.mode, inte |-> chip'.inte, intf |-> chip'.intf,
                     txreq |-> chip'.txreq, txb |-> chip'.txb, rxb |-> chip'.rxb,
                     eflg |-> chip'.eflg]
        BY <1>4 DEF Steady, PipelineInv, McpTypes
      <3>2. QED
        BY <1>1, <2>1, <3>1 DEF Steady, PipelineInv, McpTypes
    <2>3. ModeInv'
      BY <1>4, <2>1 DEF ModeInv
    <2>4. Top' = Top /\ Due' = Due /\ ~Live' /\ ~Ready'
      BY <1>1, <1>4, <2>1 DEF Top, Due, Live, Ready
    <2>5. \A b : TxIf(b) \in chip'.intf => TxIf(b) \in chip.intf
      BY <2>1
    <2>6. ReportInv' /\ RequestInv'
      BY <1>1, <2>1, <2>4 DEF Steady, PipelineInv, ReportInv, RequestInv
    <2>7. CurrInv' /\ NextInv'
      BY <1>1, <2>1, <2>4, <2>5 DEF Steady, PipelineInv, CurrInv, NextInv, InBuffer, Raised
    <2>8. StagedInv' /\ QueueInv'
      BY <1>1, <2>4 DEF Steady, PipelineInv, StagedInv, QueueInv
    <2>9. OwnerInv' /\ SnapshotInv'
      BY <1>1, <1>4, <2>1, <2>4 DEF Steady, PipelineInv, OwnerInv, SnapshotInv
    <2>10. QED
      BY <2>2, <2>3, <2>6, <2>7, <2>8, <2>9 DEF PipelineInv
  <1>5. QED
    BY <1>2, <1>3, <1>4 DEF DisableChip, Works, Fails, At, Steady

\* Dropping what was queued keeps it.
LEMMA DropKeeps ==
  ASSUME Steady, DisableDrop
  PROVE  PipelineInv'
  <1>1. /\ api.at = "drop" /\ api'.at = "delete" /\ api'.frame = api.frame
        /\ drv' = [drv EXCEPT !.curr = 0, !.staged = 0, !.busy = FALSE, !.state = "off"]
        /\ UNCHANGED <<chip, queueMcp, work, went, done>>
    BY DEF DisableDrop, At, Steady
  <1>2. drv'.curr = 0 /\ drv'.staged = 0 /\ drv'.txb = drv.txb /\ chip.mode # "normal"
    BY <1>1 DEF Steady, PipelineInv, McpTypes, ModeInv
  <1>3. Top' = Top /\ Due' = Due /\ ~Live' /\ ~Ready'
    BY <1>1, <1>2 DEF Top, Due, Live, Ready
  <1>4. McpTypes' /\ ModeInv'
    BY <1>1, <1>2 DEF Steady, PipelineInv, McpTypes, ModeInv
  <1>5. ReportInv' /\ RequestInv'
    BY <1>1, <1>3 DEF Steady, PipelineInv, ReportInv, RequestInv
  <1>6. CurrInv' /\ NextInv' /\ StagedInv'
    BY <1>1, <1>2, <1>3 DEF Steady, PipelineInv, CurrInv, NextInv, StagedInv, Raised
  <1>7. QueueInv' /\ OwnerInv' /\ SnapshotInv'
    BY <1>1, <1>2, <1>3 DEF QueueInv, OwnerInv, SnapshotInv
  <1>8. QED
    BY <1>4, <1>5, <1>6, <1>7 DEF PipelineInv

\* The interrupt task goes with the node; the controller may still send what was requested.
LEMMA DeleteKeeps ==
  ASSUME Steady, Delete
  PROVE  PipelineInv'
  <1>1. api.at = "delete" /\ api'.frame = api.frame /\ UNCHANGED <<chip, drv, went, done>>
    BY DEF Delete, At, Steady
  <1>2. CASE drv.state # "off"
    <2>1. api'.at = "leaked" /\ UNCHANGED <<work, queueMcp>>
      BY <1>2 DEF Delete, At, Steady
    <2>2. McpTypes' /\ ModeInv'
      BY <1>1, <2>1 DEF Steady, PipelineInv, McpTypes, ModeInv
    <2>3. QED
      BY <1>1, <2>1, <2>2, ApiMoves DEF Ready
  <1>3. CASE drv.state = "off"
    <2>1. /\ api'.at = "gone" /\ queueMcp' = <<>> /\ work'.at = "dead"
          /\ work'.txb = 0 /\ work'.next = 0
      BY <1>3 DEF Delete, At, Steady, FreshWork
    <2>2. Top' = Top /\ Due' = Len(done) /\ ~Live' /\ (Ready' => Ready)
      BY <1>1, <2>1 DEF Top, Due, Live, Ready, InHand
    <2>3. McpTypes' /\ ModeInv'
      BY <1>1, <2>1 DEF Steady, PipelineInv, McpTypes, ModeInv
    <2>4. Len(done) \in Nat /\ Len(done) <= Due /\ Due \in Nat /\ Len(went) \in Nat
      BY DEF Steady, PipelineInv, McpTypes, Due
    <2>5. ReportInv'
      BY <1>1, <2>1, <2>2, <2>4 DEF Steady, PipelineInv, ReportInv, InHand
    <2>6. RequestInv'
      BY <1>1, <2>2 DEF Steady, PipelineInv, RequestInv, Fresh
    <2>7. CurrInv' /\ NextInv' /\ StagedInv'
      BY <2>1, <2>2 DEF CurrInv, NextInv, StagedInv
    <2>8. QueueInv' /\ OwnerInv' /\ SnapshotInv'
      BY <2>1, <2>2 DEF QueueInv, OwnerInv, SnapshotInv
    <2>9. QED
      BY <2>3, <2>5, <2>6, <2>7, <2>8 DEF PipelineInv
  <1>4. QED
    BY <1>2, <1>3

\* A node that is new has nothing queued, current, requested or gone out.
LEMMA CreateKeeps ==
  ASSUME queueMcp = <<>>, Create
  PROVE  PipelineInv'
  <1>1. /\ chip' = FreshChip /\ drv' = FreshDrv /\ work' = FreshWork /\ queueMcp' = <<>>
        /\ went' = <<>> /\ done' = <<>> /\ api' = [at |-> "normal", frame |-> 0]
    BY DEF Create
  <1>2. /\ chip'.mode = "config" /\ chip'.txreq = {} /\ chip'.intf = {}
        /\ chip'.txb = [b \in {0, 1} |-> 0]
        /\ drv'.curr = 0 /\ drv'.staged = 0 /\ drv'.txb = 0 /\ drv'.busy = FALSE
        /\ work'.at = "sleep" /\ work'.txb = 0 /\ work'.next = 0
        /\ api'.at = "normal" /\ api'.frame = 0
    BY <1>1 DEF FreshChip, FreshDrv, FreshWork
  <1>3. Len(went') = 0 /\ Len(done') = 0 /\ DOMAIN went' = {} /\ DOMAIN queueMcp' = {}
    BY <1>1
  <1>4. Due' = 0 /\ Top' = 0
    BY <1>2, <1>3 DEF Due, Top, InHand
  <1>5. McpTypes'
    BY <1>1, <1>2 DEF McpTypes, FreshChip, FreshDrv
  <1>6. ModeInv' /\ ReportInv' /\ RequestInv'
    BY <1>2, <1>3, <1>4 DEF ModeInv, ReportInv, RequestInv, InHand
  <1>7. CurrInv' /\ NextInv' /\ StagedInv'
    BY <1>2, <1>3, <1>4 DEF CurrInv, NextInv, StagedInv, Raised
  <1>8. QueueInv' /\ OwnerInv' /\ SnapshotInv'
    BY <1>2, <1>3, <1>4 DEF QueueInv, OwnerInv, SnapshotInv, InHand
  <1>9. QED
    BY <1>5, <1>6, <1>7, <1>8 DEF PipelineInv

\* The interrupt task reads the flags.
LEMMA ReadKeeps ==
  ASSUME Steady, ReadFlags, ~failed'
  PROVE  PipelineInv'
  <1>1. /\ work.at = "read" /\ UNCHANGED <<chip, drv, api, queueMcp, went, done>>
        /\ work' = [work EXCEPT !.at = IF chip.intf = {} THEN "sleep" ELSE "tx", !.intf = chip.intf]
    BY DEF ReadFlags, Works, Fails
  <1>2. /\ work'.at = IF chip.intf = {} THEN "sleep" ELSE "tx"
        /\ work'.intf = chip.intf /\ work'.txb = work.txb /\ work'.next = work.next
    BY <1>1 DEF Steady
  <1>3. McpTypes'
    BY <1>1, <1>2 DEF Steady, PipelineInv, McpTypes
  <1>4. CASE chip.intf = {}
    BY <1>1, <1>2, <1>3, <1>4, Quiet DEF Plain, Steady
  <1>5. CASE chip.intf # {}
    <2>1. work'.at = "tx"
      BY <1>2, <1>5
    <2>2. Top' = Top /\ Due' = Due /\ Live' = Live /\ Ready' = Ready
      BY <1>1, <2>1 DEF Top, Due, Live, Ready, InHand
    <2>3. ModeInv' /\ ReportInv' /\ RequestInv'
      BY <1>1, <2>1, <2>2
      DEF Steady, PipelineInv, ModeInv, ReportInv, RequestInv, Fresh, InHand
    <2>4. CurrInv' /\ NextInv'
      BY <1>1, <2>1, <2>2 DEF Steady, PipelineInv, CurrInv, NextInv, InBuffer, Raised, Fresh
    <2>5. StagedInv' /\ QueueInv'
      BY <1>1, <2>1, <2>2 DEF Steady, PipelineInv, StagedInv, QueueInv, Fresh
    <2>6. OwnerInv'
      BY <1>1, <2>1, <2>2 DEF Steady, PipelineInv, OwnerInv, Raised, InHand
    <2>7. SnapshotInv'
      BY <1>1, <1>2, <2>1, <2>2 DEF Steady, PipelineInv, SnapshotInv, CurrInv, InBuffer, Raised
    <2>8. QED
      BY <1>3, <2>3, <2>4, <2>5, <2>6, <2>7 DEF PipelineInv
  <1>6. QED
    BY <1>4, <1>5

\* A transmission is over: what is next, if anything.
LEMMA OverKeeps ==
  ASSUME Steady, TxIsOver
  PROVE  PipelineInv'
  <1> DEFINE c == drv.curr
  <1> DEFINE t == drv.txb
  <1>1. work.at = "tx" /\ UNCHANGED <<chip, api, went, done>>
    BY DEF TxIsOver
  <1>2. CASE work' = [work EXCEPT !.at = "rx0"] \/ work' = [work EXCEPT !.at = "stale"]
    <2>1. UNCHANGED <<queueMcp, drv>> /\ work'.at \in {"rx0", "stale"}
      BY <1>2 DEF TxIsOver, WorkAt, Steady
    <2>2. work'.txb = work.txb /\ work'.next = work.next
      BY <1>2 DEF Steady
    <2>3. McpTypes'
      BY <1>1, <2>1, <2>2 DEF Steady, PipelineInv, McpTypes
    <2>4. QED
      <3>1. work'.at = "stale" => work.intf \cap TxFlags # {} /\ (c = 0 \/ TxIf(t) \notin work.intf)
        BY <1>1, <2>1, <1>2 DEF TxIsOver, WorkAt, Steady
      <3>2. c = 0 /\ Live => work.intf \cap TxFlags = {}
        BY <1>1, TxFlagFacts DEF Steady, PipelineInv, SnapshotInv, CurrInv, Raised
      <3>3. c # 0 /\ Live => work.intf \cap TxFlags \subseteq {TxIf(t)}
        BY <1>1, TxFlagFacts DEF Steady, PipelineInv, McpTypes, SnapshotInv, CurrInv, Raised
      <3>4. work'.at = "stale" => ~Live
        BY <3>1, <3>2, <3>3
      <3>5. QED
        BY <1>1, <2>1, <2>3, <3>4, Quiet DEF Steady, Plain
  <1>3. CASE c # 0 /\ TxIf(t) \in work.intf /\ work'.frame = c /\ work'.txb = t
             /\ \/ /\ drv.staged # 0 /\ work'.at = "rts" /\ work'.next = work.next
                   /\ UNCHANGED <<queueMcp, drv>>
                \/ /\ drv.staged = 0 /\ queueMcp # <<>>
                   /\ work'.at = "reuse" /\ work'.next = Head(queueMcp)
                   /\ queueMcp' = Tail(queueMcp) /\ drv' = drv
                \/ /\ drv.staged = 0 /\ queueMcp = <<>>
                   /\ work'.at = "clear" /\ work'.next = work.next
                   /\ drv' = [drv EXCEPT !.curr = 0] /\ queueMcp' = queueMcp
    <2>1. /\ chip.txreq = {} /\ Len(went) = Due + 1 /\ went[Due + 1] = c /\ ~Raised(1 - t)
          /\ t \in {0, 1} /\ 1 - t \in {0, 1}
      BY <1>1, <1>3, TxFlagFacts DEF Steady, PipelineInv, SnapshotInv, CurrInv, McpTypes
    <2>2. Top' = Top /\ Due' = Due + 1 /\ Live' = Live /\ Ready' = Ready
      <3>1. Due = Len(done) /\ Len(done) \in Nat
        BY <1>1 DEF Due, InHand, Steady, PipelineInv, McpTypes
      <3>2. Due' = Len(done) + 1
        BY <1>1, <1>3 DEF Due, InHand
      <3>3. QED
        BY <1>1, <1>3, <3>1, <3>2 DEF Top, Live, Ready
    <2>3. queueMcp \in Seq(Nat) /\ DOMAIN queueMcp = 1 .. Len(queueMcp) /\ Len(queueMcp) \in Nat
      BY DEF Steady, PipelineInv, McpTypes
    <2>4. queueMcp # <<>> =>
            /\ Head(queueMcp) = queueMcp[1] /\ queueMcp[1] \in Nat /\ 1 \in DOMAIN queueMcp
            /\ Tail(queueMcp) \in Seq(Nat) /\ DOMAIN Tail(queueMcp) = 1 .. Len(queueMcp) - 1
            /\ \A i \in DOMAIN Tail(queueMcp) :
                 i + 1 \in DOMAIN queueMcp /\ i + 1 # 1 /\ Tail(queueMcp)[i] = queueMcp[i + 1]
      BY <2>3
    <2>5. /\ drv'.staged = drv.staged /\ drv'.txb = t /\ drv'.busy = drv.busy
          /\ drv'.curr = IF work'.at = "clear" THEN 0 ELSE c
      BY <1>3 DEF Steady, PipelineInv, McpTypes
    <2>6. McpTypes'
      <3>1. queueMcp' \in Seq(Nat) /\ work'.next \in Nat
        BY <1>3, <2>3, <2>4 DEF Steady, PipelineInv, McpTypes
      <3>2. drv' = [state |-> drv'.state, busy |-> drv'.busy, curr |-> drv'.curr,
                    staged |-> drv'.staged, txb |-> drv'.txb]
        BY <1>3 DEF Steady, PipelineInv, McpTypes
      <3>3. QED
        BY <1>1, <1>3, <2>5, <3>1, <3>2 DEF Steady, PipelineInv, McpTypes
    <2>7. ModeInv' /\ RequestInv'
      BY <1>1, <2>2 DEF Steady, PipelineInv, ModeInv, RequestInv, Fresh
    <2>8. ReportInv'
      BY <1>1, <1>3, <2>1, <2>2 DEF Steady, PipelineInv, ReportInv
    <2>9. api.at \notin {"load", "rts"}
      <3>1. api.at \in {"load", "rts"} => Live /\ t = 0 /\ ~Raised(0)
        BY <1>1 DEF Steady, PipelineInv, ModeInv, OwnerInv, Live, Ready
      <3>2. Live => Raised(t)
        BY <1>1, <1>3, <2>1, TxFlagFacts DEF Steady, PipelineInv, SnapshotInv, Raised
      <3>3. QED
        BY <3>1, <3>2
    <2>10. CurrInv'
      BY <1>1, <1>3, <2>1, <2>2, <2>5 DEF CurrInv, Raised
    <2>11. NextInv'
      <3>1. CASE work'.at = "rts"
        BY <1>1, <1>3, <2>1, <2>2, <2>5, <3>1 DEF NextInv, Raised
      <3>2. CASE work'.at = "reuse"
        <4>1. Live => Fresh(queueMcp[1])
          BY <1>3, <2>3, <2>4, <3>2 DEF Steady, PipelineInv, QueueInv
        <4>2. QED
          BY <1>1, <1>3, <2>1, <2>2, <2>4, <3>2, <4>1 DEF NextInv, Raised, Fresh
      <3>3. CASE work'.at = "clear"
        BY <3>3 DEF NextInv
      <3>4. QED
        BY <1>3, <3>1, <3>2, <3>3
    <2>12. StagedInv'
      BY <1>1, <1>3, <2>2, <2>5 DEF Steady, PipelineInv, StagedInv, Fresh
    <2>13. QueueInv'
      <3>1. Live => drv'.curr <= Top /\ drv'.staged <= Top
        BY <2>2, <2>5 DEF Steady, PipelineInv, QueueInv, Top, McpTypes
      <3>2. CASE queueMcp' = queueMcp /\ work'.at \notin {"reuse", "start"}
        BY <1>1, <2>2, <2>3, <2>5, <3>1, <3>2 DEF Steady, PipelineInv, McpTypes, QueueInv, Fresh
      <3>3. CASE work'.at = "reuse"
        <4>1. queueMcp # <<>> /\ queueMcp' = Tail(queueMcp) /\ work'.next = queueMcp[1] /\ drv' = drv
          BY <1>3, <2>4, <3>3
        <4>2. Live => \A i \in DOMAIN queueMcp' :
                /\ queueMcp'[i] \in 1 .. Top /\ \A j \in DOMAIN went : went[j] # queueMcp'[i]
                /\ queueMcp'[i] # drv.curr /\ queueMcp'[i] # drv.staged
                /\ queueMcp'[i] # queueMcp[1]
          BY <2>4, <4>1 DEF Steady, PipelineInv, QueueInv, Fresh
        <4>3. Live => \A i, j \in DOMAIN queueMcp' : queueMcp'[i] = queueMcp'[j] => i = j
          BY <2>3, <2>4, <4>1 DEF Steady, PipelineInv, QueueInv
        <4>4. QED
          BY <1>1, <2>2, <3>1, <4>1, <4>2, <4>3 DEF QueueInv, Fresh
      <3>4. QED
        BY <1>3, <3>2, <3>3
    <2>14. OwnerInv' /\ SnapshotInv'
      <3>1. Live => drv.busy
        BY <1>3 DEF Steady, PipelineInv, OwnerInv
      <3>2. QED
        BY <1>1, <1>3, <2>2, <2>5, <2>9, <3>1 DEF OwnerInv, SnapshotInv
    <2>15. QED
      BY <2>6, <2>7, <2>8, <2>10, <2>11, <2>12, <2>13, <2>14 DEF PipelineInv
  <1>4. QED
    <2>1. CASE work.intf \cap TxFlags = {}
      BY <1>1, <1>2, <2>1 DEF TxIsOver, WorkAt
    <2>2. CASE work.intf \cap TxFlags # {} /\ (c = 0 \/ TxIf(t) \notin work.intf)
      BY <1>1, <1>2, <2>2 DEF TxIsOver, WorkAt
    <2>3. CASE work.intf \cap TxFlags # {} /\ c # 0 /\ TxIf(t) \in work.intf
      BY <1>1, <1>3, <2>3 DEF TxIsOver, Steady
    <2>4. QED
      BY <2>1, <2>2, <2>3

\* What one of its transfers changes, but for the controller.
LEMMA TransferEffect ==
  ASSUME Steady, NEW from, NEW effect, NEW to, NEW instead,
         Transfer(from, effect, to, instead), ~failed'
  PROVE  /\ work.at = from /\ chip' = effect
         /\ work'.at = to /\ work'.txb = work.txb /\ work'.next = work.next
         /\ work'.intf = work.intf /\ work'.frame = work.frame
         /\ UNCHANGED <<api, drv, queueMcp, went, done>>
  BY DEF Transfer, Works, Fails, WorkAt, Steady

\* The next frame, staged before, is requested.
LEMMA RtsNextKeeps ==
  ASSUME Steady, Transfer("rts", Requests(1 - work.txb), "shift", "shift"), ~failed'
  PROVE  PipelineInv'
  <1> DEFINE b == 1 - work.txb
  <1>1. /\ work.at = "rts" /\ chip' = [chip EXCEPT !.txreq = @ \cup {b}]
        /\ work'.at = "shift" /\ work'.txb = work.txb /\ work'.next = work.next
        /\ work'.frame = work.frame
        /\ UNCHANGED <<api, drv, queueMcp, went, done>>
    BY TransferEffect DEF Requests
  <1>2. b \in {0, 1} /\ work.txb \in {0, 1} /\ 1 - b = work.txb
    BY TxFlagFacts DEF Steady, PipelineInv, McpTypes
  <1>3. /\ chip'.txreq = chip.txreq \cup {b} /\ chip'.intf = chip.intf
        /\ chip'.txb = chip.txb /\ chip'.mode = chip.mode
    BY <1>1 DEF Steady, PipelineInv, McpTypes
  <1>4. chip.txreq = {} /\ ~Raised(b) /\ (Live => Len(went) = Due)
    BY <1>1 DEF Steady, PipelineInv, NextInv
  <1>5. Live => drv.staged # 0 /\ drv.txb = work.txb /\ Fresh(drv.staged)
                /\ chip.txb[b] = drv.staged
    BY <1>1 DEF Steady, PipelineInv, NextInv, StagedInv
  <1>6. Top' = Top /\ Due' = Due /\ Live' = Live /\ Ready' = Ready /\ (Live <=> Ready)
    BY <1>1, <1>3 DEF Top, Due, Live, Ready, InHand
  <1>7. McpTypes'
    BY <1>1, <1>2, <1>3 DEF Steady, PipelineInv, McpTypes
  <1>8. ModeInv' /\ ReportInv'
    BY <1>1, <1>3, <1>6 DEF Steady, PipelineInv, ModeInv, ReportInv, InHand
  <1>9. RequestInv'
    BY <1>1, <1>3, <1>4, <1>5, <1>6 DEF Steady, PipelineInv, RequestInv, Fresh
  <1>10. CurrInv' /\ NextInv'
    BY <1>1, <1>3, <1>4, <1>5, <1>6 DEF CurrInv, NextInv, InBuffer, Raised, Fresh
  <1>11. StagedInv' /\ QueueInv'
    BY <1>1, <1>6 DEF Steady, PipelineInv, StagedInv, QueueInv, Fresh
  <1>12. OwnerInv' /\ SnapshotInv'
    BY <1>1, <1>6 DEF Steady, PipelineInv, OwnerInv, SnapshotInv, InHand
  <1>13. QED
    BY <1>7, <1>8, <1>9, <1>10, <1>11, <1>12 DEF PipelineInv

\* The flag of the frame in hand is cleared; it is reported next, or its buffer used again.
LEMMA ClearKeeps ==
  ASSUME Steady, ~failed',
         \/ Transfer("clear", Clears({TxIf(work.txb)}), "report", "report")
         \/ Transfer("reuse", Clears({TxIf(work.txb)}), "start", "start")
  PROVE  PipelineInv'
  <1> DEFINE b == work.txb
  <1>1. /\ \/ work.at = "clear" /\ work'.at = "report"
           \/ work.at = "reuse" /\ work'.at = "start"
        /\ chip' = [chip EXCEPT !.intf = @ \ {TxIf(b)}]
        /\ work'.txb = work.txb /\ work'.next = work.next /\ work'.frame = work.frame
        /\ UNCHANGED <<api, drv, queueMcp, went, done>>
    BY TransferEffect DEF Clears
  <1>2. b \in {0, 1} /\ 1 - b \in {0, 1} /\ drv.txb \in {0, 1} /\ 1 - (1 - b) = b
    BY TxFlagFacts DEF Steady, PipelineInv, McpTypes
  <1>3. /\ chip'.txreq = chip.txreq /\ chip'.intf = chip.intf \ {TxIf(b)}
        /\ chip'.txb = chip.txb /\ chip'.mode = chip.mode
    BY <1>1 DEF Steady, PipelineInv, McpTypes
  <1>4. \A d \in {0, 1} : TxIf(d) \in chip'.intf <=> TxIf(d) \in chip.intf /\ d # b
    BY <1>2, <1>3, TxFlagFacts
  <1>5. Top' = Top /\ Due' = Due /\ Live' = Live /\ Ready' = Ready
    BY <1>1, <1>3 DEF Top, Due, Live, Ready, InHand
  <1>6. McpTypes'
    BY <1>1, <1>2, <1>3 DEF Steady, PipelineInv, McpTypes
  <1>7. ModeInv' /\ ReportInv' /\ RequestInv'
    BY <1>1, <1>3, <1>5 DEF Steady, PipelineInv, ModeInv, ReportInv, RequestInv, InHand, Fresh
  <1>8. CurrInv'
    BY <1>1, <1>2, <1>3, <1>4, <1>5 DEF Steady, PipelineInv, CurrInv, InBuffer, Raised, Fresh
  <1>9. NextInv'
    BY <1>1, <1>2, <1>3, <1>4, <1>5 DEF Steady, PipelineInv, NextInv, Raised, Fresh
  <1>10. StagedInv' /\ QueueInv'
    BY <1>1, <1>3, <1>5 DEF Steady, PipelineInv, StagedInv, QueueInv, Fresh
  <1>11. OwnerInv' /\ SnapshotInv'
    BY <1>1, <1>3, <1>5 DEF Steady, PipelineInv, OwnerInv, SnapshotInv, InHand, Raised
  <1>12. QED
    BY <1>6, <1>7, <1>8, <1>9, <1>10, <1>11 DEF PipelineInv

\* The next frame, from the queue, is loaded into the buffer of the one in hand.
LEMMA LoadNextKeeps ==
  ASSUME Steady, Transfer("load", Loads(work.txb, work.next), "go", "report"), ~failed'
  PROVE  PipelineInv'
  <1> DEFINE b == work.txb
  <1>1. /\ work.at = "load" /\ chip' = [chip EXCEPT !.txb[b] = work.next]
        /\ work'.at = "go" /\ work'.txb = work.txb /\ work'.next = work.next
        /\ work'.frame = work.frame
        /\ UNCHANGED <<api, drv, queueMcp, went, done>>
    BY TransferEffect DEF Loads
  <1>2. b \in {0, 1} /\ work.next \in Nat
    BY DEF Steady, PipelineInv, McpTypes
  <1>3. /\ chip'.txreq = chip.txreq /\ chip'.intf = chip.intf /\ chip'.mode = chip.mode
        /\ chip'.txb \in [{0, 1} -> Nat] /\ chip'.txb[b] = work.next
    BY <1>1, <1>2 DEF Steady, PipelineInv, McpTypes
  <1>4. chip.txreq = {}
    BY <1>1 DEF Steady, PipelineInv, NextInv
  <1>5. Top' = Top /\ Due' = Due /\ Live' = Live /\ Ready' = Ready
    BY <1>1, <1>3 DEF Top, Due, Live, Ready, InHand
  <1>6. McpTypes'
    BY <1>1, <1>2, <1>3 DEF Steady, PipelineInv, McpTypes
  <1>7. ModeInv' /\ ReportInv' /\ RequestInv'
    BY <1>1, <1>3, <1>4, <1>5 DEF Steady, PipelineInv, ModeInv, ReportInv, RequestInv, InHand
  <1>8. CurrInv'
    BY <1>1, <1>3, <1>4, <1>5 DEF Steady, PipelineInv, CurrInv, InBuffer, Raised, Fresh
  <1>9. NextInv'
    BY <1>1, <1>3, <1>5 DEF Steady, PipelineInv, NextInv, Raised
  <1>10. StagedInv' /\ QueueInv'
    BY <1>1, <1>3, <1>5 DEF Steady, PipelineInv, StagedInv, QueueInv, Fresh
  <1>11. OwnerInv' /\ SnapshotInv'
    BY <1>1, <1>3, <1>5 DEF Steady, PipelineInv, OwnerInv, SnapshotInv, InHand, Raised
  <1>12. QED
    BY <1>6, <1>7, <1>8, <1>9, <1>10, <1>11 DEF PipelineInv

\* The task's request to send the next buffer keeps it.
LEMMA GoNextKeeps ==
  ASSUME Steady, Transfer("go", Requests(work.txb), "report", "report"), ~failed'
  PROVE  PipelineInv'
  <1> DEFINE b == work.txb
  <1>1. /\ work.at = "go" /\ chip' = [chip EXCEPT !.txreq = @ \cup {b}]
        /\ work'.at = "report" /\ work'.txb = work.txb /\ work'.next = work.next
        /\ work'.frame = work.frame
        /\ UNCHANGED <<api, drv, queueMcp, went, done>>
    BY TransferEffect DEF Requests
  <1>2. b \in {0, 1}
    BY DEF Steady, PipelineInv, McpTypes
  <1>3. /\ chip'.txreq = chip.txreq \cup {b} /\ chip'.intf = chip.intf
        /\ chip'.txb = chip.txb /\ chip'.mode = chip.mode
    BY <1>1 DEF Steady, PipelineInv, McpTypes
  <1>4. chip.txreq = {} /\ ~Raised(b) /\ ~Raised(1 - b) /\ (Live => Len(went) = Due)
    BY <1>1 DEF Steady, PipelineInv, NextInv
  <1>5. Live => drv.curr = work.next /\ drv.curr # 0 /\ drv.txb = b
                /\ chip.txb[b] = drv.curr
    BY <1>1 DEF Steady, PipelineInv, NextInv
  <1>6. drv.curr # 0 => InBuffer(drv.curr, drv.txb)
    BY <1>1 DEF Steady, PipelineInv, CurrInv
  <1>7. Top' = Top /\ Due' = Due /\ Live' = Live /\ Ready' = Ready /\ (Live <=> Ready)
    BY <1>1, <1>3 DEF Top, Due, Live, Ready, InHand
  <1>8. McpTypes'
    BY <1>1, <1>2, <1>3 DEF Steady, PipelineInv, McpTypes
  <1>9. ModeInv' /\ ReportInv'
    BY <1>1, <1>3, <1>7 DEF Steady, PipelineInv, ModeInv, ReportInv, InHand
  <1>10. RequestInv'
    BY <1>1, <1>3, <1>4, <1>5, <1>6, <1>7
    DEF Steady, PipelineInv, RequestInv, InBuffer, Raised, Fresh
  <1>11. CurrInv'
    <2>1. drv.curr # 0 => drv.txb = b
      BY <1>1 DEF Steady, PipelineInv, NextInv
    <2>2. QED
      BY <1>1, <1>3, <1>4, <1>5, <1>6, <1>7, <2>1 DEF CurrInv, InBuffer, Raised, Fresh
  <1>12. NextInv' /\ StagedInv' /\ QueueInv'
    BY <1>1, <1>7 DEF Steady, PipelineInv, NextInv, StagedInv, QueueInv, Fresh
  <1>13. OwnerInv' /\ SnapshotInv'
    BY <1>1, <1>7 DEF Steady, PipelineInv, OwnerInv, SnapshotInv, InHand
  <1>14. QED
    BY <1>8, <1>9, <1>10, <1>11, <1>12, <1>13 DEF PipelineInv

\* The frame after the next is loaded into the buffer that is free.
LEMMA PreloadKeeps ==
  ASSUME Steady, Transfer("preload", Loads(1 - drv.txb, work.next), "rx0", "rx0"), ~failed'
  PROVE  PipelineInv'
  <1> DEFINE b == 1 - drv.txb
  <1>1. /\ work.at = "preload" /\ chip' = [chip EXCEPT !.txb[b] = work.next]
        /\ work'.at = "rx0" /\ work'.txb = work.txb /\ work'.next = work.next
        /\ work'.frame = work.frame
        /\ UNCHANGED <<api, drv, queueMcp, went, done>>
    BY TransferEffect DEF Loads
  <1>2. b \in {0, 1} /\ drv.txb \in {0, 1} /\ b # drv.txb /\ work.next \in Nat
    BY TxFlagFacts DEF Steady, PipelineInv, McpTypes
  <1>3. /\ chip'.txreq = chip.txreq /\ chip'.intf = chip.intf /\ chip'.mode = chip.mode
        /\ chip'.txb \in [{0, 1} -> Nat] /\ chip'.txb[b] = work.next
        /\ chip'.txb[drv.txb] = chip.txb[drv.txb]
    BY <1>1, <1>2 DEF Steady, PipelineInv, McpTypes
  <1>4. Top' = Top /\ Due' = Due /\ Live' = Live /\ Ready' = Ready /\ (Live <=> Ready)
    BY <1>1, <1>3 DEF Top, Due, Live, Ready, InHand
  <1>5. Live => chip.txreq \subseteq {drv.txb}
    BY <1>1 DEF Steady, PipelineInv, CurrInv, InBuffer
  <1>6. McpTypes'
    BY <1>1, <1>2, <1>3 DEF Steady, PipelineInv, McpTypes
  <1>7. ModeInv' /\ ReportInv'
    BY <1>1, <1>3, <1>4 DEF Steady, PipelineInv, ModeInv, ReportInv, InHand
  <1>8. RequestInv'
    BY <1>1, <1>3, <1>4, <1>5 DEF Steady, PipelineInv, RequestInv, Fresh
  <1>9. CurrInv'
    BY <1>1, <1>3, <1>4 DEF Steady, PipelineInv, CurrInv, InBuffer, Raised, Fresh
  <1>10. NextInv' /\ StagedInv' /\ QueueInv'
    BY <1>1, <1>3, <1>4 DEF Steady, PipelineInv, NextInv, StagedInv, QueueInv, Fresh
  <1>11. OwnerInv' /\ SnapshotInv'
    BY <1>1, <1>3, <1>4 DEF Steady, PipelineInv, OwnerInv, SnapshotInv, InHand, Raised
  <1>12. QED
    BY <1>6, <1>7, <1>8, <1>9, <1>10, <1>11 DEF PipelineInv

\* Flags that belong to no frame are cleared: the node is being disabled.
LEMMA StaleKeeps ==
  ASSUME Steady, Transfer("stale", Clears(work.intf \cap TxFlags), "rx0", "rx0"), ~failed'
  PROVE  PipelineInv'
  <1>1. /\ work.at = "stale" /\ chip' = [chip EXCEPT !.intf = @ \ (work.intf \cap TxFlags)]
        /\ work'.at = "rx0" /\ work'.txb = work.txb /\ work'.next = work.next
        /\ work'.frame = work.frame
        /\ UNCHANGED <<api, drv, queueMcp, went, done>>
    BY TransferEffect DEF Clears
  <1>2. /\ chip'.txreq = chip.txreq /\ chip'.mode = chip.mode /\ chip'.txb = chip.txb
        /\ chip'.intf = chip.intf \ (work.intf \cap TxFlags)
    BY <1>1 DEF Steady, PipelineInv, McpTypes
  <1>3. Top' = Top /\ Due' = Due /\ ~Live' /\ Ready' = Ready
    BY <1>1, <1>2 DEF Top, Due, Live, Ready, InHand, Steady, PipelineInv, SnapshotInv
  <1>4. \A d \in {0, 1} : TxIf(d) \in chip'.intf => TxIf(d) \in chip.intf
    BY <1>2
  <1>5. drv.txb \in {0, 1} /\ 1 - drv.txb \in {0, 1}
    BY DEF Steady, PipelineInv, McpTypes
  <1>6. McpTypes'
    BY <1>1, <1>2 DEF Steady, PipelineInv, McpTypes
  <1>7. ModeInv' /\ ReportInv' /\ RequestInv'
    BY <1>1, <1>2, <1>3 DEF Steady, PipelineInv, ModeInv, ReportInv, RequestInv, InHand, Fresh
  <1>8. CurrInv' /\ NextInv'
    BY <1>1, <1>2, <1>3, <1>4, <1>5
    DEF Steady, PipelineInv, CurrInv, NextInv, InBuffer, Raised
  <1>9. StagedInv' /\ QueueInv'
    BY <1>1, <1>3 DEF StagedInv, QueueInv
  <1>10. OwnerInv' /\ SnapshotInv'
    BY <1>1, <1>2, <1>3, <1>4, TxFlagFacts
    DEF Steady, PipelineInv, OwnerInv, SnapshotInv, InHand, Raised
  <1>11. QED
    BY <1>6, <1>7, <1>8, <1>9, <1>10 DEF PipelineInv

\* The current frame is the one that was requested, or is about to be.
LEMMA ShiftKeeps ==
  ASSUME Steady, TxShift
  PROVE  PipelineInv'
  <1>1. UNCHANGED <<chip, api, queueMcp, went, done>>
    BY DEF TxShift
  <1>2. work.txb \in {0, 1} /\ 1 - work.txb \in {0, 1} /\ 1 - (1 - work.txb) = work.txb
        /\ work.next \in Nat /\ drv.staged \in Nat
    BY TxFlagFacts DEF Steady, PipelineInv, McpTypes
  <1>3. work'.txb = work.txb /\ work'.next = work.next /\ work'.frame = work.frame
    BY DEF TxShift, WorkAt, Steady
  <1>4. CASE work.at = "shift"
    <2>1. /\ drv' = [drv EXCEPT !.curr = drv.staged, !.txb = 1 - work.txb, !.staged = 0]
          /\ work'.at = "clear"
      BY <1>4 DEF TxShift, WorkAt, Steady
    <2>2. /\ drv'.curr = drv.staged /\ drv'.txb = 1 - work.txb /\ drv'.staged = 0
          /\ drv'.busy = drv.busy
      BY <2>1 DEF Steady, PipelineInv, McpTypes
    <2>3. Top' = Top /\ Due' = Due /\ Live' = Live /\ Ready' = Ready
      BY <1>1, <1>4, <2>1 DEF Top, Due, Live, Ready, InHand
    <2>4. McpTypes'
      BY <1>1, <1>2, <1>3, <2>1, <2>2 DEF Steady, PipelineInv, McpTypes
    <2>5. ModeInv' /\ ReportInv' /\ RequestInv'
      BY <1>1, <1>3, <1>4, <2>1, <2>3
      DEF Steady, PipelineInv, ModeInv, ReportInv, RequestInv, InHand, Fresh
    <2>6. CurrInv'
      BY <1>1, <1>2, <1>3, <1>4, <2>1, <2>2, <2>3
      DEF Steady, PipelineInv, CurrInv, NextInv, InBuffer, Raised, Fresh
    <2>7. NextInv' /\ StagedInv'
      BY <2>1, <2>2 DEF NextInv, StagedInv
    <2>8. QueueInv'
      <3>1. Top \in Int /\ drv.curr \in Nat
        BY DEF Top, Steady, PipelineInv, McpTypes
      <3>2. QED
        BY <1>1, <1>4, <2>1, <2>2, <2>3, <3>1 DEF Steady, PipelineInv, QueueInv, Fresh
    <2>9. OwnerInv' /\ SnapshotInv'
      BY <1>1, <1>4, <2>1, <2>2, <2>3 DEF Steady, PipelineInv, OwnerInv, SnapshotInv, InHand
    <2>10. QED
      BY <2>4, <2>5, <2>6, <2>7, <2>8, <2>9 DEF PipelineInv
  <1>5. CASE work.at = "start"
    <2>1. /\ drv' = [drv EXCEPT !.curr = work.next, !.txb = work.txb]
          /\ work'.at = "load"
      BY <1>5 DEF TxShift, WorkAt, Steady
    <2>2. /\ drv'.curr = work.next /\ drv'.txb = work.txb /\ drv'.staged = drv.staged
          /\ drv'.busy = drv.busy
      BY <2>1 DEF Steady, PipelineInv, McpTypes
    <2>3. Top' = Top /\ Due' = Due /\ Live' = Live /\ Ready' = Ready
      BY <1>1, <1>5, <2>1 DEF Top, Due, Live, Ready, InHand
    <2>4. McpTypes'
      BY <1>1, <1>2, <1>3, <2>1, <2>2 DEF Steady, PipelineInv, McpTypes
    <2>5. ModeInv' /\ ReportInv' /\ RequestInv'
      BY <1>1, <1>3, <1>5, <2>1, <2>3
      DEF Steady, PipelineInv, ModeInv, ReportInv, RequestInv, InHand, Fresh
    <2>6. /\ chip.txreq = {} /\ ~Raised(work.txb) /\ ~Raised(1 - work.txb)
          /\ Live => Len(went) = Due /\ Fresh(work.next) /\ work.next # 0
      BY <1>5 DEF Steady, PipelineInv, NextInv, Fresh
    <2>7. CurrInv' /\ NextInv'
      BY <1>1, <1>2, <1>3, <1>5, <2>1, <2>2, <2>3, <2>6
      DEF CurrInv, NextInv, InBuffer, Raised, Fresh
    <2>8. StagedInv'
      BY <1>5, <2>2 DEF Steady, PipelineInv, StagedInv
    <2>9. QueueInv'
      BY <1>1, <1>5, <2>1, <2>2, <2>3, <2>6 DEF Steady, PipelineInv, QueueInv, Fresh
    <2>10. OwnerInv' /\ SnapshotInv'
      BY <1>1, <1>5, <2>1, <2>2, <2>3 DEF Steady, PipelineInv, OwnerInv, SnapshotInv, InHand
    <2>11. QED
      BY <2>4, <2>5, <2>7, <2>8, <2>9, <2>10 DEF PipelineInv
  <1>6. QED
    BY <1>4, <1>5 DEF TxShift

\* The frame in hand is reported.
LEMMA ReportKeeps ==
  ASSUME Steady, TxReport
  PROVE  PipelineInv'
  <1>1. /\ work.at = "report" /\ work'.at = "after"
        /\ work'.txb = work.txb /\ work'.next = work.next
        /\ done' = Append(done, work.frame)
        /\ UNCHANGED <<chip, drv, api, queueMcp, went>>
    BY DEF TxReport, WorkAt, Steady
  <1>2. /\ Due <= Len(went) /\ Due = Len(done) + 1 /\ work.frame = went[Due]
        /\ done \in Seq(Nat) /\ went \in Seq(Nat) /\ Len(done) \in Nat /\ Len(went) \in Nat
    BY <1>1 DEF Steady, PipelineInv, ReportInv, McpTypes, Due, InHand
  <1>3. work.frame \in Nat
    BY <1>2
  <1>4. /\ done' \in Seq(Nat) /\ Len(done') = Due /\ done'[Due] = went[Due]
        /\ \A i \in 1 .. Len(done) : done'[i] = done[i]
    BY <1>1, <1>2, <1>3
  <1>5. Top' = Top /\ Due' = Due /\ Live' = Live /\ Ready' = Ready
    BY <1>1, <1>2, <1>4 DEF Top, Due, Live, Ready, InHand
  <1>6. McpTypes'
    BY <1>1, <1>4 DEF Steady, PipelineInv, McpTypes
  <1>7. ModeInv' /\ RequestInv'
    BY <1>1, <1>5 DEF Steady, PipelineInv, ModeInv, RequestInv, Fresh
  <1>8. ReportInv'
    <2>1. \A i \in 1 .. Due : i = Due \/ i \in 1 .. Len(done)
      BY <1>2
    <2>2. \A i \in 1 .. Due : done'[i] = went[i]
      BY <1>4, <2>1 DEF Steady, PipelineInv, ReportInv
    <2>3. QED
      BY <1>1, <1>2, <1>4, <1>5, <2>2 DEF ReportInv, InHand
  <1>9. CurrInv' /\ NextInv'
    BY <1>1, <1>5 DEF Steady, PipelineInv, CurrInv, NextInv, InBuffer, Raised, Fresh
  <1>10. StagedInv' /\ QueueInv'
    BY <1>1, <1>5 DEF Steady, PipelineInv, StagedInv, QueueInv, Fresh
  <1>11. OwnerInv' /\ SnapshotInv'
    BY <1>1, <1>5 DEF Steady, PipelineInv, OwnerInv, SnapshotInv, InHand, Raised
  <1>12. QED
    BY <1>6, <1>7, <1>8, <1>9, <1>10, <1>11 DEF PipelineInv

\* Nothing follows, or the frame after the next is staged.
LEMMA AfterKeeps ==
  ASSUME Steady, TxAfter
  PROVE  PipelineInv'
  <1>1. work.at = "after" /\ UNCHANGED <<chip, api, went, done>>
    BY DEF TxAfter
  <1>2. /\ queueMcp \in Seq(Nat) /\ DOMAIN queueMcp = 1 .. Len(queueMcp) /\ Len(queueMcp) \in Nat
        /\ drv.curr \in Nat /\ work.txb \in {0, 1} /\ work.next \in Nat
    BY DEF Steady, PipelineInv, McpTypes
  <1>3. CASE drv.curr = 0 /\ drv' = [drv EXCEPT !.busy = FALSE] /\ WorkAt("rx0")
             /\ UNCHANGED queueMcp
    <2>1. /\ drv'.curr = drv.curr /\ drv'.txb = drv.txb /\ drv'.staged = drv.staged
          /\ work'.at = "rx0" /\ work'.txb = work.txb /\ work'.next = work.next
      BY <1>3 DEF WorkAt, Steady, PipelineInv, McpTypes
    <2>2. Top' = Top /\ Due' = Due /\ Live' = Live /\ Ready' = Ready
      BY <1>1, <2>1 DEF Top, Due, Live, Ready, InHand
    <2>3. McpTypes'
      BY <1>1, <1>2, <1>3, <2>1 DEF Steady, PipelineInv, McpTypes
    <2>4. ModeInv' /\ ReportInv' /\ RequestInv'
      BY <1>1, <2>1, <2>2 DEF Steady, PipelineInv, ModeInv, ReportInv, RequestInv, InHand, Fresh
    <2>5. CurrInv' /\ NextInv'
      BY <1>1, <1>3, <2>1, <2>2
      DEF Steady, PipelineInv, CurrInv, NextInv, InBuffer, Raised, Fresh
    <2>6. StagedInv' /\ QueueInv'
      BY <1>1, <1>3, <2>1, <2>2 DEF Steady, PipelineInv, StagedInv, QueueInv, Fresh
    <2>7. OwnerInv' /\ SnapshotInv'
      BY <1>1, <1>3, <2>1, <2>2 DEF Steady, PipelineInv, OwnerInv, SnapshotInv, InHand, Raised
    <2>8. QED
      BY <2>3, <2>4, <2>5, <2>6, <2>7 DEF PipelineInv
  <1>4. CASE /\ drv.curr # 0 /\ drv.staged = 0 /\ queueMcp # <<>>
             /\ drv' = [drv EXCEPT !.staged = Head(queueMcp)] /\ queueMcp' = Tail(queueMcp)
             /\ work' = [work EXCEPT !.at = "preload", !.next = Head(queueMcp)]
    <2>1. /\ Head(queueMcp) = queueMcp[1] /\ queueMcp[1] \in Nat /\ 1 \in DOMAIN queueMcp
          /\ Tail(queueMcp) \in Seq(Nat) /\ DOMAIN Tail(queueMcp) = 1 .. Len(queueMcp) - 1
          /\ \A i \in DOMAIN Tail(queueMcp) :
               i + 1 \in DOMAIN queueMcp /\ i + 1 # 1 /\ Tail(queueMcp)[i] = queueMcp[i + 1]
      BY <1>2, <1>4
    <2>2. /\ drv'.curr = drv.curr /\ drv'.txb = drv.txb /\ drv'.staged = queueMcp[1]
          /\ drv'.busy = drv.busy
          /\ work'.at = "preload" /\ work'.txb = work.txb /\ work'.next = queueMcp[1]
      BY <1>4, <2>1 DEF Steady, PipelineInv, McpTypes
    <2>3. Top' = Top /\ Due' = Due /\ Live' = Live /\ Ready' = Ready
      BY <1>1, <2>2 DEF Top, Due, Live, Ready, InHand
    <2>4. McpTypes'
      <3>1. drv' = [state |-> drv'.state, busy |-> drv'.busy, curr |-> drv'.curr,
                    staged |-> drv'.staged, txb |-> drv'.txb]
        BY <1>4 DEF Steady, PipelineInv, McpTypes
      <3>2. QED
        BY <1>1, <1>4, <2>1, <2>2, <3>1 DEF Steady, PipelineInv, McpTypes
    <2>5. ModeInv' /\ ReportInv' /\ RequestInv'
      BY <1>1, <2>2, <2>3 DEF Steady, PipelineInv, ModeInv, ReportInv, RequestInv, InHand, Fresh
    <2>6. CurrInv' /\ NextInv'
      BY <1>1, <2>2, <2>3 DEF Steady, PipelineInv, CurrInv, NextInv, InBuffer, Raised, Fresh
    <2>7. Live => Fresh(queueMcp[1]) /\ queueMcp[1] # drv.curr /\ drv.curr <= Top
      BY <2>1 DEF Steady, PipelineInv, QueueInv
    <2>8. StagedInv'
      BY <1>1, <1>4, <2>2, <2>3, <2>7 DEF StagedInv, Fresh
    <2>9. QueueInv'
      <3>1. Live => \A i \in DOMAIN queueMcp' :
              /\ queueMcp'[i] \in 1 .. Top /\ \A j \in DOMAIN went : went[j] # queueMcp'[i]
              /\ queueMcp'[i] # drv.curr /\ queueMcp'[i] # queueMcp[1]
        BY <1>4, <2>1 DEF Steady, PipelineInv, QueueInv, Fresh
      <3>2. Live => \A i, j \in DOMAIN queueMcp' : queueMcp'[i] = queueMcp'[j] => i = j
        BY <1>2, <1>4, <2>1 DEF Steady, PipelineInv, QueueInv
      <3>3. QED
        BY <1>1, <2>2, <2>3, <2>7, <3>1, <3>2 DEF QueueInv, Fresh
    <2>10. OwnerInv' /\ SnapshotInv'
      BY <1>1, <2>2, <2>3 DEF Steady, PipelineInv, OwnerInv, SnapshotInv, InHand
    <2>11. QED
      BY <2>4, <2>5, <2>6, <2>8, <2>9, <2>10 DEF PipelineInv
  <1>5. CASE drv.curr # 0 /\ WorkAt("rx0") /\ UNCHANGED <<queueMcp, drv>>
    <2>1. work'.at = "rx0" /\ work'.txb = work.txb /\ work'.next = work.next
      BY <1>5 DEF WorkAt, Steady
    <2>2. Top' = Top /\ Due' = Due /\ Live' = Live /\ Ready' = Ready
      BY <1>1, <2>1 DEF Top, Due, Live, Ready, InHand
    <2>3. McpTypes' /\ ModeInv' /\ ReportInv' /\ RequestInv'
      BY <1>1, <1>5, <2>1, <2>2
      DEF Steady, PipelineInv, McpTypes, ModeInv, ReportInv, RequestInv, InHand, Fresh
    <2>4. CurrInv' /\ NextInv'
      BY <1>1, <1>5, <2>1, <2>2
      DEF Steady, PipelineInv, CurrInv, NextInv, InBuffer, Raised, Fresh
    <2>5. StagedInv' /\ QueueInv'
      BY <1>1, <1>5, <2>1, <2>2 DEF Steady, PipelineInv, StagedInv, QueueInv, Fresh
    <2>6. OwnerInv' /\ SnapshotInv'
      BY <1>1, <1>5, <2>1, <2>2 DEF Steady, PipelineInv, OwnerInv, SnapshotInv, InHand, Raised
    <2>7. QED
      BY <2>3, <2>4, <2>5, <2>6 DEF PipelineInv
  <1>6. QED
    BY <1>3, <1>4, <1>5 DEF TxAfter

\* Frames received, errors and the error state.
LEMMA OthersKeep ==
  ASSUME Steady, ~failed',
         \/ ChipHears \/ ChipErrs \/ Sleep \/ RxTransfers \/ ErrRead \/ ErrState \/ ErrClear
         \/ Skip \/ CheckPin
  PROVE  PipelineInv'
  <1>1. UNCHANGED <<api, queueMcp, went, done>>
    BY DEF ChipHears, ChipErrs, Sleep, RxTransfers, ErrRead, ErrState, ErrClear, Skip, CheckPin,
           Transfer
  <1>2. CASE ChipHears \/ ChipErrs
    <2>1. \E fs \in SUBSET {"rx0", "rx1", "err"} : chip'.intf = chip.intf \cup fs
      <3>1. CASE ChipHears
        <4>1. \/ chip'.intf = chip.intf \cup {"rx0"}
              \/ chip'.intf = chip.intf \cup {"rx1"}
              \/ chip'.intf = chip.intf \cup {"err"}
          BY <3>1 DEF ChipHears, Raise, Steady, PipelineInv, McpTypes
        <4>2. QED
          BY <4>1
      <3>2. CASE ChipErrs
        <4>1. chip'.intf = chip.intf \cup {"err"}
          BY <3>2 DEF ChipErrs, Raise, Steady, PipelineInv, McpTypes
        <4>2. QED
          BY <4>1
      <3>3. QED
        BY <1>2, <3>1, <3>2
    <2>2. chip'.intf \cap TxFlags = chip.intf \cap TxFlags
      BY <2>1 DEF TxFlags
    <2>3. /\ chip'.mode = chip.mode /\ chip'.txreq = chip.txreq /\ chip'.txb = chip.txb
          /\ chip' = [mode |-> chip'.mode, inte |-> chip'.inte, intf |-> chip'.intf,
                      txreq |-> chip'.txreq, txb |-> chip'.txb, rxb |-> chip'.rxb,
                      eflg |-> chip'.eflg]
      BY <1>2 DEF ChipHears, ChipErrs, Raise, Steady, PipelineInv, McpTypes
    <2>4. drv' = drv /\ work' = work
      BY <1>2 DEF ChipHears, ChipErrs
    <2>5. McpTypes'
      BY <1>1, <2>3, <2>4 DEF Steady, PipelineInv, McpTypes
    <2>6. QED
      BY <1>1, <2>2, <2>3, <2>4, <2>5, Quiet DEF Steady
  <1>3. CASE Sleep \/ Skip \/ CheckPin
    <2>1. chip' = chip /\ drv' = drv
      BY <1>3 DEF Sleep, Skip, CheckPin
    <2>2. /\ work.at \in Plain /\ work'.at \in Plain
          /\ work'.txb = work.txb /\ work'.next = work.next
      BY <1>3 DEF Sleep, Skip, CheckPin, WorkAt, Plain, Steady
    <2>3. McpTypes'
      BY <1>1, <2>1, <2>2 DEF Steady, PipelineInv, McpTypes
    <2>4. QED
      BY <1>1, <2>1, <2>2, <2>3, Quiet DEF Steady
  <1>4. CASE ErrRead
    <2>1. chip' = chip /\ drv' = drv
      BY <1>4 DEF ErrRead, Works, Fails
    <2>2. /\ work.at \in Plain /\ work'.at \in Plain
          /\ work'.txb = work.txb /\ work'.next = work.next
      BY <1>4 DEF ErrRead, WorkAt, Plain, Steady
    <2>3. McpTypes'
      BY <1>1, <2>1, <2>2 DEF Steady, PipelineInv, McpTypes
    <2>4. QED
      BY <1>1, <2>1, <2>2, <2>3, Quiet DEF Steady
  <1>5. CASE ErrState
    <2>1. chip' = chip /\ drv' = [drv EXCEPT !.state = work.eflg]
      BY <1>5 DEF ErrState
    <2>2. /\ drv'.curr = drv.curr /\ drv'.staged = drv.staged /\ drv'.txb = drv.txb
          /\ drv'.busy = drv.busy
      BY <2>1 DEF Steady, PipelineInv, McpTypes
    <2>3. /\ work.at \in Plain /\ work'.at \in Plain
          /\ work'.txb = work.txb /\ work'.next = work.next
      BY <1>5 DEF ErrState, WorkAt, Plain, Steady
    <2>4. McpTypes'
      BY <1>1, <2>1, <2>2, <2>3 DEF Steady, PipelineInv, McpTypes
    <2>5. QED
      BY <1>1, <2>1, <2>2, <2>3, <2>4, Quiet DEF Steady
  <1>6. CASE ErrClear \/ RxTransfers
    <2>1. /\ work.at \in Plain /\ work'.at \in Plain
          /\ work'.txb = work.txb /\ work'.next = work.next /\ drv' = drv
          /\ \/ chip' = Clears({"err"})
             \/ chip' = Takes("rx0", 0)
             \/ chip' = Takes("rx1", 1)
      BY <1>6, TransferEffect DEF ErrClear, RxTransfers, Plain
    <2>2. /\ chip'.mode = chip.mode /\ chip'.txreq = chip.txreq /\ chip'.txb = chip.txb
          /\ chip' = [mode |-> chip'.mode, inte |-> chip'.inte, intf |-> chip'.intf,
                      txreq |-> chip'.txreq, txb |-> chip'.txb, rxb |-> chip'.rxb,
                      eflg |-> chip'.eflg]
          /\ \/ chip'.intf = chip.intf \ {"err"}
             \/ chip'.intf = chip.intf \ {"rx0"}
             \/ chip'.intf = chip.intf \ {"rx1"}
      BY <2>1 DEF Clears, Takes, Steady, PipelineInv, McpTypes
    <2>3. chip'.intf \cap TxFlags = chip.intf \cap TxFlags
      BY <2>2 DEF TxFlags
    <2>4. McpTypes'
      BY <1>1, <2>1, <2>2 DEF Steady, PipelineInv, McpTypes
    <2>5. QED
      BY <1>1, <2>1, <2>2, <2>3, <2>4, Quiet DEF Steady
  <1>7. QED
    BY <1>2, <1>3, <1>4, <1>5, <1>6

\* Whatever failed: the records keep their shape, and a node that is gone has no queue
\* and no interrupt task.
LEMMA ShapesKeep ==
  ASSUME McpInv, [McpNext]_mcpVars
  PROVE  /\ api' = [at |-> api'.at, frame |-> api'.frame]
         /\ work' = [at |-> work'.at, intf |-> work'.intf, frame |-> work'.frame,
                     txb |-> work'.txb, next |-> work'.next, eflg |-> work'.eflg]
         /\ api'.at = "gone" => queueMcp' = <<>>
         /\ api'.at = "gone" <=> work'.at = "dead"
  <1> USE DEF McpInv, Works, Fails, At, WorkAt
  <1>1. CASE Chip \/ UNCHANGED mcpVars
    BY <1>1 DEF Chip, ChipSends, ChipHears, ChipErrs, mcpVars
  <1>2. CASE TransmitSwap
    BY <1>2 DEF TransmitSwap
  <1>3. CASE TransmitLoad \/ TransmitRts
    BY <1>3 DEF TransmitLoad, TransmitRts, GiveUp
  <1>4. CASE TransmitQueue
    BY <1>4 DEF TransmitQueue
  <1>5. CASE Disable \/ DisableChip \/ DisableDrop
    BY <1>5 DEF Disable, DisableChip, DisableDrop
  <1>6. CASE Delete
    BY <1>6 DEF Delete, FreshWork
  <1>7. CASE Create
    BY <1>7 DEF Create, FreshWork
  <1>8. CASE EnableChip \/ EnableIrq
    BY <1>8 DEF EnableChip, EnableIrq
  <1>9. CASE Sleep \/ ReadFlags \/ ErrRead \/ ErrState \/ Skip \/ CheckPin
    BY <1>9 DEF Sleep, ReadFlags, ErrRead, ErrState, Skip, CheckPin
  <1>10. CASE TxIsOver \/ TxShift \/ TxReport \/ TxAfter
    <2>1. api' = api /\ work.at # "dead" /\ work'.at # "dead"
      BY <1>10 DEF TxIsOver, TxShift, TxReport, TxAfter
    <2>2. work' = [at |-> work'.at, intf |-> work'.intf, frame |-> work'.frame,
                   txb |-> work'.txb, next |-> work'.next, eflg |-> work'.eflg]
      BY <1>10 DEF TxIsOver, TxShift, TxReport, TxAfter
    <2>3. QED
      BY <2>1, <2>2
  <1>11. CASE TxTransfers \/ RxTransfers \/ ErrClear
    BY <1>11 DEF TxTransfers, RxTransfers, ErrClear, Transfer
  <1>12. QED
    BY <1>1, <1>2, <1>3, <1>4, <1>5, <1>6, <1>7, <1>8, <1>9, <1>10, <1>11
    DEF McpNext, Transmits, TurnsOff, TurnsOn, Interrupt

\* Every step of caller, task and chip keeps the invariant, or is one that failed.
LEMMA McpStep == ASSUME McpInv, [McpNext]_mcpVars PROVE McpInv'
  <1>1. CASE failed'
    BY <1>1, ShapesKeep DEF McpInv
  <1>2. CASE ~failed' /\ Create
    <2>1. queueMcp = <<>>
      BY <1>2 DEF Create, McpInv
    <2>2. PipelineInv'
      BY <1>2, <2>1, CreateKeeps
    <2>3. QED
      BY <2>2, ShapesKeep DEF McpInv
  <1>3. CASE ~failed' /\ ~Create
    <2>1. ~failed
      <3>1. UNCHANGED failed \/ failed' = TRUE
        <4>1. CASE Chip \/ Transmits \/ UNCHANGED mcpVars
          BY <4>1 DEF Chip, ChipSends, ChipHears, ChipErrs, Transmits, TransmitSwap,
             TransmitLoad,
                      TransmitRts, TransmitQueue, Works, Fails, mcpVars
        <4>2. CASE TurnsOff \/ TurnsOn
          BY <1>3, <4>2 DEF TurnsOff, Disable, DisableChip, DisableDrop, Delete, TurnsOn,
                            EnableChip, EnableIrq, Works, Fails
        <4>3. CASE Interrupt
          BY <4>3 DEF Interrupt, Sleep, ReadFlags, TxIsOver, TxTransfers, TxShift, TxReport,
                      TxAfter, RxTransfers, ErrRead, ErrState, ErrClear, Skip, CheckPin,
                      Transfer, Works, Fails
        <4>4. QED
          BY <4>1, <4>2, <4>3 DEF McpNext
      <3>2. QED
        BY <1>3, <3>1
    <2>2. Steady
      BY <2>1 DEF McpInv, Steady
    <2>3. PipelineInv'
      <3>1. CASE Chip
        BY <1>3, <2>2, <3>1, SendKeeps, OthersKeep DEF Chip
      <3>2. CASE Transmits
        BY <1>3, <2>2, <3>2, SwapKeeps, LoadKeeps, RtsKeeps, QueueKeeps DEF Transmits
      <3>3. CASE TurnsOff
        BY <1>3, <2>2, <3>3, DisableKeeps, DisableChipKeeps, DropKeeps, DeleteKeeps DEF TurnsOff
      <3>4. CASE TurnsOn
        BY <1>3, <2>2, <3>4, EnableKeeps DEF TurnsOn
      <3>5. CASE ReadFlags \/ TxIsOver \/ TxShift \/ TxReport \/ TxAfter
        BY <1>3, <2>2, <3>5, ReadKeeps, OverKeeps, ShiftKeeps, ReportKeeps, AfterKeeps
      <3>6. CASE TxTransfers
        BY <1>3, <2>2, <3>6, RtsNextKeeps, ClearKeeps, LoadNextKeeps, GoNextKeeps, PreloadKeeps,
           StaleKeeps DEF TxTransfers
      <3>7. CASE Sleep \/ RxTransfers \/ ErrRead \/ ErrState \/ ErrClear \/ Skip \/ CheckPin
        BY <1>3, <2>2, <3>7, OthersKeep
      <3>8. CASE UNCHANGED mcpVars
        <4>1. McpTypes'
          BY <2>2, <3>8 DEF mcpVars, Steady, PipelineInv, McpTypes
        <4>2. QED
          BY <2>2, <3>8, <4>1, Quiet DEF mcpVars, Steady
      <3>9. QED
        BY <3>1, <3>2, <3>3, <3>4, <3>5, <3>6, <3>7, <3>8 DEF McpNext, Interrupt
    <2>4. QED
      BY <2>3, ShapesKeep DEF McpInv
  <1>4. QED
    BY <1>1, <1>2, <1>3

\* One transmission at a time, no frame twice, and what is reported is what went, in
\* order, whatever is queued, staged or disabled meanwhile (esp_twai_mcp2515.c:56-63, 306).
THEOREM TxPipelineCorrect == McpSpec => []TxPipeline
  <1>1. McpInit => McpInv
    <2> SUFFICES ASSUME McpInit PROVE McpInv
      OBVIOUS
    <2>1. /\ chip = FreshChip /\ drv = FreshDrv /\ work = [FreshWork EXCEPT !.at = "dead"]
          /\ queueMcp = <<>> /\ went = <<>> /\ done = <<>> /\ api = [at |-> "gone", frame |-> 0]
      BY DEF McpInit
    <2>2. /\ chip.mode = "config" /\ chip.txreq = {} /\ chip.txb = [b \in {0, 1} |-> 0]
          /\ work.at = "dead" /\ work.txb = 0 /\ work.next = 0
          /\ api.at = "gone" /\ api.frame = 0
      BY <2>1 DEF FreshChip, FreshDrv, FreshWork
    <2>3. Len(went) = 0 /\ Len(done) = 0 /\ DOMAIN went = {} /\ Due = 0 /\ ~Live
      BY <2>1, <2>2 DEF Due, InHand, Live
    <2>4. McpTypes
      BY <2>1, <2>2 DEF McpTypes, FreshChip, FreshDrv
    <2>5. ModeInv /\ ReportInv /\ RequestInv
      BY <2>2, <2>3 DEF ModeInv, ReportInv, RequestInv, InHand
    <2>6. CurrInv /\ NextInv /\ StagedInv
      BY <2>1, <2>2, <2>3 DEF CurrInv, NextInv, StagedInv, FreshDrv
    <2>7. QueueInv /\ OwnerInv /\ SnapshotInv
      BY <2>1, <2>2, <2>3 DEF QueueInv, OwnerInv, SnapshotInv
    <2>8. QED
      BY <2>1, <2>2, <2>4, <2>5, <2>6, <2>7 DEF McpInv, PipelineInv, FreshWork
  <1>2. McpInv /\ [McpNext]_mcpVars => McpInv'
    BY McpStep
  <1>3. McpInv => TxPipeline
    <2> SUFFICES ASSUME McpInv, ~failed PROVE TxPipeline
      BY DEF TxPipeline
    <2>1. PipelineInv
      BY DEF McpInv
    <2>2. Cardinality(chip.txreq) <= 1
      <3>1. CASE chip.txreq = {}
        BY <3>1, FS_EmptySet
      <3>2. CASE chip.txreq # {}
        <4>1. PICK b \in chip.txreq : chip.txreq = {b}
          BY <2>1, <3>2 DEF PipelineInv, RequestInv
        <4>2. QED
          BY <4>1, FS_Singleton
      <3>3. QED
        BY <3>1, <3>2
    <2>3. \A i, j \in DOMAIN went : went[i] = went[j] => i = j
      BY <2>1 DEF PipelineInv, RequestInv
    <2>4. Len(done) \in Nat /\ Len(went) \in Nat /\ DOMAIN done = 1 .. Len(done)
      BY <2>1 DEF PipelineInv, McpTypes
    <2>5. Len(done) <= Len(went)
      BY <2>1, <2>4 DEF PipelineInv, ReportInv, Due
    <2>6. \A i \in DOMAIN done : done[i] = went[i]
      BY <2>1, <2>4 DEF PipelineInv, ReportInv
    <2>7. QED
      BY <2>2, <2>3, <2>5, <2>6 DEF TxPipeline
  <1>4. QED
    BY <1>1, <1>2, <1>3, PTL DEF McpSpec
================================================================================
