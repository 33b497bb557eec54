--------------------------------- MODULE CanBus ---------------------------------
(***************************************************************************)
(* One bus of the CAN driver wrapper of main/can.c: senders that claim a   *)
(* transmit slot, the interrupt that gives it back, tasks that reconfigure *)
(* the bus (disable, set, enable), and the recovery task that recreates a  *)
(* node that went bus-off.                                                 *)
(*                                                                         *)
(* The semaphore, the slot mask and the node are updated one after the     *)
(* other, by tasks on two cores: each update is a step.  node_lock is held *)
(* from the step that takes it to the one that gives it.  The node driver  *)
(* is external: it may refuse to create, to start or to queue; once        *)
(* disabled it calls nothing back.  A bus goes off only while it           *)
(* transmits.  Buses share the receive queue and the recovery task, not    *)
(* what is modelled here.                                                  *)
(***************************************************************************)
EXTENDS Naturals, FiniteSets

CONSTANTS
  Senders,      (* tasks inside can_send                                   *)
  Controllers,  (* protocol handlers that reconfigure the bus              *)
  Recovery,     (* can_recovery_task                                       *)
  Slots,        (* CAN_TX_SLOT_COUNT of them, numbered                     *)
  Configs,      (* values of a setting latched when the node is created    *)
  None

ASSUME TaskAssumption ==
  /\ Recovery \notin Controllers \cup Senders /\ Controllers \cap Senders = {}
  /\ None \notin Slots \cup Senders \cup Controllers \cup {Recovery}
ASSUME SlotAssumption ==
  Slots \subseteq Nat /\ Slots # {} /\ IsFiniteSet(Slots)

Tasks  == Controllers \cup {Recovery}
Permits == Cardinality(Slots)

VARIABLES
  bus,        (* bus_state: "on" or "off"                                  *)
  bit,        (* the enable bit                                            *)
  node,       (* "none", "stopped", "running" or "bus-off"                 *)
  applied,    (* the setting the node was created with                     *)
  lock,       (* holder of node_lock, or None                              *)
  permits,    (* count of tx_slot_sem                                      *)
  used,       (* tx_slot_used                                              *)
  inflight,   (* slots whose frame the driver holds                        *)
  isr,        (* "give" between the two updates of can_on_tx_done          *)
  cfg,        (* the stored setting                                        *)
  pending,    (* can_busoff_pending                                        *)
  notified,   (* the recovery task's notification                          *)
  at,         (* where each task and sender is                             *)
  slot,       (* the slot a sender has claimed                             *)
  wanted,     (* the setting a controller brings                           *)
  crossed,    (* history: senders with a failed frame whose slot was reset *)
  spoiled     (* history: one of them has cleared a slot since that reset  *)

poolVars == <<permits, used, inflight, isr>>
nodeVars == <<bus, bit, node, applied>>
requestVars == <<cfg, pending, notified, wanted>>
historyVars == <<crossed, spoiled>>
vars == <<nodeVars, lock, poolVars, requestVars, at, slot, historyVars>>

Go(task, to) == at' = [at EXCEPT ![task] = to]

\* A give on a counting semaphore that is full changes nothing.
Given == IF permits < Permits THEN permits + 1 ELSE permits

---------------------------------------------------------------------------
(* can_send.                                                               *)

\* The enable bit lets a sender in; a closed bus fails it at once.
SendGate(s) ==
  /\ at[s] = "out" /\ bit
  /\ Go(s, "permit")
  /\ UNCHANGED <<nodeVars, lock, poolVars, requestVars, slot, historyVars>>

\* A permit, within the caller's time-out.
SendTake(s) ==
  /\ at[s] = "permit" /\ permits > 0
  /\ permits' = permits - 1
  /\ Go(s, "lock")
  /\ UNCHANGED <<nodeVars, lock, used, inflight, isr, requestVars, slot, historyVars>>

SendTimeout(s) ==
  /\ at[s] = "permit"
  /\ Go(s, "out")
  /\ UNCHANGED <<nodeVars, lock, poolVars, requestVars, slot, historyVars>>

\* Mutant: the enable bit was enough.
SendLock_Trusting(s) ==
  /\ at[s] = "lock" /\ lock = None
  /\ lock' = s /\ Go(s, "claim")
  /\ UNCHANGED <<nodeVars, poolVars, requestVars, slot, historyVars>>

\* The bus may have been closed since the gate.
SendLock(s) ==
  /\ at[s] = "lock" /\ lock = None
  /\ IF bus = "on" /\ node # "none" THEN lock' = s /\ Go(s, "claim")
     ELSE Go(s, "return") /\ UNCHANGED lock
  /\ UNCHANGED <<nodeVars, poolVars, requestVars, slot, historyVars>>

Lowest(free) == CHOOSE i \in free : \A j \in free : i <= j

\* A permit that a reset has overtaken may find the pool empty.
SendClaim(s) ==
  /\ at[s] = "claim"
  /\ IF used # Slots
     THEN /\ slot' = [slot EXCEPT ![s] = Lowest(Slots \ used)]
          /\ used' = used \cup {slot'[s]}
          /\ Go(s, "transmit") /\ UNCHANGED lock
     ELSE Go(s, "return") /\ lock' = None /\ UNCHANGED <<used, slot>>
  /\ UNCHANGED <<nodeVars, permits, inflight, isr, requestVars, historyVars>>

\* Mutant: the slot is free again as soon as the driver has the frame.
SendTransmit_FreesSlot(s) ==
  /\ at[s] = "transmit"
  /\ lock' = None /\ used' = used \ {slot[s]}
  /\ \/ /\ node = "running"
        /\ inflight' = inflight \cup {slot[s]}
        /\ slot' = [slot EXCEPT ![s] = None]
        /\ Go(s, "out")
     \/ Go(s, "undo") /\ UNCHANGED <<inflight, slot>>
  /\ UNCHANGED <<nodeVars, permits, isr, requestVars, historyVars>>

\* twai_node_transmit takes the frame or refuses it; the lock is given back.
SendTransmit(s) ==
  /\ at[s] = "transmit"
  /\ lock' = None
  /\ \/ /\ node = "running"
        /\ inflight' = inflight \cup {slot[s]}
        /\ slot' = [slot EXCEPT ![s] = None]
        /\ Go(s, "out")
     \/ Go(s, "undo") /\ UNCHANGED <<inflight, slot>>
  /\ UNCHANGED <<nodeVars, permits, used, isr, requestVars, historyVars>>

\* Mutant: the slot of a refused frame is put back, its permit is not.
SendUndo_KeepsPermit(s) ==
  /\ at[s] = "undo"
  /\ used' = used \ {slot[s]}
  /\ slot' = [slot EXCEPT ![s] = None]
  /\ spoiled' = (spoiled \/ s \in crossed) /\ crossed' = crossed \ {s}
  /\ Go(s, "out")
  /\ UNCHANGED <<nodeVars, lock, permits, inflight, isr, requestVars>>

\* The slot of a refused frame is put back, after the lock was.
SendUndo(s) ==
  /\ at[s] = "undo"
  /\ used' = used \ {slot[s]}
  /\ slot' = [slot EXCEPT ![s] = None]
  /\ spoiled' = (spoiled \/ s \in crossed) /\ crossed' = crossed \ {s}
  /\ Go(s, "return")
  /\ UNCHANGED <<nodeVars, lock, permits, inflight, isr, requestVars>>

SendReturn(s) ==
  /\ at[s] = "return"
  /\ permits' = Given
  /\ Go(s, "out")
  /\ UNCHANGED <<nodeVars, lock, used, inflight, isr, requestVars, slot, historyVars>>

---------------------------------------------------------------------------
(* Interrupts.                                                             *)

\* can_on_tx_done: the slot, then the permit.
TxDone(i) ==
  /\ node = "running" /\ i \in inflight /\ isr = "none"
  /\ inflight' = inflight \ {i}
  /\ used' = used \ {i}
  /\ isr' = "give"
  /\ UNCHANGED <<nodeVars, lock, permits, requestVars, at, slot, historyVars>>

TxGive ==
  /\ isr = "give"
  /\ permits' = Given
  /\ isr' = "none"
  /\ UNCHANGED <<nodeVars, lock, used, inflight, requestVars, at, slot, historyVars>>

\* can_on_state_change: frames in flight at bus-off are never done.
BusOff ==
  /\ node = "running" /\ inflight # {} /\ isr = "none"
  /\ node' = "bus-off"
  /\ pending' = TRUE /\ notified' = TRUE
  /\ UNCHANGED <<bus, bit, applied, lock, poolVars, cfg, wanted, at, slot, historyVars>>

---------------------------------------------------------------------------
(* can_disable and can_enable, by a controller or the recovery task.       *)

AfterDisable(t) == IF t = Recovery THEN "delay" ELSE "configure"
AfterEnable(t)  == IF t = Recovery THEN "sleep" ELSE "out"

DisableLock(t) ==
  /\ at[t] = "disable" /\ lock = None
  /\ IF bus = "on"
     THEN lock' = t /\ bit' = FALSE /\ Go(t, "teardown")
     ELSE Go(t, AfterDisable(t)) /\ UNCHANGED <<lock, bit>>
  /\ UNCHANGED <<bus, node, applied, poolVars, requestVars, slot, historyVars>>

\* twai_node_disable waits for a callback under way; the delete drops the frames.
DisableNode(t) ==
  /\ at[t] = "teardown" /\ isr = "none"
  /\ node' = "none" /\ applied' = None /\ inflight' = {}
  /\ Go(t, "mask")
  /\ UNCHANGED <<bus, bit, lock, permits, used, isr, requestVars, slot, historyVars>>

\* can_tx_slots_reset: the mask, then the semaphore until a give fails.
ResetMask(t) ==
  /\ at[t] = "mask"
  /\ used' = {}
  /\ crossed' = {s \in Senders : at[s] = "undo"} /\ spoiled' = FALSE
  /\ Go(t, "fill")
  /\ UNCHANGED <<nodeVars, lock, permits, inflight, isr, requestVars, slot>>

ResetFill(t) ==
  /\ at[t] = "fill"
  /\ permits' = Given
  /\ IF permits < Permits THEN UNCHANGED at ELSE Go(t, IF node = "none" THEN "close" ELSE "start")
  /\ UNCHANGED <<nodeVars, lock, used, inflight, isr, requestVars, slot, historyVars>>

DisableClose(t) ==
  /\ at[t] = "close"
  /\ bus' = "off" /\ lock' = None
  /\ Go(t, AfterDisable(t))
  /\ UNCHANGED <<bit, node, applied, poolVars, requestVars, slot, historyVars>>

EnableLock(t) ==
  /\ at[t] = "enable" /\ lock = None
  /\ IF bus = "on" THEN Go(t, AfterEnable(t)) /\ UNCHANGED lock
     ELSE lock' = t /\ Go(t, "create")
  /\ UNCHANGED <<nodeVars, poolVars, requestVars, slot, historyVars>>

\* The stored setting is latched into the node here, or the bus stays dead.
EnableCreate(t) ==
  /\ at[t] = "create"
  /\ \/ node' = "stopped" /\ applied' = cfg /\ Go(t, "mask") /\ UNCHANGED lock
     \/ Go(t, AfterEnable(t)) /\ lock' = None /\ UNCHANGED <<node, applied>>
  /\ UNCHANGED <<bus, bit, poolVars, requestVars, slot, historyVars>>

\* twai_node_enable; a node that refuses is deleted.
EnableStart(t) ==
  /\ at[t] = "start"
  /\ \/ node' = "running" /\ bus' = "on" /\ bit' = TRUE /\ UNCHANGED applied
     \/ node' = "none" /\ applied' = None /\ UNCHANGED <<bus, bit>>
  /\ lock' = None
  /\ Go(t, AfterEnable(t))
  /\ UNCHANGED <<poolVars, requestVars, slot, historyVars>>

---------------------------------------------------------------------------
(* Who calls them.                                                         *)

\* A protocol handler disables the bus, sets, and enables it again.
Reconfigure(c) ==
  /\ at[c] = "out"
  /\ wanted' \in Configs
  /\ Go(c, "disable")
  /\ UNCHANGED <<nodeVars, lock, poolVars, cfg, pending, notified, slot, historyVars>>

\* A setter looks at bus_state, without the lock: while ON it does nothing.
SetConfig(c) ==
  /\ at[c] = "configure"
  /\ cfg' = IF bus = "on" THEN cfg ELSE wanted
  /\ Go(c, "enable")
  /\ UNCHANGED <<nodeVars, lock, poolVars, pending, notified, wanted, slot, historyVars>>

RecoveryWake ==
  /\ at[Recovery] = "sleep" /\ notified
  /\ notified' = FALSE
  /\ Go(Recovery, "take")
  /\ UNCHANGED <<nodeVars, lock, poolVars, cfg, pending, wanted, slot, historyVars>>

RecoveryTake ==
  /\ at[Recovery] = "take"
  /\ pending' = FALSE
  /\ Go(Recovery, IF pending /\ bus = "on" THEN "disable" ELSE "sleep")
  /\ UNCHANGED <<nodeVars, lock, poolVars, cfg, notified, wanted, slot, historyVars>>

\* Mutant: what was reported during the recovery is taken for part of it.
RecoveryDelay_Forgets ==
  /\ at[Recovery] = "delay"
  /\ pending' = FALSE /\ notified' = FALSE
  /\ Go(Recovery, "enable")
  /\ UNCHANGED <<nodeVars, lock, poolVars, cfg, wanted, slot, historyVars>>

\* The bus is let settle for 250 ms.
RecoveryDelay ==
  /\ at[Recovery] = "delay"
  /\ Go(Recovery, "enable")
  /\ UNCHANGED <<nodeVars, lock, poolVars, requestVars, slot, historyVars>>

---------------------------------------------------------------------------
Init ==
  /\ bus = "off" /\ bit = FALSE /\ node = "none" /\ applied = None
  /\ lock = None
  /\ permits = Permits /\ used = {} /\ inflight = {} /\ isr = "none"
  /\ cfg \in Configs /\ wanted = cfg
  /\ pending = FALSE /\ notified = FALSE
  /\ at = [t \in Senders \cup Tasks |-> IF t = Recovery THEN "sleep" ELSE "out"]
  /\ slot = [s \in Senders |-> None]
  /\ crossed = {} /\ spoiled = FALSE

\* Steps that wait for the lock, steps of whoever holds it, and the other steps.
Locks(t) == DisableLock(t) \/ EnableLock(t)
Runs(t) == \/ DisableNode(t) \/ ResetMask(t) \/ ResetFill(t) \/ DisableClose(t)
           \/ EnableCreate(t) \/ EnableStart(t)
SendsLocked(s) == SendClaim(s) \/ SendTransmit(s)
Sends(s) == \/ SendGate(s) \/ SendTake(s) \/ SendTimeout(s) \/ SendLock(s)
            \/ SendUndo(s) \/ SendReturn(s)
Holds == \/ \E t \in Tasks : Runs(t)
         \/ \E s \in Senders : SendsLocked(s)
Recovers == RecoveryWake \/ RecoveryTake \/ RecoveryDelay

Next == \/ Holds
        \/ \E s \in Senders : Sends(s)
        \/ \E i \in Slots : TxDone(i)
        \/ TxGive \/ BusOff
        \/ \E t \in Tasks : Locks(t)
        \/ \E c \in Controllers : Reconfigure(c) \/ SetConfig(c)
        \/ Recovers

Spec == Init /\ [][Next]_vars

\* Whoever holds the lock goes on, and a mutex goes to a task that waits for it, in
\* the end.  Nothing is assumed of the bus, the senders or who reconfigures it.
Fairness == WF_vars(Holds) /\ WF_vars(Recovers) /\ WF_vars(TxGive) /\ SF_vars(Locks(Recovery))
FairSpec == Spec /\ Fairness
=================================================================================
