------------------------------- MODULE CanBusProps -------------------------------
(***************************************************************************)
(* Correctness properties of the CAN driver wrapper.                       *)
(***************************************************************************)
EXTENDS CanBus

Places == {"out", "permit", "lock", "claim", "transmit", "undo", "return", "disable", "teardown",
           "mask", "fill", "close", "configure", "enable", "create", "start", "sleep", "take", "delay"}

\* Every variable stays in its type: the semaphore never passes the number of slots.
TypeOK ==
  /\ bus \in {"on", "off"} /\ bit \in BOOLEAN
  /\ node \in {"none", "stopped", "running", "bus-off"} /\ applied \in Configs \cup {None}
  /\ lock \in Senders \cup Tasks \cup {None}
  /\ permits \in 0 .. Permits /\ used \subseteq Slots /\ inflight \subseteq Slots
  /\ isr \in {"none", "give"}
  /\ cfg \in Configs /\ wanted \in Configs /\ pending \in BOOLEAN /\ notified \in BOOLEAN
  /\ at \in [Senders \cup Tasks -> Places]
  /\ slot \in [Senders -> Slots \cup {None}]
  /\ crossed \subseteq Senders /\ spoiled \in BOOLEAN

\* The driver transmits from the slot itself, so a slot whose frame is in flight is
\* never free, whatever was reset or refused meanwhile.  The one exception is a send
\* that fails, loses the processor, and clears its slot after a recreate.
SlotsHeld == spoiled \/ inflight \subseteq used

\* A node is used only while it exists: nobody transmits on a deleted handle.
NodeLives == [][\A s \in Senders : at[s] = "transmit" /\ at'[s] # "transmit" => node # "none"]_vars

\* No permit is ever lost: each is in the semaphore, with a sender, with a frame in
\* flight, or on its way back.  A bus that lost one would send less and less.
Holders == {s \in Senders : at[s] \in {"lock", "claim", "transmit", "undo", "return"}}
PermitsKept ==
  bus = "on" /\ lock \notin Tasks /\ ~spoiled =>
    permits + Cardinality(Holders) + Cardinality(inflight) + (IF isr = "give" THEN 1 ELSE 0) >= Permits

\* A dead node does not stay: bus-off is always followed by a recreation, even if it
\* comes during the recovery before it.  Nothing stands in its way: whoever takes
\* node_lock gives it back, nobody blocks on a semaphore, or leaves early, with it.
BusOffEnds ==
  /\ node = "bus-off" ~> node # "bus-off"
  /\ lock # None ~> lock = None
==================================================================================
