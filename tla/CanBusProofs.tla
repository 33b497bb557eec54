------------------------------ MODULE CanBusProofs ------------------------------
(***************************************************************************)
(* The CAN driver wrapper, for any number of senders, controllers and      *)
(* slots: its types hold, nobody transmits on a node that does not exist,  *)
(* the slot of a frame in flight is never free, and no permit is lost.     *)
(* The pop-up, which filters what the buses exchange, for any texts,       *)
(* pairs, queue depth and number of trigger frames: its types hold, a      *)
(* displayed text is the one asked for, an attempt that is over leaves     *)
(* nothing behind, and a transfer starts only after its trigger frames,    *)
(* never loses its pair and gives nothing away on the other bus.           *)
(***************************************************************************)
EXTENDS CanBusProps, TrackPopupProps, FiniteSetTheorems, TLAPS

SendingPlaces == {"claim", "transmit"}
RunningPlaces == {"teardown", "mask", "fill", "close", "create", "start"}
StillPlaces   == {"mask", "fill", "close", "create", "start"}
Still         == node \in {"none", "stopped"}

\* A sender that must transmit, or undo, has a slot.
TypeInv == TypeOK /\ \A s \in Senders : at[s] \in {"transmit", "undo"} => slot[s] \in Slots

\* Whoever is between taking and giving back the lock holds it; a sender there has a
\* node.
LockInv ==
  /\ \A s \in Senders : at[s] \in SendingPlaces => lock = s /\ node # "none"
  /\ \A t \in Tasks : at[t] \in RunningPlaces => lock = t

\* A node that has not started carries no frame, and a closed bus, or a task that has
\* torn the node down, has none that runs.
StillInv ==
  /\ Still => inflight = {}
  /\ bus = "off" => Still
  /\ \A t \in Tasks : at[t] \in StillPlaces => Still

\* A sender owns the slot it claimed until the driver has the frame or, if it was
\* refused, until the slot is put back or reset.
Owns(s) == at[s] = "transmit" \/ (at[s] = "undo" /\ s \notin crossed)

\* Owned slots and slots in flight are used, and no two of them are the same.
SlotInv ==
  ~spoiled =>
    /\ inflight \subseteq used
    /\ \A s \in Senders : Owns(s) => slot[s] \in used \ inflight
    /\ \A s, u \in Senders : Owns(s) /\ Owns(u) /\ s # u => slot[s] # slot[u]

BusInv == TypeInv /\ LockInv /\ StillInv /\ SlotInv

---------------------------------------------------------------------------
(* Types.                                                                  *)

\* There is a permit: a controller has a slot.
LEMMA PermitsType == Permits \in Nat \ {0}
  BY SlotAssumption, FS_CardinalityType, FS_EmptySet DEF Permits

\* A permit given back stays within the number of permits.
LEMMA GivenType == ASSUME permits \in 0 .. Permits PROVE Given \in 0 .. Permits
  BY PermitsType DEF Given

\* Going to a place changes where one task is, and nobody else.
LEMMA GoType ==
  ASSUME at \in [Senders \cup Tasks -> Places],
         NEW t \in Senders \cup Tasks, NEW to \in Places, Go(t, to)
  PROVE  /\ at' \in [Senders \cup Tasks -> Places]
         /\ at'[t] = to
         /\ \A u \in Senders \cup Tasks : u # t => at'[u] = at[u]
  BY DEF Go

\* Where the driver's tasks go on after a disable and an enable.
LEMMA AfterType ==
  ASSUME NEW t \in Tasks
  PROVE  /\ AfterDisable(t) \in {"delay", "configure"}
         /\ AfterEnable(t) \in {"sleep", "out"}
  BY DEF AfterDisable, AfterEnable

\* A set of numbers has a least one: < is well-founded on them.
LEMMA LeastNumber ==
  ASSUME NEW T \in SUBSET Nat, T # {}
  PROVE  \E i \in T : \A j \in T : i <= j
  <1> DEFINE Before == OpToRel(<, Nat)
  <1>1. IsWellFoundedOn(Before, Nat)
    BY NatLessThanWellFounded
  <1>2. \E i \in T : \A j \in T : <<j, i>> \notin Before
    <2> HIDE DEF Before
    <2> QED
      BY <1>1, WFMin
  <1>3. \A i, j \in Nat : <<j, i>> \in Before <=> j < i
    BY DEF OpToRel
  <1> HIDE DEF Before
  <1>4. \A i, j \in Nat : <<j, i>> \notin Before => i <= j
    BY <1>3
  <1>5. QED
    BY <1>2, <1>4

\* A free slot with the lowest number exists while any is free.
LEMMA LowestType ==
  ASSUME used \subseteq Slots, used # Slots
  PROVE  Lowest(Slots \ used) \in Slots \ used
  <1>1. Slots \ used \in SUBSET Nat /\ Slots \ used # {}
    BY SlotAssumption
  <1>2. PICK i \in Slots \ used : \A j \in Slots \ used : i <= j
    BY <1>1, LeastNumber
  <1>3. QED
    BY <1>2 DEF Lowest

---------------------------------------------------------------------------
(* The types, action by action.                                            *)

\* A step that moves one task moves nobody else into sending.
LEMMA SlotsStay ==
  ASSUME TypeInv, NEW t \in Senders \cup Tasks, NEW to \in Places, Go(t, to),
         slot' = slot, to \in {"transmit", "undo"} => at[t] \in {"transmit", "undo"}
  PROVE  /\ at' \in [Senders \cup Tasks -> Places]
         /\ \A s \in Senders : at'[s] \in {"transmit", "undo"} => slot'[s] \in Slots
  BY GoType DEF TypeInv, TypeOK

\* The steps of a sender keep the types.
LEMMA SendType ==
  ASSUME TypeInv, NEW s \in Senders, Sends(s) \/ SendsLocked(s)
  PROVE  TypeInv'
  <1> s \in Senders \cup Tasks
    OBVIOUS
  <1> USE DEF TypeOK, nodeVars, poolVars, requestVars, historyVars
  <1>1. TypeOK
    BY DEF TypeInv
  <1>2. CASE SendGate(s) \/ SendTimeout(s)
    BY <1>1, <1>2, SlotsStay DEF SendGate, SendTimeout, Places, TypeInv
  <1>3. CASE SendTake(s)
    <2>1. permits - 1 \in 0 .. Permits
      BY <1>1, <1>3, PermitsType DEF SendTake
    <2>2. QED
      BY <1>1, <1>3, <2>1, SlotsStay DEF SendTake, Places, TypeInv
  <1>4. CASE SendLock(s)
    BY <1>1, <1>4, SlotsStay DEF SendLock, Places, TypeInv
  <1>5. CASE SendClaim(s)
    <2>1. CASE used # Slots
      <3>1. Lowest(Slots \ used) \in Slots
        BY <1>1, <2>1, LowestType
      <3>2. \A u \in Senders : at'[u] \in {"transmit", "undo"} => slot'[u] \in Slots
        BY <1>1, <1>5, <2>1, <3>1, GoType DEF SendClaim, TypeInv, Places
      <3>3. QED
        BY <1>1, <1>5, <2>1, <3>1, <3>2, GoType DEF SendClaim, Places, TypeInv
    <2>2. CASE used = Slots
      BY <1>1, <1>5, <2>2, SlotsStay DEF SendClaim, Places, TypeInv
    <2>3. QED
      BY <2>1, <2>2
  <1>6. CASE SendTransmit(s)
    <2>1. slot[s] \in Slots
      BY <1>6 DEF SendTransmit, TypeInv
    <2>2. CASE Go(s, "out")
      <3>1. \A u \in Senders : at'[u] \in {"transmit", "undo"} => slot'[u] \in Slots
        BY <1>1, <1>6, <2>2, GoType DEF SendTransmit, TypeInv, Places
      <3>2. QED
        BY <1>1, <1>6, <2>1, <2>2, <3>1, GoType DEF SendTransmit, Places, TypeInv
    <2>3. CASE Go(s, "undo") /\ UNCHANGED <<inflight, slot>>
      BY <1>1, <1>6, <2>3, SlotsStay DEF SendTransmit, Places, TypeInv
    <2>4. QED
      BY <1>6, <2>2, <2>3 DEF SendTransmit
  <1>7. CASE SendUndo(s)
    <2>1. \A u \in Senders : at'[u] \in {"transmit", "undo"} => slot'[u] \in Slots
      BY <1>1, <1>7, GoType DEF SendUndo, TypeInv, Places
    <2>2. QED
      BY <1>1, <1>7, <2>1, GoType DEF SendUndo, Places, TypeInv
  <1>8. CASE SendReturn(s)
    BY <1>1, <1>8, GivenType, SlotsStay DEF SendReturn, Places, TypeInv
  <1>9. QED
    BY <1>2, <1>3, <1>4, <1>5, <1>6, <1>7, <1>8 DEF Sends, SendsLocked

\* The steps of a driver task keep the types.
LEMMA TaskType ==
  ASSUME TypeInv, NEW t \in Tasks, Runs(t) \/ Locks(t)
  PROVE  TypeInv'
  <1> t \in Senders \cup Tasks /\ t \notin Senders
    BY TaskAssumption DEF Tasks
  <1> USE DEF TypeOK, nodeVars, poolVars, requestVars, historyVars
  <1>1. TypeOK /\ AfterDisable(t) \in Places /\ AfterEnable(t) \in Places
    BY AfterType DEF TypeInv, Places
  <1>2. AfterDisable(t) \notin {"transmit", "undo"} /\ AfterEnable(t) \notin {"transmit", "undo"}
    BY AfterType
  <1>3. CASE DisableLock(t) \/ EnableLock(t)
    <2>1. t \in Senders \cup Tasks \cup {None}
      OBVIOUS
    <2>2. CASE DisableLock(t) /\ bus = "on"
      BY <1>1, <2>1, <2>2, SlotsStay DEF DisableLock, Places, TypeInv
    <2>3. CASE DisableLock(t) /\ bus # "on"
      BY <1>1, <1>2, <2>3, SlotsStay DEF DisableLock, TypeInv
    <2>4. CASE EnableLock(t) /\ bus # "on"
      BY <1>1, <2>1, <2>4, SlotsStay DEF EnableLock, Places, TypeInv
    <2>5. CASE EnableLock(t) /\ bus = "on"
      BY <1>1, <1>2, <2>5, SlotsStay DEF EnableLock, TypeInv
    <2>6. QED
      BY <1>3, <2>2, <2>3, <2>4, <2>5
  <1>4. CASE DisableNode(t) \/ ResetMask(t)
    BY <1>1, <1>4, SlotsStay DEF DisableNode, ResetMask, Places, TypeInv
  <1>5. CASE ResetFill(t)
    BY <1>1, <1>5, GivenType, SlotsStay DEF ResetFill, Places, TypeInv
  <1>6. CASE DisableClose(t)
    BY <1>1, <1>2, <1>6, SlotsStay DEF DisableClose, TypeInv
  <1>7. CASE EnableCreate(t)
    BY <1>1, <1>2, <1>7, SlotsStay DEF EnableCreate, Places, TypeInv
  <1>8. CASE EnableStart(t)
    BY <1>1, <1>2, <1>8, SlotsStay DEF EnableStart, TypeInv
  <1>9. QED
    BY <1>3, <1>4, <1>5, <1>6, <1>7, <1>8 DEF Runs, Locks

\* The controller, the bus and the configuration keep the types.
LEMMA OtherType ==
  ASSUME TypeInv,
         \/ \E i \in Slots : TxDone(i)
         \/ TxGive \/ BusOff \/ Recovers
         \/ \E c \in Controllers : Reconfigure(c) \/ SetConfig(c)
  PROVE  TypeInv'
  <1> USE DEF TypeOK, nodeVars, poolVars, requestVars, historyVars
  <1>1. TypeOK /\ Recovery \in Senders \cup Tasks /\ Controllers \subseteq Senders \cup Tasks
    BY DEF TypeInv, Tasks
  <1>2. CASE (\E i \in Slots : TxDone(i)) \/ BusOff
    BY <1>1, <1>2 DEF TxDone, BusOff, TypeInv
  <1>3. CASE TxGive
    BY <1>1, <1>3, GivenType DEF TxGive, TypeInv
  <1>4. CASE Recovers
    <2>1. CASE RecoveryWake
      <3>1. Go(Recovery, "take") /\ "take" \in Places /\ slot' = slot
        BY <2>1 DEF RecoveryWake, Places
      <3>2. /\ at' \in [Senders \cup Tasks -> Places]
            /\ \A s \in Senders : at'[s] \in {"transmit", "undo"} => slot'[s] \in Slots
        BY <1>1, <3>1, SlotsStay
      <3>3. QED
        BY <1>1, <2>1, <3>2 DEF RecoveryWake, TypeInv
    <2>2. CASE RecoveryTake
      <3>1. CASE pending /\ bus = "on"
        BY <1>1, <2>2, <3>1, SlotsStay DEF RecoveryTake, Places, TypeInv
      <3>2. CASE ~(pending /\ bus = "on")
        <4>1. Recovery \in Senders \cup Tasks /\ Go(Recovery, "sleep")
          BY <2>2, <3>2 DEF RecoveryTake, Tasks
        <4>2. /\ at' \in [Senders \cup Tasks -> Places]
              /\ \A s \in Senders : at'[s] \in {"transmit", "undo"} => slot'[s] \in Slots
          BY <1>1, <2>2, <4>1, SlotsStay DEF RecoveryTake, Places
        <4>3. QED
          BY <1>1, <2>2, <3>2, <4>2 DEF RecoveryTake, TypeInv
      <3>3. QED
        BY <3>1, <3>2
    <2>3. CASE RecoveryDelay
      BY <1>1, <2>3, SlotsStay DEF RecoveryDelay, Places, TypeInv
    <2>4. QED
      BY <1>4, <2>1, <2>2, <2>3 DEF Recovers
  <1>5. CASE \E c \in Controllers : Reconfigure(c) \/ SetConfig(c)
    BY <1>1, <1>5, SlotsStay DEF Reconfigure, SetConfig, Places, TypeInv
  <1>6. QED
    BY <1>2, <1>3, <1>4, <1>5

\* Every step keeps the types.
LEMMA StepType ==
  ASSUME TypeInv, [Next]_vars
  PROVE  TypeInv'
  <1>1. CASE UNCHANGED vars
    BY <1>1 DEF TypeInv, TypeOK, vars, nodeVars, poolVars, requestVars, historyVars
  <1>2. CASE Next
    BY <1>2, SendType, TaskType, OtherType DEF Next, Holds
  <1>3. QED
    BY <1>1, <1>2

\* The types hold when the driver starts.
LEMMA StartType ==
  ASSUME Init
  PROVE  TypeInv
  <1>1. permits \in 0 .. Permits
    BY PermitsType DEF Init
  <1>2. QED
    BY <1>1, TaskAssumption DEF Init, TypeInv, TypeOK, Places, Tasks

\* The driver's variables stay in their types: the semaphore never counts more permits
\* than there are slots (can.c:94), whoever resets or gives it.
THEOREM CanTypeCorrect == Spec => []TypeOK
  <1>1. Spec => []TypeInv
    BY StartType, StepType, PTL DEF Spec
  <1>2. TypeInv => TypeOK
    BY DEF TypeInv
  <1>3. QED
    BY <1>1, <1>2, PTL

---------------------------------------------------------------------------
(* The lock.                                                               *)

\* A step of one task that neither enters the lock nor changes it, or leaves with it.
LEMMA LockKept ==
  ASSUME TypeInv, LockInv, NEW t \in Senders \cup Tasks, NEW to \in Places, Go(t, to),
         to \in SendingPlaces => t \in Senders /\ lock' = t /\ node' # "none",
         to \in RunningPlaces => lock' = t,
         lock' # lock => lock \in {t, None},
         node' # node => lock = t \/ node' # "none"
  PROVE  LockInv'
  <1>1. /\ at'[t] = to
        /\ \A u \in Senders \cup Tasks : u # t => at'[u] = at[u]
    BY GoType DEF TypeInv, TypeOK
  <1>2. ASSUME NEW s \in Senders, at'[s] \in SendingPlaces
        PROVE  lock' = s /\ node' # "none"
    BY <1>1, <1>2, TaskAssumption DEF LockInv
  <1>3. ASSUME NEW u \in Tasks, at'[u] \in RunningPlaces PROVE lock' = u
    BY <1>1, <1>3, TaskAssumption DEF LockInv, SendingPlaces, RunningPlaces, Tasks
  <1>4. QED
    BY <1>2, <1>3 DEF LockInv

\* A sender takes and gives back the locks of its own places only.
LEMMA SendLocks ==
  ASSUME TypeInv, LockInv, NEW s \in Senders, Sends(s) \/ SendsLocked(s)
  PROVE  LockInv'
  <1> s \in Senders \cup Tasks
    OBVIOUS
  <1> USE DEF nodeVars, Places, SendingPlaces, RunningPlaces
  <1>1. CASE SendGate(s) \/ SendTake(s) \/ SendTimeout(s)
    BY <1>1, LockKept DEF SendGate, SendTake, SendTimeout
  <1>2. CASE SendLock(s)
    BY <1>2, LockKept DEF SendLock
  <1>3. CASE SendClaim(s)
    BY <1>3, LockKept DEF SendClaim, LockInv
  <1>4. CASE SendTransmit(s)
    BY <1>4, LockKept DEF SendTransmit, LockInv
  <1>5. CASE SendUndo(s) \/ SendReturn(s)
    BY <1>5, LockKept DEF SendUndo, SendReturn
  <1>6. QED
    BY <1>1, <1>2, <1>3, <1>4, <1>5 DEF Sends, SendsLocked

\* A driver task takes and gives back the locks of its own places only.
LEMMA TaskLocks ==
  ASSUME TypeInv, LockInv, NEW t \in Tasks, Runs(t) \/ Locks(t)
  PROVE  LockInv'
  <1> t \in Senders \cup Tasks
    OBVIOUS
  <1>1. AfterDisable(t) \in {"delay", "configure"} /\ AfterEnable(t) \in {"sleep", "out"}
    BY AfterType
  <1> USE DEF nodeVars, Places, SendingPlaces, RunningPlaces
  <1>2. CASE DisableLock(t) \/ EnableLock(t)
    BY <1>1, <1>2, LockKept DEF DisableLock, EnableLock
  <1>3. CASE Runs(t)
    <2>1. lock = t /\ lock \notin Senders
      BY <1>3, TaskAssumption DEF Runs, DisableNode, ResetMask, ResetFill, DisableClose,
         EnableCreate, EnableStart, LockInv, Tasks
    <2>2. CASE DisableNode(t) \/ ResetMask(t)
      BY <2>1, <2>2, LockKept DEF DisableNode, ResetMask
    <2>7. CASE ResetFill(t)
      <3>1. UNCHANGED at \/ Go(t, "close") \/ Go(t, "start")
        BY <2>7 DEF ResetFill
      <3>2. UNCHANGED at => LockInv'
        BY <2>7 DEF ResetFill, LockInv
      <3>3. QED
        BY <2>1, <2>7, <3>1, <3>2, LockKept DEF ResetFill
    <2>3. CASE DisableClose(t)
      BY <1>1, <2>1, <2>3, LockKept DEF DisableClose
    <2>4. CASE EnableCreate(t)
      BY <1>1, <2>1, <2>4, LockKept DEF EnableCreate
    <2>5. CASE EnableStart(t)
      BY <1>1, <2>1, <2>5, LockKept DEF EnableStart
    <2>6. QED
      BY <1>3, <2>2, <2>3, <2>4, <2>5, <2>7 DEF Runs
  <1>4. QED
    BY <1>2, <1>3 DEF Locks

\* Interrupts and the bus take no lock.
LEMMA OtherLocks ==
  ASSUME TypeInv, LockInv,
         \/ \E i \in Slots : TxDone(i)
         \/ TxGive \/ BusOff \/ Recovers
         \/ \E c \in Controllers : Reconfigure(c) \/ SetConfig(c)
  PROVE  LockInv'
  <1> USE DEF nodeVars, Places, SendingPlaces, RunningPlaces
  <1>1. CASE (\E i \in Slots : TxDone(i)) \/ TxGive \/ BusOff
    BY <1>1 DEF TxDone, TxGive, BusOff, LockInv
  <1>2. CASE Recovers
    <2> Recovery \in Senders \cup Tasks
      BY DEF Tasks
    <2>1. RecoveryWake \/ RecoveryTake \/ RecoveryDelay
      BY <1>2 DEF Recovers
    <2>2. CASE RecoveryWake
      BY <2>2, LockKept DEF RecoveryWake
    <2>3. CASE RecoveryTake
      <3>1. \E to \in {"disable", "sleep"} : Go(Recovery, to)
        BY <2>3 DEF RecoveryTake
      <3>2. QED
        BY <2>3, <3>1, LockKept DEF RecoveryTake
    <2>4. CASE RecoveryDelay
      BY <2>4, LockKept DEF RecoveryDelay
    <2>5. QED
      BY <2>1, <2>2, <2>3, <2>4
  <1>3. ASSUME NEW c \in Controllers, Reconfigure(c) \/ SetConfig(c) PROVE LockInv'
    <2> c \in Senders \cup Tasks
      BY DEF Tasks
    <2>1. QED
      BY <1>3, LockKept DEF Reconfigure, SetConfig
  <1>4. QED
    BY <1>1, <1>2, <1>3

\* Every step keeps the locks with the tasks at their places.
LEMMA StepLocks ==
  ASSUME TypeInv, LockInv, [Next]_vars
  PROVE  LockInv'
  <1>1. CASE UNCHANGED vars
    BY <1>1 DEF LockInv, vars, nodeVars
  <1>2. CASE Next
    BY <1>2, SendLocks, TaskLocks, OtherLocks DEF Next, Holds
  <1>3. QED
    BY <1>1, <1>2

\* No lock is taken when the driver starts.
LEMMA StartLocks ==
  ASSUME Init
  PROVE  LockInv
  BY DEF Init, LockInv, Tasks, SendingPlaces, RunningPlaces

\* Nobody transmits on a deleted handle: can_send looks for the node under the lock
\* (can.c:805) and every deletion holds it.
THEOREM NodeLivesCorrect == Spec => NodeLives
  <1> DEFINE A == \A s \in Senders : at[s] = "transmit" /\ at'[s] # "transmit" => node # "none"
  <1>1. Spec => [](TypeInv /\ LockInv)
    BY StartType, StartLocks, StepType, StepLocks, PTL DEF Spec
  <1>2. LockInv => A
    BY DEF LockInv, SendingPlaces
  <1>3. (TypeInv /\ LockInv) /\ [Next]_vars => [A]_vars
    BY <1>2
  <1>4. QED
    BY <1>1, <1>3, PTL DEF Spec, NodeLives

---------------------------------------------------------------------------
(* The slots.                                                              *)

\* A step of one task that keeps the node, or leaves one that carries nothing.
LEMMA StillKept ==
  ASSUME TypeInv, StillInv, NEW t \in Senders \cup Tasks, NEW to \in Places, Go(t, to),
         to \in StillPlaces => Still',
         Still' \/ (node' = node /\ bus' = bus),
         Still' => inflight' = {}
  PROVE  StillInv'
  <1>1. /\ at'[t] = to
        /\ \A u \in Senders \cup Tasks : u # t => at'[u] = at[u]
    BY GoType DEF TypeInv, TypeOK
  <1>2. QED
    BY <1>1 DEF StillInv, Still

\* A sender puts no frame into a still node.
LEMMA SendStill ==
  ASSUME TypeInv, StillInv, NEW s \in Senders, Sends(s) \/ SendsLocked(s)
  PROVE  StillInv'
  <1>1. node' = node /\ bus' = bus
    BY DEF Sends, SendsLocked, SendGate, SendTake, SendTimeout, SendLock, SendClaim, SendTransmit,
       SendUndo, SendReturn, nodeVars
  <1>2. Still' => inflight' = {}
    BY <1>1 DEF Sends, SendsLocked, SendGate, SendTake, SendTimeout, SendLock, SendClaim,
       SendTransmit, SendUndo, SendReturn, poolVars, Still, StillInv
  <1>3. PICK to \in Places \ StillPlaces : Go(s, to)
    BY DEF Sends, SendsLocked, SendGate, SendTake, SendTimeout, SendLock, SendClaim, SendTransmit,
       SendUndo, SendReturn, Places, StillPlaces
  <1>4. QED
    BY <1>1, <1>2, <1>3, StillKept

\* A driver task is where it reconfigures the node only while that is still.
LEMMA TaskStill ==
  ASSUME TypeInv, LockInv, StillInv, NEW t \in Tasks, Runs(t) \/ Locks(t)
  PROVE  StillInv'
  <1> t \in Senders \cup Tasks
    OBVIOUS
  <1>1. AfterDisable(t) \in {"delay", "configure"} /\ AfterEnable(t) \in {"sleep", "out"}
    BY AfterType
  <1> USE DEF nodeVars, poolVars, Places, StillPlaces, Still
  <1>2. CASE DisableLock(t)
    BY <1>1, <1>2, StillKept DEF DisableLock, StillInv
  <1>3. CASE EnableLock(t)
    BY <1>1, <1>3, StillKept DEF EnableLock, StillInv, TypeInv, TypeOK
  <1>4. CASE DisableNode(t) \/ ResetMask(t)
    BY <1>4, StillKept DEF DisableNode, ResetMask, StillInv
  <1>5. CASE ResetFill(t)
    <2>1. UNCHANGED at \/ Go(t, "close") \/ Go(t, "start")
      BY <1>5 DEF ResetFill
    <2>2. UNCHANGED at => StillInv'
      BY <1>5 DEF ResetFill, StillInv
    <2>3. QED
      BY <1>5, <2>1, <2>2, StillKept DEF ResetFill, StillInv
  <1>6. CASE DisableClose(t)
    BY <1>1, <1>6, StillKept DEF DisableClose, StillInv
  <1>7. CASE EnableCreate(t)
    BY <1>1, <1>7, StillKept DEF EnableCreate, StillInv
  <1>8. CASE EnableStart(t)
    <2>1. Still /\ inflight' = {}
      BY <1>8 DEF EnableStart, StillInv
    <2>2. PICK to \in Places \ StillPlaces : Go(t, to)
      BY <1>1, <1>8 DEF EnableStart
    <2>3. /\ at'[t] = to
          /\ \A u \in Senders \cup Tasks : u # t => at'[u] = at[u]
      BY <2>2, GoType DEF TypeInv, TypeOK
    <2>4. CASE node' = "none"
      BY <1>8, <2>1, <2>2, <2>4, StillKept DEF EnableStart
    <2>5. CASE node' = "running" /\ bus' = "on"
      <3>1. ASSUME NEW u \in Tasks, u # t PROVE at[u] \notin StillPlaces
        BY <1>8, <3>1 DEF EnableStart, LockInv, RunningPlaces
      <3>2. \A u \in Tasks : at'[u] \notin StillPlaces
        BY <2>2, <2>3, <3>1
      <3>3. QED
        BY <2>1, <2>5, <3>2 DEF StillInv
    <2>6. QED
      BY <1>8, <2>4, <2>5 DEF EnableStart
  <1>9. QED
    BY <1>2, <1>3, <1>4, <1>5, <1>6, <1>7, <1>8 DEF Runs, Locks

\* Nothing gets into a still node, whatever the controller and the bus do.
LEMMA OtherStill ==
  ASSUME TypeInv, StillInv,
         \/ \E i \in Slots : TxDone(i)
         \/ TxGive \/ BusOff \/ Recovers
         \/ \E c \in Controllers : Reconfigure(c) \/ SetConfig(c)
  PROVE  StillInv'
  <1> USE DEF nodeVars, poolVars, Places, StillPlaces
  <1>1. CASE (\E i \in Slots : TxDone(i)) \/ TxGive
    BY <1>1 DEF TxDone, TxGive, StillInv, Still
  <1>2. CASE BusOff
    BY <1>2 DEF BusOff, StillInv, Still
  <1>3. CASE Recovers
    <2>1. UNCHANGED <<nodeVars, inflight>>
      BY <1>3 DEF Recovers, RecoveryWake, RecoveryTake, RecoveryDelay
    <2>2. PICK to \in Places \ StillPlaces : Go(Recovery, to)
      BY <1>3 DEF Recovers, RecoveryWake, RecoveryTake, RecoveryDelay
    <2>3. Recovery \in Senders \cup Tasks
      BY DEF Tasks
    <2>4. QED
      BY <2>1, <2>2, <2>3, StillKept DEF StillInv, Still
  <1>4. ASSUME NEW c \in Controllers, Reconfigure(c) \/ SetConfig(c) PROVE StillInv'
    <2>1. c \in Senders \cup Tasks
      BY DEF Tasks
    <2>2. QED
      BY <1>4, <2>1, StillKept DEF Reconfigure, SetConfig, StillInv, Still
  <1>5. QED
    BY <1>1, <1>2, <1>3, <1>4

\* A step that moves one task to a place where it owns no slot it did not own.
LEMMA SlotKept ==
  ASSUME TypeInv, SlotInv, NEW t \in Senders \cup Tasks, NEW to \in Places, Go(t, to),
         UNCHANGED <<used, inflight, slot, crossed, spoiled>>,
         to \in {"transmit", "undo"} => t \in Senders /\ at[t] = "transmit"
  PROVE  SlotInv'
  <1>1. /\ at'[t] = to
        /\ \A u \in Senders \cup Tasks : u # t => at'[u] = at[u]
    BY GoType DEF TypeInv, TypeOK
  <1>2. \A s \in Senders : Owns(s)' => Owns(s)
    BY <1>1 DEF Owns
  <1>3. QED
    BY <1>2 DEF SlotInv

\* A sender uses the slot it was given, which nobody else has.
LEMMA SendSlots ==
  ASSUME TypeInv, SlotInv, NEW s \in Senders, Sends(s) \/ SendsLocked(s)
  PROVE  SlotInv'
  <1> s \in Senders \cup Tasks
    OBVIOUS
  <1> USE DEF poolVars, historyVars, Places
  <1>1. CASE SendGate(s) \/ SendTake(s) \/ SendTimeout(s)
    BY <1>1, SlotKept DEF SendGate, SendTake, SendTimeout
  <1>2. CASE SendLock(s) \/ SendReturn(s)
    BY <1>2, SlotKept DEF SendLock, SendReturn
  <1>3. CASE SendClaim(s)
    <2>1. CASE used = Slots
      BY <1>3, <2>1, SlotKept DEF SendClaim
    <2>2. CASE used # Slots
      <3>1. slot'[s] \notin used /\ used' = used \cup {slot'[s]} /\ inflight' = inflight
        BY <1>3, <2>2, LowestType DEF SendClaim, TypeInv, TypeOK
      <3>2. \A u \in Senders : u # s => slot'[u] = slot[u] /\ (Owns(u)' <=> Owns(u))
        BY <1>3, <2>2, GoType DEF SendClaim, Owns, TypeInv, TypeOK
      <3>3. QED
        BY <1>3, <3>1, <3>2 DEF SendClaim, SlotInv
    <2>3. QED
      BY <2>1, <2>2
  <1>4. CASE SendTransmit(s)
    <2>1. CASE Go(s, "undo") /\ UNCHANGED <<inflight, slot>>
      BY <1>4, <2>1, SlotKept DEF SendTransmit
    <2>2. CASE Go(s, "out") /\ inflight' = inflight \cup {slot[s]} /\ slot' = [slot EXCEPT ![s] = None]
      <3>1. ~Owns(s)' /\ \A u \in Senders : u # s => slot'[u] = slot[u] /\ (Owns(u)' <=> Owns(u))
        BY <1>4, <2>2, GoType DEF SendTransmit, Owns, TypeInv, TypeOK
      <3>2. Owns(s) /\ used' = used /\ spoiled' = spoiled
        BY <1>4 DEF SendTransmit, Owns
      <3>3. QED
        BY <2>2, <3>1, <3>2 DEF SlotInv
    <2>3. QED
      BY <1>4, <2>1, <2>2 DEF SendTransmit
  <1>5. CASE SendUndo(s)
    <2>1. ~Owns(s)' /\ \A u \in Senders : u # s => slot'[u] = slot[u] /\ (Owns(u)' <=> Owns(u))
      BY <1>5, GoType DEF SendUndo, Owns, TypeInv, TypeOK
    <2>2. ~spoiled' => ~spoiled /\ Owns(s)
      BY <1>5 DEF SendUndo, Owns
    <2>3. used' = used \ {slot[s]} /\ inflight' = inflight
      BY <1>5 DEF SendUndo
    <2>4. QED
      BY <2>1, <2>2, <2>3 DEF SlotInv
  <1>6. QED
    BY <1>1, <1>2, <1>3, <1>4, <1>5 DEF Sends, SendsLocked

\* A driver task takes no slot from a sender that owns it.
LEMMA TaskSlots ==
  ASSUME TypeInv, LockInv, StillInv, SlotInv, NEW t \in Tasks, Runs(t) \/ Locks(t)
  PROVE  SlotInv'
  <1> t \in Senders \cup Tasks
    OBVIOUS
  <1>1. AfterDisable(t) \in {"delay", "configure"} /\ AfterEnable(t) \in {"sleep", "out"}
    BY AfterType
  <1> USE DEF poolVars, historyVars, Places
  <1>2. CASE DisableLock(t) \/ EnableLock(t)
    BY <1>1, <1>2, SlotKept DEF DisableLock, EnableLock
  <1>3. CASE DisableNode(t)
    <2>1. \A s \in Senders : Owns(s)' <=> Owns(s)
      BY <1>3, GoType, TaskAssumption DEF DisableNode, Owns, TypeInv, TypeOK, Tasks
    <2>2. QED
      BY <1>3, <2>1 DEF DisableNode, SlotInv
  <1>4. CASE ResetMask(t)
    <2>1. inflight' = {}
      BY <1>4 DEF ResetMask, StillInv, StillPlaces
    <2>2. ASSUME NEW s \in Senders PROVE ~Owns(s)'
      <3>1. at'[s] = at[s] /\ s # t
        BY <1>4, GoType, TaskAssumption DEF ResetMask, TypeInv, TypeOK, Tasks
      <3>2. at[s] # "transmit"
        BY <1>4, <3>1 DEF ResetMask, LockInv, SendingPlaces, RunningPlaces
      <3>3. at[s] = "undo" => s \in crossed'
        BY <1>4 DEF ResetMask
      <3>4. QED
        BY <3>1, <3>2, <3>3 DEF Owns
    <2>3. QED
      BY <2>1, <2>2 DEF SlotInv
  <1>5. CASE ResetFill(t)
    <2>1. UNCHANGED at \/ Go(t, "close") \/ Go(t, "start")
      BY <1>5 DEF ResetFill
    <2>2. UNCHANGED at => SlotInv'
      BY <1>5 DEF ResetFill, SlotInv, Owns
    <2>3. QED
      BY <1>5, <2>1, <2>2, SlotKept DEF ResetFill
  <1>6. CASE DisableClose(t) \/ EnableStart(t)
    BY <1>1, <1>6, SlotKept DEF DisableClose, EnableStart
  <1>7. CASE EnableCreate(t)
    BY <1>1, <1>7, SlotKept DEF EnableCreate
  <1>8. QED
    BY <1>2, <1>3, <1>4, <1>5, <1>6, <1>7 DEF Runs, Locks

\* A frame that is done gives back the slot it was in.
LEMMA OtherSlots ==
  ASSUME TypeInv, SlotInv,
         \/ \E i \in Slots : TxDone(i)
         \/ TxGive \/ BusOff \/ Recovers
         \/ \E c \in Controllers : Reconfigure(c) \/ SetConfig(c)
  PROVE  SlotInv'
  <1> USE DEF poolVars, historyVars, Places
  <1>1. CASE (\E i \in Slots : TxDone(i)) \/ TxGive \/ BusOff
    BY <1>1 DEF TxDone, TxGive, BusOff, SlotInv, Owns
  <1>2. CASE Recovers
    <2>1. PICK to \in Places \ {"transmit", "undo"} : Go(Recovery, to)
      BY <1>2 DEF Recovers, RecoveryWake, RecoveryTake, RecoveryDelay
    <2>2. Recovery \in Senders \cup Tasks /\ UNCHANGED <<used, inflight, slot, crossed, spoiled>>
      BY <1>2 DEF Tasks, Recovers, RecoveryWake, RecoveryTake, RecoveryDelay
    <2>3. QED
      BY <2>1, <2>2, SlotKept
  <1>3. ASSUME NEW c \in Controllers, Reconfigure(c) \/ SetConfig(c) PROVE SlotInv'
    <2>1. c \in Senders \cup Tasks
      BY DEF Tasks
    <2>2. QED
      BY <1>3, <2>1, SlotKept DEF Reconfigure, SetConfig
  <1>4. QED
    BY <1>1, <1>2, <1>3

\* Types, locks, still nodes and slots together are inductive.
LEMMA StepBus ==
  ASSUME BusInv, [Next]_vars
  PROVE  BusInv'
  <1>1. TypeInv' /\ LockInv'
    BY StepType, StepLocks DEF BusInv
  <1>2. CASE UNCHANGED vars
    BY <1>1, <1>2 DEF BusInv, StillInv, Still, SlotInv, Owns, vars, nodeVars, poolVars, historyVars
  <1>3. CASE Next
    <2>1. StillInv'
      BY <1>3, SendStill, TaskStill, OtherStill DEF Next, Holds, BusInv
    <2>2. SlotInv'
      BY <1>3, SendSlots, TaskSlots, OtherSlots DEF Next, Holds, BusInv
    <2>3. QED
      BY <1>1, <2>1, <2>2 DEF BusInv
  <1>4. QED
    BY <1>2, <1>3

\* They hold when the driver starts.
LEMMA StartBus ==
  ASSUME Init
  PROVE  BusInv
  <1>1. StillInv /\ SlotInv
    BY DEF Init, StillInv, Still, SlotInv, Owns, Tasks, StillPlaces
  <1>2. QED
    BY <1>1, StartType, StartLocks DEF BusInv

\* While the driver holds a frame nobody else is given its slot, through refusals,
\* resets and recreations of the node (can.c:822, 862, 295).
THEOREM SlotsHeldCorrect == Spec => []SlotsHeld
  <1>1. Spec => []BusInv
    BY StartBus, StepBus, PTL DEF Spec
  <1>2. BusInv => SlotsHeld
    BY DEF BusInv, SlotInv, SlotsHeld
  <1>3. QED
    BY <1>1, <1>2, PTL

---------------------------------------------------------------------------
(* The permits.                                                            *)

HolderPlaces == {"lock", "claim", "transmit", "undo", "return"}
Giving       == IF isr = "give" THEN 1 ELSE 0
Total        == permits + Cardinality(Holders) + Cardinality(inflight) + Giving

\* Permits are counted while the bus is open; a task that recreates the node counts
\* them too once it has filled the semaphore, for it opens the bus next.
Counted == ~spoiled /\ \/ bus = "on" /\ lock \notin Tasks
                       \/ \E t \in Tasks : at[t] = "start"

\* PermitsKept is not inductive: the recreation goes through states it says nothing
\* about, and opens the bus on what they left.
PermitInv ==
  /\ IsFiniteSet(Holders)
  /\ Counted => Total >= Permits
  /\ \A t \in Tasks : at[t] = "create" => bus = "off"

\* A sender that moves enters or leaves the holders, or stays where it was.
LEMMA HoldersMove ==
  ASSUME TypeInv, IsFiniteSet(Holders), NEW s \in Senders, NEW to \in Places, Go(s, to)
  PROVE  /\ IsFiniteSet(Holders')
         /\ to \in HolderPlaces =>
              Cardinality(Holders') = IF at[s] \in HolderPlaces THEN Cardinality(Holders)
                                      ELSE Cardinality(Holders) + 1
         /\ to \notin HolderPlaces =>
              Cardinality(Holders') = IF at[s] \in HolderPlaces THEN Cardinality(Holders) - 1
                                      ELSE Cardinality(Holders)
  <1>1. at'[s] = to /\ \A u \in Senders : u # s => at'[u] = at[u]
    BY GoType DEF TypeInv, TypeOK
  <1>2. s \in Holders <=> at[s] \in HolderPlaces
    BY DEF Holders, HolderPlaces
  <1>3. CASE to \in HolderPlaces
    <2>1. Holders' = Holders \cup {s}
      BY <1>1, <1>3 DEF Holders, HolderPlaces
    <2>2. QED
      BY <1>2, <1>3, <2>1, FS_AddElement
  <1>4. CASE to \notin HolderPlaces
    <2>1. Holders' = Holders \ {s}
      BY <1>1, <1>4 DEF Holders, HolderPlaces
    <2>2. QED
      BY <1>2, <1>4, <2>1, FS_RemoveElement
  <1>5. QED
    BY <1>3, <1>4

\* A step of a task, or of none, moves no sender.
LEMMA HoldersStay ==
  ASSUME TypeInv,
         at' = at \/ \E t \in Tasks, to \in Places : Go(t, to)
  PROVE  Holders' = Holders
  <1>1. \A s \in Senders : at'[s] = at[s]
    BY TaskAssumption DEF Go, TypeInv, TypeOK, Tasks
  <1>2. QED
    BY <1>1 DEF Holders

\* The counts are naturals.
LEMMA CountType ==
  ASSUME TypeInv, IsFiniteSet(Holders)
  PROVE  /\ permits \in Nat /\ permits <= Permits /\ Permits \in Nat
         /\ Cardinality(Holders) \in Nat /\ Cardinality(inflight) \in Nat
         /\ Giving \in Nat /\ IsFiniteSet(inflight)
  <1>1. IsFiniteSet(inflight)
    BY FS_Subset, SlotAssumption DEF TypeInv, TypeOK
  <1>2. QED
    BY <1>1, PermitsType, FS_CardinalityType, SMT DEF TypeInv, TypeOK, Giving

\* A step that neither opens the bus nor starts a node, nor gives anything away.
LEMMA TotalKept ==
  ASSUME PermitInv, Counted' => Counted, Counted /\ Counted' => Total' >= Total \/ Total' >= Permits,
         Total \in Nat, Total' \in Nat, Permits \in Nat, Permits' = Permits,
         IsFiniteSet(Holders'), \A t \in Tasks : at'[t] = "create" => bus' = "off"
  PROVE  PermitInv'
  BY SMT DEF PermitInv

\* A sender keeps the total of permits.
LEMMA SendPermits ==
  ASSUME BusInv, BusInv', PermitInv, NEW s \in Senders, Sends(s) \/ SendsLocked(s)
  PROVE  PermitInv'
  <1>t. TypeInv /\ TypeInv' /\ IsFiniteSet(Holders) /\ s \in Senders \cup Tasks
    BY DEF BusInv, PermitInv
  <1>n. /\ permits \in Nat /\ permits <= Permits /\ Permits \in Nat
        /\ Cardinality(Holders) \in Nat /\ Cardinality(inflight) \in Nat
        /\ Giving \in Nat /\ IsFiniteSet(inflight)
    BY <1>t, CountType
  <1>1. PICK to \in Places \ {"create", "start"} : Go(s, to)
    BY DEF Sends, SendsLocked, SendGate, SendTake, SendTimeout, SendLock, SendClaim, SendTransmit,
       SendUndo, SendReturn, Places
  <1>2. IsFiniteSet(Holders')
    BY <1>t, <1>1, HoldersMove
  <1>m. /\ permits' \in Nat /\ Cardinality(Holders') \in Nat /\ Cardinality(inflight') \in Nat
        /\ Giving' \in Nat
    <2>1. permits' \in Nat /\ Giving' \in Nat
      BY <1>t, PermitsType, SMT DEF TypeInv, TypeOK, Giving
    <2>2. IsFiniteSet(inflight')
      BY <1>t, FS_Subset, SlotAssumption DEF TypeInv, TypeOK
    <2>3. QED
      BY <1>2, <2>1, <2>2, FS_CardinalityType
  <1>3. \A t \in Tasks : at'[t] = at[t]
    BY <1>t, <1>1, GoType, TaskAssumption DEF Tasks, TypeInv, TypeOK
  <1>4. bus' = bus /\ isr' = isr /\ (~spoiled' => ~spoiled)
    <2>1. bus' = bus /\ isr' = isr
      BY DEF Sends, SendsLocked, SendGate, SendTake, SendTimeout, SendLock, SendClaim,
         SendTransmit, SendUndo, SendReturn, nodeVars, poolVars
    <2>2. spoiled' = spoiled \/ spoiled' = (spoiled \/ s \in crossed)
      BY DEF Sends, SendsLocked, SendGate, SendTake, SendTimeout, SendLock, SendClaim,
         SendTransmit, SendUndo, SendReturn, historyVars
    <2>3. CASE spoiled' = spoiled
      BY <2>1, <2>3
    <2>4. CASE spoiled' = (spoiled \/ s \in crossed)
      BY <2>1, <2>4, Zenon
    <2>5. QED
      BY <2>2, <2>3, <2>4
  <1>5. lock' \notin Tasks => lock \notin Tasks
    BY <1>t, TaskAssumption DEF Sends, SendsLocked, SendGate, SendTake, SendTimeout, SendLock,
       SendClaim, SendTransmit, SendUndo, SendReturn, BusInv, LockInv, SendingPlaces, Tasks
  <1>6. Counted' => Counted
    BY <1>3, <1>4, <1>5 DEF Counted
  <1>7. ASSUME ~spoiled PROVE Total' >= Total \/ Total' >= Permits
    <2>g. Giving' = Giving
      BY <1>4 DEF Giving
    <2>1. CASE SendGate(s) \/ SendTimeout(s)
      <3>1. at[s] \notin HolderPlaces /\ permits' = permits /\ inflight' = inflight
            /\ (Go(s, "permit") \/ Go(s, "out"))
        BY <2>1 DEF SendGate, SendTimeout, HolderPlaces, poolVars
      <3>2. Cardinality(Holders') = Cardinality(Holders)
        BY <1>t, <3>1, HoldersMove DEF Places, HolderPlaces
      <3>3. QED
        BY <1>n, <2>g, <3>1, <3>2, SMT DEF Total
    <2>2. CASE SendTake(s)
      <3>1. /\ at[s] \notin HolderPlaces /\ Go(s, "lock")
            /\ permits' = permits - 1 /\ inflight' = inflight
        BY <2>2 DEF SendTake, HolderPlaces
      <3>2. Cardinality(Holders') = Cardinality(Holders) + 1
        BY <1>t, <3>1, HoldersMove DEF Places, HolderPlaces
      <3>3. QED
        BY <1>n, <2>g, <3>1, <3>2, SMT DEF Total
    <2>3. CASE SendLock(s) \/ SendClaim(s) \/ SendUndo(s)
      <3>1. at[s] \in HolderPlaces /\ permits' = permits /\ inflight' = inflight
        BY <2>3 DEF SendLock, SendClaim, SendUndo, HolderPlaces, poolVars
      <3>2. Go(s, "claim") \/ Go(s, "transmit") \/ Go(s, "return")
        BY <2>3 DEF SendLock, SendClaim, SendUndo
      <3>3. Cardinality(Holders') = Cardinality(Holders)
        BY <1>t, <3>1, <3>2, HoldersMove DEF Places, HolderPlaces
      <3>4. QED
        BY <1>n, <2>g, <3>1, <3>3, SMT DEF Total
    <2>4. CASE SendTransmit(s)
      <3>1. at[s] = "transmit" /\ at[s] \in HolderPlaces /\ permits' = permits
        BY <2>4 DEF SendTransmit, HolderPlaces
      <3>2. CASE Go(s, "out") /\ inflight' = inflight \cup {slot[s]}
        <4>1. slot[s] \notin inflight
          BY <1>7, <3>1 DEF BusInv, SlotInv, Owns
        <4>2. Cardinality(inflight') = Cardinality(inflight) + 1
          BY <1>n, <3>2, <4>1, FS_AddElement
        <4>3. Cardinality(Holders') = Cardinality(Holders) - 1
          BY <1>t, <3>1, <3>2, HoldersMove DEF Places, HolderPlaces
        <4>4. QED
          BY <1>n, <2>g, <3>1, <4>2, <4>3, SMT DEF Total
      <3>3. CASE Go(s, "undo") /\ inflight' = inflight
        <4>1. Cardinality(Holders') = Cardinality(Holders)
          BY <1>t, <3>1, <3>3, HoldersMove DEF Places, HolderPlaces
        <4>2. QED
          BY <1>n, <2>g, <3>1, <3>3, <4>1, SMT DEF Total
      <3>4. QED
        BY <2>4, <3>2, <3>3 DEF SendTransmit
    <2>5. CASE SendReturn(s)
      <3>1. at[s] \in HolderPlaces /\ Go(s, "out") /\ permits' = Given /\ inflight' = inflight
        BY <2>5 DEF SendReturn, HolderPlaces
      <3>2. Cardinality(Holders') = Cardinality(Holders) - 1
        BY <1>t, <3>1, HoldersMove DEF Places, HolderPlaces
      <3>3. permits' = permits + 1 \/ permits' = Permits
        BY <1>n, <3>1, SMT DEF Given
      <3>4. QED
        BY <1>n, <1>m, <2>g, <3>1, <3>2, <3>3, SMT DEF Total
    <2>6. QED
      BY <2>1, <2>2, <2>3, <2>4, <2>5 DEF Sends, SendsLocked
  <1>8. Total \in Nat /\ Total' \in Nat /\ Permits' = Permits
    BY <1>n, <1>m, SMT DEF Total, Permits
  <1>9. \A t \in Tasks : at'[t] = "create" => bus' = "off"
    BY <1>3, <1>4 DEF PermitInv
  <1>10. Counted => ~spoiled
    BY DEF Counted
  <1>11. QED
    BY <1>n, <1>2, <1>6, <1>7, <1>8, <1>9, <1>10, TotalKept

\* A driver task loses no permit.
LEMMA TaskPermits ==
  ASSUME BusInv, BusInv', PermitInv, NEW t \in Tasks, Runs(t) \/ Locks(t)
  PROVE  PermitInv'
  <1>t. TypeInv /\ LockInv /\ TypeInv' /\ IsFiniteSet(Holders) /\ t \in Senders \cup Tasks
    BY DEF BusInv, PermitInv
  <1>n. /\ permits \in Nat /\ permits <= Permits /\ Permits \in Nat
        /\ Cardinality(Holders) \in Nat /\ Cardinality(inflight) \in Nat
        /\ Giving \in Nat /\ IsFiniteSet(inflight)
    BY <1>t, CountType
  <1>a. AfterDisable(t) \in {"delay", "configure"} /\ AfterEnable(t) \in {"sleep", "out"}
    BY AfterType
  <1>h. Holders' = Holders
    <2>1. at' = at \/ \E to \in Places : Go(t, to)
      BY <1>a DEF Runs, Locks, DisableLock, DisableNode, ResetMask, ResetFill, DisableClose,
         EnableLock, EnableCreate, EnableStart, Places
    <2>2. QED
      BY <1>t, <2>1, HoldersStay
  <1>m. /\ permits' \in Nat /\ Cardinality(inflight') \in Nat /\ Giving' \in Nat
        /\ Permits' = Permits /\ Total \in Nat /\ Total' \in Nat
    <2>1. permits' \in Nat /\ Giving' \in Nat
      BY <1>t, PermitsType, SMT DEF TypeInv, TypeOK, Giving
    <2>2. IsFiniteSet(inflight')
      BY <1>t, FS_Subset, SlotAssumption DEF TypeInv, TypeOK
    <2>3. Cardinality(inflight') \in Nat
      BY <2>2, FS_CardinalityType
    <2>4. QED
      BY <1>n, <1>h, <2>1, <2>3, SMT DEF Total, Permits
  <1>f. IsFiniteSet(Holders')
    BY <1>t, <1>h
  \* Where the task goes, nobody else does; and a lock it keeps is a task's.
  <1>o. ASSUME NEW to \in Places, Go(t, to)
        PROVE  at'[t] = to /\ \A u \in Tasks : u # t => at'[u] = at[u]
    BY <1>t, <1>o, GoType DEF TypeInv, TypeOK
  <1>l. Runs(t) => lock = t /\ \A u \in Tasks : u # t => at[u] \notin RunningPlaces
    BY DEF Runs, DisableNode, ResetMask, ResetFill, DisableClose, EnableCreate, EnableStart, BusInv,
       LockInv, RunningPlaces
  <1>1. CASE DisableLock(t)
    <2>1. PICK to \in Places \ {"create", "start"} : Go(t, to)
      BY <1>1, <1>a DEF DisableLock, Places
    <2>2. /\ UNCHANGED <<bus, permits, inflight, isr, spoiled>>
          /\ (lock' \notin Tasks => lock \notin Tasks)
      BY <1>1 DEF DisableLock, poolVars, historyVars
    <2>3. Counted' => Counted
      BY <1>o, <2>1, <2>2 DEF Counted
    <2>4. Total' = Total
      BY <1>h, <2>2 DEF Total, Giving
    <2>5. \A u \in Tasks : at'[u] = "create" => bus' = "off"
      BY <1>o, <2>1, <2>2 DEF PermitInv
    <2>6. QED
      BY <1>n, <1>m, <1>f, <2>3, <2>4, <2>5, TotalKept
  <1>2. CASE EnableLock(t)
    <2>1. PICK to \in Places \ {"start"} : Go(t, to) /\ (to = "create" => bus = "off")
      BY <1>2, <1>a, <1>t DEF EnableLock, Places, TypeInv, TypeOK
    <2>2. /\ UNCHANGED <<bus, permits, inflight, isr, spoiled>>
          /\ (lock' \notin Tasks => lock \notin Tasks)
      BY <1>2, TaskAssumption DEF EnableLock, poolVars, historyVars, nodeVars, Tasks
    <2>3. Counted' => Counted
      BY <1>o, <2>1, <2>2 DEF Counted
    <2>4. Total' = Total
      BY <1>h, <2>2 DEF Total, Giving
    <2>5. \A u \in Tasks : at'[u] = "create" => bus' = "off"
      BY <1>o, <2>1, <2>2 DEF PermitInv
    <2>6. QED
      BY <1>n, <1>m, <1>f, <2>3, <2>4, <2>5, TotalKept
  <1>3. CASE DisableNode(t) \/ ResetMask(t)
    <2>1. lock' = t /\ bus' = bus
      BY <1>3, <1>l DEF Runs, DisableNode, ResetMask, nodeVars
    <2>2. PICK to \in {"mask", "fill"} : Go(t, to)
      BY <1>3 DEF DisableNode, ResetMask
    <2>3. \A u \in Tasks : at'[u] \notin {"create", "start"}
      BY <1>3, <1>l, <1>o, <2>2 DEF Runs, RunningPlaces, Places
    <2>4. ~Counted'
      BY <2>1, <2>3 DEF Counted
    <2>5. QED
      BY <1>f, <2>3, <2>4 DEF PermitInv
  <1>4. CASE ResetFill(t)
    <2>1. lock' = t /\ bus' = bus
      BY <1>4, <1>l DEF Runs, ResetFill, nodeVars
    <2>2. CASE permits < Permits
      <3>1. at' = at
        BY <1>4, <2>2 DEF ResetFill
      <3>2. \A u \in Tasks : at'[u] \notin {"create", "start"}
        BY <1>4, <1>l, <3>1 DEF Runs, RunningPlaces, ResetFill
      <3>3. ~Counted'
        BY <2>1, <3>2 DEF Counted
      <3>4. QED
        BY <1>f, <3>2, <3>3 DEF PermitInv
    <2>3. CASE ~(permits < Permits)
      <3>1. permits' = Permits
        BY <1>4, <1>n, <2>3, SMT DEF ResetFill, Given
      <3>2. Total' >= Permits
        BY <1>n, <1>h, <1>m, <3>1, SMT DEF Total
      <3>3. PICK to \in {"close", "start"} : Go(t, to)
        BY <1>4, <2>3 DEF ResetFill
      <3>4. \A u \in Tasks : at'[u] # "create"
        BY <1>4, <1>l, <1>o, <3>3 DEF Runs, RunningPlaces, Places
      <3>5. QED
        BY <1>f, <1>m, <3>2, <3>4 DEF PermitInv
    <2>4. QED
      BY <2>2, <2>3
  <1>5. CASE DisableClose(t)
    <2>1. bus' = "off"
      BY <1>5 DEF DisableClose
    <2>2. PICK to \in Places \ {"create", "start"} : Go(t, to)
      BY <1>5, <1>a DEF DisableClose, Places
    <2>3. \A u \in Tasks : at'[u] # "start"
      BY <1>5, <1>l, <1>o, <2>2 DEF Runs, RunningPlaces
    <2>4. ~Counted'
      BY <2>1, <2>3 DEF Counted
    <2>5. QED
      BY <1>f, <2>1, <2>4 DEF PermitInv
  <1>6. CASE EnableCreate(t)
    <2>1. bus = "off" /\ bus' = bus
      BY <1>6 DEF EnableCreate, PermitInv
    <2>2. PICK to \in Places \ {"create", "start"} : Go(t, to)
      BY <1>6, <1>a DEF EnableCreate, Places
    <2>3. \A u \in Tasks : at'[u] # "start"
      BY <1>6, <1>l, <1>o, <2>2 DEF Runs, RunningPlaces
    <2>4. ~Counted'
      BY <2>1, <2>3 DEF Counted
    <2>5. QED
      BY <1>f, <2>1, <2>4 DEF PermitInv
  <1>7. CASE EnableStart(t)
    <2>1. UNCHANGED <<permits, inflight, isr, spoiled>> /\ at[t] = "start"
      BY <1>7 DEF EnableStart, poolVars, historyVars
    <2>2. PICK to \in Places \ {"create", "start"} : Go(t, to)
      BY <1>7, <1>a DEF EnableStart, Places
    <2>3. Counted' => Counted
      BY <2>1 DEF Counted
    <2>4. Total' = Total
      BY <1>h, <2>1 DEF Total, Giving
    <2>5. \A u \in Tasks : at'[u] # "create"
      BY <1>7, <1>l, <1>o, <2>2 DEF Runs, RunningPlaces
    <2>6. QED
      BY <1>n, <1>m, <1>f, <2>3, <2>4, <2>5, TotalKept
  <1>8. QED
    BY <1>1, <1>2, <1>3, <1>4, <1>5, <1>6, <1>7 DEF Runs, Locks

\* A frame that is done gives back the permit it held.
LEMMA OtherPermits ==
  ASSUME BusInv, BusInv', PermitInv,
         \/ \E i \in Slots : TxDone(i)
         \/ TxGive \/ BusOff \/ Recovers
         \/ \E c \in Controllers : Reconfigure(c) \/ SetConfig(c)
  PROVE  PermitInv'
  <1>t. TypeInv /\ TypeInv' /\ IsFiniteSet(Holders)
    BY DEF BusInv, PermitInv
  <1>n. /\ permits \in Nat /\ permits <= Permits /\ Permits \in Nat
        /\ Cardinality(Holders) \in Nat /\ Cardinality(inflight) \in Nat
        /\ Giving \in Nat /\ IsFiniteSet(inflight)
    BY <1>t, CountType
  <1>g. \/ at' = at
        \/ \E t \in Tasks, to \in Places \ {"create", "start"} : Go(t, to)
    BY DEF TxDone, TxGive, BusOff, Recovers, RecoveryWake, RecoveryTake, RecoveryDelay,
       Reconfigure, SetConfig, Tasks, Places
  <1>h. Holders' = Holders
    BY <1>t, <1>g, HoldersStay
  <1>m. /\ permits' \in Nat /\ Cardinality(inflight') \in Nat /\ Giving' \in Nat
        /\ Permits' = Permits /\ Total \in Nat /\ Total' \in Nat
    <2>1. permits' \in Nat /\ Giving' \in Nat
      BY <1>t, PermitsType, SMT DEF TypeInv, TypeOK, Giving
    <2>2. IsFiniteSet(inflight')
      BY <1>t, FS_Subset, SlotAssumption DEF TypeInv, TypeOK
    <2>3. Cardinality(inflight') \in Nat
      BY <2>2, FS_CardinalityType
    <2>4. QED
      BY <1>n, <1>h, <2>1, <2>3, SMT DEF Total, Permits
  <1>1. \A t \in Tasks : at'[t] \in {"create", "start"} => at[t] = at'[t]
    BY <1>t, <1>g, GoType DEF TypeInv, TypeOK
  <1>2. UNCHANGED <<bus, lock, spoiled>>
    BY DEF TxDone, TxGive, BusOff, Recovers, RecoveryWake, RecoveryTake, RecoveryDelay,
       Reconfigure, SetConfig, nodeVars, historyVars
  <1>3. Counted' => Counted
    BY <1>1, <1>2 DEF Counted
  <1>4. \A t \in Tasks : at'[t] = "create" => bus' = "off"
    BY <1>1, <1>2 DEF PermitInv
  <1>5. Total' >= Total \/ Total' >= Permits
    <2>1. ASSUME NEW i \in Slots, TxDone(i) PROVE Total' = Total
      <3>1. Cardinality(inflight') = Cardinality(inflight) - 1
        BY <1>n, <2>1, FS_RemoveElement DEF TxDone
      <3>2. permits' = permits /\ Giving = 0 /\ Giving' = 1
        BY <2>1 DEF TxDone, Giving
      <3>3. QED
        BY <1>n, <1>h, <3>1, <3>2, SMT DEF Total
    <2>2. CASE TxGive
      <3>1. (permits' = permits + 1 \/ permits' = Permits) /\ inflight' = inflight
        BY <1>n, <2>2, SMT DEF TxGive, Given
      <3>2. Giving = 1 /\ Giving' = 0
        BY <2>2 DEF TxGive, Giving
      <3>3. QED
        BY <1>n, <1>h, <1>m, <3>1, <3>2, SMT DEF Total
    <2>3. CASE BusOff \/ Recovers \/ \E c \in Controllers : Reconfigure(c) \/ SetConfig(c)
      <3>1. UNCHANGED <<permits, inflight, isr>>
        BY <2>3 DEF BusOff, Recovers, RecoveryWake, RecoveryTake, RecoveryDelay, Reconfigure,
           SetConfig, poolVars
      <3>2. QED
        BY <1>h, <1>m, <3>1 DEF Total, Giving
    <2>4. QED
      BY <1>m, <2>1, <2>2, <2>3
  <1>6. QED
    BY <1>n, <1>m, <1>t, <1>h, <1>3, <1>4, <1>5, TotalKept

\* Every step keeps the total of permits.
LEMMA StepPermits ==
  ASSUME BusInv, BusInv', PermitInv, [Next]_vars
  PROVE  PermitInv'
  <1>1. CASE UNCHANGED vars
    <2>1. UNCHANGED <<at, bus, lock, spoiled, permits, inflight, isr>> /\ Permits' = Permits
      BY <1>1 DEF vars, nodeVars, poolVars, historyVars, Permits
    <2>2. QED
      BY <2>1 DEF PermitInv, Counted, Total, Holders, Giving
  <1>2. CASE Next
    BY <1>2, SendPermits, TaskPermits, OtherPermits DEF Next, Holds
  <1>3. QED
    BY <1>1, <1>2

\* All permits are there when the driver starts, and no slot is used.
LEMMA StartPermits ==
  ASSUME Init
  PROVE  PermitInv
  <1>1. Holders = {} /\ inflight = {} /\ permits = Permits
    BY TaskAssumption DEF Init, Holders, Tasks
  <1>2. Total = Permits
    BY <1>1, PermitsType, FS_EmptySet, SMT DEF Total, Giving, Init
  <1>3. QED
    BY <1>1, <1>2, PermitsType, FS_EmptySet DEF PermitInv, Init, Tasks

\* No permit is lost, through time-outs, refusals, frames that bus-off swallows, resets
\* that overtake a sender and recreations of the node (can.c:295, 795, 822).
THEOREM PermitsKeptCorrect == Spec => []PermitsKept
  <1>1. Spec => []BusInv
    BY StartBus, StepBus, PTL DEF Spec
  <1>2. Spec => []PermitInv
    BY <1>1, StartPermits, StepPermits, PTL DEF Spec
  <1>3. PermitInv => PermitsKept
    BY DEF PermitInv, PermitsKept, Counted, Total, Giving
  <1>4. QED
    BY <1>2, <1>3, PTL

---------------------------------------------------------------------------------
(* The pop-up.                                                                 *)

Contexts == [request : Texts \cup {HeadText}, remaining : 0 .. TriggerFrames,
             selected : BOOLEAN, late : BOOLEAN, settled : BOOLEAN]

\* Every trigger frame of the attempt was offered or is still to come.
Offered == leaf = "trigger" => triggers + ctx.remaining = TriggerFrames

PopupTypeInv == PopupTypeOK /\ Offered

\* A running transfer is the one of the attempt, undisturbed on its pair; one that
\* ended well left its text there.
TransferInv ==
  /\ running => leaf = "sending" /\ wire = [pair |-> transport, intact |-> TRUE]
  /\ leaf = "sending" /\ ~running /\ outcome = "success" => shown[transport] = ctx.request
  /\ leaf = "hold" => shown[transport] = ctx.request
  /\ leaf = "idle" => ~owned
  /\ owned => transport = Fallback

PopupInv == PopupTypeInv /\ TransferInv

---------------------------------------------------------------------------
(* Types.                                                                  *)

\* The context of a new attempt has lost nothing and kept nothing.
LEMMA FreshType ==
  ASSUME NEW text \in Texts
  PROVE  FreshTrigger(text) \in Contexts /\ FreshTrigger(text).remaining = TriggerFrames
  BY CountAssumption DEF FreshTrigger, Contexts

\* Raising one of the two time-outs keeps the rest of the context.
LEMMA FlagType ==
  ASSUME ctx \in Contexts
  PROVE  /\ [ctx EXCEPT !.late = TRUE] \in Contexts
         /\ [ctx EXCEPT !.settled = TRUE] \in Contexts
         /\ [ctx EXCEPT !.late = TRUE].remaining = ctx.remaining
         /\ [ctx EXCEPT !.settled = TRUE].remaining = ctx.remaining
  BY DEF Contexts

\* A frame with the media type keeps the types of the pop-up.
LEMMA MediaType ==
  ASSUME PopupTypeInv, NEW type \in MediaTypes, MediaFrame(type)
  PROVE  PopupTypeInv'
  <1>1. /\ ctx' \in Contexts
        /\ leaf = "trigger" => ctx'.remaining = IF IsTrigger THEN ctx.remaining - 1
                                                ELSE ctx.remaining
    <2>1. ctx \in Contexts
      BY DEF PopupTypeInv, PopupTypeOK, Contexts
    <2>2. CASE leaf # "trigger"
      BY <2>1, <2>2 DEF MediaFrame
    <2>3. CASE leaf = "trigger" /\ IsTrigger
      <3> DEFINE c == [ctx EXCEPT !.selected = TRUE, !.remaining = ctx.remaining - 1,
                                  !.settled = ctx.settled /\ FALSE]
      <3>1. ctx' = c
        BY <2>3 DEF MediaFrame
      <3>2. ctx.remaining - 1 \in 0 .. TriggerFrames
        BY <2>1, <2>3, CountAssumption DEF Contexts, IsTrigger
      <3>3. c \in Contexts /\ c.remaining = ctx.remaining - 1
        BY <2>1, <3>2 DEF Contexts
      <3>4. QED
        BY <2>3, <3>1, <3>3
    <2>4. CASE leaf = "trigger" /\ ~IsTrigger
      <3> DEFINE c == [ctx EXCEPT !.selected = TRUE, !.remaining = ctx.remaining,
                                  !.settled = ctx.settled /\ TRUE]
      <3>1. ctx' = c
        BY <2>4 DEF MediaFrame
      <3>2. c \in Contexts /\ c.remaining = ctx.remaining
        BY <2>1 DEF Contexts
      <3>3. QED
        BY <2>4, <3>1, <3>2
    <2>5. QED
      BY <2>2, <2>3, <2>4
  <1>2. transport' \in Families /\ owned' \in BOOLEAN
    BY FamilyAssumption DEF PopupTypeInv, PopupTypeOK, MediaFrame, PairOf, OwnsFor
  <1>3. media' \in MediaTypes
    BY <1>2, FamilyAssumption DEF PopupTypeInv, PopupTypeOK, MediaFrame, MediaTypes
  <1>c. ctx.remaining \in 0 .. TriggerFrames /\ triggers \in 0 .. TriggerFrames
    BY DEF PopupTypeInv, PopupTypeOK
  <1>4. triggers' \in 0 .. TriggerFrames /\ Offered'
    <2>1. CASE IsTrigger
      <3>1. leaf = "trigger" /\ ctx.remaining > 0 /\ triggers' = triggers + 1 /\ leaf' = leaf
        BY <2>1 DEF MediaFrame, IsTrigger
      <3>2. ctx'.remaining = ctx.remaining - 1 /\ triggers + ctx.remaining = TriggerFrames
        BY <1>1, <2>1, <3>1 DEF PopupTypeInv, Offered
      <3>3. QED
        BY <1>c, <3>1, <3>2, CountAssumption DEF Offered
    <2>2. CASE ~IsTrigger
      <3>1. triggers' = triggers /\ leaf' = leaf
        BY <2>2 DEF MediaFrame
      <3>2. leaf = "trigger" => ctx'.remaining = ctx.remaining
        BY <1>1, <2>2
      <3>3. QED
        BY <1>c, <3>1, <3>2 DEF PopupTypeInv, Offered
    <2>3. QED
      BY <2>1, <2>2
  <1>5. QED
    BY <1>1, <1>2, <1>3, <1>4 DEF PopupTypeInv, PopupTypeOK, MediaFrame, transmitter, Contexts

\* Every step of the pop-up keeps its types.
LEMMA TypeStep == ASSUME PopupTypeInv, [PopupNext]_popupVars PROVE PopupTypeInv'
  <1> USE DEF Contexts
  <1>c. ctx \in Contexts
    BY DEF PopupTypeInv, PopupTypeOK
  <1>1. ASSUME NEW text \in Texts, Show(text) PROVE PopupTypeInv'
    <2>1. Append(queue, text) \in Seq(Texts) /\ Len(Append(queue, text)) = Len(queue) + 1
      BY <1>1 DEF PopupTypeInv, PopupTypeOK
    <2>2. queue' \in Seq(Texts) /\ Len(queue') <= QueueDepth
      BY <1>1, <2>1, CountAssumption DEF Show, PopupTypeInv, PopupTypeOK
    <2>3. QED
      BY <1>1, <2>2 DEF Show, PopupTypeInv, PopupTypeOK, Offered, transmitter, heard
  <1>2. CASE IdleTick
    <2>1. Head(queue) \in Texts /\ Tail(queue) \in Seq(Texts) /\ Len(Tail(queue)) <= QueueDepth
      BY <1>2, CountAssumption DEF IdleTick, PopupTypeInv, PopupTypeOK
    <2>2. ctx' \in Contexts /\ ctx'.remaining = TriggerFrames
      BY <1>2, <2>1, FreshType DEF IdleTick
    <2>3. QED
      BY <1>2, <2>1, <2>2, CountAssumption
         DEF IdleTick, PopupTypeInv, PopupTypeOK, Offered, transmitter
  <1>3. CASE TriggerTick
    <2>1. wire' \in [pair : Families, intact : BOOLEAN]
      <3>1. wire' = [pair |-> transport, intact |-> TRUE] \/ wire' = wire
        BY <1>3 DEF TriggerTick, transmitter
      <3>2. transport \in Families /\ wire \in [pair : Families, intact : BOOLEAN]
        BY DEF PopupTypeInv, PopupTypeOK
      <3>3. [pair |-> transport, intact |-> TRUE] \in [pair : Families, intact : BOOLEAN]
        BY <3>2
      <3>4. QED
        BY <3>1, <3>2, <3>3, Zenon
    <2>2. /\ leaf' \in {"sending", "idle"} /\ owned' \in BOOLEAN
          /\ running' \in BOOLEAN
          /\ outcome' \in Service!Outcomes \cup {"idle", "in-progress"}
      BY <1>3 DEF TriggerTick, Service!Accept, ToIdle, PopupTypeInv, PopupTypeOK, transmitter
    <2>3. UNCHANGED <<queue, ctx, held, transport, media, triggers, shown, leaked>>
      BY <1>3 DEF TriggerTick
    <2>4. QED
      BY <2>1, <2>2, <2>3 DEF PopupTypeInv, PopupTypeOK, Offered
  <1>4. CASE SendingTick
    BY <1>4 DEF SendingTick, ToIdle, PopupTypeInv, PopupTypeOK, Offered, transmitter, heard
  <1>5. CASE HoldTick
    BY <1>5 DEF HoldTick, ToIdle, PopupTypeInv, PopupTypeOK, Offered, transmitter, heard
  <1>6. ASSUME NEW type \in MediaTypes, MediaFrame(type) PROVE PopupTypeInv'
    BY <1>6, MediaType
  <1>7. ASSUME NEW family \in Families, TextFrame(family) PROVE PopupTypeInv'
    <2>1. shown' \in [Families -> Texts \cup {HeadText}]
      BY <1>7 DEF TextFrame, PopupTypeInv, PopupTypeOK
    <2>2. wire' \in [pair : Families, intact : BOOLEAN]
      BY <1>7 DEF TextFrame, PopupTypeInv, PopupTypeOK
    <2>3. QED
      BY <1>7, <2>1, <2>2 DEF TextFrame, PopupTypeInv, PopupTypeOK, Offered, transmitter
  <1>8. CASE Answer
    BY <1>8 DEF Answer, PopupTypeInv, PopupTypeOK, Offered, transmitter
  <1>9. CASE TransferEnds
    <2>1. shown' \in [Families -> Texts \cup {HeadText}]
      BY <1>9 DEF TransferEnds, PopupTypeInv, PopupTypeOK
    <2>2. QED
      BY <1>9, <2>1 DEF TransferEnds, Service!End, Service!Outcomes, PopupTypeInv, PopupTypeOK, Offered
  <1>10. CASE Time
    <2>1. CASE TriggerAges
      BY <1>c, <2>1, FlagType DEF TriggerAges, PopupTypeInv, PopupTypeOK, Offered, transmitter, heard
    <2>2. CASE TriggerSettles
      BY <1>c, <2>2, FlagType DEF TriggerSettles, PopupTypeInv, PopupTypeOK, Offered, transmitter, heard
    <2>3. CASE HoldEnds
      BY <2>3 DEF HoldEnds, PopupTypeInv, PopupTypeOK, Offered, transmitter, heard
    <2>4. QED
      BY <1>10, <2>1, <2>2, <2>3 DEF Time
  <1>11. CASE UNCHANGED popupVars
    BY <1>11 DEF popupVars, transmitter, heard, PopupTypeInv, PopupTypeOK, Offered
  <1>12. QED
    BY <1>1, <1>2, <1>3, <1>4, <1>5, <1>6, <1>7, <1>8, <1>9, <1>10, <1>11 DEF PopupNext, Tick

\* They hold when it starts.
LEMMA TypeInit == ASSUME PopupInit PROVE PopupTypeInv
  <1>1. queue \in Seq(Texts) /\ Len(queue) <= QueueDepth
    BY CountAssumption DEF PopupInit
  <1>2. ctx \in Contexts
    BY CountAssumption DEF PopupInit, Contexts
  <1>3. shown \in [Families -> Texts \cup {HeadText}]
    BY DEF PopupInit
  <1>4. wire \in [pair : Families, intact : BOOLEAN] /\ transport \in Families
    BY FamilyAssumption DEF PopupInit
  <1>5. triggers \in 0 .. TriggerFrames
    BY CountAssumption DEF PopupInit
  <1>6. QED
    BY <1>1, <1>2, <1>3, <1>4, <1>5
       DEF PopupInit, Service!Init, PopupTypeInv, PopupTypeOK, Offered, Contexts

\* The pop-up's variables stay in their types, and its queue in its depth.
THEOREM PopupTypeCorrect == PopupSpec => []PopupTypeOK
  <1>1. PopupTypeInv /\ [PopupNext]_popupVars => PopupTypeInv'
    BY TypeStep
  <1>2. PopupTypeInv => PopupTypeOK
    BY DEF PopupTypeInv
  <1>3. QED
    BY <1>1, <1>2, TypeInit, PTL DEF PopupSpec

---------------------------------------------------------------------------
(* Transfers.                                                              *)

\* Every step keeps what is shown and the transfer under way in step.
LEMMA TransferStep == ASSUME PopupInv, [PopupNext]_popupVars PROVE TransferInv'
  <1>t. /\ shown \in [Families -> Texts \cup {HeadText}] /\ transport \in Families
        /\ wire \in [pair : Families, intact : BOOLEAN]
    BY DEF PopupInv, PopupTypeInv, PopupTypeOK
  <1>1. ASSUME NEW text \in Texts, Show(text) PROVE TransferInv'
    BY <1>1 DEF Show, PopupInv, TransferInv, transmitter, heard
  <1>2. CASE IdleTick
    BY <1>2 DEF IdleTick, PopupInv, TransferInv, transmitter
  <1>3. CASE TriggerTick
    <2>1. CASE MayStart /\ ~running
      <3>1. /\ running' = TRUE /\ leaf' = "sending" /\ UNCHANGED <<owned, transport>>
            /\ wire' = [pair |-> transport, intact |-> TRUE]
        BY <1>3, <2>1 DEF TriggerTick, Service!Accept, transmitter
      <3>2. QED
        BY <3>1 DEF PopupInv, TransferInv
    <2>2. CASE ~(MayStart /\ ~running)
      <3>1. ~running /\ ToIdle /\ UNCHANGED <<running, transport>>
        BY <1>3, <2>2 DEF TriggerTick, transmitter, PopupInv, TransferInv
      <3>2. QED
        BY <3>1 DEF ToIdle, TransferInv
    <2>3. QED
      BY <2>1, <2>2
  <1>4. CASE SendingTick
    BY <1>4 DEF SendingTick, ToIdle, PopupInv, TransferInv, transmitter, heard
  <1>5. CASE HoldTick
    BY <1>5 DEF HoldTick, ToIdle, PopupInv, TransferInv, transmitter, heard
  <1>6. ASSUME NEW type \in MediaTypes, MediaFrame(type) PROVE TransferInv'
    <2>1. CASE Selects
      <3>1. leaf = "trigger" /\ leaf' = "trigger" /\ ~running'
        BY <1>6, <2>1 DEF Selects, MediaFrame, transmitter, PopupInv, TransferInv
      <3>2. owned' => transport' = Fallback
        BY <1>6, <2>1 DEF MediaFrame, PairOf, OwnsFor
      <3>3. QED
        BY <3>1, <3>2 DEF TransferInv
    <2>2. CASE ~Selects
      <3>1. UNCHANGED <<transport, owned, leaf, running, outcome, wire, shown>>
        BY <1>6, <2>2 DEF MediaFrame, transmitter
      <3>2. leaf # "trigger" => ctx' = ctx
        BY <1>6 DEF MediaFrame
      <3>3. QED
        BY <3>1, <3>2 DEF PopupInv, TransferInv
    <2>3. QED
      BY <2>1, <2>2
  <1>7. ASSUME NEW family \in Families, TextFrame(family) PROVE TransferInv'
    <2>1. leaf \in {"sending", "hold"} => family # transport
      BY <1>7 DEF TextFrame, Blocked
    <2>2. leaf \in {"sending", "hold"} => shown'[transport] = shown[transport]
      BY <1>t, <1>7, <2>1 DEF TextFrame
    <2>3. running => family # wire.pair
      BY <2>1 DEF PopupInv, TransferInv
    <2>4. running => wire' = wire
      BY <1>t, <1>7, <2>3 DEF TextFrame
    <2>5. UNCHANGED <<leaf, ctx, transport, owned, running, outcome>>
      BY <1>7 DEF TextFrame, transmitter
    <2>6. QED
      BY <2>2, <2>4, <2>5 DEF PopupInv, TransferInv
  <1>8. CASE Answer
    BY <1>8 DEF Answer, PopupInv, TransferInv, transmitter
  <1>9. CASE TransferEnds
    <2>1. leaf = "sending" /\ wire.intact /\ wire.pair = transport /\ ~running'
      BY <1>9 DEF TransferEnds, Service!End, PopupInv, TransferInv
    <2>2. outcome' = "success" => shown'[transport] = ctx.request
      BY <1>t, <1>9, <2>1 DEF TransferEnds
    <2>3. UNCHANGED <<leaf, ctx, transport, owned>>
      BY <1>9 DEF TransferEnds
    <2>4. QED
      BY <2>1, <2>2, <2>3 DEF PopupInv, TransferInv
  <1>10. CASE Time
    <2>1. UNCHANGED <<leaf, transport, owned, running, outcome, wire, shown>>
      BY <1>10 DEF Time, TriggerAges, TriggerSettles, HoldEnds, transmitter, heard
    <2>2. leaf # "trigger" => ctx' = ctx
      BY <1>10 DEF Time, TriggerAges, TriggerSettles, HoldEnds
    <2>3. QED
      BY <2>1, <2>2 DEF PopupInv, TransferInv
  <1>11. CASE UNCHANGED popupVars
    BY <1>11 DEF popupVars, transmitter, heard, PopupInv, TransferInv
  <1>12. QED
    BY <1>1, <1>2, <1>3, <1>4, <1>5, <1>6, <1>7, <1>8, <1>9, <1>10, <1>11 DEF PopupNext, Tick

\* Nothing is shown and nothing asked for when it starts.
LEMMA TransferInit == ASSUME PopupInit PROVE TransferInv
  BY DEF PopupInit, Service!Init, TransferInv

\* Both hold in every reachable state of the pop-up.
LEMMA PopupInvariant == PopupSpec => []PopupInv
  <1>1. PopupInit => PopupInv
    BY TypeInit, TransferInit DEF PopupInv
  <1>2. PopupInv /\ [PopupNext]_popupVars => PopupInv'
    BY TypeStep, TransferStep DEF PopupInv
  <1>3. QED
    BY <1>1, <1>2, PTL DEF PopupSpec

\* A displayed text is the one that was asked for, whole, on the pair of the active
\* media type.
THEOREM HoldShowsTextCorrect == PopupSpec => []HoldShowsText
  <1>1. PopupInv => HoldShowsText
    BY DEF PopupInv, TransferInv, HoldShowsText
  <1>2. QED
    BY <1>1, PopupInvariant, PTL

\* Between attempts the transmitter is free and no media type is forced.
THEOREM FreeBetweenAttemptsCorrect == PopupSpec => []FreeBetweenAttempts
  <1>1. PopupInv => FreeBetweenAttempts
    BY DEF PopupInv, TransferInv, FreeBetweenAttempts
  <1>2. QED
    BY <1>1, PopupInvariant, PTL

\* Only an answer can leak, and the running transfer it belongs to is the one of SENDING
\* on the active pair, whose flow control the forward filter keeps from the head unit.
LEMMA AnswerStep ==
  ASSUME PopupInv, NoAnswerLeaks, [PopupNext]_popupVars
  PROVE  NoAnswerLeaks'
  <1>1. CASE Answer
    <2>1. leaf = "sending" /\ wire.pair = transport
      BY <1>1 DEF Answer, PopupInv, TransferInv
    <2>2. QED
      BY <1>1, <2>1 DEF Answer, NoAnswerLeaks
  <1>2. CASE ~Answer
    BY <1>2 DEF NoAnswerLeaks, PopupNext, Tick, Time, Show, IdleTick, TriggerTick, SendingTick,
                HoldTick, MediaFrame, TextFrame, TransferEnds, TriggerAges, TriggerSettles,
                HoldEnds, popupVars, heard
  <1>3. QED
    BY <1>1, <1>2

\* The head unit never hears the cluster's flow control for a transfer of ours, for any
\* texts, pairs and counts.
THEOREM NoAnswerLeaksCorrect == PopupSpec => []NoAnswerLeaks
  <1>1. PopupInit => NoAnswerLeaks
    BY DEF PopupInit, NoAnswerLeaks
  <1>2. QED
    BY <1>1, AnswerStep, PopupInvariant, PTL DEF PopupSpec

\* Only the tick of TRIGGER starts a transfer.
LEMMA StartIsTriggerTick ==
  ASSUME [PopupNext]_popupVars, ~running, running'
  PROVE  TriggerTick /\ MayStart
  <1>1. TriggerTick
    BY DEF PopupNext, Tick, Time, Show, IdleTick, SendingTick, HoldTick, MediaFrame, TextFrame, Answer,
           TransferEnds, Service!End, TriggerAges, TriggerSettles, HoldEnds, popupVars, transmitter, heard
  <1>2. QED
    BY <1>1 DEF TriggerTick, transmitter

\* A transfer starts only after all trigger frames of its own request were offered.
THEOREM AttentionFirstCorrect == PopupSpec => AttentionFirst
  <1>1. PopupInv /\ [PopupNext]_popupVars => [~running /\ running' => triggers = TriggerFrames]_popupVars
    <2> SUFFICES ASSUME PopupInv, [PopupNext]_popupVars, ~running, running'
                 PROVE  triggers = TriggerFrames
      OBVIOUS
    <2>1. leaf = "trigger" /\ ctx.remaining = 0
      BY StartIsTriggerTick DEF TriggerTick, MayStart
    <2>2. triggers \in 0 .. TriggerFrames /\ triggers + ctx.remaining = TriggerFrames
      BY <2>1 DEF PopupInv, PopupTypeInv, PopupTypeOK, Offered
    <2>3. QED
      BY <2>1, <2>2, CountAssumption
  <1>2. QED
    BY <1>1, PopupInvariant, PTL DEF PopupSpec, AttentionFirst

\* No step changes the pair or the forced type under a running transfer.
THEOREM StrategyStableCorrect == PopupSpec => StrategyStable
  <1>1. PopupInv /\ [PopupNext]_popupVars => [running /\ running' => UNCHANGED <<transport, owned>>]_popupVars
    <2> SUFFICES ASSUME PopupInv, [PopupNext]_popupVars, running, running'
                 PROVE  UNCHANGED <<transport, owned>>
      OBVIOUS
    <2>1. leaf = "sending"
      BY DEF PopupInv, TransferInv
    <2>2. QED
      BY <2>1 DEF PopupNext, Tick, Time, Show, IdleTick, TriggerTick, SendingTick, HoldTick, MediaFrame,
                  Selects, TextFrame, Answer, TransferEnds, Service!End, TriggerAges,
                  TriggerSettles, HoldEnds, popupVars, transmitter, heard
  <1>2. QED
    BY <1>1, PopupInvariant, PTL DEF PopupSpec, StrategyStable
=================================================================================
