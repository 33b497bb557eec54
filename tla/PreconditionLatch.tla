-------------------------- MODULE PreconditionLatch --------------------------
(***************************************************************************)
(* Theorems for a mode that stays as configured, because no CAN Do action  *)
(* carries one: the latch that repeats a session follows it, ONCE mode     *)
(* keeps to its retry budget, and the machine implements the promise made  *)
(* to its user.  (With such actions the latch of a session keeps following *)
(* the mode it began in.)                                                  *)
(***************************************************************************)
EXTENDS PreconditionProofs

\* No action of the configuration changes the mode.
NoModeCommands == Commands \subseteq {"cancel"}

\* A machine the mode allows: it waits for another attempt only where attempts
\* repeat, and so do the sessions the machine started by itself.
Fits(s) == /\ s.leaf = "managed" => Repeating
           /\ s.leaf = "car-start-delay" => mode = "PERSISTENT"
           /\ s.leaf \in Requested /\ s.kind \in Silent => Repeating

LatchOK == LatchFollowsSession /\ Fits(sm)

\* The inductive invariant; no caller is ever loading settings, because only a
\* mode command does.
LatchInv == LatchOK /\ \A c \in Callers : call[c] # "init"

---------------------------------------------------------------------------
(* The ways of taking a transition.                                        *)

\* Entering or leaving a session stores the latch that fits the new state.
LEMMA CrossLatch ==
  ASSUME mode \in Modes, mode' = mode, LatchOK, NEW s, Fits(s), Cross(s)
  PROVE  LatchOK'
  BY DEF Modes, LatchOK, LatchFollowsSession, Fits, Repeating, Enabled, Cross, SetEnabled

\* A transition within a session, or outside one, leaves the latch as it fits.
LEMMA WithinLatch ==
  ASSUME mode' = mode, LatchOK, NEW s, Fits(s), Within(s) \/ WithinRead(s),
         Repeating => (s.leaf \in Requested <=> sm.leaf \in Requested)
  PROVE  LatchOK'
  BY DEF LatchOK, LatchFollowsSession, Fits, Repeating, Enabled, Within, WithinRead

\* What stays changes nothing.
LEMMA StayLatch == ASSUME mode' = mode, LatchOK, Stay PROVE LatchOK'
  BY DEF LatchOK, LatchFollowsSession, Fits, Repeating, Enabled, Stay, Within

\* IDLE's enter handler finds the latch off, so it stays in IDLE.
LEMMA ToIdleLatch ==
  ASSUME mode \in Modes, mode' = mode, LatchOK, NEW b, ToIdle(b) PROVE LatchOK'
  <1>1. InIdle(b).leaf = "idle" /\ Fits(InIdle(b))
    BY IdleFields DEF Fits, Requested, Starting
  <1>2. CASE sm.leaf \in Requested
    BY <1>1, <1>2, CrossLatch DEF ToIdle
  <1>3. CASE sm.leaf \notin Requested
    <2>1. WithinRead(InIdle(b))
      BY <1>3 DEF ToIdle, LatchOK, LatchFollowsSession
    <2>2. "idle" \notin Requested
      BY DEF Requested, Starting
    <2>3. QED
      BY <1>1, <1>3, <2>1, <2>2, WithinLatch
  <1>4. QED
    BY <1>2, <1>3

\* A stop, a park where attempts repeat, and a new start attempt fit the mode.
LEMMA StoppingFits == ASSUME NEW r PROVE Fits(InStopping(r)) /\ InStopping(r).leaf \notin Requested
  BY StoppingFields DEF Fits, Requested, Starting

\* A repeating mode fits a managed session.
LEMMA ManagedFits ==
  ASSUME NEW s \in Machine, Repeating
  PROVE  Fits(InManaged(s)) /\ InManaged(s).leaf \in Requested
  BY ManagedFields DEF Fits, Requested

\* And a burst of start commands, if the session may begin by itself.
LEMMA StartBurstFits ==
  ASSUME NEW s \in Machine, mode \in Modes, s.kind \in Silent => Repeating
  PROVE  /\ Fits(InStartBurst(s))
         /\ Repeating => InStartBurst(s).leaf \in Requested
  BY StartBurstFields DEF Fits, Repeating, Modes, Requested, Starting

\* And the session a request enters.
LEMMA RequestedFits ==
  ASSUME NEW kind \in Kinds, NEW status, mode \in Modes, kind \in Silent => Repeating
  PROVE  Fits(InRequested(kind, status))
  BY RequestedFields DEF Fits, Repeating, Modes, Requested, Starting, Kinds

\* A blocked session waits, or ends and clears the latch.
LEMMA BlockLatch ==
  ASSUME sm \in Machine, sm.leaf \in Requested, mode \in Modes, mode' = mode, LatchOK, Block
  PROVE  LatchOK'
  <1>1. CASE mode = "ONCE"
    <2>1. Within(InStopping(MaxRetries)) /\ ~Repeating
      BY <1>1 DEF Block, Blocked, Repeating
    <2>2. QED
      BY <2>1, StoppingFits, WithinLatch
  <1>2. CASE mode # "ONCE"
    <2>1. Within(InManaged(sm)) /\ Repeating
      BY <1>2 DEF Block, Blocked, Repeating, Modes
    <2>2. QED
      BY <2>1, ManagedFits, WithinLatch
  <1>3. QED
    BY <1>1, <1>2

\* A session goes on as another child of the same request.
LEMMA SiblingLatch ==
  ASSUME sm \in Machine, sm.leaf \in Requested, mode' = mode, LatchOK,
         NEW leaf \in Starting \cup {"active"}, NEW s,
         s.leaf = leaf, s.kind = sm.kind, Within(s)
  PROVE  LatchOK'
  <1>1. Fits(s)
    BY DEF Fits, Starting, LatchOK
  <1>2. leaf \in Requested
    BY DEF Requested
  <1>3. QED
    BY <1>1, <1>2, WithinLatch

\* A step among the leaves outside REQUESTED leaves the latch off.
LEMMA OutsideLatch ==
  ASSUME sm.leaf \notin Requested, mode' = mode, LatchOK,
         NEW s, s.leaf \notin Requested, Within(s)
  PROVE  LatchOK'
  <1>1. Fits(s)
    BY DEF Fits, Requested
  <1>2. QED
    BY <1>1, WithinLatch

---------------------------------------------------------------------------
(* Event handlers.                                                         *)

\* The user's button keeps the latch.
LEMMA OnToggleLatch ==
  ASSUME sm \in Machine, mode \in Modes, mode' = mode, LatchOK, OnToggle PROVE LatchOK'
  <1>1. Fits(InRequested("MANUAL", platform.status)) /\ Fits(InStopping(0))
    BY RequestedFits, StoppingFits, Values DEF Silent
  <1>2. QED
    BY <1>1, CrossLatch, StayLatch DEF OnToggle

\* The car getting ready keeps it.
LEMMA OnReadyLatch ==
  ASSUME sm \in Machine, mode \in Modes, mode' = mode, LatchOK, OnReady PROVE LatchOK'
  <1> DEFINE i == [sm EXCEPT !.dwell = 0]
  <1> DEFINE d == [sm EXCEPT !.leaf = "car-start-delay", !.dwell = 0]
  <1>1. i.leaf = sm.leaf /\ i.kind = sm.kind
    BY SMT DEF Machine
  <1>2. d.leaf = "car-start-delay" /\ d.kind = sm.kind
    BY SMT DEF Machine
  <1> HIDE DEF i, d
  <1>3. \/ sm.leaf = "idle" /\ Within(i)
        \/ sm.leaf = "managed" /\ mode = "PERSISTENT" /\ Within(d)
        \/ Stay
    BY DEF OnReady, i, d
  <1>4. CASE sm.leaf = "idle" /\ Within(i)
    BY <1>1, <1>4, OutsideLatch DEF Requested, Starting
  <1>5. CASE sm.leaf = "managed" /\ mode = "PERSISTENT" /\ Within(d)
    <2>1. Fits(d) /\ d.leaf \in Requested /\ sm.leaf \in Requested
      BY <1>2, <1>5 DEF Fits, Repeating, Requested
    <2>2. QED
      BY <1>5, <2>1, WithinLatch
  <1>6. QED
    BY <1>3, <1>4, <1>5, StayLatch

\* The car switched off keeps it.
LEMMA OnNotReadyLatch ==
  ASSUME sm \in Machine, mode \in Modes, mode' = mode, LatchOK, OnNotReady PROVE LatchOK'
  <1>1. \/ sm.leaf \in Requested /\ mode = "PERSISTENT" /\ WithinRead(InManaged(sm))
        \/ ToIdle(TRUE) \/ ToIdle(FALSE) \/ Stay
    BY DEF OnNotReady
  <1>2. ASSUME sm.leaf \in Requested, mode = "PERSISTENT", WithinRead(InManaged(sm)) PROVE LatchOK'
    <2>1. Fits(InManaged(sm)) /\ InManaged(sm).leaf \in Requested
      BY <1>2, ManagedFits DEF Repeating
    <2>2. QED
      BY <1>2, <2>1, WithinLatch
  <1>3. QED
    BY <1>1, <1>2, ToIdleLatch, StayLatch

\* With the latch off an ended session is stopped; with it on, parked.
LEMMA ParkLatch ==
  ASSUME sm \in Machine, sm.leaf \in Requested, mode \in Modes, mode' = mode, LatchOK, NEW r,
         IF Enabled THEN WithinRead(InManaged(sm)) ELSE Cross(InStopping(r))
  PROVE  LatchOK'
  <1>1. CASE Enabled
    <2>1. Repeating
      BY <1>1 DEF LatchOK, LatchFollowsSession, Enabled, Repeating
    <2>2. QED
      BY <1>1, <2>1, ManagedFits, WithinLatch
  <1>2. CASE ~Enabled
    BY <1>2, StoppingFits, CrossLatch
  <1>3. QED
    BY <1>1, <1>2

\* A status of the battery management keeps it.
LEMMA OnStatusLatch ==
  ASSUME sm \in Machine, mode \in Modes, mode' = mode, LatchOK,
         NEW status \in Statuses \ {"UNKNOWN"}, OnStatus(status)
  PROVE  LatchOK'
  <1> DEFINE bmu == InRequested("BMU_RESTART", status)
  <1>r. ASSUME Repeating PROVE Fits(bmu)
    BY <1>r, RequestedFits, Values
  <1> HIDE DEF bmu
  <1>1. CASE sm.leaf = "active"
    <2>0. sm.leaf \in Requested /\ OnStatusActive(status)
      BY <1>1 DEF OnStatus, Requested
    <2>1. CASE status = "STARTED"
      BY <2>0, <2>1, StayLatch DEF OnStatusActive
    <2>2. CASE status = "STARTING"
      <3> DEFINE t == [InSibling("wait-started") EXCEPT !.attempt = 0]
      <3>1. InSibling("wait-started") \in Machine
        BY SiblingIsMachine, Values
      <3>2. t.leaf = "wait-started" /\ t.kind = sm.kind
        BY <3>1, SiblingFields, SMT DEF Machine
      <3> HIDE DEF t
      <3>3. (Repeating /\ Cross(bmu)) \/ Within(t)
        BY <2>0, <2>2 DEF OnStatusActive, t, bmu
      <3>4. QED
        BY <1>r, <2>0, <3>2, <3>3, CrossLatch, SiblingLatch DEF Starting
    <2>3. CASE status = "IDLE"
      BY <2>0, <2>3, ParkLatch DEF OnStatusActive
    <2>4. QED
      BY <2>1, <2>2, <2>3 DEF Statuses
  <1>2. CASE sm.leaf \in {"wait-starting", "wait-started"}
    <2>1. Within(InSibling("wait-started")) \/ Within(InSibling("active")) \/ Stay
      BY <1>2 DEF OnStatus
    <2>2. sm.leaf \in Requested
      BY <1>2 DEF Requested, Starting
    <2>3. QED
      BY <2>1, <2>2, SiblingFields, SiblingLatch, StayLatch DEF Starting
  <1>3. CASE sm.leaf = "managed"
    <2>1. Cross(bmu) \/ Stay
      BY <1>3 DEF OnStatus, bmu
    <2>2. Repeating
      BY <1>3 DEF LatchOK, Fits
    <2>3. QED
      BY <1>r, <2>1, <2>2, CrossLatch, StayLatch
  <1>4. CASE sm.leaf \notin {"active", "wait-starting", "wait-started", "managed"}
    <2>1. ToIdle(FALSE) \/ Stay
      BY <1>4 DEF OnStatus
    <2>2. QED
      BY <2>1, ToIdleLatch, StayLatch
  <1>5. QED
    BY <1>1, <1>2, <1>3, <1>4

---------------------------------------------------------------------------
(* Tick handlers.                                                          *)

\* A start that is not answered in time keeps it.
LEMMA StartTimeoutLatch ==
  ASSUME sm \in Machine, sm.leaf \in Starting, mode \in Modes, mode' = mode, LatchOK,
         StartTimeout
  PROVE  LatchOK'
  <1> DEFINE t == [sm EXCEPT !.retries = @ + 1]
  <1>0. sm.leaf \in Requested
    BY DEF Requested
  <1>1. CASE sm.kind \in Silent
    <2>1. Within(InManaged(sm)) /\ Repeating
      BY <1>0, <1>1 DEF StartTimeout, LatchOK, Fits
    <2>2. QED
      BY <1>0, <2>1, ManagedFits, WithinLatch
  <1>2. CASE sm.kind \notin Silent /\ sm.retries < MaxRetries
    <2>1. sm.retries + 1 \in 0 .. MaxRetries
      BY <1>2, Thresholds, SMT DEF Machine
    <2>2. [sm EXCEPT !.retries = sm.retries + 1] \in Machine
      BY <2>1, Zenon DEF Machine
    <2>3. t.kind = sm.kind
      BY SMT DEF Machine
    <2>4. t \in Machine
      BY <2>2
    <2> HIDE DEF t
    <2>5. Within(InStartBurst(t))
      BY <1>2 DEF StartTimeout, t
    <2>6. QED
      BY <1>0, <1>2, <2>3, <2>4, <2>5, StartBurstFits, WithinLatch
  <1>3. CASE sm.kind \notin Silent /\ ~(sm.retries < MaxRetries)
    BY <1>0, <1>3, ParkLatch DEF StartTimeout
  <1>4. QED
    BY <1>1, <1>2, <1>3

\* The tick of a leaf keeps it.
LEMMA TickLeafLatch ==
  ASSUME sm \in Machine, mode \in Modes, mode' = mode, LatchOK, TickLeaf PROVE LatchOK'
  <1>1. CASE sm.leaf = "idle"
    <2> DEFINE t == [sm EXCEPT !.notice = FALSE]
    <2>1. t.leaf = sm.leaf
      BY SMT DEF Machine
    <2>2. IdleTick
      BY <1>1 DEF TickLeaf
    <2> HIDE DEF t
    <2>3. Within(t) \/ Stay
      BY <2>2 DEF IdleTick, t
    <2>4. QED
      BY <1>1, <2>1, <2>3, OutsideLatch, StayLatch DEF Requested, Starting
  <1>2. CASE sm.leaf \in {"car-start-delay", "managed"}
    <2>1. Repeating
      BY <1>2 DEF LatchOK, Fits, Repeating
    <2>2. /\ Fits(InRequested("CAR_START", platform.status))
          /\ Fits(InRequested("PERIODIC", platform.status))
      BY <2>1, RequestedFits, Values
    <2>3. \/ Cross(InRequested("CAR_START", platform.status))
          \/ Cross(InRequested("PERIODIC", platform.status))
          \/ Stay
      BY <1>2 DEF TickLeaf, CarStartDelayTick, ManagedTick
    <2>4. QED
      BY <2>2, <2>3, CrossLatch, StayLatch
  <1>3. CASE sm.leaf = "start-burst"
    <2> DEFINE t == [sm EXCEPT !.ticks = @ + 1]
    <2>1. t.leaf = "start-burst" /\ t.kind = sm.kind
      BY <1>3, SMT DEF Machine
    <2>2. StartBurstTick
      BY <1>3 DEF TickLeaf
    <2> HIDE DEF t
    <2>3. \/ Block \/ Within(t)
          \/ \E leaf \in {"active", "wait-started", "wait-starting"} : Within(InSibling(leaf))
      BY <2>2 DEF StartBurstTick, t
    <2>4. sm.leaf \in Requested
      BY <1>3 DEF Requested, Starting
    <2>5. ASSUME NEW leaf \in {"active", "wait-started", "wait-starting"},
                 Within(InSibling(leaf))
          PROVE  LatchOK'
      BY <2>4, <2>5, SiblingFields, SiblingLatch DEF Starting
    <2>6. QED
      BY <2>1, <2>3, <2>4, <2>5, BlockLatch, SiblingLatch DEF Starting
  <1>4. CASE sm.leaf \in {"wait-starting", "wait-started"}
    <2>1. WaitStartingTick \/ WaitStartedTick
      BY <1>4 DEF TickLeaf
    <2>2. Block \/ Within(InSibling("active")) \/ StartTimeout \/ Stay
      BY <2>1 DEF WaitStartingTick, WaitStartedTick
    <2>3. sm.leaf \in Starting /\ sm.leaf \in Requested
      BY <1>4 DEF Requested, Starting
    <2>4. QED
      BY <2>2, <2>3, BlockLatch, SiblingFields, SiblingLatch, StartTimeoutLatch, StayLatch
  <1>5. CASE sm.leaf = "active"
    BY <1>5, StayLatch DEF TickLeaf
  <1>6. CASE sm.leaf = "stop-burst"
    <2> DEFINE t == [sm EXCEPT !.ticks = @ + 1]
    <2>1. t.leaf = "stop-burst"
      BY <1>6, SMT DEF Machine
    <2>2. StopBurstTick
      BY <1>6 DEF TickLeaf
    <2> HIDE DEF t
    <2>3. Within(t) \/ Within(InSibling("wait-stopped")) \/ ToIdle(FALSE)
      BY <2>2 DEF StopBurstTick, t
    <2>4. QED
      BY <1>6, <2>1, <2>3, SiblingFields, OutsideLatch, ToIdleLatch DEF Requested, Starting
  <1>7. CASE sm.leaf = "wait-stopped"
    <2> DEFINE t == [InSibling("stop-burst") EXCEPT !.retries = @ + 1, !.attempt = 0]
    <2>1. InSibling("stop-burst") \in Machine
      BY SiblingIsMachine, Values
    <2>2. t.leaf = "stop-burst"
      BY <2>1, SiblingFields, SMT DEF Machine
    <2>3. WaitStoppedTick
      BY <1>7 DEF TickLeaf
    <2> HIDE DEF t
    <2>4. Within(t) \/ ToIdle(FALSE) \/ Stay
      BY <2>3 DEF WaitStoppedTick, t
    <2>5. QED
      BY <1>7, <2>2, <2>4, OutsideLatch, ToIdleLatch, StayLatch DEF Requested, Starting
  <1>8. QED
    BY <1>1, <1>2, <1>3, <1>4, <1>5, <1>6, <1>7
       DEF Machine, Leaves, Requested, Starting, Stopping

\* A step that touches neither the mode, the machine nor the latches.
LEMMA IdleStepLatch ==
  ASSUME LatchOK, UNCHANGED <<mode, sm, continuous, desired>> PROVE LatchOK'
  BY DEF LatchOK, LatchFollowsSession, Fits, Repeating, Enabled

\* Time that passes keeps it.
LEMMA PassLatch == ASSUME sm \in Machine, LatchOK, Pass PROVE LatchOK'
  <1>1. /\ sm'.leaf = sm.leaf /\ sm'.kind = sm.kind
        /\ UNCHANGED <<mode, continuous, desired>>
    BY PassKeepsLeaf DEF Pass, latchVars
  <1>2. QED
    BY <1>1 DEF LatchOK, LatchFollowsSession, Fits, Repeating, Enabled

\* A restart restores MANAGED exactly with the latch.
LEMMA BootedLatch ==
  ASSUME NEW m \in Modes, NEW stored \in BOOLEAN
  PROVE  /\ m = "PERSISTENT" /\ stored => Booted(m, stored).leaf = "managed"
         /\ ~(m = "PERSISTENT" /\ stored) => Booted(m, stored).leaf = "idle"
  <1>1. CASE m = "PERSISTENT" /\ stored
    <2> DEFINE s == [Fresh EXCEPT !.attempt = Long]
    <2>1. s \in Machine
      BY FreshIsMachine, Values, Zenon DEF Machine
    <2> HIDE DEF s
    <2>2. Booted(m, stored) = InManaged(s)
      BY <1>1 DEF Booted, s
    <2>3. QED
      BY <1>1, <2>1, <2>2, ManagedFields
  <1>2. CASE ~(m = "PERSISTENT" /\ stored)
    <2>1. [Fresh EXCEPT !.dwell = Long].leaf = "idle"
      BY SMT DEF Fresh
    <2>2. QED
      BY <1>2, <2>1, Zenon DEF Booted
  <1>3. QED
    BY <1>1, <1>2

\* It fits when the program starts.
LEMMA InitLatch == ASSUME Init PROVE LatchInv
  <1>1. mode \in Modes /\ desired \in BOOLEAN
    BY ConfigAssumption DEF Init
  <1>2. /\ mode = "PERSISTENT" /\ desired => sm.leaf = "managed"
        /\ ~(mode = "PERSISTENT" /\ desired) => sm.leaf = "idle"
    BY <1>1, BootedLatch DEF Init
  <1>3. LatchOK
    BY <1>1, <1>2 DEF Init, LatchOK, LatchFollowsSession, Fits, Repeating, Enabled, Requested,
                      Starting, Modes
  <1>4. QED
    BY <1>3 DEF LatchInv, Init

\* And after a reboot, with what flash holds.
LEMMA RebootLatch == ASSUME Reboot PROVE LatchInv'
  <1>1. PICK m \in ConfigModes, stored \in BOOLEAN :
          /\ mode' = m /\ sm' = Booted(m, stored) /\ desired' = (m = "PERSISTENT" /\ stored)
          /\ continuous' = FALSE /\ call' = [c \in Callers |-> "none"]
    BY DEF Reboot
  <1>2. m \in Modes
    BY ConfigAssumption
  <1>3. /\ mode' = "PERSISTENT" /\ desired' => sm'.leaf = "managed"
        /\ ~(mode' = "PERSISTENT" /\ desired') => sm'.leaf = "idle"
    BY <1>1, <1>2, BootedLatch
  <1>4. LatchOK'
    BY <1>1, <1>2, <1>3 DEF LatchOK, LatchFollowsSession, Fits, Repeating, Enabled, Requested,
                            Starting, Modes
  <1>5. QED
    BY <1>1, <1>4 DEF LatchInv

---------------------------------------------------------------------------
(* The latch follows the session.                                          *)

\* Every step keeps it.
LEMMA LatchStep ==
  ASSUME NoModeCommands, TypeOK, LatchInv, [Next]_vars
  PROVE  LatchInv'
  <1>t. sm \in Machine /\ mode \in Modes /\ LatchOK /\ (\A c \in Callers : call[c] # "init")
    BY DEF TypeOK, LatchInv
  <1>1. CASE TickGlobal
    <2>1. mode' = mode /\ call' = call /\ (OnToggle \/ Stay)
      BY <1>1 DEF TickGlobal
    <2>2. QED
      BY <1>t, <2>1, OnToggleLatch, StayLatch DEF LatchInv
  <1>2. CASE TickLeaf
    <2>1. mode' = mode /\ call' = call
      BY <1>2 DEF TickLeaf
    <2>2. QED
      BY <1>t, <1>2, <2>1, TickLeafLatch DEF LatchInv
  <1>3. ASSUME NEW ready \in BOOLEAN, RxPower(ready) PROVE LatchInv'
    <2>1. mode' = mode /\ call' = call /\ (OnReady \/ OnNotReady)
      BY <1>3 DEF RxPower
    <2>2. QED
      BY <1>t, <2>1, OnReadyLatch, OnNotReadyLatch DEF LatchInv
  <1>4. ASSUME NEW status \in Statuses \ {"UNKNOWN"}, RxStatus(status) PROVE LatchInv'
    <2>1. mode' = mode /\ call' = call /\ OnStatus(status)
      BY <1>4 DEF RxStatus
    <2>2. QED
      BY <1>t, <2>1, OnStatusLatch DEF LatchInv
  <1>5. ASSUME NEW isWarm \in BOOLEAN, RxTemperature(isWarm) PROVE LatchInv'
    <2>1. mode' = mode /\ call' = call /\ Stay
      BY <1>5 DEF RxTemperature
    <2>2. QED
      BY <1>t, <2>1, StayLatch DEF LatchInv
  <1>6. CASE WebToggle
    BY <1>t, <1>6, IdleStepLatch DEF WebToggle, latchVars, LatchInv
  <1>7. ASSUME NEW c \in Callers, CallBegin(c) PROVE LatchInv'
    <2>1. UNCHANGED <<mode, sm, continuous, desired>> /\ call' = [call EXCEPT ![c] = "cancel"]
      BY <1>7 DEF CallBegin, NoModeCommands, latchVars
    <2>2. \A d \in Callers : call'[d] # "init"
      BY <1>t, <2>1 DEF TypeOK
    <2>3. QED
      BY <1>t, <2>1, <2>2, IdleStepLatch DEF LatchInv
  <1>8. ASSUME NEW c \in Callers, CallInit(c) PROVE LatchInv'
    BY <1>t, <1>8 DEF CallInit
  <1>9. ASSUME NEW c \in Callers, CallToggle(c) PROVE LatchInv'
    <2>1. mode' = mode /\ OnToggle /\ call' = [call EXCEPT ![c] = "none"]
      BY <1>9 DEF CallToggle
    <2>2. \A d \in Callers : call'[d] # "init"
      BY <1>t, <2>1 DEF TypeOK
    <2>3. QED
      BY <1>t, <2>1, <2>2, OnToggleLatch DEF LatchInv
  <1>10. CASE Pass
    <2>1. call' = call
      BY <1>10 DEF Pass
    <2>2. QED
      BY <1>t, <1>10, <2>1, PassLatch DEF LatchInv
  <1>11. CASE Reboot
    BY <1>11, RebootLatch
  <1>12. CASE UNCHANGED vars
    BY <1>t, <1>12, IdleStepLatch DEF vars, LatchInv
  <1>13. QED
    BY <1>1, <1>2, <1>3, <1>4, <1>5, <1>6, <1>7, <1>8, <1>9, <1>10, <1>11, <1>12
       DEF Next, Rx, Call

\* Without commands that change the mode, the latch says in every reachable state
\* whether a session is on (precondition.c:388-700).
THEOREM LatchInvariant == ASSUME NoModeCommands PROVE Spec => []LatchInv
  <1>1. Init => LatchInv
    BY InitLatch
  <1>2. TypeOK /\ LatchInv /\ [Next]_vars => LatchInv'
    BY LatchStep
  <1>3. QED
    BY <1>1, <1>2, TypeCorrect, PTL DEF Spec

\* In a repeating mode the latch is on exactly while REQUESTED owns the session,
\* in ONCE mode never: what is restored after a power cycle is what ran before.
THEOREM LatchCorrect == ASSUME NoModeCommands PROVE Spec => []LatchFollowsSession
  <1>1. LatchInv => LatchFollowsSession
    BY DEF LatchInv, LatchOK
  <1>2. QED
    BY <1>1, LatchInvariant, PTL

\* MANAGED is reached only in the repeating modes, the relaunch delay only in
\* PERSISTENT mode.
THEOREM WaitingCorrect == ASSUME NoModeCommands PROVE Spec => []WaitingNeedsMode
  <1>1. LatchInv => WaitingNeedsMode
    BY DEF LatchInv, LatchOK, Fits, WaitingNeedsMode
  <1>2. QED
    BY <1>1, LatchInvariant, PTL

---------------------------------------------------------------------------
(* What a handler other than the toggle's may do with a session.           *)

\* It leaves the session as it is, completes a stop, or, in ONCE mode, gives up.
Follows == \/ SessionOf(sm'.leaf) = SessionOf(sm.leaf)
           \/ sm.leaf \in Stopping /\ sm'.leaf = "idle"
           \/ sm.leaf \in Requested /\ sm'.leaf \in Stopping /\ mode = "ONCE"

\* In ONCE mode it begins no request, and a new burst costs a retry.
Spends ==
  mode = "ONCE" /\ sm'.leaf \in Requested =>
    /\ sm.leaf \in Requested
    /\ \/ sm'.retries = sm.retries /\ (sm'.leaf = "start-burst" => sm.leaf = "start-burst")
       \/ sm'.retries = sm.retries + 1

Orderly == Follows /\ Spends

\* The leaves of the three parts of the tree.
LEMMA Parts ==
  /\ \A leaf \in Requested : leaf \notin Stopping /\ leaf # "idle"
  /\ \A leaf \in Stopping : leaf \notin Requested /\ leaf # "idle"
  /\ {"start-burst", "wait-starting", "wait-started", "active", "managed", "car-start-delay"}
       = Requested
  /\ {"stop-burst", "wait-stopped"} = Stopping /\ "idle" \notin Requested
  BY DEF Requested, Starting, Stopping

\* A step that changes neither leaf nor retries is orderly.
LEMMA SameOrderly == ASSUME sm'.leaf = sm.leaf, sm'.retries = sm.retries PROVE Orderly
  BY DEF Orderly, Follows, Spends

\* And so is one that stays.
LEMMA StayOrderly == ASSUME Stay \/ sm' = sm PROVE Orderly
  BY DEF Orderly, Follows, Spends, Stay, Within

\* Where an attempt repeats, whatever stays in REQUESTED is in order.
LEMMA RepeatOrderly ==
  ASSUME Repeating, sm.leaf \in Requested, sm'.leaf \in Requested PROVE Orderly
  BY DEF Orderly, Follows, Spends, SessionOf, Repeating

\* And one within a session that sends no burst.
LEMMA SiblingOrderly ==
  ASSUME sm.leaf \in Requested, sm'.leaf \in Requested \ {"start-burst"},
         sm'.retries = sm.retries
  PROVE  Orderly
  BY DEF Orderly, Follows, Spends, SessionOf

\* A session that a handler stops is a session of ONCE mode.
LEMMA GiveUpOrderly ==
  ASSUME mode \in Modes, sm.leaf \in Requested, sm'.leaf \in Stopping, mode = "ONCE"
  PROVE  Orderly
  BY Parts DEF Orderly, Follows, Spends

\* And one on the way to idle.
LEMMA StoppingOrderly ==
  ASSUME sm.leaf \in Stopping, sm'.leaf \in Stopping \cup {"idle"} PROVE Orderly
  BY Parts DEF Orderly, Follows, Spends, SessionOf

\* Outside REQUESTED the latch is off, so IDLE is where ToIdle leads.
LEMMA ToIdleOrderly ==
  ASSUME LatchOK, sm.leaf \in Stopping, NEW b, ToIdle(b) PROVE Orderly
  <1>1. sm'.leaf = "idle"
    BY ToIdleFields, Parts DEF LatchOK, LatchFollowsSession
  <1>2. QED
    BY <1>1, StoppingOrderly

\* A blocked session goes on to wait or to stop.
LEMMA BlockOrderly ==
  ASSUME sm \in Machine, mode \in Modes, sm.leaf \in Requested, Block PROVE Orderly
  <1>1. sm' = Blocked(sm)
    BY DEF Block, Within
  <1>2. CASE mode = "ONCE"
    BY <1>1, <1>2, BlockedFields, GiveUpOrderly DEF Stopping
  <1>3. CASE mode # "ONCE"
    BY <1>1, <1>3, BlockedFields, RepeatOrderly DEF Modes, Repeating, Requested
  <1>4. QED
    BY <1>2, <1>3

\* An ended session is parked where the latch is on: everywhere but in ONCE mode.
LEMMA ParkOrderly ==
  ASSUME sm \in Machine, sm.leaf \in Requested, mode \in Modes, LatchOK, NEW r,
         IF Enabled THEN WithinRead(InManaged(sm)) ELSE Cross(InStopping(r))
  PROVE  Orderly
  <1>1. CASE Enabled
    <2>1. sm'.leaf = "managed" /\ sm'.retries = sm.retries
      BY <1>1, ManagedFields DEF WithinRead
    <2>2. QED
      BY <2>1, SiblingOrderly, Parts
  <1>2. CASE ~Enabled
    <2>1. sm'.leaf = "stop-burst" /\ mode = "ONCE"
      BY <1>2, StoppingFields DEF Cross, LatchOK, LatchFollowsSession, Repeating, Modes
    <2>2. QED
      BY <2>1, GiveUpOrderly, Parts
  <1>3. QED
    BY <1>1, <1>2

\* A request that repeats stays a request.
LEMMA AgainOrderly ==
  ASSUME Repeating, sm.leaf \in Requested, NEW kind \in Kinds, NEW status,
         Cross(InRequested(kind, status))
  PROVE  Orderly
  <1>1. sm' = InRequested(kind, status) /\ mode # "ONCE"
    BY DEF Cross, Repeating
  <1>2. sm'.leaf \in Requested
    BY <1>1, RequestedFields, Parts
  <1>3. QED
    BY <1>2, RepeatOrderly

\* The car getting ready is answered in order.
LEMMA OnReadyOrderly == ASSUME sm \in Machine, LatchOK, OnReady PROVE Orderly
  <1> DEFINE i == [sm EXCEPT !.dwell = 0]
  <1> DEFINE d == [sm EXCEPT !.leaf = "car-start-delay", !.dwell = 0]
  <1>1. i.leaf = sm.leaf /\ i.retries = sm.retries
    BY SMT DEF Machine
  <1>2. d.leaf = "car-start-delay" /\ d.retries = sm.retries
    BY SMT DEF Machine
  <1> HIDE DEF i, d
  <1>3. sm' = i \/ (sm.leaf = "managed" /\ sm' = d) \/ Stay
    BY DEF OnReady, Within, i, d
  <1>4. QED
    BY <1>1, <1>2, <1>3, SameOrderly, StayOrderly, SiblingOrderly, Parts

\* Only a car that goes off ends a running session, and not in PERSISTENT mode.
LEMMA OnNotReadyOrderly ==
  ASSUME sm \in Machine, mode \in Modes, LatchOK, OnNotReady
  PROVE  \/ Orderly
         \/ sm.leaf \in Requested /\ sm'.leaf = "idle" /\ mode # "PERSISTENT"
  <1>1. CASE sm.leaf \in Requested /\ mode = "PERSISTENT"
    <2>1. Enabled
      BY <1>1 DEF LatchOK, LatchFollowsSession, Repeating
    <2>2. sm' = InManaged(sm)
      BY <1>1, <2>1, Parts DEF OnNotReady, WithinRead
    <2>3. QED
      BY <1>1, <2>2, ManagedFields, SiblingOrderly, Parts
  <1>2. CASE sm.leaf \in Requested /\ mode # "PERSISTENT"
    <2>1. ToIdle(TRUE)
      BY <1>2, Parts DEF OnNotReady
    <2>2. QED
      BY <1>2, <2>1, ToIdleFields
  <1>3. CASE sm.leaf \in Stopping
    <2>1. ToIdle(FALSE)
      BY <1>3, Parts DEF OnNotReady
    <2>2. QED
      BY <1>3, <2>1, ToIdleOrderly
  <1>4. CASE sm.leaf \notin Requested \cup Stopping
    BY <1>4, StayOrderly DEF OnNotReady
  <1>5. QED
    BY <1>1, <1>2, <1>3, <1>4

\* A status of the battery management is answered in order.
LEMMA OnStatusOrderly ==
  ASSUME sm \in Machine, mode \in Modes, LatchOK,
         NEW status \in Statuses \ {"UNKNOWN"}, OnStatus(status)
  PROVE  Orderly
  <1>1. CASE sm.leaf = "active"
    <2>0. sm.leaf \in Requested /\ OnStatusActive(status)
      BY <1>1, Parts DEF OnStatus
    <2>1. CASE status = "STARTED"
      BY <2>0, <2>1, StayOrderly DEF OnStatusActive
    <2>2. CASE status = "STARTING"
      <3> DEFINE t == [InSibling("wait-started") EXCEPT !.attempt = 0]
      <3>1. InSibling("wait-started") \in Machine
        BY SiblingIsMachine, Values
      <3>2. t.leaf = "wait-started" /\ t.retries = sm.retries
        BY <3>1, SiblingFields, SMT DEF Machine
      <3> HIDE DEF t
      <3>3. (Repeating /\ Cross(InRequested("BMU_RESTART", status))) \/ sm' = t
        BY <2>0, <2>2 DEF OnStatusActive, Within, t
      <3>4. QED
        BY <2>0, <3>2, <3>3, AgainOrderly, Values, SiblingOrderly, Parts
    <2>3. CASE status = "IDLE"
      BY <2>0, <2>3, ParkOrderly DEF OnStatusActive
    <2>4. QED
      BY <2>1, <2>2, <2>3 DEF Statuses
  <1>2. CASE sm.leaf \in {"wait-starting", "wait-started"}
    <2>1. sm' = InSibling("wait-started") \/ sm' = InSibling("active") \/ Stay
      BY <1>2 DEF OnStatus, Within
    <2>2. QED
      BY <1>2, <2>1, SiblingFields, SiblingOrderly, StayOrderly, Parts
  <1>3. CASE sm.leaf = "managed"
    <2>1. Cross(InRequested("BMU_RESTART", status)) \/ Stay
      BY <1>3 DEF OnStatus
    <2>2. Repeating
      BY <1>3 DEF LatchOK, Fits
    <2>3. QED
      BY <1>3, <2>1, <2>2, AgainOrderly, Values, StayOrderly, Parts
  <1>4. CASE sm.leaf = "wait-stopped"
    <2>1. ToIdle(FALSE) \/ Stay
      BY <1>4 DEF OnStatus
    <2>2. QED
      BY <1>4, <2>1, ToIdleOrderly, StayOrderly, Parts
  <1>5. CASE sm.leaf \notin {"active", "wait-starting", "wait-started", "managed", "wait-stopped"}
    BY <1>5, StayOrderly DEF OnStatus
  <1>6. QED
    BY <1>1, <1>2, <1>3, <1>4, <1>5

\* A start that timed out is retried at the price of one retry.
LEMMA StartTimeoutOrderly ==
  ASSUME sm \in Machine, sm.leaf \in Requested, mode \in Modes, LatchOK, StartTimeout
  PROVE  Orderly
  <1> DEFINE t == [sm EXCEPT !.retries = @ + 1]
  <1>1. CASE sm.kind \in Silent
    <2>1. sm' = InManaged(sm)
      BY <1>1 DEF StartTimeout, Within
    <2>2. QED
      BY <2>1, ManagedFields, SiblingOrderly, Parts
  <1>2. CASE sm.kind \notin Silent /\ sm.retries < MaxRetries
    <2>1. sm.retries + 1 \in 0 .. MaxRetries
      BY <1>2, Thresholds, SMT DEF Machine
    <2>2. [sm EXCEPT !.retries = sm.retries + 1] \in Machine
      BY <2>1, Zenon DEF Machine
    <2>3. t.retries = sm.retries + 1
      BY SMT DEF Machine
    <2>4. t \in Machine
      BY <2>2
    <2> HIDE DEF t
    <2>5. sm' = InStartBurst(t)
      BY <1>2 DEF StartTimeout, Within, t
    <2>6. CASE mode = "ONCE"
      <3>1. \/ sm'.leaf = "start-burst" /\ sm'.retries = sm.retries + 1
            \/ sm'.leaf = "stop-burst"
        BY <2>3, <2>4, <2>5, <2>6, StartBurstFields
      <3>2. CASE sm'.leaf = "start-burst" /\ sm'.retries = sm.retries + 1
        BY <3>2, Parts DEF Orderly, Follows, Spends, SessionOf
      <3>3. QED
        BY <2>6, <3>1, <3>2, GiveUpOrderly, Parts
    <2>7. CASE mode # "ONCE"
      <3>1. sm'.leaf \in {"start-burst", "managed"}
        BY <2>4, <2>5, <2>7, StartBurstFields
      <3>2. QED
        BY <2>7, <3>1, RepeatOrderly, Parts DEF Repeating, Modes
    <2>8. QED
      BY <2>6, <2>7
  <1>3. CASE sm.kind \notin Silent /\ ~(sm.retries < MaxRetries)
    BY <1>3, ParkOrderly DEF StartTimeout
  <1>4. QED
    BY <1>1, <1>2, <1>3

\* The tick of a leaf goes on in order.
LEMMA TickLeafOrderly ==
  ASSUME sm \in Machine, mode \in Modes, LatchOK, TickLeaf PROVE Orderly
  <1>1. CASE sm.leaf = "idle"
    <2> DEFINE t == [sm EXCEPT !.notice = FALSE]
    <2>1. t.leaf = sm.leaf /\ t.retries = sm.retries
      BY SMT DEF Machine
    <2>2. IdleTick
      BY <1>1 DEF TickLeaf
    <2> HIDE DEF t
    <2>3. sm' = t \/ Stay
      BY <2>2 DEF IdleTick, Within, t
    <2>4. QED
      BY <2>1, <2>3, SameOrderly, StayOrderly
  <1>2. CASE sm.leaf \in {"car-start-delay", "managed"}
    <2>1. Repeating
      BY <1>2 DEF LatchOK, Fits, Repeating
    <2>2. \/ Cross(InRequested("CAR_START", platform.status))
          \/ Cross(InRequested("PERIODIC", platform.status))
          \/ Stay
      BY <1>2 DEF TickLeaf, CarStartDelayTick, ManagedTick
    <2>3. QED
      BY <1>2, <2>1, <2>2, AgainOrderly, StayOrderly, Values, Parts
  <1>3. CASE sm.leaf = "start-burst"
    <2> DEFINE t == [sm EXCEPT !.ticks = @ + 1]
    <2>1. t.leaf = sm.leaf /\ t.retries = sm.retries
      BY SMT DEF Machine
    <2>2. StartBurstTick
      BY <1>3 DEF TickLeaf
    <2> HIDE DEF t
    <2>3. \/ Block \/ sm' = t
          \/ \E leaf \in {"active", "wait-started", "wait-starting"} : sm' = InSibling(leaf)
      BY <2>2 DEF StartBurstTick, Within, t
    <2>4. QED
      BY <1>3, <2>1, <2>3, BlockOrderly, SameOrderly, SiblingFields, SiblingOrderly, Parts
  <1>4. CASE sm.leaf \in {"wait-starting", "wait-started"}
    <2>1. WaitStartingTick \/ WaitStartedTick
      BY <1>4 DEF TickLeaf
    <2>2. Block \/ sm' = InSibling("active") \/ StartTimeout \/ Stay
      BY <2>1 DEF WaitStartingTick, WaitStartedTick, Within
    <2>3. QED
      BY <1>4, <2>2, BlockOrderly, SiblingFields, SiblingOrderly, StartTimeoutOrderly,
         StayOrderly, Parts
  <1>5. CASE sm.leaf = "active"
    BY <1>5, StayOrderly DEF TickLeaf
  <1>6. CASE sm.leaf = "stop-burst"
    <2> DEFINE t == [sm EXCEPT !.ticks = @ + 1]
    <2>1. t.leaf = "stop-burst"
      BY <1>6, SMT DEF Machine
    <2>2. StopBurstTick
      BY <1>6 DEF TickLeaf
    <2> HIDE DEF t
    <2>3. sm' = t \/ sm' = InSibling("wait-stopped") \/ ToIdle(FALSE)
      BY <2>2 DEF StopBurstTick, Within, t
    <2>4. QED
      BY <1>6, <2>1, <2>3, SiblingFields, StoppingOrderly, ToIdleOrderly, Parts
  <1>7. CASE sm.leaf = "wait-stopped"
    <2> DEFINE t == [InSibling("stop-burst") EXCEPT !.retries = @ + 1, !.attempt = 0]
    <2>1. InSibling("stop-burst") \in Machine
      BY SiblingIsMachine, Values
    <2>2. t.leaf = "stop-burst"
      BY <2>1, SiblingFields, SMT DEF Machine
    <2>3. WaitStoppedTick
      BY <1>7 DEF TickLeaf
    <2> HIDE DEF t
    <2>4. sm' = t \/ ToIdle(FALSE) \/ Stay
      BY <2>3 DEF WaitStoppedTick, Within, t
    <2>5. QED
      BY <1>7, <2>2, <2>4, StoppingOrderly, ToIdleOrderly, StayOrderly, Parts
  <1>8. QED
    BY <1>1, <1>2, <1>3, <1>4, <1>5, <1>6, <1>7
       DEF Machine, Leaves, Requested, Starting, Stopping

---------------------------------------------------------------------------
(* The retry budget of ONCE mode.                                          *)

\* A request of ONCE mode has begun at most one burst more than it has spent
\* retries.  OnceRetryBudget says only how far that goes: which retry the session
\* is at is what makes it inductive.
BudgetInv == mode = "ONCE" /\ sm.leaf \in Requested => bursts <= sm.retries + 1

\* A burst is noted at most once a step, and only on entering START_BURST.
LEMMA NoteBurstCount ==
  ASSUME NEW base \in Nat, NoteBurst(base)
  PROVE  /\ bursts' \in Nat /\ bursts' <= base + 1
         /\ (sm'.leaf = "start-burst" => sm.leaf = "start-burst") => bursts' = base
  BY Values, Thresholds, SMT DEF NoteBurst, Older

\* An orderly step pays for each burst with a retry.
LEMMA OrderlyBudget ==
  ASSUME TypeOK, TypeOK', BudgetInv, mode' = mode, Orderly,
         NoteBurst(bursts) \/ bursts' = bursts
  PROVE  BudgetInv'
  <1> SUFFICES ASSUME mode = "ONCE", sm'.leaf \in Requested PROVE bursts' <= sm'.retries + 1
    BY DEF BudgetInv
  <1>1. bursts \in Nat /\ sm.retries \in Nat /\ sm'.retries \in Nat
    BY Values, Thresholds, SMT DEF TypeOK, Machine
  <1>2. bursts <= sm.retries + 1
    BY DEF Orderly, Spends, BudgetInv
  <1>3. CASE sm'.retries = sm.retries /\ (sm'.leaf = "start-burst" => sm.leaf = "start-burst")
    <2>1. bursts' = bursts
      BY <1>1, <1>3, NoteBurstCount
    <2>2. QED
      BY <1>2, <1>3, <2>1
  <1>4. CASE sm'.retries = sm.retries + 1
    <2>1. bursts' \in Nat /\ bursts' <= bursts + 1
      BY <1>1, NoteBurstCount, SMT
    <2>2. QED
      BY <1>1, <1>2, <1>4, <2>1, SMT
  <1>5. QED
    BY <1>3, <1>4 DEF Orderly, Spends

\* A press outside REQUESTED starts the count anew; in REQUESTED it can only stop.
LEMMA OnToggleBudget ==
  ASSUME TypeOK, BudgetInv, mode' = mode, OnToggle, NoteToggle PROVE BudgetInv'
  <1> SUFFICES ASSUME mode = "ONCE", sm'.leaf \in Requested PROVE bursts' <= sm'.retries + 1
    BY DEF BudgetInv
  <1>1. CASE sm.leaf \notin Requested
    <2>1. sm' = InRequested("MANUAL", platform.status) /\ NoteBurst(0)
      BY <1>1 DEF OnToggle, NoteToggle, Cross
    <2>2. sm'.retries = 0
      BY <2>1, RequestedFields, Values, Parts
    <2>3. bursts' \in Nat /\ bursts' <= 0 + 1
      BY <2>1, NoteBurstCount
    <2>4. QED
      BY <2>2, <2>3, SMT
  <1>2. CASE sm.leaf \in Requested
    <2>1. sm' = sm /\ NoteBurst(bursts)
      BY <1>2, StoppingFields, Parts DEF OnToggle, NoteToggle, Cross, Stay, Within
    <2>2. bursts \in Nat
      BY Values, Thresholds, SMT DEF TypeOK
    <2>3. bursts' = bursts
      BY <2>1, <2>2, NoteBurstCount
    <2>4. QED
      BY <2>1, <2>3 DEF BudgetInv
  <1>3. QED
    BY <1>1, <1>2

\* A step that leaves the mode, the leaf, its retries and the count.
LEMMA SameBudget ==
  ASSUME BudgetInv, UNCHANGED <<mode, bursts>>, sm'.leaf = sm.leaf, sm'.retries = sm.retries
  PROVE  BudgetInv'
  BY DEF BudgetInv

\* Every step keeps the bursts within the retries.
LEMMA BudgetStep ==
  ASSUME NoModeCommands, TypeOK, TypeOK', LatchInv, BudgetInv, [Next]_vars
  PROVE  BudgetInv'
  <1>t. sm \in Machine /\ mode \in Modes /\ LatchOK
    BY DEF TypeOK, LatchInv
  <1>1. CASE TickGlobal
    <2>1. mode' = mode
      BY <1>1 DEF TickGlobal
    <2>2. CASE OnToggle /\ NoteToggle
      BY <2>1, <2>2, OnToggleBudget
    <2>3. CASE Stay /\ bursts' = bursts
      BY <2>1, <2>3, SameBudget DEF Stay, Within
    <2>4. QED
      BY <1>1, <2>2, <2>3 DEF TickGlobal, histVars
  <1>2. CASE TickLeaf
    <2>1. mode' = mode /\ NoteBurst(bursts)
      BY <1>2 DEF TickLeaf
    <2>2. QED
      BY <1>t, <1>2, <2>1, TickLeafOrderly, OrderlyBudget
  <1>3. ASSUME NEW ready \in BOOLEAN, RxPower(ready) PROVE BudgetInv'
    <2>1. mode' = mode /\ bursts' = bursts /\ (OnReady \/ OnNotReady)
      BY <1>3 DEF RxPower
    <2>2. CASE Orderly
      BY <2>1, <2>2, OrderlyBudget
    <2>3. CASE sm'.leaf = "idle"
      BY <2>3, Parts DEF BudgetInv
    <2>4. QED
      BY <1>t, <2>1, <2>2, <2>3, OnReadyOrderly, OnNotReadyOrderly
  <1>4. ASSUME NEW status \in Statuses \ {"UNKNOWN"}, RxStatus(status) PROVE BudgetInv'
    <2>1. mode' = mode /\ NoteBurst(bursts) /\ OnStatus(status)
      BY <1>4 DEF RxStatus
    <2>2. QED
      BY <1>t, <2>1, OnStatusOrderly, OrderlyBudget
  <1>5. ASSUME NEW isWarm \in BOOLEAN, RxTemperature(isWarm) PROVE BudgetInv'
    BY <1>5, SameBudget DEF RxTemperature, histVars, Stay, Within
  <1>6. CASE WebToggle
    BY <1>6, SameBudget DEF WebToggle, histVars
  <1>7. ASSUME NEW c \in Callers, CallBegin(c) PROVE BudgetInv'
    <2>1. UNCHANGED <<mode, sm, bursts>>
      BY <1>7 DEF CallBegin, NoModeCommands, histVars
    <2>2. QED
      BY <2>1, SameBudget
  <1>8. ASSUME NEW c \in Callers, CallInit(c) PROVE BudgetInv'
    BY <1>8, SameBudget DEF CallInit, histVars
  <1>9. ASSUME NEW c \in Callers, CallToggle(c) PROVE BudgetInv'
    BY <1>9, OnToggleBudget DEF CallToggle
  <1>10. CASE Pass
    <2>1. UNCHANGED <<mode, bursts>>
      BY <1>10 DEF Pass
    <2>2. QED
      BY <1>t, <1>10, <2>1, PassKeepsLeaf, SameBudget
  <1>11. CASE Reboot
    <2>1. bursts' = 0
      BY <1>11 DEF Reboot
    <2>2. QED
      BY <2>1, SMT DEF BudgetInv, TypeOK, Machine
  <1>12. CASE UNCHANGED vars
    BY <1>12, SameBudget DEF vars
  <1>13. QED
    BY <1>1, <1>2, <1>3, <1>4, <1>5, <1>6, <1>7, <1>8, <1>9, <1>10, <1>11, <1>12
       DEF Next, Rx, Call

\* ONCE mode spends one retry budget on a request, however often the car falls
\* back from started to starting, and whatever blocks or delays an attempt.
THEOREM BudgetCorrect == ASSUME NoModeCommands PROVE Spec => []OnceRetryBudget
  <1>1. TypeOK /\ Init => BudgetInv
    BY SMT DEF Init, BudgetInv, TypeOK, Machine
  <1>2. TypeOK /\ TypeOK' /\ LatchInv /\ BudgetInv /\ [Next]_vars => BudgetInv'
    BY BudgetStep
  <1>3. TypeOK /\ BudgetInv => OnceRetryBudget
    BY Values, Thresholds, SMT DEF BudgetInv, OnceRetryBudget, TypeOK, Machine
  <1>4. QED
    BY <1>1, <1>2, <1>3, TypeCorrect, LatchInvariant, PTL DEF Spec

---------------------------------------------------------------------------
(* The machine implements the promise made to its user, where no action    *)
(* drives it.  (A cancel may start a session, see CancelNeverStarts, and   *)
(* the promise says it does not.)                                          *)

NoCommands == Commands = {}

\* No caller is in precondition_action_execute.
NoCalls == \A c \in Callers : call[c] = "none"

\* Without commands there is never a call under way.
LEMMA NoCallStep ==
  ASSUME NoCommands, NoCalls, [Next]_vars
  PROVE  NoCalls' /\ ~Call
  <1>1. ~Call
    BY DEF NoCommands, NoCalls, Call, CallBegin, CallInit, CallToggle
  <1>2. call' = call \/ call' = [c \in Callers |-> "none"]
    BY <1>1 DEF Next, Rx, TickGlobal, TickLeaf, RxPower, RxStatus, RxTemperature, WebToggle,
                Pass, Reboot, vars
  <1>3. QED
    BY <1>1, <1>2 DEF NoCalls

\* What an orderly handler does is a step the promise allows to everybody else.
LEMMA OrderlyServes ==
  ASSUME Orderly, mode' = mode, cause' \in {"web", "call", "car", "tick", "time"}
  PROVE  Session!Others
  BY Parts DEF Orderly, Follows, Session!Others, SessionOf

\* The button does to the session what the abstract user does.
LEMMA OnToggleServes ==
  ASSUME sm \in Machine, mode \in Modes, OnToggle, mode' = mode, cause' = "user"
  PROVE  Session!User
  <1>1. CASE sm.leaf \notin Requested
    <2>1. sm' = InRequested("MANUAL", platform.status)
      BY <1>1 DEF OnToggle, Cross
    <2>2. \/ sm'.leaf \in Requested
          \/ sm'.leaf \in Stopping /\ mode = "ONCE"
      BY <2>1, RequestedFields, Values, Parts
    <2>3. sm.leaf \in Stopping \/ sm.leaf = "idle"
      BY <1>1 DEF Machine, Leaves
    <2>4. QED
      BY <1>1, <2>2, <2>3, Parts DEF Session!User, SessionOf
  <1>2. CASE sm.leaf \in Requested
    <2>1. sm'.leaf \in Stopping \/ sm'.leaf = sm.leaf
      BY <1>2, StoppingFields, Parts DEF OnToggle, Cross, Stay, Within
    <2>2. QED
      BY <1>2, <2>1, Parts DEF Session!User, SessionOf
  <1>3. QED
    BY <1>1, <1>2

\* A restart begins with no session, or with the one PERSISTENT mode restored.
LEMMA BootServes ==
  ASSUME NEW m \in Modes, NEW stored \in BOOLEAN
  PROVE  LET session == SessionOf(Booted(m, stored).leaf)
         IN  session \in {"off", "on"} /\ Session!Boot(m, session)
  BY BootedLatch, Parts DEF SessionOf, Session!Boot, Stopping

\* Every step is one of the abstract session, or changes nothing of it.
LEMMA SessionStep ==
  ASSUME NoCommands, TypeOK, LatchInv, NoCalls, [Next]_vars
  PROVE  [Session!Next]_(Session!vars)
  <1>t. sm \in Machine /\ mode \in Modes /\ LatchOK
    BY DEF TypeOK, LatchInv
  <1>o. ASSUME Orderly, mode' = mode, cause' \in {"web", "call", "car", "tick", "time"}
        PROVE  [Session!Next]_(Session!vars)
    BY <1>o, OrderlyServes DEF Session!Next
  <1>1. CASE TickGlobal
    <2>1. CASE toggleReq
      <3>1. OnToggle /\ mode' = mode /\ cause' = "user"
        BY <1>1, <2>1 DEF TickGlobal
      <3>2. QED
        BY <1>t, <3>1, OnToggleServes DEF Session!Next
    <2>2. CASE ~toggleReq
      <3>1. Stay /\ mode' = mode /\ cause' = "tick"
        BY <1>1, <2>2 DEF TickGlobal
      <3>2. QED
        BY <1>o, <3>1, StayOrderly
    <2>3. QED
      BY <2>1, <2>2
  <1>2. CASE TickLeaf
    <2>1. mode' = mode /\ cause' = "tick"
      BY <1>2 DEF TickLeaf
    <2>2. QED
      BY <1>t, <1>o, <1>2, <2>1, TickLeafOrderly
  <1>3. ASSUME NEW ready \in BOOLEAN, RxPower(ready) PROVE [Session!Next]_(Session!vars)
    <2>1. mode' = mode /\ cause' = "car" /\ (OnReady \/ OnNotReady)
      BY <1>3 DEF RxPower
    <2>2. CASE sm.leaf \in Requested /\ sm'.leaf = "idle" /\ mode # "PERSISTENT"
      BY <2>1, <2>2, Parts DEF Session!Next, Session!Others, SessionOf, Stopping
    <2>3. QED
      BY <1>t, <1>o, <2>1, <2>2, OnReadyOrderly, OnNotReadyOrderly
  <1>4. ASSUME NEW status \in Statuses \ {"UNKNOWN"}, RxStatus(status)
        PROVE  [Session!Next]_(Session!vars)
    <2>1. mode' = mode /\ cause' = "car" /\ OnStatus(status)
      BY <1>4 DEF RxStatus
    <2>2. QED
      BY <1>t, <1>o, <2>1, OnStatusOrderly
  <1>5. ASSUME NEW isWarm \in BOOLEAN, RxTemperature(isWarm)
        PROVE  [Session!Next]_(Session!vars)
    BY <1>o, <1>5, StayOrderly DEF RxTemperature
  <1>6. CASE WebToggle
    BY <1>o, <1>6, StayOrderly DEF WebToggle
  <1>7. CASE Pass
    <2>1. mode' = mode /\ cause' = "time"
      BY <1>7 DEF Pass
    <2>2. QED
      BY <1>t, <1>o, <1>7, <2>1, PassKeepsLeaf, SameOrderly
  <1>8. CASE Reboot
    <2>1. PICK m \in ConfigModes, stored \in BOOLEAN :
            mode' = m /\ sm' = Booted(m, stored) /\ cause' = "boot"
      BY <1>8 DEF Reboot
    <2>2. m \in Modes
      BY ConfigAssumption
    <2>3. QED
      BY <2>1, <2>2, BootServes DEF Session!Next, Session!Restart, Modes
  <1>9. CASE UNCHANGED vars
    BY <1>9 DEF vars, Session!vars
  <1>10. QED
    BY <1>1, <1>2, <1>3, <1>4, <1>5, <1>6, <1>7, <1>8, <1>9, NoCallStep DEF Next, Rx

\* Only a press, or a restart in PERSISTENT mode, starts a session; it ends by a
\* press, by giving up in ONCE mode, or by a car that goes off outside PERSISTENT.
THEOREM SessionCorrect == ASSUME NoCommands PROVE Spec => ImplementsSession
  <1>0. NoModeCommands
    BY DEF NoCommands, NoModeCommands
  <1>1. Init => NoCalls
    BY DEF Init, NoCalls
  <1>2. NoCalls /\ [Next]_vars => NoCalls'
    BY NoCallStep
  <1>3. Init => Session!Init
    <2>1. SUFFICES ASSUME Init PROVE Session!Init
      OBVIOUS
    <2>2. mode \in Modes /\ desired \in BOOLEAN /\ sm = Booted(mode, desired) /\ cause = "boot"
      BY <2>1, ConfigAssumption DEF Init
    <2>3. QED
      BY <2>2, BootServes DEF Session!Init, Modes
  <1>4. TypeOK /\ LatchInv /\ NoCalls /\ [Next]_vars => [Session!Next]_(Session!vars)
    BY SessionStep
  <1>5. Spec => []LatchInv
    BY <1>0, LatchInvariant
  <1>6. QED
    BY <1>1, <1>2, <1>3, <1>4, <1>5, TypeCorrect, PTL DEF Spec, ImplementsSession, Session!Spec
=============================================================================
