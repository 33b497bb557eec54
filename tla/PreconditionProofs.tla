------------------------- MODULE PreconditionProofs -------------------------
(***************************************************************************)
(* Theorems about the preconditioning machine, for every choice of the     *)
(* thresholds, the retry budget, the burst lengths, the commands and the   *)
(* callers: its types, and that a car that is off is not asked to start.   *)
(* The step of each handler is reduced to where the entry operators lead.  *)
(***************************************************************************)
EXTENDS PreconditionProps, TLAPS

---------------------------------------------------------------------------
(* Type correctness.                                                       *)

\* The part of the type invariant a dispatch can disturb.
MachineOK == /\ sm \in Machine
             /\ continuous \in BOOLEAN /\ desired \in BOOLEAN /\ aborted \in BOOLEAN

\* The thresholds and budgets are naturals, and Long is past all of them.
LEMMA Thresholds ==
  /\ Debounce \in Nat /\ CarStartDelay \in Nat /\ RetryAfter \in Nat
  /\ StartedTimeout \in Nat /\ NudgeInterval \in Nat
  /\ MaxRetries \in Nat \ {0} /\ StartTicks \in Nat \ {0} /\ StopTicks \in Nat \ {0}
  /\ Long \in Nat /\ Long > 0
  /\ {Debounce + 1, CarStartDelay, RetryAfter + 1, StartedTimeout + 1, NudgeInterval + 1}
       \subseteq Age
  BY TimingAssumption DEF Long, Age

\* An age stays an age when it gets older towards a threshold.
LEMMA OlderIsAge ==
  ASSUME NEW age \in Age, NEW limit \in Age
  PROVE  Older(age, limit) \in Age
  BY Thresholds DEF Older, Age

\* The values the entry operators write, each in the type of its field.
LEMMA Values ==
  /\ 0 \in Nat /\ 0 \in Age /\ Long \in Age
  /\ 0 \in 0 .. MaxRetries /\ MaxRetries \in 0 .. MaxRetries
  /\ Requested \subseteq Leaves /\ Stopping \subseteq Leaves /\ Starting \subseteq Leaves
  /\ "idle" \in Leaves /\ "managed" \in Leaves /\ "active" \in Leaves
  /\ "start-burst" \in Leaves /\ "wait-starting" \in Leaves /\ "wait-started" \in Leaves
  /\ "car-start-delay" \in Leaves /\ "stop-burst" \in Leaves /\ "wait-stopped" \in Leaves
  /\ "MANUAL" \in Kinds /\ "CAR_START" \in Kinds /\ "PERIODIC" \in Kinds
  /\ "BMU_RESTART" \in Kinds
  /\ TRUE \in BOOLEAN /\ FALSE \in BOOLEAN
  BY Thresholds DEF Age, Leaves, Requested, Starting, Stopping, Kinds

\* What each entry operator builds is a machine.
LEMMA FreshIsMachine == Fresh \in Machine
  BY Values, Zenon DEF Fresh, Machine

\* The states that transitions enter are states of the machine: idle,
LEMMA IdleIsMachine == ASSUME NEW b \in BOOLEAN PROVE InIdle(b) \in Machine
  <1>1. (b /\ mode = "CONTINUOUS") \in BOOLEAN
    OBVIOUS
  <1>2. QED
    BY <1>1, FreshIsMachine, Values, Zenon DEF InIdle, Machine

\* stopping,
LEMMA StoppingIsMachine ==
  ASSUME NEW r \in 0 .. MaxRetries PROVE InStopping(r) \in Machine
  BY FreshIsMachine, Values, Zenon DEF InStopping, Machine

\* managed,
LEMMA ManagedIsMachine == ASSUME NEW s \in Machine PROVE InManaged(s) \in Machine
  BY Values, Zenon DEF InManaged, Machine

\* another leaf of the same session,
LEMMA SiblingIsMachine ==
  ASSUME sm \in Machine, NEW leaf \in Leaves PROVE InSibling(leaf) \in Machine
  BY Values, Zenon DEF InSibling, Machine

\* a session that is blocked,
LEMMA BlockedIsMachine == ASSUME NEW s \in Machine PROVE Blocked(s) \in Machine
  BY Values, ManagedIsMachine, StoppingIsMachine, Zenon DEF Blocked

\* a burst of start commands,
LEMMA StartBurstIsMachine == ASSUME NEW s \in Machine PROVE InStartBurst(s) \in Machine
  <1> DEFINE begun == [s EXCEPT !.leaf = "start-burst", !.ticks = 0, !.attempt = 0]
  <1>1. begun \in Machine
    BY Values, Zenon DEF Machine
  <1>2. Blocked(begun) \in Machine
    BY <1>1, BlockedIsMachine
  <1>3. QED
    BY <1>1, <1>2, Zenon DEF InStartBurst

\* a new session.
LEMMA RequestedIsMachine ==
  ASSUME NEW kind \in Kinds, NEW status PROVE InRequested(kind, status) \in Machine
  <1> DEFINE s == [Fresh EXCEPT !.kind = kind]
  <1>1. s \in Machine
    BY FreshIsMachine, Zenon DEF Machine
  <1>2. [s EXCEPT !.leaf = IF status = "STARTED" THEN "active" ELSE "wait-started"] \in Machine
    BY <1>1, Values, Zenon DEF Machine
  <1>3. InStartBurst(s) \in Machine
    BY <1>1, StartBurstIsMachine
  <1>4. QED
    BY <1>2, <1>3, Zenon DEF InRequested

\* The three ways of taking a transition keep the machine and the latches typed.
LEMMA WithinOK ==
  ASSUME MachineOK, NEW s \in Machine, Within(s) \/ WithinRead(s)
  PROVE  MachineOK'
  BY DEF MachineOK, Within, WithinRead, Unready

\* Staying keeps the machine well-formed.
LEMMA StayOK == ASSUME MachineOK, Stay PROVE MachineOK'
  BY DEF MachineOK, Stay, Within

\* Entering or leaving a session keeps it well-formed.
LEMMA CrossOK ==
  ASSUME MachineOK, NEW s \in Machine, Cross(s)
  PROVE  MachineOK'
  <1>1. (s.leaf \in Requested) \in BOOLEAN /\ Unready \in BOOLEAN
    BY DEF Unready
  <1>2. desired' \in BOOLEAN /\ continuous' \in BOOLEAN /\ aborted' \in BOOLEAN
    BY <1>1 DEF MachineOK, Cross, SetEnabled
  <1>3. QED
    BY <1>2 DEF MachineOK, Cross

\* Going idle keeps it well-formed.
LEMMA ToIdleOK ==
  ASSUME MachineOK, NEW b \in BOOLEAN, ToIdle(b)
  PROVE  MachineOK'
  <1>1. [Fresh EXCEPT !.attempt = Long] \in Machine
    BY FreshIsMachine, Values, Zenon DEF Machine
  <1>2. InIdle(b) \in Machine /\ InManaged([Fresh EXCEPT !.attempt = Long]) \in Machine
    BY <1>1, IdleIsMachine, ManagedIsMachine
  <1>3. QED
    BY <1>2, CrossOK, WithinOK DEF ToIdle

\* A blocked attempt keeps the types.
LEMMA BlockOK == ASSUME MachineOK, Block PROVE MachineOK'
  BY BlockedIsMachine, WithinOK DEF Block, MachineOK

\* A burst's counter and an edge's age are written in place.
LEMMA InPlaceIsMachine ==
  ASSUME sm \in Machine
  PROVE  /\ [sm EXCEPT !.ticks = @ + 1] \in Machine
         /\ [sm EXCEPT !.dwell = 0] \in Machine
         /\ [sm EXCEPT !.notice = FALSE] \in Machine
         /\ [sm EXCEPT !.leaf = "car-start-delay", !.dwell = 0] \in Machine
  <1>1. sm.ticks + 1 \in Nat
    BY SMT DEF Machine
  <1>2. [sm EXCEPT !.ticks = sm.ticks + 1] \in Machine
    BY <1>1, Zenon DEF Machine
  <1>3. QED
    BY <1>2, Values, Zenon DEF Machine

\* Each event handler keeps the types.
LEMMA OnToggleOK == ASSUME MachineOK, OnToggle PROVE MachineOK'
  <1>1. sm \in Machine
    BY DEF MachineOK
  <1>2. InRequested("MANUAL", platform.status) \in Machine /\ InStopping(0) \in Machine
    BY RequestedIsMachine, StoppingIsMachine, Values
  <1>3. QED
    BY <1>2, CrossOK, StayOK DEF OnToggle

\* The car getting ready keeps it well-formed.
LEMMA OnReadyOK == ASSUME MachineOK, OnReady PROVE MachineOK'
  <1>1. sm \in Machine
    BY DEF MachineOK
  <1>2. QED
    BY <1>1, InPlaceIsMachine, WithinOK, StayOK DEF OnReady

\* The car switched off keeps it well-formed.
LEMMA OnNotReadyOK == ASSUME MachineOK, OnNotReady PROVE MachineOK'
  <1>1. InManaged(sm) \in Machine
    BY ManagedIsMachine DEF MachineOK
  <1>2. QED
    BY <1>1, WithinOK, StayOK, ToIdleOK DEF OnNotReady

\* A status in the active leaf keeps it well-formed.
LEMMA OnStatusActiveOK ==
  ASSUME MachineOK, NEW status \in Statuses \ {"UNKNOWN"}, OnStatusActive(status)
  PROVE  MachineOK'
  <1>1. sm \in Machine
    BY DEF MachineOK
  <1>2. /\ InRequested("BMU_RESTART", status) \in Machine
        /\ InManaged(sm) \in Machine /\ InStopping(0) \in Machine
    BY <1>1, Values, RequestedIsMachine, ManagedIsMachine, StoppingIsMachine
  <1>3. [InSibling("wait-started") EXCEPT !.attempt = 0] \in Machine
    <2>1. InSibling("wait-started") \in Machine
      BY <1>1, Values, SiblingIsMachine
    <2>2. QED
      BY <2>1, Values, Zenon DEF Machine
  <1>4. CASE status = "STARTED"
    BY <1>4, StayOK DEF OnStatusActive
  <1>5. CASE status = "STARTING"
    BY <1>5, <1>2, <1>3, CrossOK, WithinOK DEF OnStatusActive
  <1>6. CASE status = "IDLE"
    BY <1>6, <1>2, CrossOK, WithinOK DEF OnStatusActive
  <1>7. QED
    BY <1>4, <1>5, <1>6 DEF Statuses

\* And so does one in any leaf.
LEMMA OnStatusOK ==
  ASSUME MachineOK, NEW status \in Statuses \ {"UNKNOWN"}, OnStatus(status)
  PROVE  MachineOK'
  <1>1. sm \in Machine
    BY DEF MachineOK
  <1>2. /\ InSibling("wait-started") \in Machine /\ InSibling("active") \in Machine
        /\ InRequested("BMU_RESTART", status) \in Machine
    BY <1>1, Values, SiblingIsMachine, RequestedIsMachine
  <1>3. QED
    BY <1>2, StayOK, WithinOK, CrossOK, ToIdleOK, OnStatusActiveOK DEF OnStatus

\* Each tick handler keeps the types.
LEMMA StartTimeoutOK == ASSUME MachineOK, StartTimeout PROVE MachineOK'
  <1>1. sm \in Machine
    BY DEF MachineOK
  <1>2. InManaged(sm) \in Machine /\ InStopping(MaxRetries) \in Machine
    BY <1>1, Values, ManagedIsMachine, StoppingIsMachine
  <1>3. ASSUME sm.retries < MaxRetries
        PROVE  InStartBurst([sm EXCEPT !.retries = @ + 1]) \in Machine
    <2>1. sm.retries + 1 \in 0 .. MaxRetries
      BY <1>1, <1>3, Thresholds, SMT DEF Machine
    <2>2. [sm EXCEPT !.retries = sm.retries + 1] \in Machine
      BY <1>1, <2>1, Zenon DEF Machine
    <2>3. QED
      BY <2>2, StartBurstIsMachine
  <1>4. QED
    BY <1>2, <1>3, WithinOK, CrossOK DEF StartTimeout

\* The ticks of the leaves that start keep it well-formed,
LEMMA StartingTicksOK ==
  ASSUME MachineOK, StartBurstTick \/ WaitStartingTick \/ WaitStartedTick
  PROVE  MachineOK'
  <1>1. sm \in Machine
    BY DEF MachineOK
  <1>2. /\ [sm EXCEPT !.ticks = @ + 1] \in Machine
        /\ InSibling("active") \in Machine /\ InSibling("wait-started") \in Machine
        /\ InSibling("wait-starting") \in Machine
    BY <1>1, Values, InPlaceIsMachine, SiblingIsMachine
  <1>3. CASE StartBurstTick
    <2>1. InSibling(CASE platform.status = "STARTED"  -> "active"
                      [] platform.status = "STARTING" -> "wait-started"
                      [] OTHER                        -> "wait-starting") \in Machine
      BY <1>2
    <2>2. QED
      BY <1>2, <1>3, <2>1, BlockOK, WithinOK DEF StartBurstTick
  <1>4. CASE WaitStartingTick
    BY <1>2, <1>4, BlockOK, WithinOK, StayOK, StartTimeoutOK DEF WaitStartingTick
  <1>5. CASE WaitStartedTick
    BY <1>5, BlockOK, StayOK, StartTimeoutOK DEF WaitStartedTick
  <1>6. QED
    BY <1>3, <1>4, <1>5

\* those of the leaves that wait,
LEMMA WaitingTicksOK ==
  ASSUME MachineOK, IdleTick \/ CarStartDelayTick \/ ManagedTick
  PROVE  MachineOK'
  <1>1. [sm EXCEPT !.notice = FALSE] \in Machine
    BY InPlaceIsMachine DEF MachineOK
  <1>2. /\ InRequested("CAR_START", platform.status) \in Machine
        /\ InRequested("PERIODIC", platform.status) \in Machine
    BY Values, RequestedIsMachine
  <1>3. QED
    BY <1>1, <1>2, WithinOK, CrossOK, StayOK DEF IdleTick, CarStartDelayTick, ManagedTick

\* and those of the leaves that stop.
LEMMA StoppingTicksOK ==
  ASSUME MachineOK, StopBurstTick \/ WaitStoppedTick
  PROVE  MachineOK'
  <1>1. sm \in Machine
    BY DEF MachineOK
  <1>2. /\ [sm EXCEPT !.ticks = @ + 1] \in Machine
        /\ InSibling("wait-stopped") \in Machine /\ InSibling("stop-burst") \in Machine
    BY <1>1, Values, InPlaceIsMachine, SiblingIsMachine
  <1>3. ASSUME sm.retries < MaxRetries
        PROVE  [InSibling("stop-burst") EXCEPT !.retries = @ + 1, !.attempt = 0] \in Machine
    <2>1. InSibling("stop-burst").retries = sm.retries
      BY <1>1, SMT DEF InSibling, Machine
    <2>2. sm.retries + 1 \in 0 .. MaxRetries
      BY <1>1, <1>3, Thresholds, SMT DEF Machine
    <2>3. QED
      BY <1>2, <2>1, <2>2, Values, Zenon DEF Machine
  <1>4. CASE StopBurstTick
    BY <1>2, <1>4, Values, WithinOK, ToIdleOK DEF StopBurstTick
  <1>5. CASE WaitStoppedTick
    BY <1>3, <1>5, Values, WithinOK, ToIdleOK, StayOK DEF WaitStoppedTick
  <1>6. QED
    BY <1>4, <1>5

\* What the second half of a tick runs, whatever the leaf.
LEMMA LeafTickOK == ASSUME MachineOK, TickLeaf PROVE MachineOK'
  <1>1. sm.leaf \in Leaves
    BY DEF MachineOK, Machine
  <1>2. \/ IdleTick \/ CarStartDelayTick \/ ManagedTick
        \/ StartBurstTick \/ WaitStartingTick \/ WaitStartedTick
        \/ StopBurstTick \/ WaitStoppedTick \/ Stay
    BY <1>1 DEF TickLeaf, Leaves, Requested, Starting, Stopping
  <1>3. QED
    BY <1>2, WaitingTicksOK, StartingTicksOK, StoppingTicksOK, StayOK

\* Time and a restart build machines too.
LEMMA AgedOK == ASSUME MachineOK, Pass PROVE MachineOK'
  <1>1. sm \in Machine
    BY DEF MachineOK
  <1> DEFINE entered == Older(sm.entered, IF sm.leaf \in Requested THEN Debounce + 1 ELSE 0)
  <1> DEFINE attempt == Older(sm.attempt, IF sm.leaf \in Requested THEN StartedTimeout + 1
                                          ELSE IF sm.leaf \in Stopping THEN RetryAfter + 1 ELSE 0)
  <1> DEFINE dwell == Older(sm.dwell, IF sm.leaf = "managed" THEN NudgeInterval + 1
                                      ELSE IF sm.leaf \in {"idle", "car-start-delay"}
                                           THEN CarStartDelay ELSE 0)
  <1>2. /\ sm.entered \in Age /\ sm.attempt \in Age /\ sm.dwell \in Age
    BY <1>1, Zenon DEF Machine
  <1>3. entered \in Age
    BY <1>2, OlderIsAge, Thresholds, Values
  <1>4. attempt \in Age
    BY <1>2, OlderIsAge, Thresholds, Values
  <1>5. dwell \in Age
    BY <1>2, OlderIsAge, Thresholds, Values
  <1>6. sm' = [sm EXCEPT !.entered = entered, !.attempt = attempt, !.dwell = dwell]
    BY DEF Pass
  <1> HIDE DEF entered, attempt, dwell
  <1>7. sm' \in Machine
    BY <1>1, <1>3, <1>4, <1>5, <1>6, Zenon DEF Machine
  <1>8. QED
    BY <1>7 DEF MachineOK, Pass, latchVars

\* What a boot leaves behind is a state of the machine.
LEMMA BootedIsMachine ==
  ASSUME NEW m, NEW stored PROVE Booted(m, stored) \in Machine
  <1>1. [Fresh EXCEPT !.attempt = Long] \in Machine /\ [Fresh EXCEPT !.dwell = Long] \in Machine
    BY FreshIsMachine, Values, Zenon DEF Machine
  <1>2. QED
    BY <1>1, ManagedIsMachine, Zenon DEF Booted

\* The count of bursts saturates one past the budget.
LEMMA NoteBurstOK ==
  ASSUME NEW base \in 0 .. (MaxRetries + 2), NoteBurst(base)
  PROVE  bursts' \in 0 .. (MaxRetries + 2)
  BY Thresholds DEF NoteBurst, Older

\* What the history notes of the button keeps its type.
LEMMA NoteToggleOK ==
  ASSUME TypeOK, NoteToggle
  PROVE  carOff' \in BOOLEAN /\ bursts' \in 0 .. (MaxRetries + 2)
  <1>1. 0 \in 0 .. (MaxRetries + 2) /\ bursts \in 0 .. (MaxRetries + 2)
    BY Thresholds DEF TypeOK
  <1>2. bursts' \in 0 .. (MaxRetries + 2)
    BY <1>1, NoteBurstOK DEF NoteToggle
  <1>3. QED
    BY <1>2 DEF NoteToggle, TypeOK

\* The type invariant is inductive: one step per action.
LEMMA TypeStep == ASSUME TypeOK, [Next]_vars PROVE TypeOK'
  <1>m. MachineOK
    BY DEF MachineOK, TypeOK
  <1>1. CASE TickGlobal
    <2>1. MachineOK'
      BY <1>m, <1>1, OnToggleOK, StayOK DEF TickGlobal
    <2>2. carOff' \in BOOLEAN /\ bursts' \in 0 .. (MaxRetries + 2)
      BY <1>1, NoteToggleOK DEF TickGlobal, histVars, TypeOK
    <2>3. QED
      BY <1>1, <2>1, <2>2 DEF TickGlobal, MachineOK, TypeOK
  <1>2. CASE TickLeaf
    <2>1. MachineOK'
      BY <1>m, <1>2, LeafTickOK
    <2>2. bursts' \in 0 .. (MaxRetries + 2)
      BY <1>2, NoteBurstOK DEF TickLeaf, TypeOK
    <2>3. sent' \in {"none", "start", "stop"}
      BY <1>2 DEF TickLeaf, Frame
    <2>4. /\ UNCHANGED <<mode, platform, warm, inited, toggleReq, call, carOff>>
          /\ ticking' = FALSE /\ cause' = "tick"
      BY <1>2 DEF TickLeaf
    <2>5. QED
      BY <2>1, <2>2, <2>3, <2>4 DEF MachineOK, TypeOK
  <1>3. ASSUME NEW ready \in BOOLEAN, RxPower(ready) PROVE TypeOK'
    <2>1. MachineOK'
      BY <1>m, <1>3, OnReadyOK, OnNotReadyOK DEF RxPower
    <2>2. platform' \in [status : Statuses, ready : BOOLEAN]
      BY <1>3 DEF RxPower, TypeOK
    <2>3. QED
      BY <1>3, <2>1, <2>2, Values DEF RxPower, MachineOK, TypeOK
  <1>4. ASSUME NEW status \in Statuses \ {"UNKNOWN"}, RxStatus(status) PROVE TypeOK'
    <2>1. MachineOK'
      BY <1>m, <1>4, OnStatusOK DEF RxStatus
    <2>2. platform' \in [status : Statuses, ready : BOOLEAN]
      BY <1>4 DEF RxStatus, TypeOK
    <2>3. bursts' \in 0 .. (MaxRetries + 2)
      BY <1>4, NoteBurstOK DEF RxStatus, TypeOK
    <2>4. QED
      BY <1>4, <2>1, <2>2, <2>3 DEF RxStatus, MachineOK, TypeOK
  <1>5. ASSUME NEW isWarm \in BOOLEAN, RxTemperature(isWarm) PROVE TypeOK'
    <2>1. MachineOK'
      BY <1>m, <1>5, StayOK DEF RxTemperature
    <2>2. QED
      BY <1>5, <2>1 DEF RxTemperature, MachineOK, TypeOK, histVars
  <1>6. CASE WebToggle
    BY <1>6 DEF WebToggle, TypeOK, histVars, latchVars
  <1>7. ASSUME NEW c \in Callers, CallBegin(c) PROVE TypeOK'
    <2>1. mode' \in Modes /\ call' \in [Callers -> {"none", "init", "toggle", "cancel"}]
      BY <1>7, CommandAssumption DEF CallBegin, TypeOK
    <2>2. QED
      BY <1>7, <2>1 DEF CallBegin, TypeOK, histVars, latchVars
  <1>8. ASSUME NEW c \in Callers, CallInit(c) PROVE TypeOK'
    BY <1>8 DEF CallInit, TypeOK, histVars
  <1>9. ASSUME NEW c \in Callers, CallToggle(c) PROVE TypeOK'
    <2>1. MachineOK'
      BY <1>m, <1>9, OnToggleOK DEF CallToggle
    <2>2. carOff' \in BOOLEAN /\ bursts' \in 0 .. (MaxRetries + 2)
      BY <1>9, NoteToggleOK DEF CallToggle
    <2>3. call' \in [Callers -> {"none", "init", "toggle", "cancel"}]
          /\ cause' \in {"user", "cancel"}
      BY <1>9 DEF CallToggle, TypeOK
    <2>4. QED
      BY <1>9, <2>1, <2>2, <2>3 DEF CallToggle, MachineOK, TypeOK
  <1>10. CASE Pass
    <2>1. MachineOK'
      BY <1>m, <1>10, AgedOK
    <2>2. QED
      BY <1>10, <2>1 DEF Pass, MachineOK, TypeOK
  <1>11. CASE Reboot
    <2>1. PICK m \in ConfigModes, stored \in BOOLEAN :
            mode' = m /\ sm' = Booted(m, stored) /\ desired' = (m = "PERSISTENT" /\ stored)
            /\ inited' = (m = "PERSISTENT")
            /\ platform' = [status |-> "UNKNOWN", ready |-> FALSE]
            /\ warm' = FALSE /\ continuous' = FALSE /\ toggleReq' = FALSE
            /\ ticking' = FALSE /\ aborted' = FALSE /\ carOff' = FALSE
            /\ call' = [c \in Callers |-> "none"] /\ sent' = "none" /\ cause' = "boot"
            /\ bursts' = 0
      BY <1>11 DEF Reboot
    <2>2. sm' \in Machine /\ mode' \in Modes /\ desired' \in BOOLEAN /\ inited' \in BOOLEAN
      BY <2>1, BootedIsMachine, ConfigAssumption
    <2>3. bursts' \in 0 .. (MaxRetries + 2)
      BY <2>1, Values, Thresholds, SMT
    <2>4. /\ platform' \in [status : Statuses, ready : BOOLEAN]
          /\ call' \in [Callers -> {"none", "init", "toggle", "cancel"}]
          /\ warm' \in BOOLEAN /\ continuous' \in BOOLEAN /\ toggleReq' \in BOOLEAN
          /\ ticking' \in BOOLEAN /\ aborted' \in BOOLEAN /\ carOff' \in BOOLEAN
          /\ sent' \in {"none", "start", "stop"}
          /\ cause' = "boot"
      BY <2>1 DEF Statuses
    <2>5. QED
      BY <2>2, <2>3, <2>4 DEF TypeOK
  <1>12. CASE UNCHANGED vars
    BY <1>12 DEF vars, TypeOK
  <1>13. QED
    BY <1>1, <1>2, <1>3, <1>4, <1>5, <1>6, <1>7, <1>8, <1>9, <1>10, <1>11, <1>12
       DEF Next, Rx, Call

\* The initial states are typed.
LEMMA TypeInit == ASSUME Init PROVE TypeOK
  <1>1. sm \in Machine /\ mode \in Modes
    BY BootedIsMachine, ConfigAssumption DEF Init
  <1>2. bursts \in 0 .. (MaxRetries + 2)
    BY Values, Thresholds, SMT DEF Init
  <1>3. /\ platform \in [status : Statuses, ready : BOOLEAN]
        /\ call \in [Callers -> {"none", "init", "toggle", "cancel"}]
        /\ warm \in BOOLEAN /\ continuous \in BOOLEAN /\ toggleReq \in BOOLEAN
        /\ ticking \in BOOLEAN /\ aborted \in BOOLEAN /\ carOff \in BOOLEAN
        /\ sent \in {"none", "start", "stop"}
        /\ desired \in BOOLEAN /\ inited \in BOOLEAN /\ cause = "boot"
    BY DEF Init, Statuses
  <1>4. QED
    BY <1>1, <1>2, <1>3 DEF TypeOK

\* Every reachable state is typed: the retry counter never passes the budget,
\* and an age never passes the saturation bound.
THEOREM TypeCorrect == Spec => []TypeOK
  <1>1. QED
    BY TypeInit, TypeStep, PTL DEF Spec

---------------------------------------------------------------------------
(* Where the entry operators lead.                                         *)

\* The fields of a fresh machine,
LEMMA FreshFields ==
  /\ Fresh \in Machine /\ Fresh.leaf = "idle" /\ Fresh.kind = "MANUAL" /\ Fresh.retries = 0
  BY FreshIsMachine DEF Fresh

\* of an idle one,
LEMMA IdleFields == ASSUME NEW b PROVE InIdle(b).leaf = "idle"
  BY SMT DEF InIdle, Fresh

\* of one that stops,
LEMMA StoppingFields ==
  ASSUME NEW r PROVE InStopping(r).leaf = "stop-burst" /\ InStopping(r).retries = r
  BY SMT DEF InStopping, Fresh

\* of a managed one,
LEMMA ManagedFields ==
  ASSUME NEW s \in Machine
  PROVE  /\ InManaged(s).leaf = "managed" /\ InManaged(s).kind = s.kind
         /\ InManaged(s).retries = s.retries
  BY SMT DEF InManaged, Machine

\* of another leaf of the same session,
LEMMA SiblingFields ==
  ASSUME sm \in Machine, NEW leaf
  PROVE  /\ InSibling(leaf).leaf = leaf /\ InSibling(leaf).kind = sm.kind
         /\ InSibling(leaf).retries = sm.retries
  BY SMT DEF InSibling, Machine

\* A blocked attempt is given up in ONCE mode and parked in the others.
LEMMA BlockedFields ==
  ASSUME NEW s \in Machine
  PROVE  /\ mode = "ONCE" => Blocked(s).leaf = "stop-burst" /\ Blocked(s).retries = MaxRetries
         /\ mode # "ONCE" => /\ Blocked(s).leaf = "managed" /\ Blocked(s).kind = s.kind
                             /\ Blocked(s).retries = s.retries
  BY ManagedFields, StoppingFields, Zenon DEF Blocked

\* and of one that enters START_BURST.
LEMMA StartBurstFields ==
  ASSUME NEW s \in Machine
  PROVE  LET t == InStartBurst(s) IN
         \/ ~warm /\ t.leaf = "start-burst" /\ t.kind = s.kind /\ t.retries = s.retries
         \/ mode = "ONCE" /\ t.leaf = "stop-burst" /\ t.retries = MaxRetries
         \/ mode # "ONCE" /\ t.leaf = "managed" /\ t.kind = s.kind /\ t.retries = s.retries
  <1> DEFINE begun == [s EXCEPT !.leaf = "start-burst", !.ticks = 0, !.attempt = 0]
  <1>1. begun \in Machine
    BY Values, Zenon DEF Machine
  <1>2. begun.leaf = "start-burst" /\ begun.kind = s.kind /\ begun.retries = s.retries
    BY SMT DEF Machine
  <1> HIDE DEF begun
  <1>3. InStartBurst(s) = IF warm THEN Blocked(begun) ELSE begun
    BY DEF InStartBurst, begun
  <1>4. QED
    BY <1>1, <1>2, <1>3, BlockedFields

\* A new request keeps its kind and starts with no retry spent; only a BMU
\* restart skips the burst.
LEMMA RequestedFields ==
  ASSUME NEW kind \in Kinds, NEW status
  PROVE  LET t == InRequested(kind, status) IN
         \/ kind # "BMU_RESTART" /\ ~warm /\ t.leaf = "start-burst" /\ t.kind = kind /\ t.retries = 0
         \/ mode = "ONCE" /\ t.leaf = "stop-burst" /\ t.retries = MaxRetries
         \/ mode # "ONCE" /\ t.leaf = "managed" /\ t.kind = kind /\ t.retries = 0
         \/ /\ kind = "BMU_RESTART"
            /\ t.leaf \in {"active", "wait-started"} /\ t.kind = kind /\ t.retries = 0
  <1> DEFINE s == [Fresh EXCEPT !.kind = kind]
  <1>1. s \in Machine
    BY FreshIsMachine, Zenon DEF Machine
  <1>2. s.kind = kind /\ s.retries = 0
    BY SMT DEF Fresh
  <1>3. CASE kind = "BMU_RESTART" /\ ~warm
    <2> DEFINE t == [s EXCEPT !.leaf = IF status = "STARTED" THEN "active" ELSE "wait-started"]
    <2>1. InRequested(kind, status) = t
      BY <1>3 DEF InRequested
    <2>2. t.leaf \in {"active", "wait-started"} /\ t.kind = kind /\ t.retries = 0
      BY <1>1, <1>2, SMT DEF Machine
    <2>3. QED
      BY <1>3, <2>1, <2>2
  <1>4. CASE ~(kind = "BMU_RESTART" /\ ~warm)
    <2>1. InRequested(kind, status) = InStartBurst(s)
      BY <1>4, Zenon DEF InRequested
    <2> HIDE DEF s
    <2>2. QED
      BY <1>1, <1>2, <1>4, <2>1, StartBurstFields
  <1>5. QED
    BY <1>3, <1>4

\* After ToIdle the machine is idle, or parked because a latch was found on.
LEMMA ToIdleFields ==
  ASSUME NEW b, ToIdle(b)
  PROVE  \/ sm'.leaf = "idle"
         \/ sm'.leaf = "managed" /\ sm'.retries = 0 /\ sm.leaf \notin Requested
            /\ Repeating /\ Enabled
  <1> DEFINE s == [Fresh EXCEPT !.attempt = Long]
  <1>1. s \in Machine
    BY FreshIsMachine, Values, Zenon DEF Machine
  <1>2. s.retries = 0
    BY SMT DEF Fresh
  <1> HIDE DEF s
  <1>3. InManaged(s).leaf = "managed" /\ InManaged(s).retries = 0
    BY <1>1, <1>2, ManagedFields
  <1>4. QED
    BY <1>3, IdleFields DEF ToIdle, Cross, WithinRead, s

---------------------------------------------------------------------------
(* A car that is off is not asked to start.                                *)

\* Leaves that neither send a start burst nor lead to one without READY.
Quiet(s) == /\ s.leaf \notin {"start-burst", "wait-starting", "car-start-delay"}
            /\ s.leaf \in {"active", "wait-started"} => s.kind = "BMU_RESTART"

\* While the car is off the session is parked, stopping, or follows a start of
\* the BMU itself, whose timeout parks it.
CarOffInv == carOff => ~platform.ready /\ sent # "start" /\ Quiet(sm)

\* The places ToIdle and a blocked attempt end in are quiet.
LEMMA ToIdleQuiet == ASSUME NEW b, ToIdle(b) PROVE Quiet(sm')
  BY ToIdleFields DEF Quiet

\* A blocked attempt does not begin to start,
LEMMA BlockQuiet == ASSUME sm \in Machine, mode \in Modes, Block PROVE Quiet(sm')
  <1>1. sm' = Blocked(sm)
    BY DEF Block, Within
  <1>2. sm'.leaf \in {"stop-burst", "managed"}
    BY <1>1, BlockedFields
  <1>3. QED
    BY <1>2 DEF Quiet

\* A toggle that arrives in REQUESTED can only stop.
LEMMA OnToggleQuiet ==
  ASSUME sm \in Machine, sm.leaf \in Requested, Quiet(sm), OnToggle PROVE Quiet(sm')
  BY StoppingFields DEF OnToggle, Quiet, Cross, Stay, Within

\* nor a car that is switched off,
LEMMA OnNotReadyQuiet == ASSUME sm \in Machine, OnNotReady PROVE Quiet(sm')
  <1>1. CASE sm.leaf \in Requested
    <2>1. WithinRead(InManaged(sm)) \/ ToIdle(TRUE)
      BY <1>1 DEF OnNotReady, Requested, Starting, Stopping
    <2>2. QED
      BY <2>1, ToIdleQuiet, ManagedFields DEF WithinRead, Quiet
  <1>2. CASE sm.leaf \in Stopping
    <2>1. ToIdle(FALSE)
      BY <1>2 DEF OnNotReady, Requested, Starting, Stopping
    <2>2. QED
      BY <2>1, ToIdleQuiet
  <1>3. CASE sm.leaf \notin Requested \cup Stopping
    <2>1. sm' = sm /\ sm.leaf = "idle"
      BY <1>3 DEF OnNotReady, Stay, Within, Machine, Leaves
    <2>2. QED
      BY <2>1 DEF Quiet
  <1>4. QED
    BY <1>1, <1>2, <1>3

\* The car's own restart is followed, not answered with a burst.
LEMMA RestartQuiet ==
  ASSUME NEW status, mode \in Modes, Cross(InRequested("BMU_RESTART", status))
  PROVE  Quiet(sm')
  <1>1. sm' = InRequested("BMU_RESTART", status)
    BY DEF Cross
  <1>2. QED
    BY <1>1, Values, RequestedFields DEF Quiet

\* nor a status.
LEMMA OnStatusQuiet ==
  ASSUME sm \in Machine, mode \in Modes, Quiet(sm),
         NEW status \in Statuses \ {"UNKNOWN"}, OnStatus(status)
  PROVE  Quiet(sm')
  <1>1. CASE sm.leaf = "active"
    <2>1. OnStatusActive(status)
      BY <1>1 DEF OnStatus
    <2>2. CASE status = "STARTED"
      BY <2>1, <2>2 DEF OnStatusActive, Stay, Within
    <2>3. CASE status = "STARTING"
      <3> DEFINE t == [InSibling("wait-started") EXCEPT !.attempt = 0]
      <3>1. InSibling("wait-started") \in Machine
        BY SiblingIsMachine, Values
      <3>2. t.leaf = "wait-started" /\ t.kind = sm.kind
        BY <3>1, SiblingFields, SMT DEF Machine
      <3> HIDE DEF t
      <3>3. Cross(InRequested("BMU_RESTART", status)) \/ Within(t)
        BY <2>1, <2>3 DEF OnStatusActive, t
      <3>4. QED
        BY <3>2, <3>3, <1>1, RestartQuiet DEF Within, Quiet
    <2>4. CASE status = "IDLE"
      <3>1. WithinRead(InManaged(sm)) \/ Cross(InStopping(0))
        BY <2>1, <2>4 DEF OnStatusActive
      <3>2. QED
        BY <3>1, ManagedFields, StoppingFields DEF WithinRead, Cross, Quiet
    <2>5. QED
      BY <2>2, <2>3, <2>4 DEF Statuses
  <1>2. CASE sm.leaf = "wait-started"
    <2>1. Within(InSibling("active")) \/ Stay
      BY <1>2 DEF OnStatus
    <2>2. QED
      BY <1>2, <2>1, SiblingFields DEF Within, Stay, Quiet
  <1>3. CASE sm.leaf = "managed"
    <2>1. Cross(InRequested("BMU_RESTART", status)) \/ Stay
      BY <1>3 DEF OnStatus
    <2>2. QED
      BY <2>1, RestartQuiet DEF Stay, Within
  <1>4. CASE sm.leaf = "wait-stopped"
    <2>1. ToIdle(FALSE) \/ Stay
      BY <1>4 DEF OnStatus
    <2>2. QED
      BY <2>1, ToIdleQuiet DEF Stay, Within
  <1>5. CASE sm.leaf \in {"idle", "stop-burst"}
    <2>1. Stay
      BY <1>5 DEF OnStatus
    <2>2. QED
      BY <2>1 DEF Stay, Within
  <1>6. QED
    BY <1>1, <1>2, <1>3, <1>4, <1>5
       DEF Quiet, Machine, Leaves, Requested, Starting, Stopping

\* The tick of a quiet leaf with the car off sends nothing to start it.
LEMMA TickLeafQuiet ==
  ASSUME sm \in Machine, mode \in Modes, Quiet(sm), ~platform.ready, TickLeaf
  PROVE  Quiet(sm') /\ sent' # "start"
  <1>1. sent' # "start"
    BY DEF TickLeaf, Frame, Quiet
  <1>2. CASE sm.leaf = "idle"
    <2>1. sm'.leaf = sm.leaf
      <3>1. IdleTick
        BY <1>2 DEF TickLeaf
      <3>2. [sm EXCEPT !.notice = FALSE].leaf = sm.leaf
        BY SMT DEF Machine
      <3>3. QED
        BY <3>1, <3>2 DEF IdleTick, Within, Stay
    <2>2. QED
      BY <1>1, <1>2, <2>1 DEF Quiet
  <1>3. CASE sm.leaf = "active"
    BY <1>1, <1>3 DEF TickLeaf, Stay, Within
  <1>4. CASE sm.leaf = "managed"
    BY <1>1, <1>4 DEF TickLeaf, ManagedTick, Stay, Within
  <1>5. CASE sm.leaf = "wait-started"
    <2>1. WaitStartedTick /\ sm.kind = "BMU_RESTART"
      BY <1>5 DEF TickLeaf, Quiet
    <2>2. Block \/ Stay \/ Within(InManaged(sm))
      BY <2>1 DEF WaitStartedTick, StartTimeout, Silent
    <2>3. QED
      BY <1>1, <2>2, BlockQuiet, ManagedFields DEF Stay, Within, Quiet
  <1>6. CASE sm.leaf = "stop-burst"
    <2> DEFINE t == [sm EXCEPT !.ticks = @ + 1]
    <2>1. t.leaf = "stop-burst"
      BY <1>6, SMT DEF Machine
    <2>2. StopBurstTick
      BY <1>6 DEF TickLeaf
    <2> HIDE DEF t
    <2>3. Within(t) \/ Within(InSibling("wait-stopped")) \/ ToIdle(FALSE)
      BY <2>2 DEF StopBurstTick, t
    <2>4. CASE Within(t)
      BY <1>1, <2>1, <2>4 DEF Within, Quiet
    <2>5. CASE Within(InSibling("wait-stopped"))
      <3>1. InSibling("wait-stopped").leaf = "wait-stopped"
        BY SiblingFields
      <3>2. QED
        BY <1>1, <2>5, <3>1 DEF Within, Quiet
    <2>6. CASE ToIdle(FALSE)
      BY <1>1, <2>6, ToIdleQuiet
    <2>7. QED
      BY <2>3, <2>4, <2>5, <2>6
  <1>7. CASE sm.leaf = "wait-stopped"
    <2> DEFINE t == [InSibling("stop-burst") EXCEPT !.retries = @ + 1, !.attempt = 0]
    <2>1. WaitStoppedTick
      BY <1>7 DEF TickLeaf
    <2>2. InSibling("stop-burst") \in Machine
      BY SiblingIsMachine, Values
    <2>3. t.leaf = "stop-burst"
      BY <2>2, SiblingFields, SMT DEF Machine
    <2> HIDE DEF t
    <2>4. Within(t) \/ ToIdle(FALSE) \/ Stay
      BY <2>1 DEF WaitStoppedTick, t
    <2>5. CASE Within(t) \/ Stay
      BY <1>1, <1>7, <2>3, <2>5 DEF Within, Stay, Quiet
    <2>6. CASE ToIdle(FALSE)
      BY <1>1, <2>6, ToIdleQuiet
    <2>7. QED
      BY <2>4, <2>5, <2>6
  <1>8. QED
    BY <1>1, <1>2, <1>3, <1>4, <1>5, <1>6, <1>7
       DEF Quiet, Machine, Leaves, Requested, Starting, Stopping

\* Time moves no leaf.
LEMMA PassKeepsLeaf ==
  ASSUME sm \in Machine, Pass
  PROVE  sm'.leaf = sm.leaf /\ sm'.kind = sm.kind /\ sm'.retries = sm.retries
  <1> DEFINE entered == Older(sm.entered, IF sm.leaf \in Requested THEN Debounce + 1 ELSE 0)
  <1> DEFINE attempt == Older(sm.attempt, IF sm.leaf \in Requested THEN StartedTimeout + 1
                                          ELSE IF sm.leaf \in Stopping THEN RetryAfter + 1 ELSE 0)
  <1> DEFINE dwell == Older(sm.dwell, IF sm.leaf = "managed" THEN NudgeInterval + 1
                                      ELSE IF sm.leaf \in {"idle", "car-start-delay"}
                                           THEN CarStartDelay ELSE 0)
  <1>1. sm' = [sm EXCEPT !.entered = entered, !.attempt = attempt, !.dwell = dwell]
    BY DEF Pass
  <1> HIDE DEF entered, attempt, dwell
  <1>2. QED
    BY <1>1, SMT DEF Machine

\* No step sends a start command to a car that is off.
LEMMA CarOffStep ==
  ASSUME TypeOK, TypeOK', CarOffInv, [Next]_vars
  PROVE  CarOffInv'
  <1> SUFFICES ASSUME carOff' PROVE ~platform'.ready /\ sent' # "start" /\ Quiet(sm')
    BY DEF CarOffInv, Quiet
  <1>t. sm \in Machine /\ mode \in Modes
    BY DEF TypeOK
  <1>1. CASE TickGlobal
    <2>1. carOff /\ platform' = platform /\ sent' = "none"
      BY <1>1 DEF TickGlobal, NoteToggle, histVars
    <2>2. (sm.leaf \in Requested /\ OnToggle) \/ Stay
      BY <1>1 DEF TickGlobal, NoteToggle
    <2>3. QED
      BY <1>t, <2>1, <2>2, OnToggleQuiet DEF CarOffInv, Stay, Within
  <1>2. CASE TickLeaf
    <2>1. carOff /\ platform' = platform
      BY <1>2 DEF TickLeaf
    <2>2. QED
      BY <1>t, <1>2, <2>1, TickLeafQuiet DEF CarOffInv
  <1>3. ASSUME NEW ready \in BOOLEAN, RxPower(ready)
        PROVE  ~platform'.ready /\ sent' # "start" /\ Quiet(sm')
    <2>1. ready = FALSE /\ OnNotReady /\ sent' = "none"
      BY <1>3 DEF RxPower
    <2>2. ~platform'.ready
      BY <1>3, <2>1 DEF RxPower, TypeOK
    <2>3. QED
      BY <1>t, <2>1, <2>2, OnNotReadyQuiet
  <1>4. ASSUME NEW status \in Statuses \ {"UNKNOWN"}, RxStatus(status)
        PROVE  ~platform'.ready /\ sent' # "start" /\ Quiet(sm')
    <2>1. carOff /\ platform'.ready = platform.ready /\ sent' = "none" /\ OnStatus(status)
      BY <1>4 DEF RxStatus, TypeOK
    <2>2. QED
      BY <1>t, <2>1, OnStatusQuiet DEF CarOffInv
  <1>5. ASSUME NEW isWarm \in BOOLEAN, RxTemperature(isWarm)
        PROVE  ~platform'.ready /\ sent' # "start" /\ Quiet(sm')
    BY <1>5 DEF RxTemperature, Stay, Within, histVars, CarOffInv
  <1>6. CASE WebToggle
    BY <1>6 DEF WebToggle, histVars, CarOffInv
  <1>7. ASSUME NEW c \in Callers, CallBegin(c)
        PROVE  ~platform'.ready /\ sent' # "start" /\ Quiet(sm')
    BY <1>7 DEF CallBegin, histVars, CarOffInv
  <1>8. ASSUME NEW c \in Callers, CallInit(c)
        PROVE  ~platform'.ready /\ sent' # "start" /\ Quiet(sm')
    BY <1>8 DEF CallInit, histVars, CarOffInv
  <1>9. ASSUME NEW c \in Callers, CallToggle(c)
        PROVE  ~platform'.ready /\ sent' # "start" /\ Quiet(sm')
    <2>1. carOff /\ sm.leaf \in Requested /\ OnToggle /\ platform' = platform /\ sent' = "none"
      BY <1>9 DEF CallToggle, NoteToggle
    <2>2. QED
      BY <1>t, <2>1, OnToggleQuiet DEF CarOffInv
  <1>10. CASE Pass
    <2>1. carOff /\ platform' = platform /\ sent' = "none"
      BY <1>10 DEF Pass
    <2>2. QED
      BY <1>t, <1>10, <2>1, PassKeepsLeaf DEF CarOffInv, Quiet
  <1>11. CASE Reboot
    BY <1>11 DEF Reboot
  <1>12. CASE UNCHANGED vars
    BY <1>12 DEF vars, CarOffInv
  <1>13. QED
    BY <1>1, <1>2, <1>3, <1>4, <1>5, <1>6, <1>7, <1>8, <1>9, <1>10, <1>11, <1>12
       DEF Next, Rx, Call

\* Once the car has left READY no start frame is sent until it is READY again or
\* the user asks, for every set of commands and every choice of the thresholds.
THEOREM CarOffCorrect == Spec => []CarOffStartsNothing
  <1>1. Init => CarOffInv
    BY DEF Init, CarOffInv
  <1>2. TypeOK /\ TypeOK' /\ CarOffInv /\ [Next]_vars => CarOffInv'
    BY CarOffStep
  <1>3. CarOffInv => CarOffStartsNothing
    BY DEF CarOffInv, CarOffStartsNothing
  <1>4. QED
    BY <1>1, <1>2, <1>3, TypeCorrect, PTL DEF Spec
=============================================================================
