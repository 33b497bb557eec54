--------------------------- MODULE Precondition ---------------------------
(***************************************************************************)
(* The battery-preconditioning state machine of main/precondition.c, as    *)
(* the engine of main/hsm.c runs it.  Three parties drive it: the 40 ms    *)
(* tick of the precondition task, the frames the CAN receive task hands    *)
(* over, and CAN Do actions that other tasks execute.  Every dispatch      *)
(* holds the machine's lock to its end, so a dispatch is one step here,    *)
(* with two exceptions the code makes visible: a tick runs the global hook *)
(* and then the state's own handler (two steps, the lock held between      *)
(* them), and precondition_action_execute works outside the lock (a step   *)
(* for its check or its assignment, one for the settings load, one for the *)
(* toggle).                                                                *)
(*                                                                         *)
(* Timestamps are kept as ages that saturate once no comparison can tell   *)
(* them apart.  What a settings load finds in NVS is any value: when it is *)
(* the last one set is the subject of PersistentSettings.  Left out: the   *)
(* text of pop-ups and logs, the web snapshot (a function of the leaf that *)
(* no handler reads), the state of charge (stored, never tested) and the   *)
(* forwarding filters (they change no state).                              *)
(***************************************************************************)
EXTENDS Naturals

CONSTANTS
  ConfigModes,     (* modes the saved configuration may select at boot     *)
  Commands,        (* precon_mode strings carried by CAN Do actions        *)
  Callers,         (* tasks that execute CAN Do actions                    *)
  Debounce,        (* PRECONDITION_DEBOUNCE_US                             *)
  CarStartDelay,   (* PRECONDITION_CAR_START_DELAY_US                      *)
  RetryAfter,      (* PRECONDITION_RETRY_US                                *)
  StartedTimeout,  (* PRECONDITION_STARTED_TIMEOUT_US                      *)
  NudgeInterval,   (* REPEATING_MODE_RETRY_INTERVAL_US                     *)
  MaxRetries,      (* PRECONDITION_MAX_RETRIES                             *)
  StartTicks,      (* PRECONDITION_START_TICKS                             *)
  StopTicks        (* PRECONDITION_STOP_TICKS                              *)

Modes == {"ONCE", "CONTINUOUS", "PERSISTENT"}

ASSUME ConfigAssumption == ConfigModes \subseteq Modes /\ ConfigModes # {}
ASSUME CommandAssumption == Commands \subseteq Modes \cup {"cancel"}
ASSUME TimingAssumption ==
  /\ {Debounce, CarStartDelay, RetryAfter, StartedTimeout, NudgeInterval} \subseteq Nat
  /\ {MaxRetries, StartTicks, StopTicks} \subseteq Nat \ {0}

VARIABLES
  mode,        (* precon_config.mode                                       *)
  sm,          (* the engine's leaf with the context of its ancestors      *)
  platform,    (* last status the car reported, and whether it is in READY *)
  warm,        (* precon_blockers: the battery is at the cut-off or above  *)
  continuous,  (* continuous_enabled, the RAM latch                        *)
  desired,     (* desired_value of the persistent setting                  *)
  inited,      (* persistent_settings_initialized                          *)
  toggleReq,   (* precondition_toggle_queue, of length one                 *)
  call,        (* how far each caller is in precondition_action_execute    *)
  ticking,     (* a tick is between its global hook and the state's handler*)
  aborted,     (* a settings accessor failed its configASSERT              *)
  sent,        (* the command frame this step put on the car bus           *)
  cause,       (* history: who caused this step                            *)
  carOff,      (* history: the car left READY; no READY or toggle since    *)
  bursts       (* history: start bursts entered since the user's toggle    *)

latchVars == <<continuous, desired, aborted>>
histVars  == <<carOff, bursts>>
vars == <<mode, sm, platform, warm, continuous, desired, inited,
          toggleReq, call, ticking, aborted, sent, cause, carOff, bursts>>

---------------------------------------------------------------------------
(* The state tree, its contexts, and the small observers on them.          *)

Starting  == {"start-burst", "wait-starting", "wait-started"}
Requested == Starting \cup {"car-start-delay", "active", "managed"}
Stopping  == {"stop-burst", "wait-stopped"}
Leaves    == {"idle"} \cup Requested \cup Stopping

Kinds    == {"MANUAL", "CAR_START", "PERIODIC", "BMU_RESTART"}
Silent   == {"PERIODIC", "BMU_RESTART"}
Statuses == {"UNKNOWN", "IDLE", "STARTING", "STARTED"}

\* Ages saturate here: past every threshold.
Long == Debounce + CarStartDelay + RetryAfter + StartedTimeout + NudgeInterval + 1
Age  == 0 .. Long

\* One step older; `limit` is the last age a comparison still tells apart.
Older(age, limit) == IF age < limit THEN age + 1 ELSE age

\* The machine: ticks is leaf_ticks (counted in the bursts, which alone read
\* it), entered the age of REQUESTED, kind/retries/attempt the context of
\* REQUESTED or STOPPING, dwell the age the leaf measures (the entry of MANAGED
\* and CAR_START_DELAY; in IDLE the READY edge), notice the one-shot flag of
\* IDLE.  A context no leaf reads is kept zero.
Machine == [leaf : Leaves, ticks : Nat, entered : Age, kind : Kinds,
            retries : 0 .. MaxRetries, attempt : Age, dwell : Age,
            notice : BOOLEAN]

Fresh == [leaf |-> "idle", ticks |-> 0, entered |-> 0, kind |-> "MANUAL",
          retries |-> 0, attempt |-> 0, dwell |-> 0, notice |-> FALSE]

Repeating == mode \in {"CONTINUOUS", "PERSISTENT"}
Enabled   == IF mode = "PERSISTENT" THEN desired ELSE continuous

\* The accessors of the persistent setting assert that it was initialised.
Unready == mode = "PERSISTENT" /\ ~inited

---------------------------------------------------------------------------
(* Entering a state: the machine once its enter handlers, the descent to a *)
(* leaf and the transitions those handlers request are all done.           *)

InIdle(byCarOff) ==
  [Fresh EXCEPT !.dwell = Long, !.notice = byCarOff /\ mode = "CONTINUOUS"]

InStopping(retries) == [Fresh EXCEPT !.leaf = "stop-burst", !.retries = retries]

InManaged(s) == [s EXCEPT !.leaf = "managed", !.ticks = 0, !.dwell = 0]

InSibling(leaf) == [sm EXCEPT !.leaf = leaf, !.ticks = 0]

\* stop_start_if_blocked: where a blocked start attempt goes.
Blocked(s) == IF mode = "ONCE" THEN InStopping(MaxRetries) ELSE InManaged(s)

InStartBurst(s) ==
  LET begun == [s EXCEPT !.leaf = "start-burst", !.ticks = 0, !.attempt = 0]
  IN  IF warm THEN Blocked(begun) ELSE begun

\* A BMU restart asks for WAIT_STARTED or ACTIVE while REQUESTED is entered; the
\* default child is entered all the same, and if it is blocked its later
\* request wins.
InRequested(kind, status) ==
  LET s == [Fresh EXCEPT !.kind = kind]
  IN  IF kind = "BMU_RESTART" /\ ~warm
      THEN [s EXCEPT !.leaf = IF status = "STARTED" THEN "active" ELSE "wait-started"]
      ELSE InStartBurst(s)

---------------------------------------------------------------------------
(* Taking a transition: the machine together with the repeating latch.     *)

\* Mutant: leaving REQUESTED forgets the RAM latch.
SetEnabled_KeepsContinuous(on) ==
  /\ desired'    = IF mode = "PERSISTENT" THEN on ELSE desired
  /\ continuous' = (continuous \/ (mode = "CONTINUOUS" /\ on))
  /\ aborted'    = Unready

SetEnabled(on) ==
  /\ desired'    = IF mode = "PERSISTENT" THEN on ELSE desired
  /\ continuous' = IF mode = "CONTINUOUS" THEN on ELSE continuous
  /\ aborted'    = Unready

\* No transition, or one that stays inside its superstate.
Within(s) == sm' = s /\ continuous' = continuous /\ desired' = desired /\ aborted' = FALSE
Stay      == Within(sm)

\* The same, decided by reading the latch.
WithinRead(s) == sm' = s /\ continuous' = continuous /\ desired' = desired /\ aborted' = Unready

\* A transition that leaves REQUESTED, enters it, or does both.
Cross(s) == sm' = s /\ SetEnabled(s.leaf \in Requested)

\* IDLE's enter handler goes on to MANAGED when it finds a repeating mode
\* enabled; leaving REQUESTED has just cleared the latch.
ToIdle(byCarOff) ==
  IF sm.leaf \in Requested THEN Cross(InIdle(byCarOff))
  ELSE IF Repeating /\ Enabled THEN Cross(InManaged([Fresh EXCEPT !.attempt = Long]))
  ELSE WithinRead(InIdle(byCarOff))

\* A blocked attempt; in ONCE mode leaving REQUESTED touches no latch.
Block == Within(Blocked(sm))

---------------------------------------------------------------------------
(* Events, resolved by the leaf or by its parent.                          *)

OnToggle ==
  IF sm.leaf \notin Requested THEN Cross(InRequested("MANUAL", platform.status))
  ELSE IF sm.entered > Debounce THEN Cross(InStopping(0))
  ELSE Stay

OnReady ==
  CASE sm.leaf = "idle" /\ sm.notice -> Within([sm EXCEPT !.dwell = 0])
    [] sm.leaf = "managed" /\ mode = "PERSISTENT" ->
         Within([sm EXCEPT !.leaf = "car-start-delay", !.dwell = 0])
    [] OTHER -> Stay

\* Mutant: the car going off drops a session of every mode.
OnNotReady_DropsAll ==
  CASE sm.leaf \in Requested -> ToIdle(TRUE)
    [] sm.leaf \in Stopping -> ToIdle(FALSE)
    [] OTHER -> Stay

OnNotReady ==
  CASE sm.leaf \in Requested ->
         IF mode = "PERSISTENT" /\ Enabled THEN WithinRead(InManaged(sm)) ELSE ToIdle(TRUE)
    [] sm.leaf \in Stopping -> ToIdle(FALSE)
    [] OTHER -> Stay

\* Mutant: a ONCE session that falls back to starting begins a new request.
OnStatusActive_FreshBudget(status) ==
  CASE status = "STARTED" -> Stay
    [] status = "STARTING" ->
         Cross(InRequested(IF Repeating THEN "BMU_RESTART" ELSE "MANUAL", status))
    [] status = "IDLE" ->
         IF Enabled THEN WithinRead(InManaged(sm)) ELSE Cross(InStopping(0))

OnStatusActive(status) ==
  CASE status = "STARTED" -> Stay
    [] status = "STARTING" ->
         IF Repeating THEN Cross(InRequested("BMU_RESTART", status))
         ELSE Within([InSibling("wait-started") EXCEPT !.attempt = 0])
    [] status = "IDLE" ->
         IF Enabled THEN WithinRead(InManaged(sm)) ELSE Cross(InStopping(0))

OnStatus(status) ==
  CASE sm.leaf = "wait-starting" /\ status = "STARTING" -> Within(InSibling("wait-started"))
    [] sm.leaf \in {"wait-starting", "wait-started"} /\ status = "STARTED" ->
         Within(InSibling("active"))
    [] sm.leaf = "active" -> OnStatusActive(status)
    [] sm.leaf = "managed" /\ status # "IDLE" -> Cross(InRequested("BMU_RESTART", status))
    [] sm.leaf = "wait-stopped" /\ status = "IDLE" -> ToIdle(FALSE)
    [] OTHER -> Stay

---------------------------------------------------------------------------
(* Tick handlers of the leaves.                                            *)

StartTimeout ==
  IF sm.kind \in Silent THEN Within(InManaged(sm))
  ELSE IF sm.retries < MaxRetries
       THEN Within(InStartBurst([sm EXCEPT !.retries = @ + 1]))
  ELSE IF Enabled THEN WithinRead(InManaged(sm))
  ELSE Cross(InStopping(MaxRetries))

IdleTick ==
  IF sm.notice /\ platform.ready /\ sm.dwell >= CarStartDelay
  THEN Within([sm EXCEPT !.notice = FALSE])
  ELSE Stay

CarStartDelayTick ==
  IF sm.dwell >= CarStartDelay THEN Cross(InRequested("CAR_START", platform.status)) ELSE Stay

StartBurstTick ==
  IF warm THEN Block
  ELSE IF sm.ticks + 1 < StartTicks THEN Within([sm EXCEPT !.ticks = @ + 1])
  ELSE Within(InSibling(CASE platform.status = "STARTED"  -> "active"
                          [] platform.status = "STARTING" -> "wait-started"
                          [] OTHER                        -> "wait-starting"))

\* Mutant: without status frames the wait has no timeout.
WaitStartingTick_NoTimeout ==
  IF warm THEN Block
  ELSE IF platform.status # "UNKNOWN" /\ sm.attempt > RetryAfter THEN StartTimeout
  ELSE Stay

WaitStartingTick ==
  IF warm THEN Block
  ELSE IF platform.status = "UNKNOWN"
       THEN IF sm.attempt > StartedTimeout THEN Within(InSibling("active")) ELSE Stay
  ELSE IF sm.attempt > RetryAfter THEN StartTimeout
  ELSE Stay

WaitStartedTick ==
  IF warm THEN Block
  ELSE IF sm.attempt > StartedTimeout THEN StartTimeout
  ELSE Stay

\* Mutant: re-nudges do not look at the car's power.
ManagedTick_CarOff ==
  IF sm.dwell > NudgeInterval THEN Cross(InRequested("PERIODIC", platform.status)) ELSE Stay

ManagedTick ==
  IF platform.ready /\ sm.dwell > NudgeInterval
  THEN Cross(InRequested("PERIODIC", platform.status))
  ELSE Stay

StopBurstTick ==
  IF sm.ticks + 1 < StopTicks THEN Within([sm EXCEPT !.ticks = @ + 1])
  ELSE IF platform.status # "UNKNOWN" THEN Within(InSibling("wait-stopped"))
  ELSE ToIdle(FALSE)

WaitStoppedTick ==
  IF sm.attempt > RetryAfter
  THEN IF sm.retries < MaxRetries
       THEN Within([InSibling("stop-burst") EXCEPT !.retries = @ + 1, !.attempt = 0])
       ELSE ToIdle(FALSE)
  ELSE Stay

---------------------------------------------------------------------------
(* Steps.                                                                  *)

Running == ~aborted
Unlocked == Running /\ ~ticking

\* The command frame a tick of this leaf puts on the bus.
Frame ==
  CASE sm.leaf = "start-burst" /\ ~warm -> "start"
    [] sm.leaf = "stop-burst"           -> "stop"
    [] OTHER                            -> "none"

\* History: the number of start bursts entered since the user's toggle.
NoteBurst(base) ==
  bursts' = IF sm'.leaf = "start-burst" /\ sm.leaf # "start-burst"
            THEN Older(base, MaxRetries + 2) ELSE base

\* What a toggle leaves in the history: a new user request forgives the car
\* being off and starts a new count of bursts.
NoteToggle ==
  LET starts == sm.leaf \notin Requested
  IN  /\ carOff' = (carOff /\ ~starts)
      /\ NoteBurst(IF starts THEN 0 ELSE bursts)

\* sm_tick, first half: the global hook drains the web UI's toggle request.
TickGlobal ==
  /\ Unlocked
  /\ ticking' = TRUE
  /\ toggleReq' = FALSE
  /\ IF toggleReq THEN OnToggle /\ NoteToggle ELSE Stay /\ UNCHANGED histVars
  /\ cause' = IF toggleReq THEN "user" ELSE "tick"
  /\ sent' = "none"
  /\ UNCHANGED <<mode, platform, warm, inited, call>>

\* sm_tick, second half: the handler of the leaf the global hook left.
TickLeaf ==
  /\ Running /\ ticking
  /\ ticking' = FALSE
  /\ CASE sm.leaf = "idle"            -> IdleTick
       [] sm.leaf = "car-start-delay" -> CarStartDelayTick
       [] sm.leaf = "start-burst"     -> StartBurstTick
       [] sm.leaf = "wait-starting"   -> WaitStartingTick
       [] sm.leaf = "wait-started"    -> WaitStartedTick
       [] sm.leaf = "active"          -> Stay
       [] sm.leaf = "managed"         -> ManagedTick
       [] sm.leaf = "stop-burst"      -> StopBurstTick
       [] sm.leaf = "wait-stopped"    -> WaitStoppedTick
  /\ sent' = Frame
  /\ cause' = "tick"
  /\ NoteBurst(bursts)
  /\ UNCHANGED <<mode, platform, warm, inited, toggleReq, call, carOff>>

\* 0x038 power status: only edges act.
RxPower(ready) ==
  /\ Unlocked
  /\ ready # platform.ready
  /\ platform' = [platform EXCEPT !.ready = ready]
  /\ IF ready THEN OnReady ELSE OnNotReady
  /\ carOff' = ~ready
  /\ cause' = "car" /\ sent' = "none"
  /\ UNCHANGED <<mode, warm, inited, toggleReq, call, ticking, bursts>>

\* 0x2AD status frame from the car's own bus.
RxStatus(status) ==
  /\ Unlocked
  /\ platform' = [platform EXCEPT !.status = status]
  /\ OnStatus(status)
  /\ NoteBurst(bursts)
  /\ cause' = "car" /\ sent' = "none"
  /\ UNCHANGED <<mode, warm, inited, toggleReq, call, ticking, carOff>>

\* 0x152 battery temperature.
RxTemperature(isWarm) ==
  /\ Unlocked
  /\ warm' = isWarm
  /\ Stay
  /\ cause' = "car" /\ sent' = "none"
  /\ UNCHANGED <<mode, platform, inited, toggleReq, call, ticking>>
  /\ UNCHANGED histVars

\* precondition_toggle_request, from the HTTP server task.
WebToggle ==
  /\ Running /\ ~toggleReq
  /\ toggleReq' = TRUE
  /\ sent' = "none" /\ cause' = "web"
  /\ UNCHANGED <<mode, sm, platform, warm, inited, call, ticking, histVars, latchVars>>

\* precondition_action_execute reads the leaf or assigns the mode without the
\* machine's lock, whatever another task is dispatching.
CallBegin(c) ==
  /\ Running /\ call[c] = "none"
  /\ \E command \in Commands :
       IF command = "cancel"
       THEN /\ sm.leaf \in Requested
            /\ call' = [call EXCEPT ![c] = "cancel"]
            /\ UNCHANGED mode
       ELSE /\ mode' = command
            /\ call' = [call EXCEPT ![c] = IF command = "PERSISTENT" /\ ~inited
                                           THEN "init" ELSE "toggle"]
  /\ sent' = "none" /\ cause' = "call"
  /\ UNCHANGED <<sm, platform, warm, inited, toggleReq, ticking, histVars, latchVars>>

\* persistent_settings_init past its check: load NVS, start the writer.
CallInit(c) ==
  /\ Running /\ call[c] = "init"
  /\ desired' \in BOOLEAN
  /\ inited' = TRUE
  /\ call' = [call EXCEPT ![c] = "toggle"]
  /\ sent' = "none" /\ cause' = "call"
  /\ UNCHANGED <<mode, sm, platform, warm, continuous, toggleReq, ticking, aborted, histVars>>

CallToggle(c) ==
  /\ Unlocked /\ call[c] \in {"toggle", "cancel"}
  /\ OnToggle /\ NoteToggle
  /\ call' = [call EXCEPT ![c] = "none"]
  /\ cause' = IF call[c] = "cancel" THEN "cancel" ELSE "user"
  /\ sent' = "none"
  /\ UNCHANGED <<mode, platform, warm, inited, toggleReq, ticking>>

\* Time passes between dispatches.
Pass ==
  /\ Unlocked
  /\ sm' = [sm EXCEPT !.entered = Older(@, IF sm.leaf \in Requested THEN Debounce + 1 ELSE 0),
                      !.attempt = Older(@, IF sm.leaf \in Requested THEN StartedTimeout + 1
                                           ELSE IF sm.leaf \in Stopping THEN RetryAfter + 1 ELSE 0),
                      !.dwell   = Older(@, IF sm.leaf = "managed" THEN NudgeInterval + 1
                                           ELSE IF sm.leaf \in {"idle", "car-start-delay"}
                                                THEN CarStartDelay ELSE 0)]
  /\ sent' = "none" /\ cause' = "time"
  /\ UNCHANGED <<mode, platform, warm, inited, toggleReq, call, ticking,
                 carOff, bursts, latchVars>>

\* precondition_init and sm_init: IDLE, or MANAGED if persistent mode was on.
Booted(m, stored) ==
  IF m = "PERSISTENT" /\ stored THEN InManaged([Fresh EXCEPT !.attempt = Long])
  ELSE [Fresh EXCEPT !.dwell = Long]

\* Power loss, a crash, or the restart that follows a configuration change.
Reboot ==
  \E m \in ConfigModes, stored \in BOOLEAN :
    /\ mode' = m
    /\ sm' = Booted(m, stored)
    /\ platform' = [status |-> "UNKNOWN", ready |-> FALSE]
    /\ warm' = FALSE /\ continuous' = FALSE
    /\ inited' = (m = "PERSISTENT")
    /\ desired' = (m = "PERSISTENT" /\ stored)
    /\ toggleReq' = FALSE /\ ticking' = FALSE /\ aborted' = FALSE
    /\ call' = [c \in Callers |-> "none"]
    /\ sent' = "none" /\ cause' = "boot"
    /\ carOff' = FALSE /\ bursts' = 0

---------------------------------------------------------------------------
Init ==
  /\ mode \in ConfigModes
  /\ desired \in BOOLEAN /\ (desired => mode = "PERSISTENT")
  /\ sm = Booted(mode, desired)
  /\ platform = [status |-> "UNKNOWN", ready |-> FALSE]
  /\ warm = FALSE /\ continuous = FALSE
  /\ inited = (mode = "PERSISTENT")
  /\ toggleReq = FALSE /\ ticking = FALSE /\ aborted = FALSE
  /\ call = [c \in Callers |-> "none"]
  /\ sent = "none" /\ cause = "boot"
  /\ carOff = FALSE /\ bursts = 0

Rx == \/ \E ready \in BOOLEAN : RxPower(ready)
      \/ \E status \in Statuses \ {"UNKNOWN"} : RxStatus(status)
      \/ \E isWarm \in BOOLEAN : RxTemperature(isWarm)

Call == \E c \in Callers : CallBegin(c) \/ CallInit(c) \/ CallToggle(c)

Next == TickGlobal \/ TickLeaf \/ Rx \/ WebToggle \/ Call \/ Pass \/ Reboot

Spec == Init /\ [][Next]_vars

\* The one-shot timer is re-armed after every tick, a tick that began ends, and
\* time does not stop (a dispatch lasts less than the gap between two ticks).
Fairness == WF_vars(TickGlobal) /\ WF_vars(TickLeaf) /\ SF_vars(Pass)
FairSpec == Spec /\ Fairness
===========================================================================
