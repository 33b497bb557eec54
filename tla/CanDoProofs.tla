------------------------------ MODULE CanDoProofs ------------------------------
(***************************************************************************)
(* Proofs about the Can-Do rule, for any set of rules, any times and any   *)
(* payloads: types, one firing per press, the distance of firings, holds,  *)
(* combinations and multi-presses.                                         *)
(***************************************************************************)
EXTENDS CanDoProps, FiniteSetTheorems, TLAPS

\* A click accumulator is reset before it passes its target.
ClicksBelow == \A k \in Triggers : trig[k].clicks < Config(k).clicks

\* The code's time of the last firing is never before the real one: confirmations and
\* combinations only move it on.
AgesOrdered == \A k \in Triggers : trig[k].age <= seen[k].quiet

\* A trigger whose reset identifier is its own never fires.
ResetFree == \A k \in Triggers : Config(k).reset => seen[k].free

\* A one-shot trigger that fired in this press is latched, or the re-arm time is over.
LatchHolds ==
  \A k \in Triggers :
    OneShot(k) /\ ~seen[k].free
      => trig[k].latched \/ (ResetAfter > 0 /\ seen[k].quiet > ResetAfter)

\* A transition trigger that fired in this press remembers a frame of this press.
PressRemembered ==
  \A k \in Triggers :
    Transition(k) /\ Undisturbed(k) /\ ~seen[k].free
      => trig[k].last.class[k] \notin {"none", "idle"}

IInv == TypeOK /\ ClicksBelow /\ AgesOrdered /\ ResetFree /\ LatchHolds /\ PressRemembered

---------------------------------------------------------------------------
(* Configurations, ages and the parts of a step.                           *)

\* The configuration of a loaded rule is one the file may hold.
LEMMA ConfigType ==
  ASSUME rule \in Rules
  PROVE  /\ rule.toggle \in BOOLEAN /\ rule.combo \in BOOLEAN
         /\ \A k \in Triggers :
              /\ Config(k).clicks \in 1 .. 3 /\ Config(k).hold \in Ages
              /\ Config(k).id \in Triggers
              /\ Config(k).reset \in BOOLEAN
<1>1. rule \in RuleConfig
  BY RulesAssumption
<1>2. rule.trigger \in [Triggers -> TriggerConfig]
  BY <1>1 DEF RuleConfig
<1>3. rule.toggle \in BOOLEAN /\ rule.combo \in BOOLEAN
  BY <1>1 DEF RuleConfig
<1>4. ASSUME NEW k \in Triggers
      PROVE  /\ Config(k).clicks \in 1 .. 3 /\ Config(k).hold \in Ages
             /\ Config(k).id \in Triggers /\ Config(k).reset \in BOOLEAN
  BY <1>2 DEF Config, TriggerConfig, Ages
<1>. QED
  BY <1>3, <1>4

\* Growing older keeps an age an age, and never passes one that was not behind.
LEMMA OlderType ==
  /\ \A a \in Ages : Older(a) \in Ages
  /\ \A a \in Ages \cup {Unset} : Older(a) \in Ages \cup {Unset}
  /\ \A a, b \in Ages : a <= b => Older(a) <= Older(b)
  /\ \A a \in Ages : a <= Older(a)
BY TimesAssumption DEF Older, Ages, Unset

\* The fields of a trigger and of its observer have their types.
LEMMA FieldTypes ==
  ASSUME TypeOK, NEW k \in Triggers
  PROVE  /\ trig[k] \in TriggerState /\ seen[k] \in ObserverState
         /\ trig[k].last \in [class : [Triggers -> Classes \cup {"none"}], tag : Tags \cup {0}]
         /\ trig[k].held \in BOOLEAN /\ trig[k].was \in BOOLEAN
         /\ trig[k].since \in Ages \cup {Unset} /\ trig[k].holdFired \in BOOLEAN
         /\ trig[k].clicks \in 0 .. 3 /\ trig[k].gap \in Ages
         /\ trig[k].latched \in BOOLEAN /\ trig[k].pending \in BOOLEAN
         /\ trig[k].age \in Ages
         /\ seen[k].free \in BOOLEAN /\ seen[k].quiet \in Ages
         /\ seen[k].down \in Ages \cup {Unset} /\ seen[k].chain \in 0 .. 3
         /\ seen[k].apart \in Ages
<1>1. trig[k] \in TriggerState /\ seen[k] \in ObserverState
  BY DEF TypeOK
<1>. QED
  BY <1>1 DEF TriggerState, ObserverState

\* What a visited trigger keeps has its type, and its clicks stay below the target.
LEMMA AfterFrameType ==
  ASSUME TypeOK, ClicksBelow, NEW id \in Triggers, NEW p \in Payloads(id),
         NEW k \in Triggers, NEW held
  PROVE  /\ AfterFrame(k, p, held) \in TriggerState
         /\ AfterFrame(k, p, held).clicks < Config(k).clicks
<1>. DEFINE a == AfterFrame(k, p, held)
<1>1. p \in [class : [Triggers -> Classes \cup {"none"}], tag : Tags \cup {0}]
  BY DEF Payloads
<1>2. Config(k).clicks \in 1 .. 3 /\ rule \in Rules
  BY ConfigType DEF TypeOK
<1>3. ClickCount(k) \in 1 .. 4
  BY FieldTypes DEF ClickCount
<1>4. 0 \in Ages
  BY TimesAssumption DEF Ages
<1>5. CASE Config(k).reset
  <2>1. a = [trig[k] EXCEPT !.held = k \in held, !.was = @ \/ Passes(k, p),
                            !.latched = FALSE, !.pending = FALSE]
    BY <1>5 DEF AfterFrame
  <2>2. /\ trig[k].clicks < Config(k).clicks /\ trig[k] \in TriggerState
        /\ trig[k].was \in BOOLEAN
    BY FieldTypes DEF ClicksBelow
  <2>3. (trig[k].was \/ Passes(k, p)) \in BOOLEAN /\ (k \in held) \in BOOLEAN
    OBVIOUS
  <2>4. a \in TriggerState /\ a.clicks = trig[k].clicks
    <3>. HIDE DEF a
    <3>. QED
      BY <2>1, <2>2, <2>3 DEF TriggerState
  <2>. QED
    BY <2>2, <2>4
<1>6. CASE ~Config(k).reset
  <2>1. /\ a.last \in [class : [Triggers -> Classes \cup {"none"}], tag : Tags \cup {0}]
        /\ a.held \in BOOLEAN /\ a.was \in BOOLEAN
        /\ a.holdFired \in BOOLEAN /\ a.latched \in BOOLEAN /\ a.pending \in BOOLEAN
    BY <1>1, <1>6, FieldTypes DEF AfterFrame
  <2>2. a.since \in Ages \cup {Unset} /\ a.gap \in Ages
    BY <1>4, <1>6, FieldTypes DEF AfterFrame
  <2>3. a.age \in Ages
    BY <1>4, <1>6, FieldTypes DEF AfterFrame, AgeAt
  <2>4. a.clicks \in 0 .. 3 /\ a.clicks < Config(k).clicks
    <3>1. trig[k].clicks \in 0 .. 3 /\ trig[k].clicks < Config(k).clicks
      BY FieldTypes DEF ClicksBelow
    <3>2. Clicks(k, p) /\ ~LastClick(k, p) => ClickCount(k) < Config(k).clicks
      BY <1>2, <1>3 DEF LastClick
    <3>3. a.clicks = IF LastClick(k, p) THEN 0
                     ELSE IF Clicks(k, p) THEN ClickCount(k) ELSE trig[k].clicks
      BY <1>6 DEF AfterFrame
    <3>. HIDE DEF a
    <3>. QED
      BY <1>2, <1>3, <3>1, <3>2, <3>3
  <2>5. a = [last |-> a.last, held |-> a.held, was |-> a.was, since |-> a.since,
             holdFired |-> a.holdFired, clicks |-> a.clicks, gap |-> a.gap,
             latched |-> a.latched, pending |-> a.pending, age |-> a.age]
    BY <1>6 DEF AfterFrame
  <2>6. a \in TriggerState
    <3>. HIDE DEF a
    <3>. QED
      BY <2>1, <2>2, <2>3, <2>4, <2>5 DEF TriggerState
  <2>. QED
    BY <2>4, <2>6
<1>. QED
  BY <1>5, <1>6

\* So has what the frame leaves of any trigger.
LEMMA LeftType ==
  ASSUME TypeOK, ClicksBelow, NEW id \in Triggers, NEW p \in Payloads(id),
         NEW k \in Triggers
  PROVE  /\ Left(id, p, k) \in TriggerState
         /\ Left(id, p, k).clicks < Config(k).clicks
<1>1. trig[k] \in TriggerState /\ trig[k].clicks < Config(k).clicks
  BY FieldTypes DEF ClicksBelow
<1>2. CASE k \in Visited(id, p)
  BY <1>2, AfterFrameType DEF Left
<1>3. CASE k \notin Visited(id, p) /\ k \in On(id)
  <2>1. Left(id, p, k) = [trig[k] EXCEPT !.held = k \in HeldAfter(id, p),
                                         !.was = @ \/ Passes(k, p)]
    BY <1>3 DEF Left
  <2>2. /\ (k \in HeldAfter(id, p)) \in BOOLEAN
        /\ (trig[k].was \/ Passes(k, p)) \in BOOLEAN
    OBVIOUS
  <2>. HIDE DEF Left
  <2>. QED
    BY <1>1, <2>1, <2>2 DEF TriggerState
<1>4. CASE k \notin Visited(id, p) /\ k \notin On(id)
  BY <1>1, <1>4 DEF Left
<1>. QED
  BY <1>2, <1>3, <1>4

\* So has what the observer notes.
LEMMA ObservedType ==
  ASSUME TypeOK, NEW k \in Triggers, NEW p, NEW fired \in BOOLEAN
  PROVE  Observed(k, p, fired) \in ObserverState
<1>1. /\ seen[k].free \in BOOLEAN /\ seen[k].quiet \in Ages
      /\ seen[k].down \in Ages \cup {Unset} /\ seen[k].chain \in 0 .. 3
      /\ seen[k].apart \in Ages /\ 0 \in Ages
  BY FieldTypes, TimesAssumption DEF Ages
<1>2. /\ Observed(k, p, fired).free \in BOOLEAN
      /\ Observed(k, p, fired).quiet \in Ages
      /\ Observed(k, p, fired).down \in Ages \cup {Unset}
      /\ Observed(k, p, fired).apart \in Ages
  BY <1>1 DEF Observed
<1>3. Observed(k, p, fired).chain \in 0 .. 3
  <2>1. \/ Observed(k, p, fired).chain \in {0, 1, 3, seen[k].chain}
        \/ seen[k].chain < 3 /\ Observed(k, p, fired).chain = seen[k].chain + 1
    BY DEF Observed
  <2>. QED
    BY <1>1, <2>1
<1>4. Observed(k, p, fired) =
        [free |-> Observed(k, p, fired).free, quiet |-> Observed(k, p, fired).quiet,
         down |-> Observed(k, p, fired).down, chain |-> Observed(k, p, fired).chain,
         apart |-> Observed(k, p, fired).apart]
  BY DEF Observed
<1>. QED
  BY <1>2, <1>3, <1>4 DEF ObserverState

\* Executing the firings of a step keeps the tasks' places in their types.
LEMMA ExecuteType ==
  ASSUME TypeOK, NEW a \in Tasks, NEW S \in SUBSET Triggers, Execute(a, Cardinality(S))
  PROVE  /\ pc' \in [Tasks -> {"idle", "toggle", "on", "off", "stamp", "clear"}]
         /\ todo' \in [Tasks -> 0 .. Cardinality(Triggers)]
<1>1. /\ Cardinality(S) \in Nat /\ Cardinality(Triggers) \in Nat
      /\ Cardinality(S) <= Cardinality(Triggers)
  BY FS_Subset, FS_CardinalityType, TriggersAssumption
<1>. QED
  BY <1>1 DEF Execute, TypeOK

---------------------------------------------------------------------------
(* Types.                                                                  *)

\* A frame keeps types and click bounds.
LEMMA FrameTypes ==
  ASSUME TypeOK, ClicksBelow, NEW id \in Triggers, NEW p \in Payloads(id), RxFrame(id, p)
  PROVE  TypeOK' /\ ClicksBelow'
<1>1. ASSUME NEW k \in Triggers
      PROVE  trig'[k] \in TriggerState /\ trig'[k].clicks < Config(k).clicks
  <2>1. Left(id, p, k) \in TriggerState /\ Left(id, p, k).clicks < Config(k).clicks
    BY LeftType
  <2>2. trig'[k] = Left(id, p, k) \/ trig'[k] = Stamped(Left(id, p, k), k)
    BY DEF RxFrame
  <2>3. ASSUME NEW t \in TriggerState
        PROVE  Stamped(t, k) \in TriggerState /\ Stamped(t, k).clicks = t.clicks
    <3>1. 0 \in Ages /\ (t.latched \/ Config(k).mode = "one_shot") \in BOOLEAN
      BY TimesAssumption DEF Ages
    <3>. QED
      BY <3>1 DEF Stamped, TriggerState
  <2>. HIDE DEF Left
  <2>. QED
    BY <2>1, <2>2, <2>3
<1>2. trig' \in [Triggers -> TriggerState]
  BY <1>1 DEF RxFrame
<1>3. seen' \in [Triggers -> ObserverState]
  <2>1. ASSUME NEW k \in Triggers
        PROVE  seen'[k] \in ObserverState
    <3>1. (k \in Fired(id, p)) \in BOOLEAN
      OBVIOUS
    <3>2. /\ seen[k] \in ObserverState
          /\ Observed(k, p, k \in Fired(id, p)) \in ObserverState
      BY <3>1, ObservedType, FieldTypes
    <3>. QED
      BY <3>2 DEF RxFrame
  <2>. QED
    BY <2>1 DEF RxFrame
<1>4. Fired(id, p) \in SUBSET Triggers
  BY DEF Fired, Visited, On
<1>5. /\ pc' \in [Tasks -> {"idle", "toggle", "on", "off", "stamp", "clear"}]
      /\ todo' \in [Tasks -> 0 .. Cardinality(Triggers)]
  BY <1>4, ExecuteType DEF RxFrame, Tasks
<1>6. /\ rule' \in Rules /\ active' \in BOOLEAN /\ since' \in Ages \cup {Unset}
      /\ capture' \in {"no", "auto", "paused"} /\ shots' \in SUBSET Triggers
      /\ rule' = rule
  BY <1>4 DEF RxFrame, TypeOK
<1>7. TypeOK'
  BY <1>2, <1>3, <1>5, <1>6 DEF TypeOK
<1>8. ClicksBelow'
  BY <1>1, <1>6 DEF ClicksBelow, Config
<1>. QED
  BY <1>7, <1>8

\* A command keeps types and click bounds.
LEMMA CommandTypes ==
  ASSUME TypeOK, ClicksBelow, NEW K \in SUBSET Triggers, MqttTrigger(K)
  PROVE  TypeOK' /\ ClicksBelow'
<1>. DEFINE fired == {k \in K : trig[k].age >= Cooldown}
<1>1. 0 \in Ages
  BY TimesAssumption DEF Ages
<1>2. ASSUME NEW k \in Triggers
      PROVE  /\ trig'[k] \in TriggerState /\ trig'[k].clicks = trig[k].clicks
             /\ seen'[k] \in ObserverState
  <2>1. /\ trig[k] \in TriggerState /\ seen[k] \in ObserverState
    BY FieldTypes
  <2>2. /\ trig'[k] = trig[k] \/ trig'[k] = [trig[k] EXCEPT !.age = 0]
        /\ seen'[k] = seen[k] \/ seen'[k] = [seen[k] EXCEPT !.quiet = 0]
    BY DEF MqttTrigger
  <2>. QED
    BY <1>1, <2>1, <2>2 DEF TriggerState, ObserverState
<1>3. trig' \in [Triggers -> TriggerState] /\ seen' \in [Triggers -> ObserverState]
  BY <1>2 DEF MqttTrigger
<1>4. fired \in SUBSET Triggers
  OBVIOUS
<1>5. /\ pc' \in [Tasks -> {"idle", "toggle", "on", "off", "stamp", "clear"}]
      /\ todo' \in [Tasks -> 0 .. Cardinality(Triggers)]
  <2>1. Execute("mqtt", Cardinality(fired)) /\ "mqtt" \in Tasks
    BY DEF MqttTrigger, Tasks
  <2>. HIDE DEF fired
  <2>. QED
    BY <1>4, <2>1, ExecuteType
<1>6. /\ rule' \in Rules /\ active' \in BOOLEAN /\ since' \in Ages \cup {Unset}
      /\ capture' \in {"no", "auto", "paused"} /\ shots' \in SUBSET Triggers
      /\ rule' = rule
  BY <1>4 DEF MqttTrigger, TypeOK
<1>7. TypeOK'
  BY <1>3, <1>5, <1>6 DEF TypeOK
<1>8. ClicksBelow'
  BY <1>2, <1>6 DEF ClicksBelow, Config
<1>. QED
  BY <1>7, <1>8

\* The passing of time keeps types and click bounds.
LEMMA TimeTypes ==
  ASSUME TypeOK, ClicksBelow, TimePasses
  PROVE  TypeOK' /\ ClicksBelow'
<1>1. ASSUME NEW k \in Triggers
      PROVE  trig'[k] \in TriggerState /\ trig'[k].clicks = trig[k].clicks
  <2>1. /\ trig[k] \in TriggerState /\ Older(trig[k].since) \in Ages \cup {Unset}
        /\ Older(trig[k].gap) \in Ages /\ Older(trig[k].age) \in Ages
    BY FieldTypes, OlderType
  <2>2. trig'[k] = [trig[k] EXCEPT !.since = Older(trig[k].since),
                      !.gap = Older(trig[k].gap), !.age = Older(trig[k].age)]
    BY DEF TimePasses
  <2>. QED
    BY <2>1, <2>2 DEF TriggerState
<1>2. ASSUME NEW k \in Triggers
      PROVE  seen'[k] \in ObserverState
  <2>1. /\ seen[k] \in ObserverState /\ Older(seen[k].down) \in Ages \cup {Unset}
        /\ Older(seen[k].quiet) \in Ages /\ Older(seen[k].apart) \in Ages
    BY FieldTypes, OlderType
  <2>2. seen'[k] = [seen[k] EXCEPT !.quiet = Older(seen[k].quiet),
                      !.down = Older(seen[k].down), !.apart = Older(seen[k].apart)]
    BY DEF TimePasses
  <2>. QED
    BY <2>1, <2>2 DEF ObserverState
<1>3. trig' \in [Triggers -> TriggerState] /\ seen' \in [Triggers -> ObserverState]
  BY <1>1, <1>2 DEF TimePasses
<1>4. since' \in Ages \cup {Unset}
  BY OlderType DEF TimePasses, TypeOK
<1>5. TypeOK'
  BY <1>3, <1>4 DEF TimePasses, TypeOK
<1>6. ClicksBelow'
  BY <1>1 DEF ClicksBelow, Config, TimePasses
<1>. QED
  BY <1>5, <1>6

\* The tick keeps types and click bounds.
LEMMA TickTypes ==
  ASSUME TypeOK, ClicksBelow, TimerTick
  PROVE  TypeOK' /\ ClicksBelow'
<1>1. ASSUME NEW k \in Triggers
      PROVE  /\ Expired(k) \in TriggerState /\ Expired(k).clicks < Config(k).clicks
  <2>1. /\ trig[k] \in TriggerState /\ trig[k].clicks < Config(k).clicks
        /\ trig[k].clicks \in 0 .. 3 /\ Config(k).clicks \in 1 .. 3
    BY FieldTypes, ConfigType DEF ClicksBelow, TypeOK
  <2>2. PICK n \in {0, trig[k].clicks}, l \in BOOLEAN, w \in BOOLEAN :
          Expired(k) = [trig[k] EXCEPT !.clicks = n, !.latched = l, !.pending = w]
    <3>1. /\ (IF trig[k].gap > Window THEN 0 ELSE trig[k].clicks) \in {0, trig[k].clicks}
          /\ (trig[k].latched /\ ~(ResetAfter > 0 /\ trig[k].age > ResetAfter)) \in BOOLEAN
          /\ (trig[k].pending /\ ~(Config(k).mode = "poll_verify"
                                   /\ trig[k].age > VerifyTimeout)) \in BOOLEAN
      OBVIOUS
    <3>. QED
      BY <3>1 DEF Expired
  <2>3. n \in 0 .. 3 /\ n < Config(k).clicks
    BY <2>1
  <2>4. Expired(k).clicks = n
    BY <2>1, <2>2 DEF TriggerState
  <2>5. Expired(k) \in TriggerState
    BY <2>1, <2>2, <2>3 DEF TriggerState
  <2>. QED
    BY <2>3, <2>4, <2>5
<1>2. trig' \in [Triggers -> TriggerState]
  BY <1>1 DEF TimerTick
<1>3. pc' \in [Tasks -> {"idle", "toggle", "on", "off", "stamp", "clear"}]
  BY DEF TimerTick, TypeOK
<1>4. TypeOK'
  BY <1>2, <1>3 DEF TimerTick, TypeOK
<1>5. ClicksBelow'
  BY <1>1 DEF ClicksBelow, Config, TimerTick
<1>. QED
  BY <1>4, <1>5

\* A step of a toggle keeps types and click bounds.
LEMMA ToggleTypes ==
  ASSUME TypeOK, ClicksBelow, NEW a \in Tasks, Toggle(a)
  PROVE  TypeOK' /\ ClicksBelow'
<1>1. /\ pc' \in [Tasks -> {"idle", "toggle", "on", "off", "stamp", "clear"}]
      /\ active' \in BOOLEAN /\ shots' = {}
      /\ UNCHANGED <<rule, trig, capture, seen>>
  BY DEF Toggle, ToggleRead, WriteActive, WriteSince, TypeOK
<1>2. todo' \in [Tasks -> 0 .. Cardinality(Triggers)]
  <2>1. CASE WriteSince(a)
    <3>1. todo[a] \in 0 .. Cardinality(Triggers) /\ Cardinality(Triggers) \in Nat
      BY FS_CardinalityType, TriggersAssumption DEF TypeOK
    <3>2. (IF todo[a] > 0 THEN todo[a] - 1 ELSE 0) \in 0 .. Cardinality(Triggers)
      BY <3>1
    <3>. QED
      BY <2>1, <3>2 DEF WriteSince, TypeOK
  <2>2. CASE ToggleRead(a) \/ WriteActive(a)
    BY <2>2 DEF ToggleRead, WriteActive, TypeOK
  <2>. QED
    BY <2>1, <2>2 DEF Toggle
<1>3. since' \in Ages \cup {Unset}
  BY TimesAssumption DEF Toggle, ToggleRead, WriteActive, WriteSince, TypeOK, Ages
<1>4. TypeOK'
  BY <1>1, <1>2, <1>3 DEF TypeOK
<1>5. ClicksBelow'
  BY <1>1 DEF ClicksBelow, Config
<1>. QED
  BY <1>4, <1>5

\* A zeroed trigger and its observer have their types.
LEMMA NewTypes == NewTrigger \in TriggerState /\ NewObserver \in ObserverState
BY TimesAssumption, TagsAssumption
   DEF NewTrigger, NewObserver, TriggerState, ObserverState, NoPayload, Ages

\* The initial state has its types.
LEMMA InitTypes == Init => TypeOK /\ ClicksBelow
<1>. SUFFICES ASSUME Init PROVE TypeOK /\ ClicksBelow
  OBVIOUS
<1>1. Cardinality(Triggers) \in Nat
  BY FS_CardinalityType, TriggersAssumption
<1>2. TypeOK
  <2>1. /\ trig \in [Triggers -> TriggerState] /\ seen \in [Triggers -> ObserverState]
        /\ todo \in [Tasks -> 0 .. Cardinality(Triggers)]
    BY <1>1, NewTypes DEF Init
  <2>. QED
    BY <2>1 DEF Init, TypeOK
<1>3. ClicksBelow
  BY ConfigType DEF Init, ClicksBelow, NewTrigger
<1>. QED
  BY <1>2, <1>3

\* A reload keeps types and click bounds.
LEMMA ReloadTypes ==
  ASSUME TypeOK, NEW r \in Rules, Reload(r)
  PROVE  TypeOK' /\ ClicksBelow'
<1>1. TypeOK'
  BY NewTypes DEF Reload, TypeOK
<1>2. r.trigger \in [Triggers -> TriggerConfig]
  BY RulesAssumption DEF RuleConfig
<1>3. ASSUME NEW k \in Triggers
      PROVE  trig'[k].clicks < r.trigger[k].clicks
  <2>1. r.trigger[k].clicks \in 1 .. 3
    BY <1>2 DEF TriggerConfig
  <2>. QED
    BY <2>1 DEF Reload, NewTrigger
<1>4. ClicksBelow'
  BY <1>3 DEF ClicksBelow, Config, Reload
<1>. QED
  BY <1>1, <1>4

\* Every step keeps types and click bounds.
LEMMA NextTypes == TypeOK /\ ClicksBelow /\ [Next]_vars => TypeOK' /\ ClicksBelow'
<1>. SUFFICES ASSUME TypeOK, ClicksBelow, [Next]_vars PROVE TypeOK' /\ ClicksBelow'
  OBVIOUS
<1>1. CASE Frame
  BY <1>1, FrameTypes DEF Frame
<1>2. CASE Command
  BY <1>2, CommandTypes DEF Command
<1>3. CASE TimerTick
  BY <1>3, TickTypes
<1>4. CASE \E a \in Tasks : Toggle(a)
  BY <1>4, ToggleTypes
<1>5. CASE \E r \in Rules : Reload(r)
  BY <1>5, ReloadTypes
<1>6. CASE \E mode \in {"no", "auto", "paused"} : SetCapture(mode)
  BY <1>6 DEF SetCapture, toggles, TypeOK, ClicksBelow, Config
<1>7. CASE TimePasses
  BY <1>7, TimeTypes
<1>8. CASE UNCHANGED vars
  BY <1>8 DEF vars, toggles, TypeOK, ClicksBelow, Config
<1>. QED
  BY <1>1, <1>2, <1>3, <1>4, <1>5, <1>6, <1>7, <1>8 DEF Next

\* The rule, its triggers and its tasks stay in their types; no click accumulator passes
\* its target.
THEOREM CanDoTypeCorrect == Spec => []TypeOK
<1>1. Init => TypeOK /\ ClicksBelow
  BY InitTypes
<1>2. TypeOK /\ ClicksBelow /\ [Next]_vars => (TypeOK /\ ClicksBelow)'
  BY NextTypes
<1>. QED
  BY <1>1, <1>2, PTL DEF Spec

---------------------------------------------------------------------------
(* What a frame leaves of a trigger, as far as the firing history asks.    *)

\* The combination's stamp leaves a trigger its last payload and sets its latch at most.
LEMMA FrameLeaves ==
  ASSUME TypeOK, ClicksBelow, NEW id \in Triggers, NEW p \in Payloads(id), RxFrame(id, p),
         NEW k \in Triggers
  PROVE  /\ trig'[k].last = Left(id, p, k).last
         /\ trig'[k].age \in {0, Left(id, p, k).age}
         /\ Left(id, p, k).latched => trig'[k].latched
         /\ trig'[k].since = Left(id, p, k).since
         /\ trig'[k].holdFired = Left(id, p, k).holdFired
         /\ trig'[k].held = Left(id, p, k).held /\ trig'[k].was = Left(id, p, k).was
         /\ trig'[k].clicks = Left(id, p, k).clicks /\ trig'[k].gap = Left(id, p, k).gap
<1>1. Left(id, p, k) \in TriggerState
  BY LeftType
<1>2. trig'[k] = Left(id, p, k) \/ trig'[k] = Stamped(Left(id, p, k), k)
  BY DEF RxFrame
<1>3. ASSUME NEW t \in TriggerState
      PROVE  /\ Stamped(t, k).last = t.last /\ Stamped(t, k).age = 0
             /\ t.latched => Stamped(t, k).latched
             /\ Stamped(t, k).since = t.since /\ Stamped(t, k).holdFired = t.holdFired
             /\ Stamped(t, k).held = t.held /\ Stamped(t, k).was = t.was
             /\ Stamped(t, k).clicks = t.clicks /\ Stamped(t, k).gap = t.gap
  BY DEF Stamped, TriggerState
<1>. HIDE DEF Left
<1>. QED
  BY <1>1, <1>2, <1>3

\* A trigger that fires is of the frame's identifier, visited, and not reset by it.
LEMMA FiredFacts ==
  ASSUME NEW id, NEW p, NEW k \in Fired(id, p)
  PROVE  /\ k \in Visited(id, p) /\ k \in On(id) /\ k \in Triggers
         /\ ~Config(k).reset
         /\ AgeAt(k, p) >= Cooldown
         /\ \/ Shoots(k, p, HeldAfter(id, p))
            \/ ShootsByClicks(k, p, HeldAfter(id, p))
         /\ Single(k) => Shoots(k, p, HeldAfter(id, p))
<1>1. /\ k \in Visited(id, p) /\ k \in On(id) /\ k \in Triggers
      /\ \/ Shoots(k, p, HeldAfter(id, p))
         \/ ShootsByClicks(k, p, HeldAfter(id, p))
  BY DEF Fired, Visited, Direct, On
<1>2. ~Config(k).reset /\ AgeAt(k, p) >= Cooldown
  BY <1>1 DEF Shoots, ShootsByClicks, Ready
<1>3. ASSUME Single(k), ShootsByClicks(k, p, HeldAfter(id, p))
      PROVE  FALSE
  BY <1>3 DEF Single, ShootsByClicks, LastClick, Clicks
<1>. QED
  BY <1>1, <1>2, <1>3

\* What the observer notes of a frame.
LEMMA ObservedFacts ==
  ASSUME NEW id, NEW p, RxFrame(id, p), NEW k \in Triggers
  PROVE  /\ k \notin On(id) => seen'[k] = seen[k]
         /\ k \in On(id) /\ k \in Fired(id, p) => seen'[k].quiet = 0 /\ seen'[k].free = FALSE
         /\ k \in On(id) /\ k \notin Fired(id, p)
              => /\ seen'[k].quiet = seen[k].quiet
                 /\ seen'[k].free = (seen[k].free \/ Up(k, p))
         /\ k \in On(id) /\ ~Up(k, p)
              => seen'[k].down = IF p.class[k] = "pressed" /\ seen[k].down = Unset
                                 THEN 0 ELSE seen[k].down
BY DEF RxFrame, Observed

\* A firing puts the time back; no frame puts it forward.
LEMMA FrameAges ==
  ASSUME TypeOK, ClicksBelow, AgesOrdered, NEW id \in Triggers, NEW p \in Payloads(id),
         RxFrame(id, p)
  PROVE  AgesOrdered'
<1>1. SUFFICES ASSUME NEW k \in Triggers PROVE trig'[k].age <= seen'[k].quiet
  BY DEF AgesOrdered
<1>2. trig[k].age \in Ages /\ seen[k].quiet \in Ages /\ trig[k].age <= seen[k].quiet
  BY FieldTypes DEF AgesOrdered
<1>3. trig[k] \in TriggerState
  BY FieldTypes
<1>4. Left(id, p, k).age \in {0, trig[k].age}
  <2>1. CASE k \in Visited(id, p)
    <3>1. AfterFrame(k, p, HeldAfter(id, p)).age \in {0, trig[k].age}
      BY <1>3 DEF AfterFrame, AgeAt, TriggerState
    <3>. QED
      BY <2>1, <3>1 DEF Left
  <2>2. CASE k \notin Visited(id, p)
    BY <1>3, <2>2 DEF Left, TriggerState
  <2>. QED
    BY <2>1, <2>2
<1>5. trig'[k].age \in {0, trig[k].age}
  BY <1>4, FrameLeaves
<1>6. CASE k \in Fired(id, p)
  <2>1. Left(id, p, k).age = 0
    BY <1>6, FiredFacts DEF Left, AfterFrame
  <2>2. trig'[k].age = 0
    BY <2>1, FrameLeaves
  <2>3. seen'[k].quiet = 0
    BY <1>6, FiredFacts, ObservedFacts
  <2>. QED
    BY <2>2, <2>3
<1>7. CASE k \notin Fired(id, p)
  <2>1. seen'[k].quiet = seen[k].quiet
    BY <1>7, ObservedFacts
  <2>. QED
    BY <1>2, <1>5, <2>1 DEF Ages
<1>. QED
  BY <1>6, <1>7

\* A trigger that every frame of its identifier resets does not fire.
LEMMA FrameReset ==
  ASSUME TypeOK, ResetFree, NEW id, NEW p, RxFrame(id, p)
  PROVE  ResetFree'
<1>1. SUFFICES ASSUME NEW k \in Triggers, Config(k).reset PROVE seen'[k].free
  BY DEF ResetFree, RxFrame, Config
<1>2. k \notin Fired(id, p)
  BY <1>1, FiredFacts
<1>3. seen[k].free
  BY <1>1 DEF ResetFree
<1>. QED
  BY <1>2, <1>3, ObservedFacts

\* A firing latches a one-shot trigger; only a release, which the observer sees, unlatches it.
LEMMA FrameLatch ==
  ASSUME TypeOK, ClicksBelow, ResetFree, LatchHolds,
         NEW id \in Triggers, NEW p \in Payloads(id), RxFrame(id, p)
  PROVE  LatchHolds'
<1>. DEFINE held == HeldAfter(id, p)
<1>1. SUFFICES ASSUME NEW k \in Triggers, OneShot(k), ~seen'[k].free
               PROVE  trig'[k].latched \/ (ResetAfter > 0 /\ seen'[k].quiet > ResetAfter)
  BY DEF LatchHolds, RxFrame, OneShot, Single, Config
<1>2. CASE k \in Fired(id, p)
  <2>1. Shoots(k, p, held) /\ ~Config(k).reset /\ k \in Visited(id, p)
    BY <1>1, <1>2, FiredFacts DEF OneShot
  <2>2. Ready(k, p, held) /\ Passes(k, p) /\ ~Released(k, p)
    BY <2>1 DEF Shoots, Ready, Released
  <2>3. Left(id, p, k).latched
    BY <1>1, <2>1, <2>2 DEF Left, AfterFrame, OneShot
  <2>. QED
    BY <2>3, FrameLeaves
<1>3. CASE k \notin Fired(id, p)
  <2>1. ~seen[k].free /\ seen'[k].quiet = seen[k].quiet /\ (k \in On(id) => ~Up(k, p))
    BY <1>1, <1>3, ObservedFacts
  <2>2. trig[k].latched \/ (ResetAfter > 0 /\ seen[k].quiet > ResetAfter)
    BY <1>1, <2>1 DEF LatchHolds
  <2>3. ~Config(k).reset /\ trig[k] \in TriggerState
    BY <2>1, FieldTypes DEF ResetFree
  <2>4. ASSUME trig[k].latched PROVE Left(id, p, k).latched
    <3>1. CASE k \in Visited(id, p)
      <4>1. ~Released(k, p)
        BY <2>1, <3>1 DEF Released, Up, Visited
      <4>. QED
        BY <2>3, <2>4, <3>1, <4>1 DEF Left, AfterFrame, LatchedAt
    <3>2. CASE k \notin Visited(id, p)
      BY <2>3, <2>4, <3>2 DEF Left, TriggerState
    <3>. QED
      BY <3>1, <3>2
  <2>. QED
    BY <2>1, <2>2, <2>4, FrameLeaves
<1>. QED
  BY <1>2, <1>3

\* An undisturbed transition trigger remembers every frame of its press.
LEMMA FramePress ==
  ASSUME TypeOK, ClicksBelow, ResetFree, PressRemembered,
         NEW id \in Triggers, NEW p \in Payloads(id), RxFrame(id, p)
  PROVE  PressRemembered'
<1>. DEFINE held == HeldAfter(id, p)
<1>1. SUFFICES ASSUME NEW k \in Triggers, Transition(k), Undisturbed(k), ~seen'[k].free
               PROVE  trig'[k].last.class[k] \notin {"none", "idle"}
  BY DEF PressRemembered, RxFrame, Transition, Single, Undisturbed, Combo, Config
<1>2. ~Config(k).reset
  BY <1>1, FrameReset DEF ResetFree, Config, RxFrame
<1>3. CASE k \in On(id)
  <2>1. k \in Visited(id, p)
    <3>1. ASSUME Combo, NEW j \in Direct(id, p) PROVE k <= j
      <4>1. j \in Triggers /\ Config(j).id = Config(k).id
        BY <1>3 DEF Direct, On
      <4>2. j = k
        BY <1>1, <3>1, <4>1 DEF Undisturbed
      <4>. QED
        BY <4>2, TriggersAssumption
    <3>. QED
      BY <1>3, <3>1 DEF Visited
  <2>2. Left(id, p, k).last = p
    <3>1. ~LastClick(k, p)
      BY <1>1 DEF Transition, Single, LastClick, Clicks
    <3>. QED
      BY <1>2, <2>1, <3>1 DEF Left, AfterFrame
  <2>3. p.class[k] \in Classes \cup {"none"} /\ p.class[k] # "none"
    BY <1>3 DEF Payloads
  <2>4. p.class[k] # "idle"
    <3>1. CASE k \in Fired(id, p)
      <4>1. Passes(k, p)
        BY <1>1, <3>1, FiredFacts DEF Transition, Shoots, Ready
      <4>. QED
        BY <1>1, <4>1 DEF Passes, Transition
    <3>2. CASE k \notin Fired(id, p)
      BY <1>1, <1>3, <3>2, ObservedFacts DEF Up, Transition
    <3>. QED
      BY <3>1, <3>2
  <2>. QED
    BY <2>2, <2>3, <2>4, FrameLeaves
<1>4. CASE k \notin On(id)
  <2>1. Left(id, p, k) = trig[k] /\ seen'[k] = seen[k]
    BY <1>4, ObservedFacts DEF Left, Visited
  <2>. QED
    BY <1>1, <2>1, FrameLeaves DEF PressRemembered
<1>. QED
  BY <1>3, <1>4

---------------------------------------------------------------------------
(* The firing history in the other steps.                                  *)

\* The conjuncts of the firing history.
History == AgesOrdered /\ ResetFree /\ LatchHolds /\ PressRemembered

\* A command fires only triggers that listen to commands.
LEMMA CommandHistory ==
  ASSUME TypeOK, History, Command
  PROVE  History'
<1>1. PICK K \in SUBSET {k \in Triggers : Config(k).source = "mqtt"} : MqttTrigger(K)
  BY DEF Command
<1>2. ASSUME NEW k \in Triggers
      PROVE  /\ trig'[k].last = trig[k].last /\ trig'[k].latched = trig[k].latched
             /\ seen'[k].free = seen[k].free
             /\ Config(k).source # "mqtt" => seen'[k].quiet = seen[k].quiet
             /\ trig'[k].age <= seen'[k].quiet
  <2>1. /\ trig[k] \in TriggerState /\ seen[k] \in ObserverState
        /\ trig[k].age <= seen[k].quiet
    BY FieldTypes DEF History, AgesOrdered
  <2>2. CASE k \in K /\ trig[k].age >= Cooldown
    <3>1. /\ trig'[k] = [trig[k] EXCEPT !.age = 0]
          /\ seen'[k] = [seen[k] EXCEPT !.quiet = 0]
      BY <1>1, <2>2 DEF MqttTrigger
    <3>. QED
      BY <1>1, <2>1, <2>2, <3>1 DEF TriggerState, ObserverState
  <2>3. CASE ~(k \in K /\ trig[k].age >= Cooldown)
    <3>1. trig'[k] = trig[k] /\ seen'[k] = seen[k]
      BY <1>1, <2>3 DEF MqttTrigger
    <3>. QED
      BY <2>1, <3>1
  <2>. QED
    BY <2>2, <2>3
<1>3. rule' = rule
  BY <1>1 DEF MqttTrigger
<1>4. AgesOrdered'
  BY <1>2 DEF AgesOrdered
<1>5. ResetFree'
  BY <1>2, <1>3 DEF ResetFree, Config, History
<1>6. LatchHolds'
  BY <1>2, <1>3 DEF LatchHolds, Config, OneShot, Single, History
<1>7. PressRemembered'
  BY <1>2, <1>3 DEF PressRemembered, Config, Transition, Single, Undisturbed, Combo, History
<1>. QED
  BY <1>4, <1>5, <1>6, <1>7 DEF History

\* The tick unlatches a trigger only when the re-arm time is over.
LEMMA TickHistory ==
  ASSUME TypeOK, History, TimerTick
  PROVE  History'
<1>1. ASSUME NEW k \in Triggers
      PROVE  /\ trig'[k].last = trig[k].last /\ trig'[k].age = trig[k].age
             /\ trig[k].latched => \/ trig'[k].latched
                                   \/ ResetAfter > 0 /\ seen[k].quiet > ResetAfter
  <2>1. trig[k] \in TriggerState /\ trig[k].age <= seen[k].quiet
    BY FieldTypes DEF History, AgesOrdered
  <2>2. trig'[k] = Expired(k)
    BY DEF TimerTick
  <2>3. /\ Expired(k).last = trig[k].last /\ Expired(k).age = trig[k].age
        /\ Expired(k).latched = (trig[k].latched /\ ~(ResetAfter > 0 /\ trig[k].age > ResetAfter))
    BY <2>1 DEF Expired, TriggerState
  <2>4. trig[k].age > ResetAfter => seen[k].quiet > ResetAfter
    BY <2>1, FieldTypes, TimesAssumption DEF Ages
  <2>. QED
    BY <2>2, <2>3, <2>4
<1>2. rule' = rule /\ seen' = seen
  BY DEF TimerTick
<1>3. AgesOrdered'
  BY <1>1, <1>2 DEF AgesOrdered, History
<1>4. ResetFree'
  BY <1>2 DEF ResetFree, Config, History
<1>5. LatchHolds'
  BY <1>1, <1>2 DEF LatchHolds, Config, OneShot, Single, History
<1>6. PressRemembered'
  BY <1>1, <1>2 DEF PressRemembered, Config, Transition, Single, Undisturbed, Combo, History
<1>. QED
  BY <1>3, <1>4, <1>5, <1>6 DEF History

\* Time makes both clocks of a firing older.
LEMMA TimeHistory ==
  ASSUME TypeOK, History, TimePasses
  PROVE  History'
<1>1. ASSUME NEW k \in Triggers
      PROVE  /\ trig'[k].last = trig[k].last /\ trig'[k].latched = trig[k].latched
             /\ seen'[k].free = seen[k].free
             /\ trig'[k].age <= seen'[k].quiet
             /\ seen[k].quiet > ResetAfter => seen'[k].quiet > ResetAfter
  <2>1. /\ trig[k] \in TriggerState /\ seen[k] \in ObserverState
        /\ trig[k].age \in Ages /\ seen[k].quiet \in Ages
        /\ trig[k].age <= seen[k].quiet
    BY FieldTypes DEF History, AgesOrdered
  <2>2. /\ trig'[k].last = trig[k].last /\ trig'[k].latched = trig[k].latched
        /\ trig'[k].age = Older(trig[k].age)
    BY <2>1 DEF TimePasses, TriggerState
  <2>3. seen'[k].free = seen[k].free /\ seen'[k].quiet = Older(seen[k].quiet)
    BY <2>1 DEF TimePasses, ObserverState
  <2>4. /\ Older(trig[k].age) <= Older(seen[k].quiet)
        /\ seen[k].quiet <= Older(seen[k].quiet) /\ Older(seen[k].quiet) \in Ages
    BY <2>1, OlderType
  <2>5. seen[k].quiet > ResetAfter => Older(seen[k].quiet) > ResetAfter
    BY <2>1, <2>4, TimesAssumption DEF Ages
  <2>. QED
    BY <2>2, <2>3, <2>4, <2>5
<1>2. rule' = rule
  BY DEF TimePasses
<1>3. AgesOrdered'
  BY <1>1 DEF AgesOrdered
<1>4. ResetFree'
  BY <1>1, <1>2 DEF ResetFree, Config, History
<1>5. LatchHolds'
  BY <1>1, <1>2 DEF LatchHolds, Config, OneShot, Single, History
<1>6. PressRemembered'
  BY <1>1, <1>2 DEF PressRemembered, Config, Transition, Single, Undisturbed, Combo, History
<1>. QED
  BY <1>3, <1>4, <1>5, <1>6 DEF History

\* Zeroed rules have no firing to remember.
LEMMA FreshHistory ==
  ASSUME trig = [k \in Triggers |-> NewTrigger], seen = [k \in Triggers |-> NewObserver]
  PROVE  History
BY TimesAssumption
   DEF History, AgesOrdered, ResetFree, LatchHolds, PressRemembered, NewTrigger, NewObserver

\* A reload begins a new history.
LEMMA ReloadHistory ==
  ASSUME NEW r \in Rules, Reload(r)
  PROVE  History'
BY TimesAssumption
   DEF Reload, History, AgesOrdered, ResetFree, LatchHolds, PressRemembered,
       NewTrigger, NewObserver

\* The inductive invariant holds at first and is kept by every step.
LEMMA InitIInv == Init => IInv
<1>1. Init => History
  BY FreshHistory DEF Init
<1>. QED
  BY <1>1, InitTypes DEF IInv, History

\* See above: every step keeps the inductive invariant.
LEMMA NextIInv == IInv /\ [Next]_vars => IInv'
<1>. SUFFICES ASSUME IInv, [Next]_vars PROVE IInv'
  OBVIOUS
<1>1. TypeOK /\ ClicksBelow /\ History
  BY DEF IInv, History
<1>2. TypeOK' /\ ClicksBelow'
  BY <1>1, NextTypes
<1>3. CASE Frame
  <2>1. PICK id \in Triggers : \E p \in Payloads(id) : RxFrame(id, p)
    BY <1>3 DEF Frame
  <2>2. PICK p \in Payloads(id) : RxFrame(id, p)
    BY <2>1
  <2>3. AgesOrdered' /\ ResetFree'
    BY <1>1, <2>2, FrameAges, FrameReset DEF History
  <2>4. LatchHolds' /\ PressRemembered'
    BY <1>1, <2>2, FrameLatch, FramePress DEF History
  <2>. QED
    BY <1>2, <2>3, <2>4 DEF IInv
<1>4. CASE Command
  BY <1>1, <1>2, <1>4, CommandHistory DEF IInv, History
<1>5. CASE TimerTick
  BY <1>1, <1>2, <1>5, TickHistory DEF IInv, History
<1>6. CASE \E r \in Rules : Reload(r)
  BY <1>2, <1>6, ReloadHistory DEF IInv, History
<1>7. CASE TimePasses
  BY <1>1, <1>2, <1>7, TimeHistory DEF IInv, History
<1>8. CASE UNCHANGED <<rule, trig, seen>>
  <2>1. History'
    BY <1>1, <1>8 DEF History, AgesOrdered, ResetFree, LatchHolds, PressRemembered,
       Config, OneShot, Transition, Single, Undisturbed, Combo
  <2>. QED
    BY <1>2, <2>1 DEF IInv, History
<1>9. CASE \E a \in Tasks : Toggle(a)
  BY <1>8, <1>9 DEF Toggle, ToggleRead, WriteActive, WriteSince
<1>10. CASE \E mode \in {"no", "auto", "paused"} : SetCapture(mode)
  BY <1>8, <1>10 DEF SetCapture
<1>11. CASE UNCHANGED vars
  BY <1>8, <1>11 DEF vars
<1>. QED
  BY <1>3, <1>4, <1>5, <1>6, <1>7, <1>9, <1>10, <1>11 DEF Next

---------------------------------------------------------------------------
(* The firings.                                                            *)

\* Only frames and commands fire.
LEMMA WhoFires ==
  ASSUME [Next]_vars, ~UNCHANGED vars, NEW k \in shots'
  PROVE  \/ \E id \in Triggers : \E p \in Payloads(id) : RxFrame(id, p) /\ k \in Fired(id, p)
         \/ /\ Command /\ k \in Triggers /\ Config(k).source = "mqtt"
            /\ trig[k].age >= Cooldown
<1>1. CASE Frame
  BY <1>1 DEF Frame, RxFrame
<1>2. CASE Command
  BY <1>2 DEF Command, MqttTrigger
<1>3. CASE TimerTick \/ (\E a \in Tasks : Toggle(a)) \/ (\E r \in Rules : Reload(r))
           \/ (\E mode \in {"no", "auto", "paused"} : SetCapture(mode)) \/ TimePasses
  <2>1. shots' = {}
    BY <1>3 DEF TimerTick, Toggle, ToggleRead, WriteActive, WriteSince, Reload, SetCapture,
       TimePasses
  <2>. QED
    BY <2>1
<1>. QED
  BY <1>1, <1>2, <1>3 DEF Next

\* A trigger with "from" and "to" fires once per press, for any rule whose combination
\* does not break off before it.
THEOREM OncePerPressCorrect == Spec => OncePerPress
<1>1. ASSUME IInv, [Next]_vars
      PROVE  [\A k \in shots' : Transition(k) /\ Undisturbed(k) => seen[k].free]_vars
  <2>1. SUFFICES ASSUME ~UNCHANGED vars, NEW k \in shots', Transition(k), Undisturbed(k)
                 PROVE  seen[k].free
    OBVIOUS
  <2>2. PICK id \in Triggers :
          \E p \in Payloads(id) : RxFrame(id, p) /\ k \in Fired(id, p)
    BY <1>1, <2>1, WhoFires DEF Transition, Single
  <2>. PICK p \in Payloads(id) : RxFrame(id, p) /\ k \in Fired(id, p)
    BY <2>2
  <2>3. Passes(k, p) /\ k \in Triggers
    BY <2>1, <2>2, FiredFacts DEF Transition, Shoots, Ready
  <2>4. trig[k].last.class[k] \in {"none", "idle"}
    BY <2>1, <2>3 DEF Passes, Transition
  <2>. QED
    BY <1>1, <2>1, <2>3, <2>4 DEF IInv, PressRemembered
<1>. QED
  BY <1>1, InitIInv, NextIInv, PTL DEF Spec, OncePerPress

\* Firings of a trigger are at least the cooldown apart, and a one-shot trigger fires
\* again without a release only after its re-arm time.
THEOREM ShotsApartCorrect == Spec => ShotsApart
<1>1. ASSUME IInv, [Next]_vars
      PROVE  [\A k \in shots' :
                /\ seen[k].quiet >= Cooldown
                /\ OneShot(k) => seen[k].free
                                 \/ (ResetAfter > 0 /\ seen[k].quiet > ResetAfter)]_vars
  <2>1. SUFFICES ASSUME ~UNCHANGED vars, NEW k \in shots'
                 PROVE  /\ seen[k].quiet >= Cooldown
                        /\ OneShot(k) => seen[k].free
                                         \/ (ResetAfter > 0 /\ seen[k].quiet > ResetAfter)
    OBVIOUS
  <2>2. TypeOK /\ AgesOrdered /\ LatchHolds
    BY <1>1 DEF IInv
  <2>3. CASE \E id \in Triggers : \E p \in Payloads(id) :
               RxFrame(id, p) /\ k \in Fired(id, p)
    <3>. PICK id \in Triggers :
           \E q \in Payloads(id) : RxFrame(id, q) /\ k \in Fired(id, q)
      BY <2>3
    <3>1. PICK p \in Payloads(id) : RxFrame(id, p) /\ k \in Fired(id, p)
      OBVIOUS
    <3>2. k \in Triggers /\ AgeAt(k, p) >= Cooldown
      BY <3>1, FiredFacts
    <3>3. /\ trig[k].age \in Ages /\ seen[k].quiet \in Ages
          /\ trig[k].age <= seen[k].quiet
      BY <2>2, <3>2, FieldTypes DEF AgesOrdered
    <3>4. trig[k].age >= Cooldown
      BY <3>2, TimesAssumption DEF AgeAt
    <3>5. seen[k].quiet >= Cooldown
      BY <3>3, <3>4, TimesAssumption DEF Ages
    <3>6. ASSUME OneShot(k) PROVE ~trig[k].latched
      <4>1. ~LatchedAt(k, p)
        BY <3>1, <3>6, FiredFacts DEF OneShot, Shoots
      <4>. QED
        BY <4>1 DEF LatchedAt
    <3>. QED
      BY <2>2, <3>2, <3>5, <3>6 DEF LatchHolds
  <2>4. CASE k \in Triggers /\ Config(k).source = "mqtt" /\ trig[k].age >= Cooldown
    <3>1. /\ trig[k].age \in Ages /\ seen[k].quiet \in Ages
          /\ trig[k].age <= seen[k].quiet
      BY <2>2, <2>4, FieldTypes DEF AgesOrdered
    <3>2. seen[k].quiet >= Cooldown
      BY <2>4, <3>1, TimesAssumption DEF Ages
    <3>. QED
      BY <2>4, <3>2 DEF OneShot, Single
  <2>. QED
    BY <1>1, <2>1, <2>3, <2>4, WhoFires
<1>. QED
  BY <1>1, InitIInv, NextIInv, PTL DEF Spec, ShotsApart

---------------------------------------------------------------------------
(* Holding.                                                                *)

Timed(k) == Single(k) /\ Config(k).to /\ Config(k).hold > 0 /\ ~Config(k).reset

\* The hold timer of a button runs no longer than the button has been down.
HoldClock ==
  \A k \in Triggers :
    Timed(k) /\ trig[k].since # Unset
      => seen[k].down # Unset /\ trig[k].since <= seen[k].down

\* A hold that fired in this press is used up.
HoldSpent == \A k \in Triggers : Timed(k) /\ ~seen[k].free => trig[k].holdFired

\* A trigger that counts as held has its button down.
HeldDown ==
  \A k \in Triggers : Config(k).to /\ trig[k].held => seen[k].down # Unset

Holding == HoldClock /\ HoldSpent /\ HeldDown

\* Up and released are the same for a trigger with a "to" pattern; it passes only pressed.
LEMMA UpIsReleased ==
  ASSUME NEW k, NEW p, Config(k).to
  PROVE  /\ Up(k, p) <=> Released(k, p)
         /\ Passes(k, p) => p.class[k] = "pressed" /\ ~Up(k, p)
BY DEF Up, Released, Passes

\* A trigger that counts as held after a frame of its identifier was not released by it,
\* and its button is down.
LEMMA HeldNotUp ==
  ASSUME HeldDown, NEW id, NEW p, RxFrame(id, p), NEW k \in HeldAfter(id, p), Config(k).to
  PROVE  /\ k \in On(id) => ~Up(k, p)
         /\ seen'[k].down # Unset
<1>1. k \in Triggers
  BY DEF HeldAfter
<1>2. CASE k \in On(id)
  <2>1. Passes(k, p) \/ (trig[k].held /\ ~Released(k, p))
    BY <1>2 DEF HeldAfter, HeldBy
  <2>2. ~Up(k, p) /\ (p.class[k] = "pressed" \/ seen[k].down # Unset)
    BY <1>1, <2>1, UpIsReleased DEF HeldDown
  <2>3. seen'[k].down = IF p.class[k] = "pressed" /\ seen[k].down = Unset
                        THEN 0 ELSE seen[k].down
    BY <1>1, <1>2, <2>2, ObservedFacts
  <2>. QED
    BY <2>2, <2>3 DEF Unset
<1>3. CASE k \notin On(id)
  <2>1. trig[k].held
    BY <1>3 DEF HeldAfter
  <2>. QED
    BY <1>1, <1>3, <2>1, ObservedFacts DEF HeldDown
<1>. QED
  BY <1>2, <1>3

\* The loop leaves a trigger its pre-pass flag.
LEMMA FrameHeld ==
  ASSUME TypeOK, ClicksBelow, HeldDown, NEW id \in Triggers, NEW p \in Payloads(id),
         RxFrame(id, p)
  PROVE  HeldDown'
<1>1. SUFFICES ASSUME NEW k \in Triggers, Config(k).to, trig'[k].held
               PROVE  seen'[k].down # Unset
  BY DEF HeldDown, RxFrame, Config
<1>2. Left(id, p, k).held = (k \in HeldAfter(id, p))
  <2>1. trig[k] \in TriggerState /\ trig[k].held \in BOOLEAN
    BY FieldTypes
  <2>2. CASE k \in Visited(id, p)
    BY <2>1, <2>2 DEF Left, AfterFrame, TriggerState
  <2>3. CASE k \notin Visited(id, p) /\ k \in On(id)
    BY <2>1, <2>3 DEF Left, TriggerState
  <2>4. CASE k \notin On(id)
    BY <2>1, <2>4 DEF Left, Visited, HeldAfter
  <2>. QED
    BY <2>2, <2>3, <2>4
<1>3. k \in HeldAfter(id, p)
  BY <1>1, <1>2, FrameLeaves
<1>. QED
  BY <1>1, <1>3, HeldNotUp

\* A trigger of the frame's identifier that the loop did not reach is held, so not up.
LEMMA CutIsHeld ==
  ASSUME NEW id, NEW p, NEW k \in On(id), k \notin Visited(id, p)
  PROVE  k \in HeldAfter(id, p)
BY DEF Visited, Direct, Shoots, Ready, On

\* The hold timer starts with the press and is stopped by its end.
LEMMA FrameClock ==
  ASSUME TypeOK, ClicksBelow, Holding, NEW id \in Triggers, NEW p \in Payloads(id),
         RxFrame(id, p)
  PROVE  HoldClock'
<1>1. SUFFICES ASSUME NEW k \in Triggers, Timed(k), trig'[k].since # Unset
               PROVE  seen'[k].down # Unset /\ trig'[k].since <= seen'[k].down
  BY DEF HoldClock, RxFrame, Timed, Single, Config
<1>2. Config(k).to /\ ~Config(k).reset /\ trig'[k].since = Left(id, p, k).since
  BY <1>1, FrameLeaves DEF Timed
<1>3. /\ trig[k].since \in Ages \cup {Unset} /\ seen[k].down \in Ages \cup {Unset}
      /\ trig[k] \in TriggerState
  BY FieldTypes
<1>4. trig[k].since # Unset => seen[k].down # Unset /\ trig[k].since <= seen[k].down
  BY <1>1 DEF Holding, HoldClock
<1>5. CASE k \in Visited(id, p)
  <2>1. k \in On(id)
    BY <1>5 DEF Visited
  <2>2. Left(id, p, k).since = IF Released(k, p) THEN Unset
          ELSE IF Passes(k, p) /\ Config(k).clicks = 1 /\ Config(k).hold > 0
                  /\ trig[k].since = Unset
          THEN 0 ELSE trig[k].since
    BY <1>2, <1>5 DEF Left, AfterFrame
  <2>3. ~Up(k, p)
    BY <1>1, <1>2, <2>2, UpIsReleased
  <2>4. seen'[k].down = IF p.class[k] = "pressed" /\ seen[k].down = Unset
                        THEN 0 ELSE seen[k].down
    BY <2>1, <2>3, ObservedFacts
  <2>5. CASE trig[k].since # Unset
    BY <1>2, <1>4, <2>2, <2>3, <2>4, <2>5, UpIsReleased
  <2>6. CASE trig[k].since = Unset
    <3>1. Passes(k, p) /\ trig'[k].since = 0
      BY <1>1, <1>2, <2>2, <2>6
    <3>2. p.class[k] = "pressed"
      BY <1>2, <3>1, UpIsReleased
    <3>. QED
      BY <1>3, <2>4, <3>1, <3>2 DEF Unset, Ages
  <2>. QED
    BY <2>5, <2>6
<1>6. CASE k \notin Visited(id, p)
  <2>1. Left(id, p, k).since = trig[k].since
    BY <1>3, <1>6 DEF Left, TriggerState
  <2>2. k \in On(id) => ~Up(k, p)
    BY <1>2, <1>6, CutIsHeld, HeldNotUp DEF Holding
  <2>3. seen'[k].down = seen[k].down
    BY <1>1, <1>2, <1>4, <2>1, <2>2, ObservedFacts
  <2>. QED
    BY <1>1, <1>2, <1>4, <2>1, <2>3
<1>. QED
  BY <1>5, <1>6

\* A firing uses the hold up; only a release gives it back.
LEMMA FrameSpent ==
  ASSUME TypeOK, ClicksBelow, Holding, NEW id \in Triggers, NEW p \in Payloads(id),
         RxFrame(id, p)
  PROVE  HoldSpent'
<1>1. SUFFICES ASSUME NEW k \in Triggers, Timed(k), ~seen'[k].free
               PROVE  trig'[k].holdFired
  BY DEF HoldSpent, RxFrame, Timed, Single, Config
<1>2. Config(k).to /\ ~Config(k).reset /\ Single(k) /\ trig[k] \in TriggerState
  BY <1>1, FieldTypes DEF Timed
<1>3. CASE k \in Fired(id, p)
  <2>1. Shoots(k, p, HeldAfter(id, p)) /\ k \in Visited(id, p)
    BY <1>2, <1>3, FiredFacts
  <2>2. Passes(k, p) /\ ~Released(k, p) /\ HoldReached(k)
    BY <2>1 DEF Shoots, Ready, Released
  <2>3. Left(id, p, k).holdFired
    BY <1>1, <1>2, <2>1, <2>2 DEF Left, AfterFrame, Timed, Single
  <2>. QED
    BY <2>3, FrameLeaves
<1>4. CASE k \notin Fired(id, p)
  <2>1. ~seen[k].free /\ (k \in On(id) => ~Up(k, p))
    BY <1>1, <1>4, ObservedFacts
  <2>2. trig[k].holdFired
    BY <1>1, <2>1 DEF Holding, HoldSpent
  <2>3. CASE k \in Visited(id, p)
    <3>1. ~Released(k, p)
      BY <1>2, <2>1, <2>3, UpIsReleased DEF Visited
    <3>2. Left(id, p, k).holdFired
      BY <1>2, <2>2, <2>3, <3>1 DEF Left, AfterFrame
    <3>. QED
      BY <3>2, FrameLeaves
  <2>4. CASE k \notin Visited(id, p)
    <3>1. Left(id, p, k).holdFired
      BY <1>2, <2>2, <2>4 DEF Left, TriggerState
    <3>. QED
      BY <3>1, FrameLeaves
  <2>. QED
    BY <2>3, <2>4
<1>. QED
  BY <1>3, <1>4

\* Steps that are no frame leave what Holding speaks of alone, or make it older.
LEMMA HoldingKept ==
  ASSUME TypeOK, Holding, rule' = rule,
         \A k \in Triggers :
           /\ trig'[k].since = trig[k].since /\ trig'[k].holdFired = trig[k].holdFired
           /\ trig'[k].held = trig[k].held
           /\ seen'[k].free = seen[k].free /\ seen'[k].down = seen[k].down
  PROVE  Holding'
BY DEF Holding, HoldClock, HoldSpent, HeldDown, Timed, Single, Config

\* Time makes the hold clock and the press it measures older together.
LEMMA TimeHolding ==
  ASSUME TypeOK, Holding, TimePasses
  PROVE  Holding'
<1>1. ASSUME NEW k \in Triggers
      PROVE  /\ trig'[k].since = Older(trig[k].since)
             /\ trig'[k].holdFired = trig[k].holdFired /\ trig'[k].held = trig[k].held
             /\ seen'[k].free = seen[k].free /\ seen'[k].down = Older(seen[k].down)
             /\ trig[k].since \in Ages \cup {Unset} /\ seen[k].down \in Ages \cup {Unset}
  <2>1. /\ trig[k] \in TriggerState /\ seen[k] \in ObserverState
        /\ trig[k].since \in Ages \cup {Unset} /\ seen[k].down \in Ages \cup {Unset}
    BY FieldTypes
  <2>. QED
    BY <2>1 DEF TimePasses, TriggerState, ObserverState
<1>2. \A a \in Ages \cup {Unset} : Older(a) = Unset <=> a = Unset
  BY TimesAssumption DEF Older, Unset, Ages
<1>3. \A a, b \in Ages : a <= b => Older(a) <= Older(b)
  BY OlderType
<1>4. rule' = rule
  BY DEF TimePasses
<1>5. HoldClock'
  <2>1. SUFFICES ASSUME NEW k \in Triggers, Timed(k), trig'[k].since # Unset
                 PROVE  seen'[k].down # Unset /\ trig'[k].since <= seen'[k].down
    BY <1>4 DEF HoldClock, Timed, Single, Config
  <2>2. trig[k].since # Unset
    BY <1>1, <1>2, <2>1
  <2>3. seen[k].down # Unset /\ trig[k].since <= seen[k].down
    BY <2>1, <2>2 DEF Holding, HoldClock
  <2>. QED
    BY <1>1, <1>2, <1>3, <2>2, <2>3
<1>6. HoldSpent'
  BY <1>1, <1>4 DEF Holding, HoldSpent, Timed, Single, Config
<1>7. HeldDown'
  BY <1>1, <1>2, <1>4 DEF Holding, HeldDown, Config
<1>. QED
  BY <1>5, <1>6, <1>7 DEF Holding

\* No trigger is held at first.
LEMMA InitHolding == Init => Holding
BY DEF Init, Holding, HoldClock, HoldSpent, HeldDown, NewTrigger, NewObserver

\* Every step keeps what the hold flags say of the button.
LEMMA NextHolding == IInv /\ Holding /\ [Next]_vars => Holding'
<1>. SUFFICES ASSUME IInv, Holding, [Next]_vars PROVE Holding'
  OBVIOUS
<1>1. TypeOK /\ ClicksBelow
  BY DEF IInv
<1>2. CASE Frame
  <2>1. PICK id \in Triggers : \E p \in Payloads(id) : RxFrame(id, p)
    BY <1>2 DEF Frame
  <2>2. PICK p \in Payloads(id) : RxFrame(id, p)
    BY <2>1
  <2>3. HoldClock'
    BY <1>1, <2>2, FrameClock
  <2>4. HoldSpent'
    BY <1>1, <2>2, FrameSpent
  <2>5. HeldDown'
    BY <1>1, <2>2, FrameHeld DEF Holding
  <2>. QED
    BY <2>3, <2>4, <2>5 DEF Holding
<1>3. CASE Command
  <2>1. PICK K \in SUBSET Triggers : MqttTrigger(K)
    BY <1>3 DEF Command
  <2>2. ASSUME NEW k \in Triggers
        PROVE  /\ trig'[k].since = trig[k].since /\ trig'[k].holdFired = trig[k].holdFired
               /\ trig'[k].held = trig[k].held
               /\ seen'[k].free = seen[k].free /\ seen'[k].down = seen[k].down
    <3>1. trig[k] \in TriggerState /\ seen[k] \in ObserverState
      BY <1>1, FieldTypes
    <3>2. /\ trig'[k] = trig[k] \/ trig'[k] = [trig[k] EXCEPT !.age = 0]
          /\ seen'[k] = seen[k] \/ seen'[k] = [seen[k] EXCEPT !.quiet = 0]
      BY <2>1 DEF MqttTrigger
    <3>. QED
      BY <3>1, <3>2 DEF TriggerState, ObserverState
  <2>3. rule' = rule
    BY <2>1 DEF MqttTrigger
  <2>. QED
    BY <1>1, <2>2, <2>3, HoldingKept
<1>4. CASE TimerTick
  <2>1. ASSUME NEW k \in Triggers
        PROVE  /\ trig'[k].since = trig[k].since /\ trig'[k].holdFired = trig[k].holdFired
               /\ trig'[k].held = trig[k].held
               /\ seen'[k].free = seen[k].free /\ seen'[k].down = seen[k].down
    <3>1. trig[k] \in TriggerState
      BY <1>1, FieldTypes
    <3>. QED
      BY <1>4, <3>1 DEF TimerTick, Expired, TriggerState
  <2>2. rule' = rule
    BY <1>4 DEF TimerTick
  <2>. QED
    BY <1>1, <2>1, <2>2, HoldingKept
<1>5. CASE \E r \in Rules : Reload(r)
  BY <1>5 DEF Reload, Holding, HoldClock, HoldSpent, HeldDown, NewTrigger, NewObserver
<1>6. CASE TimePasses
  BY <1>1, <1>6, TimeHolding
<1>7. CASE UNCHANGED <<rule, trig, seen>>
  BY <1>1, <1>7, HoldingKept
<1>8. CASE \E a \in Tasks : Toggle(a)
  BY <1>7, <1>8 DEF Toggle, ToggleRead, WriteActive, WriteSince
<1>9. CASE \E mode \in {"no", "auto", "paused"} : SetCapture(mode)
  BY <1>7, <1>9 DEF SetCapture
<1>10. CASE UNCHANGED vars
  BY <1>7, <1>10 DEF vars
<1>. QED
  BY <1>2, <1>3, <1>4, <1>5, <1>6, <1>8, <1>9, <1>10 DEF Next

\* A trigger with a hold time fires only after the button has been down that long, and
\* once in that press, for any hold time and any payloads.
THEOREM HoldsLongEnoughCorrect == Spec => HoldsLongEnough
<1>1. ASSUME IInv, Holding, [Next]_vars
      PROVE  [\A k \in shots' : Single(k) /\ Config(k).to /\ Config(k).hold > 0
                => seen[k].down >= Config(k).hold /\ seen[k].free]_vars
  <2>1. SUFFICES ASSUME ~UNCHANGED vars, NEW k \in shots', Single(k), Config(k).to,
                        Config(k).hold > 0
                 PROVE  seen[k].down >= Config(k).hold /\ seen[k].free
    OBVIOUS
  <2>2. PICK id \in Triggers :
          \E p \in Payloads(id) : RxFrame(id, p) /\ k \in Fired(id, p)
    BY <1>1, <2>1, WhoFires DEF Single
  <2>. PICK p \in Payloads(id) : RxFrame(id, p) /\ k \in Fired(id, p)
    BY <2>2
  <2>3. HoldReached(k) /\ k \in Triggers /\ ~Config(k).reset
    BY <2>1, FiredFacts DEF Shoots, Ready
  <2>4. TypeOK /\ Config(k).hold \in Ages
    BY <1>1, <2>3, ConfigType DEF IInv, TypeOK
  <2>5. /\ trig[k].since # Unset /\ trig[k].since >= Config(k).hold /\ ~trig[k].holdFired
    BY <2>1, <2>3, <2>4 DEF HoldReached, Ages
  <2>6. seen[k].down # Unset /\ trig[k].since <= seen[k].down /\ seen[k].free
    BY <1>1, <2>1, <2>3, <2>5 DEF Holding, HoldClock, HoldSpent, Timed
  <2>7. trig[k].since \in Ages \cup {Unset} /\ seen[k].down \in Ages \cup {Unset}
    BY <2>3, <2>4, FieldTypes
  <2>. QED
    BY <2>4, <2>5, <2>6, <2>7, TimesAssumption DEF Ages, Unset
<1>. QED
  BY <1>1, InitIInv, NextIInv, InitHolding, NextHolding, PTL DEF Spec, HoldsLongEnough

\* A frame fires a combination only while its other buttons are down, for any number of
\* triggers on any identifiers.
THEOREM ComboHeldCorrect == Spec => ComboHeld
<1>1. ASSUME IInv, Holding, [Next]_vars
      PROVE  [\A k \in shots' : Combo /\ Config(k).source = "can"
                => \A j \in Triggers \ {k} : Config(j).to => seen'[j].down # Unset]_vars
  <2>1. SUFFICES ASSUME ~UNCHANGED vars, NEW k \in shots', Combo, Config(k).source = "can",
                        NEW j \in Triggers \ {k}, Config(j).to
                 PROVE  seen'[j].down # Unset
    OBVIOUS
  <2>2. PICK id \in Triggers :
          \E p \in Payloads(id) : RxFrame(id, p) /\ k \in Fired(id, p)
    BY <1>1, <2>1, WhoFires
  <2>. PICK p \in Payloads(id) : RxFrame(id, p) /\ k \in Fired(id, p)
    BY <2>2
  <2>3. j \in HeldAfter(id, p)
    BY <2>1, FiredFacts DEF Shoots, Ready, ShootsByClicks, OthersHeld
  <2>. QED
    BY <1>1, <2>1, <2>3, HeldNotUp DEF Holding
<1>. QED
  BY <1>1, InitIInv, NextIInv, InitHolding, NextHolding, PTL DEF Spec, ComboHeld

---------------------------------------------------------------------------
(* Clicks.                                                                 *)

Counting(k) == MultiPress(k) /\ ~Config(k).reset

\* A press that waits for its release edge goes on.
PressGoesOn == \A k \in Triggers : Counting(k) /\ trig[k].was => seen[k].down # Unset

\* The code may miss a press that the bus showed (its "from" was not the last payload),
\* and never counts one that was not: its last click is no younger than the last release,
\* and while the window is open the releases in a row are no fewer than its clicks.
ClicksSeen ==
  \A k \in Triggers :
    Counting(k) =>
      /\ seen[k].apart <= trig[k].gap
      /\ trig[k].gap <= Window => trig[k].clicks <= seen[k].chain

Clicking == PressGoesOn /\ ClicksSeen

\* What the observer notes of a multi-press.
LEMMA ObservedClicks ==
  ASSUME TypeOK, NEW id, NEW p, RxFrame(id, p), NEW k \in On(id), k \notin Fired(id, p)
  PROVE  LET click == Up(k, p) /\ seen[k].down # Unset
         IN /\ seen'[k].apart = IF click THEN 0 ELSE seen[k].apart
            /\ seen'[k].chain \in 0 .. 3
            /\ ~click => seen'[k].chain = seen[k].chain
            /\ click => /\ seen'[k].chain >= 1
                        /\ seen[k].apart <= Window =>
                             seen'[k].chain >= seen[k].chain + 1 \/ seen'[k].chain = 3
<1>1. k \in Triggers
  BY DEF On
<1>2. LET click == Up(k, p) /\ seen[k].down # Unset
      IN /\ seen'[k].apart = IF click THEN 0 ELSE seen[k].apart
         /\ seen'[k].chain = IF ~click THEN seen[k].chain
                             ELSE IF seen[k].chain = 0 \/ seen[k].apart > Window THEN 1
                             ELSE IF seen[k].chain < 3 THEN seen[k].chain + 1 ELSE 3
  BY <1>1 DEF RxFrame, Observed
<1>3. seen[k].chain \in 0 .. 3 /\ seen[k].apart \in Ages
  BY <1>1, FieldTypes
<1>. QED
  BY <1>2, <1>3, TimesAssumption DEF Ages

\* What the loop leaves of the clicks of a trigger it reaches.
LEMMA VisitedClicks ==
  ASSUME NEW id, NEW p, NEW k \in Visited(id, p), ~Config(k).reset
  PROVE  LET t == Left(id, p, k)
         IN /\ t.was = ((trig[k].was \/ Passes(k, p)) /\ ~Clicks(k, p))
            /\ t.clicks = IF LastClick(k, p) THEN 0
                          ELSE IF Clicks(k, p) THEN ClickCount(k) ELSE trig[k].clicks
            /\ t.gap = IF Clicks(k, p) THEN 0 ELSE trig[k].gap
<1>1. Left(id, p, k) = AfterFrame(k, p, HeldAfter(id, p))
  BY DEF Left
<1>. QED
  BY <1>1 DEF AfterFrame

\* One that it does not reach keeps them; its button is not up.
LEMMA CutClicks ==
  ASSUME TypeOK, HeldDown, NEW id, NEW p, RxFrame(id, p), NEW k \in On(id),
         k \notin Visited(id, p), Config(k).to
  PROVE  /\ Left(id, p, k).clicks = trig[k].clicks /\ Left(id, p, k).gap = trig[k].gap
         /\ Left(id, p, k).was = (trig[k].was \/ Passes(k, p))
         /\ ~Up(k, p)
<1>1. k \in Triggers
  BY DEF On
<1>2. trig[k] \in TriggerState
  BY <1>1, FieldTypes
<1>3. ~Up(k, p)
  BY CutIsHeld, HeldNotUp
<1>. QED
  BY <1>2, <1>3 DEF Left, TriggerState

\* A press is noted only with the button down, and forgotten with its release.
LEMMA FramePressGoesOn ==
  ASSUME TypeOK, ClicksBelow, Holding, Clicking, NEW id \in Triggers,
         NEW p \in Payloads(id), RxFrame(id, p)
  PROVE  PressGoesOn'
<1>1. SUFFICES ASSUME NEW k \in Triggers, Counting(k), trig'[k].was
               PROVE  seen'[k].down # Unset
  BY DEF PressGoesOn, Counting, MultiPress, RxFrame, Config
<1>2. Config(k).to /\ ~Config(k).reset /\ Config(k).clicks > 1
  BY <1>1 DEF Counting, MultiPress
<1>3. trig'[k].was = Left(id, p, k).was /\ HeldDown
  BY FrameLeaves DEF Holding
<1>4. CASE k \notin On(id)
  <2>1. Left(id, p, k) = trig[k]
    BY <1>4 DEF Left, Visited
  <2>. QED
    BY <1>1, <1>3, <1>4, <2>1, ObservedFacts DEF Clicking, PressGoesOn
<1>5. CASE k \in On(id)
  <2>1. (trig[k].was \/ Passes(k, p)) /\ ~Up(k, p)
    <3>1. CASE k \in Visited(id, p)
      <4>1. (trig[k].was \/ Passes(k, p)) /\ ~Clicks(k, p)
        BY <1>1, <1>2, <1>3, <3>1, VisitedClicks
      <4>. QED
        BY <1>2, <4>1, UpIsReleased DEF Clicks
    <3>2. CASE k \notin Visited(id, p)
      BY <1>1, <1>2, <1>3, <1>5, <3>2, CutClicks
    <3>. QED
      BY <3>1, <3>2
  <2>2. p.class[k] = "pressed" \/ seen[k].down # Unset
    BY <1>1, <1>2, <2>1, UpIsReleased DEF Clicking, PressGoesOn
  <2>3. seen'[k].down = IF p.class[k] = "pressed" /\ seen[k].down = Unset
                        THEN 0 ELSE seen[k].down
    BY <1>1, <1>5, <2>1, ObservedFacts
  <2>. QED
    BY <2>2, <2>3 DEF Unset
<1>. QED
  BY <1>4, <1>5

\* A click the loop counts is one the observer counts.
LEMMA FrameClicks ==
  ASSUME TypeOK, ClicksBelow, Holding, Clicking, NEW id \in Triggers,
         NEW p \in Payloads(id), RxFrame(id, p)
  PROVE  ClicksSeen'
<1>1. SUFFICES ASSUME NEW k \in Triggers, Counting(k)
               PROVE  /\ seen'[k].apart <= trig'[k].gap
                      /\ trig'[k].gap <= Window => trig'[k].clicks <= seen'[k].chain
  BY DEF ClicksSeen, Counting, MultiPress, RxFrame, Config
<1>2. Config(k).to /\ ~Config(k).reset /\ Config(k).clicks > 1 /\ Config(k).clicks \in 1 .. 3
  BY <1>1, ConfigType DEF Counting, MultiPress, TypeOK
<1>3. /\ trig'[k].clicks = Left(id, p, k).clicks /\ trig'[k].gap = Left(id, p, k).gap
      /\ HeldDown
  BY FrameLeaves DEF Holding
<1>4. /\ trig[k].clicks \in 0 .. 3 /\ trig[k].gap \in Ages /\ trig[k].was \in BOOLEAN
      /\ seen[k].chain \in 0 .. 3 /\ seen[k].apart \in Ages
  BY FieldTypes
<1>5. /\ seen[k].apart <= trig[k].gap
      /\ trig[k].gap <= Window => trig[k].clicks <= seen[k].chain
      /\ trig[k].was => seen[k].down # Unset
  BY <1>1 DEF Clicking, PressGoesOn, ClicksSeen
<1>6. CASE k \notin On(id)
  <2>1. Left(id, p, k) = trig[k]
    BY <1>6 DEF Left, Visited
  <2>. QED
    BY <1>3, <1>5, <1>6, <2>1, ObservedFacts
<1>7. CASE k \in On(id) /\ k \notin Visited(id, p)
  <2>1. /\ Left(id, p, k).clicks = trig[k].clicks /\ Left(id, p, k).gap = trig[k].gap
        /\ ~Up(k, p)
    BY <1>2, <1>3, <1>7, CutClicks
  <2>2. k \notin Fired(id, p)
    BY <1>7, FiredFacts
  <2>3. seen'[k].apart = seen[k].apart /\ seen'[k].chain = seen[k].chain
    BY <1>7, <2>1, <2>2, ObservedClicks
  <2>. QED
    BY <1>3, <1>5, <2>1, <2>3
<1>8. CASE k \in Fired(id, p)
  <2>1. LastClick(k, p) /\ Clicks(k, p) /\ k \in Visited(id, p)
    BY <1>2, <1>8, FiredFacts DEF Shoots, Ready, ShootsByClicks, LastClick
  <2>2. trig'[k].clicks = 0 /\ trig'[k].gap = 0
    BY <1>2, <1>3, <2>1, VisitedClicks
  <2>3. Up(k, p) /\ seen[k].down # Unset
    BY <1>2, <1>5, <2>1, UpIsReleased DEF Clicks
  <2>4. seen'[k].apart = 0 /\ seen'[k].chain = 0
    BY <1>8, <2>3, FiredFacts DEF RxFrame, Observed
  <2>. QED
    BY <2>2, <2>4
<1>9. CASE k \in Visited(id, p) /\ k \notin Fired(id, p)
  <2>1. k \in On(id)
    BY <1>9 DEF Visited
  <2> DEFINE click == Up(k, p) /\ seen[k].down # Unset
  <2>2. /\ seen'[k].apart = IF click THEN 0 ELSE seen[k].apart
        /\ ~click => seen'[k].chain = seen[k].chain
        /\ click => /\ seen'[k].chain >= 1
                    /\ seen[k].apart <= Window =>
                         seen'[k].chain >= seen[k].chain + 1 \/ seen'[k].chain = 3
    BY <1>9, <2>1, ObservedClicks
  <2>3. /\ trig'[k].clicks = IF LastClick(k, p) THEN 0
                             ELSE IF Clicks(k, p) THEN ClickCount(k) ELSE trig[k].clicks
        /\ trig'[k].gap = IF Clicks(k, p) THEN 0 ELSE trig[k].gap
    BY <1>2, <1>3, <1>9, VisitedClicks
  <2>4. Clicks(k, p) => click
    BY <1>2, <1>5, UpIsReleased DEF Clicks
  <2>5. Clicks(k, p) /\ ~LastClick(k, p) => ClickCount(k) < Config(k).clicks
    BY <1>2, <1>4 DEF LastClick, ClickCount
  <2> HIDE DEF click
  <2>6. seen'[k].chain \in 0 .. 3
    BY <1>9, <2>1, ObservedClicks
  <2>7. CASE Clicks(k, p)
    BY <1>2, <1>4, <1>5, <2>2, <2>3, <2>4, <2>5, <2>6, <2>7, TimesAssumption
       DEF ClickCount, Ages
  <2>8. CASE ~Clicks(k, p)
    <3>1. ~LastClick(k, p)
      BY <2>8 DEF LastClick
    <3>. QED
      BY <1>4, <1>5, <2>2, <2>3, <2>6, <2>8, <3>1, TimesAssumption DEF Ages
  <2>. QED
    BY <2>7, <2>8
<1>. QED
  BY <1>6, <1>7, <1>8, <1>9 DEF Fired

\* Steps that are no frame leave the clicks alone, forget them, or make them older.
LEMMA ClickingKept ==
  ASSUME TypeOK, Clicking, rule' = rule,
         \A k \in Triggers :
           /\ trig'[k].was = trig[k].was /\ trig'[k].gap = trig[k].gap
           /\ trig'[k].clicks \in {0, trig[k].clicks}
           /\ seen'[k].down = seen[k].down /\ seen'[k].chain = seen[k].chain
           /\ seen'[k].apart = seen[k].apart
  PROVE  Clicking'
<1>1. PressGoesOn'
  BY DEF Clicking, PressGoesOn, Counting, MultiPress, Config
<1>2. ASSUME NEW k \in Triggers, Counting(k)
      PROVE  /\ seen'[k].apart <= trig'[k].gap
             /\ trig'[k].gap <= Window => trig'[k].clicks <= seen'[k].chain
  BY <1>2, FieldTypes DEF Clicking, ClicksSeen
<1>. QED
  BY <1>1, <1>2 DEF Clicking, ClicksSeen, Counting, MultiPress, Config

\* Time makes the click and the release older together.
LEMMA TimeClicking ==
  ASSUME TypeOK, Clicking, TimePasses
  PROVE  Clicking'
<1>1. ASSUME NEW k \in Triggers
      PROVE  /\ trig'[k].was = trig[k].was /\ trig'[k].clicks = trig[k].clicks
             /\ trig'[k].gap = Older(trig[k].gap)
             /\ seen'[k].down = Older(seen[k].down) /\ seen'[k].chain = seen[k].chain
             /\ seen'[k].apart = Older(seen[k].apart)
  <2>1. trig[k] \in TriggerState /\ seen[k] \in ObserverState
    BY FieldTypes
  <2>. QED
    BY <2>1 DEF TimePasses, TriggerState, ObserverState
<1>2. \A a \in Ages \cup {Unset} : Older(a) = Unset <=> a = Unset
  BY TimesAssumption DEF Older, Unset, Ages
<1>3. rule' = rule
  BY DEF TimePasses
<1>4. PressGoesOn'
  BY <1>1, <1>2, <1>3, FieldTypes DEF Clicking, PressGoesOn, Counting, MultiPress, Config
<1>5. ASSUME NEW k \in Triggers, Counting(k)
      PROVE  /\ seen'[k].apart <= trig'[k].gap
             /\ trig'[k].gap <= Window => trig'[k].clicks <= seen'[k].chain
  <2>1. /\ trig[k].gap \in Ages /\ seen[k].apart \in Ages /\ trig[k].clicks \in 0 .. 3
        /\ seen[k].chain \in 0 .. 3
    BY FieldTypes
  <2>2. /\ Older(seen[k].apart) <= Older(trig[k].gap)
        /\ trig[k].gap <= Older(trig[k].gap) /\ Older(trig[k].gap) \in Ages
    BY <1>5, <2>1, OlderType DEF Clicking, ClicksSeen
  <2>3. Older(trig[k].gap) <= Window => trig[k].gap <= Window
    BY <2>1, <2>2, TimesAssumption DEF Ages
  <2>. QED
    BY <1>1, <1>5, <2>2, <2>3 DEF Clicking, ClicksSeen
<1>. QED
  BY <1>3, <1>4, <1>5 DEF Clicking, ClicksSeen, Counting, MultiPress, Config

\* Zeroed rules have counted nothing.
LEMMA FreshClicking ==
  ASSUME trig = [k \in Triggers |-> NewTrigger], seen = [k \in Triggers |-> NewObserver]
  PROVE  Clicking
BY TimesAssumption DEF Clicking, PressGoesOn, ClicksSeen, NewTrigger, NewObserver

\* Every step keeps what the clicks say of the bus.
LEMMA NextClicking == IInv /\ Holding /\ Clicking /\ [Next]_vars => Clicking'
<1>. SUFFICES ASSUME IInv, Holding, Clicking, [Next]_vars PROVE Clicking'
  OBVIOUS
<1>1. TypeOK /\ ClicksBelow
  BY DEF IInv
<1>2. CASE Frame
  <2>1. PICK id \in Triggers : \E p \in Payloads(id) : RxFrame(id, p)
    BY <1>2 DEF Frame
  <2>2. PICK p \in Payloads(id) : RxFrame(id, p)
    BY <2>1
  <2>. QED
    BY <1>1, <2>2, FramePressGoesOn, FrameClicks DEF Clicking
<1>3. CASE Command \/ TimerTick
  <2>1. ASSUME NEW k \in Triggers
        PROVE  /\ trig'[k].was = trig[k].was /\ trig'[k].gap = trig[k].gap
               /\ trig'[k].clicks \in {0, trig[k].clicks}
               /\ seen'[k].down = seen[k].down /\ seen'[k].chain = seen[k].chain
               /\ seen'[k].apart = seen[k].apart
    <3>1. trig[k] \in TriggerState /\ seen[k] \in ObserverState
      BY <1>1, FieldTypes
    <3>2. CASE Command
      <4>1. PICK K \in SUBSET Triggers : MqttTrigger(K)
        BY <3>2 DEF Command
      <4>2. /\ trig'[k] = trig[k] \/ trig'[k] = [trig[k] EXCEPT !.age = 0]
            /\ seen'[k] = seen[k] \/ seen'[k] = [seen[k] EXCEPT !.quiet = 0]
        BY <4>1 DEF MqttTrigger
      <4>. QED
        BY <3>1, <4>2 DEF TriggerState, ObserverState
    <3>3. CASE TimerTick
      BY <3>1, <3>3 DEF TimerTick, Expired, TriggerState
    <3>. QED
      BY <1>3, <3>2, <3>3
  <2>2. rule' = rule
    BY <1>3 DEF Command, MqttTrigger, TimerTick
  <2>. QED
    BY <1>1, <2>1, <2>2, ClickingKept
<1>4. CASE \E r \in Rules : Reload(r)
  BY <1>4, TimesAssumption
     DEF Reload, Clicking, PressGoesOn, ClicksSeen, NewTrigger, NewObserver
<1>5. CASE TimePasses
  BY <1>1, <1>5, TimeClicking
<1>6. CASE UNCHANGED <<rule, trig, seen>>
  BY <1>1, <1>6, ClickingKept
<1>7. CASE \E a \in Tasks : Toggle(a)
  BY <1>6, <1>7 DEF Toggle, ToggleRead, WriteActive, WriteSince
<1>8. CASE \E mode \in {"no", "auto", "paused"} : SetCapture(mode)
  BY <1>6, <1>8 DEF SetCapture
<1>9. CASE UNCHANGED vars
  BY <1>6, <1>9 DEF vars
<1>. QED
  BY <1>2, <1>3, <1>4, <1>5, <1>7, <1>8, <1>9 DEF Next

\* A multi-press fires on a release, and only after as many presses in a row, each
\* within the window, as the rule asks for, none of which fired before.
THEOREM ClicksInWindowCorrect == Spec => ClicksInWindow
<1>1. ASSUME IInv, Clicking, [Next]_vars
      PROVE  [\A k \in shots' :
                MultiPress(k)
                  => /\ seen[k].down # Unset
                     /\ seen[k].chain >= Config(k).clicks - 1 /\ seen[k].apart <= Window]_vars
  <2>1. SUFFICES ASSUME ~UNCHANGED vars, NEW k \in shots', MultiPress(k)
                 PROVE  /\ seen[k].down # Unset
                        /\ seen[k].chain >= Config(k).clicks - 1 /\ seen[k].apart <= Window
    OBVIOUS
  <2>2. PICK id \in Triggers :
          \E p \in Payloads(id) : RxFrame(id, p) /\ k \in Fired(id, p)
    BY <1>1, <2>1, WhoFires DEF MultiPress
  <2>. PICK p \in Payloads(id) : RxFrame(id, p) /\ k \in Fired(id, p)
    BY <2>2
  <2>3. LastClick(k, p) /\ k \in Triggers /\ Counting(k)
    BY <2>1, FiredFacts DEF Shoots, Ready, ShootsByClicks, MultiPress, Counting
  <2>4. TypeOK /\ Config(k).clicks \in 1 .. 3
    BY <1>1, <2>3, ConfigType DEF IInv, TypeOK
  <2>5. /\ trig[k].clicks \in 0 .. 3 /\ trig[k].gap \in Ages
        /\ seen[k].chain \in 0 .. 3 /\ seen[k].apart \in Ages
    BY <2>3, <2>4, FieldTypes
  <2>6. trig[k].was /\ trig[k].gap <= Window /\ trig[k].clicks >= Config(k).clicks - 1
    BY <2>1, <2>3, <2>4, <2>5, TimesAssumption
       DEF LastClick, Clicks, ClickCount, MultiPress, Ages
  <2>7. /\ seen[k].down # Unset /\ seen[k].apart <= trig[k].gap
        /\ trig[k].clicks <= seen[k].chain
    BY <1>1, <2>3, <2>6 DEF Clicking, PressGoesOn, ClicksSeen
  <2>. QED
    BY <2>4, <2>5, <2>6, <2>7, TimesAssumption DEF Ages
<1>2. Init => Clicking
  BY FreshClicking DEF Init
<1>. QED
  BY <1>1, <1>2, InitIInv, NextIInv, InitHolding, NextHolding, NextClicking, PTL
     DEF Spec, ClicksInWindow
===============================================================================
