--------------------------------- MODULE CanDo ---------------------------------
(***************************************************************************)
(* One Can-Do automation rule of main/autopid.c.  Three tasks work on it   *)
(* without a lock: the receive task with every frame, the MQTT client with *)
(* every command, the 40 ms task with its expiries.  Each evaluates the    *)
(* rule's triggers in one step; the toggle that a firing executes is taken *)
(* read by read and write by write, since there the three meet.            *)
(*                                                                         *)
(* A payload is a class per trigger - its "from" pattern, its "to" pattern *)
(* or neither - and a tag that stands for the bytes no pattern looks at.   *)
(* Times are ages that stop growing once no comparison can tell them       *)
(* apart; a time stamp of 0 in the code is the highest age.                *)
(***************************************************************************)
EXTENDS Integers, FiniteSets

CONSTANTS
  Triggers,     (* 1 .. n: trigger_count                                   *)
  Rules,        (* the rules a configuration file may hold                 *)
  Tags,         (* contents of the bytes outside every pattern             *)
  Cooldown,     (* cooldown_ms                                             *)
  Window,       (* click_window_ms                                         *)
  ResetAfter,   (* timeout_reset_ms, 0 for never                           *)
  VerifyAfter,  (* the verification time-out when timeout_reset_ms is 0    *)
  Oldest        (* ages stop here                                          *)

Modes == {"continuous", "one_shot", "on_change", "poll_verify"}
Classes == {"idle", "pressed", "other"}

\* A trigger of a configuration file; `verify` holds the classes that confirm its action,
\* and only a frame of the trigger's own identifier can; `reset` says that
\* reset_can_id names that identifier.
TriggerConfig ==
  [source : {"can", "mqtt"}, id : Triggers, from : BOOLEAN, to : BOOLEAN,
   mode : Modes, hold : 0 .. Oldest, clicks : 1 .. 3,
   verify : SUBSET Classes, reset : BOOLEAN]

RuleConfig == [trigger : [Triggers -> TriggerConfig], combo : BOOLEAN,
               toggle : BOOLEAN, revert : 0 .. Oldest]

ASSUME TriggersAssumption == Triggers \subseteq Nat /\ Triggers # {} /\ IsFiniteSet(Triggers)
ASSUME RulesAssumption == Rules \subseteq RuleConfig
ASSUME TagsAssumption == Tags \subseteq Nat /\ 0 \in Tags
ASSUME TimesAssumption ==
  /\ {Cooldown, Window, ResetAfter, VerifyAfter, Oldest} \subseteq Nat
  /\ Cooldown > 0 /\ Oldest >= Cooldown
  /\ Oldest > Window /\ Oldest > ResetAfter /\ Oldest > VerifyAfter

VARIABLES
  rule,      (* the rule loaded: its configuration                         *)
  trig,      (* its triggers' states                                       *)
  active,    (* is_active_state                                            *)
  since,     (* the age of active_since_us, Unset when that is 0           *)
  pc,        (* per task: where it is in cando_execute_rule_actions        *)
  todo,      (* per task: firings of its frame or command still to execute *)
  capture,   (* "no", "auto": SavvyCAN is connected, "paused": by hand     *)
  shots,     (* history: the triggers the last step fired                  *)
  seen       (* history: what came in on each trigger's identifier         *)

toggles == <<active, since, pc, todo>>
vars == <<rule, trig, toggles, capture, shots, seen>>

Tasks == {"rx", "mqtt", "timer"}
Unset == -1
Ages == 0 .. Oldest

Config(k) == rule.trigger[k]
Combo == rule.combo /\ Cardinality(Triggers) > 1
Older(age) == IF age \in {Unset, Oldest} THEN age ELSE age + 1

---------------------------------------------------------------------------
(* Payloads.                                                               *)

NoPayload == [class |-> [k \in Triggers |-> "none"], tag |-> 0]

On(id) == {k \in Triggers : Config(k).source = "can" /\ Config(k).id = id}

\* Only these triggers look at bytes outside the patterns.
SeesTag(k) == Config(k).mode = "on_change" \/ (~Config(k).from /\ ~Config(k).to)

\* A payload of an identifier; its classes for the other identifiers' triggers are none.
Payloads(id) ==
  {p \in [class : [Triggers -> Classes \cup {"none"}], tag : Tags] :
     /\ \A k \in Triggers : p.class[k] = "none" <=> k \notin On(id)
     /\ p.tag = 0 \/ \E k \in On(id) : SeesTag(k)}

\* Mutant: the transition's first half is not asked for.
Passes_Level(k, p) ==
  /\ Config(k).to => p.class[k] = "pressed"
  /\ ~Config(k).from /\ ~Config(k).to => trig[k].last # p

\* cando_evaluate_trigger, on a frame of the trigger's identifier.
Passes(k, p) ==
  /\ Config(k).from => trig[k].last.class[k] \in {"none", "idle"}
  /\ Config(k).to => p.class[k] = "pressed"
  /\ ~Config(k).from /\ ~Config(k).to => trig[k].last # p

\* The frame shows the release state.
Released(k, p) ==
  /\ ~Passes(k, p)
  /\ \/ Config(k).from /\ p.class[k] = "idle"
     \/ ~Config(k).from /\ Config(k).to /\ p.class[k] # "pressed"

---------------------------------------------------------------------------
(* One trigger, one frame.                                                 *)

\* Mutant: a release does not clear is_held.
HeldBy_Sticky(k, p) == trig[k].held \/ Passes(k, p)

\* The pre-pass: is_held of a trigger of the frame's identifier.
HeldBy(k, p) == Passes(k, p) \/ (trig[k].held /\ ~Released(k, p))

HeldAfter(id, p) == {k \in Triggers : IF k \in On(id) THEN HeldBy(k, p) ELSE trig[k].held}

\* The frame confirms a pending action: the trigger latches and its time restarts.
Confirms(k, p) ==
  /\ Config(k).mode = "poll_verify" /\ trig[k].pending
  /\ p.class[k] \in Config(k).verify

AgeAt(k, p) == IF Confirms(k, p) THEN 0 ELSE trig[k].age
LatchedAt(k, p) == trig[k].latched \/ Confirms(k, p)
PendingAt(k, p) == trig[k].pending /\ ~Confirms(k, p)

\* Multi-click: a release edge counts.
Clicks(k, p) == Released(k, p) /\ Config(k).clicks > 1 /\ trig[k].was

\* Mutant: clicks add up however far apart they are.
ClickCount_NoWindow(k) == trig[k].clicks + 1

ClickCount(k) ==
  IF trig[k].clicks > 0 /\ trig[k].gap <= Window THEN trig[k].clicks + 1 ELSE 1

LastClick(k, p) == Clicks(k, p) /\ ClickCount(k) >= Config(k).clicks

OthersHeld(k, held) == Combo => Triggers \ {k} \subseteq held

\* Hold duration: reached, and not yet used up in this hold.
HoldReached(k) ==
  \/ Config(k).hold = 0
  \/ /\ trig[k].since # Unset /\ trig[k].since >= Config(k).hold
     /\ ~trig[k].holdFired

\* The hold, the combination and the cooldown let the trigger through.
Ready(k, p, held) ==
  /\ Passes(k, p) /\ Config(k).clicks = 1
  /\ HoldReached(k)
  /\ Combo => Triggers \subseteq held
  /\ AgeAt(k, p) >= Cooldown

\* The trigger fires while its condition holds.
Shoots(k, p, held) ==
  /\ Ready(k, p, held) /\ ~Config(k).reset
  /\ Config(k).mode = "one_shot" => ~LatchedAt(k, p)
  /\ Config(k).mode = "poll_verify" => ~LatchedAt(k, p) /\ ~PendingAt(k, p)
  /\ Config(k).mode = "on_change" => trig[k].last # p

\* The trigger fires on the release edge of its last click.
ShootsByClicks(k, p, held) ==
  /\ LastClick(k, p) /\ ~Config(k).reset
  /\ OthersHeld(k, held)
  /\ AgeAt(k, p) >= Cooldown

\* What the loop leaves of a trigger of the frame's identifier.
AfterFrame(k, p, held) ==
  LET c == Config(k)  t == trig[k]
      released == Released(k, p)
      pressed == Passes(k, p)
      timed == pressed /\ c.clicks = 1 /\ c.hold > 0
      ready == Ready(k, p, held)
  IN IF c.reset
     THEN [t EXCEPT !.held = k \in held, !.was = @ \/ pressed,
                    !.latched = FALSE, !.pending = FALSE]
     ELSE
     [last |-> IF LastClick(k, p) /\ ~OthersHeld(k, held) THEN t.last ELSE p,
      held |-> k \in held,
      was |-> (t.was \/ pressed) /\ ~Clicks(k, p),
      since |-> IF released THEN Unset
                ELSE IF timed /\ t.since = Unset THEN 0 ELSE t.since,
      holdFired |-> ~released /\ (t.holdFired \/ (timed /\ HoldReached(k))),
      clicks |-> IF LastClick(k, p) THEN 0
                 ELSE IF Clicks(k, p) THEN ClickCount(k) ELSE t.clicks,
      gap |-> IF Clicks(k, p) THEN 0 ELSE t.gap,
      latched |-> ~released /\ (LatchedAt(k, p) \/ (ready /\ c.mode = "one_shot")),
      pending |-> PendingAt(k, p) \/ (ready /\ c.mode = "poll_verify" /\ ~LatchedAt(k, p)),
      age |-> IF Shoots(k, p, held) \/ ShootsByClicks(k, p, held) THEN 0 ELSE AgeAt(k, p)]

\* A combination that fires stamps and latches all its triggers.
Stamped(t, k) ==
  [t EXCEPT !.age = 0, !.latched = @ \/ Config(k).mode = "one_shot"]

---------------------------------------------------------------------------
(* History.                                                                *)

\* The frame shows trigger k's button up.
Up(k, p) == IF Config(k).from THEN p.class[k] = "idle" ELSE p.class[k] # "pressed"

\* What the frame tells an observer of trigger k's button: `free`: released since the
\* last firing; `quiet`: the age of that firing; `down`: the age of the press that goes
\* on; `chain`: releases in a row, each within the window of the one before, since the
\* last firing; `apart`: the age of the last release.
Observed(k, p, fired) ==
  LET s == seen[k]
      up == Up(k, p)
      click == up /\ s.down # Unset
  IN [free |-> ~fired /\ (s.free \/ up),
      quiet |-> IF fired THEN 0 ELSE s.quiet,
      down |-> IF up THEN Unset
               ELSE IF p.class[k] = "pressed" /\ s.down = Unset THEN 0 ELSE s.down,
      chain |-> IF fired THEN 0
                ELSE IF ~click THEN s.chain
                ELSE IF s.chain = 0 \/ s.apart > Window THEN 1
                ELSE IF s.chain < 3 THEN s.chain + 1 ELSE 3,
      apart |-> IF click THEN 0 ELSE s.apart]

---------------------------------------------------------------------------
(* The tasks.                                                              *)

NewTrigger ==
  [last |-> NoPayload, held |-> FALSE, was |-> FALSE, since |-> Unset,
   holdFired |-> FALSE, clicks |-> 0, gap |-> Oldest, latched |-> FALSE,
   pending |-> FALSE, age |-> Oldest]

NewObserver ==
  [free |-> TRUE, quiet |-> Oldest, down |-> Unset, chain |-> 0, apart |-> Oldest]

\* A task has `n` firings to execute; without toggle mode that leaves the rule alone.
Execute(a, n) ==
  IF rule.toggle /\ n > 0
  THEN /\ pc' = [pc EXCEPT ![a] = "toggle"]
       /\ todo' = [todo EXCEPT ![a] = n - 1]
  ELSE UNCHANGED <<pc, todo>>

Direct(id, p) == {k \in On(id) : Shoots(k, p, HeldAfter(id, p))}

\* A combination that fires ends the loop: the triggers after it do not see the frame.
Visited(id, p) == {k \in On(id) : Combo => \A j \in Direct(id, p) : k <= j}

Fired(id, p) ==
  {k \in Visited(id, p) : \/ k \in Direct(id, p)
                          \/ ShootsByClicks(k, p, HeldAfter(id, p))}

\* What the frame leaves of trigger k; the pre-pass reaches the ones not visited, too.
Left(id, p, k) ==
  IF k \in Visited(id, p) THEN AfterFrame(k, p, HeldAfter(id, p))
  ELSE IF k \in On(id)
  THEN [trig[k] EXCEPT !.held = k \in HeldAfter(id, p), !.was = @ \/ Passes(k, p)]
  ELSE trig[k]

\* A frame: the pre-pass, then the triggers in order.
RxFrame(id, p) ==
  /\ pc["rx"] = "idle" /\ capture = "no"
  /\ trig' = [k \in Triggers |-> IF Combo /\ Direct(id, p) # {}
                                 THEN Stamped(Left(id, p, k), k) ELSE Left(id, p, k)]
  /\ seen' = [k \in Triggers |->
                IF k \in On(id) THEN Observed(k, p, k \in Fired(id, p)) ELSE seen[k]]
  /\ shots' = Fired(id, p)
  /\ Execute("rx", Cardinality(Fired(id, p)))
  /\ UNCHANGED <<rule, active, since, capture>>

\* A command that matches the triggers K of source "mqtt".
MqttTrigger(K) ==
  LET fired == {k \in K : trig[k].age >= Cooldown}
  IN /\ pc["mqtt"] = "idle" /\ capture = "no"
     /\ trig' = [k \in Triggers |-> IF k \in fired THEN [trig[k] EXCEPT !.age = 0] ELSE trig[k]]
     /\ seen' = [k \in Triggers |-> IF k \in fired THEN [seen[k] EXCEPT !.quiet = 0] ELSE seen[k]]
     /\ shots' = fired
     /\ Execute("mqtt", Cardinality(fired))
     /\ UNCHANGED <<rule, active, since, capture>>

VerifyTimeout == IF ResetAfter > 0 THEN ResetAfter ELSE VerifyAfter

\* Mutant: a pending confirmation never times out.
Expired_Verify(k) ==
  [trig[k] EXCEPT
     !.clicks = IF trig[k].gap > Window THEN 0 ELSE @,
     !.latched = @ /\ ~(ResetAfter > 0 /\ trig[k].age > ResetAfter)]

Expired(k) ==
  [trig[k] EXCEPT
     !.clicks = IF trig[k].gap > Window THEN 0 ELSE @,
     !.latched = @ /\ ~(ResetAfter > 0 /\ trig[k].age > ResetAfter),
     !.pending = @ /\ ~(Config(k).mode = "poll_verify" /\ trig[k].age > VerifyTimeout)]

RevertDue == rule.toggle /\ active /\ rule.revert > 0 /\ since >= rule.revert

\* The tick's expiries, and its decision to revert.  It asks for the manual pause only.
TimerTick ==
  /\ pc["timer"] = "idle" /\ capture # "paused"
  /\ trig' = [k \in Triggers |-> Expired(k)]
  /\ shots' = {}
  /\ IF RevertDue THEN pc' = [pc EXCEPT !["timer"] = "toggle"] ELSE UNCHANGED pc
  /\ UNCHANGED <<rule, active, since, todo, capture, seen>>

\* cando_execute_rule_actions reads is_active_state and takes its branch.
ToggleRead(a) ==
  /\ pc[a] = "toggle"
  /\ pc' = [pc EXCEPT ![a] = IF active THEN "off" ELSE "on"]
  /\ shots' = {}
  /\ UNCHANGED <<rule, trig, active, since, todo, capture, seen>>

\* It writes is_active_state ...
WriteActive(a) ==
  /\ pc[a] \in {"on", "off"}
  /\ active' = (pc[a] = "on")
  /\ pc' = [pc EXCEPT ![a] = IF pc[a] = "on" THEN "stamp" ELSE "clear"]
  /\ shots' = {}
  /\ UNCHANGED <<rule, trig, since, todo, capture, seen>>

\* ... and active_since_us, performs the branch's actions, and takes the next firing.  The
\* stamp is the time its frame came (now_us); the model counts from the write.
WriteSince(a) ==
  /\ pc[a] \in {"stamp", "clear"}
  /\ since' = IF pc[a] = "stamp" THEN 0 ELSE Unset
  /\ pc' = [pc EXCEPT ![a] = IF todo[a] > 0 THEN "toggle" ELSE "idle"]
  /\ todo' = [todo EXCEPT ![a] = IF todo[a] > 0 THEN todo[a] - 1 ELSE 0]
  /\ shots' = {}
  /\ UNCHANGED <<rule, trig, active, capture, seen>>

\* cando_save_config reads the rules anew, zeroed; the tasks are taken to be between two rules.
Reload(r) ==
  /\ \A a \in Tasks : pc[a] = "idle"
  /\ rule' = r
  /\ trig' = [k \in Triggers |-> NewTrigger]
  /\ active' = FALSE /\ since' = Unset
  /\ shots' = {} /\ seen' = [k \in Triggers |-> NewObserver]
  /\ UNCHANGED <<pc, todo, capture>>

\* The user changes the capture mode, or SavvyCAN connects or leaves.
SetCapture(mode) ==
  /\ mode # capture /\ capture' = mode
  /\ shots' = {}
  /\ UNCHANGED <<rule, trig, toggles, seen>>

\* Time passes.
TimePasses ==
  /\ trig' = [k \in Triggers |->
                [trig[k] EXCEPT !.since = Older(@), !.gap = Older(@), !.age = Older(@)]]
  /\ seen' = [k \in Triggers |->
                [seen[k] EXCEPT !.quiet = Older(@), !.down = Older(@), !.apart = Older(@)]]
  /\ since' = Older(since)
  /\ shots' = {}
  /\ UNCHANGED <<rule, active, pc, todo, capture>>

---------------------------------------------------------------------------
Init ==
  /\ rule \in Rules
  /\ trig = [k \in Triggers |-> NewTrigger]
  /\ active = FALSE /\ since = Unset
  /\ shots = {} /\ seen = [k \in Triggers |-> NewObserver]
  /\ pc = [a \in Tasks |-> "idle"] /\ todo = [a \in Tasks |-> 0]
  /\ capture = "no"

Frame == \E id \in Triggers : On(id) # {} /\ \E p \in Payloads(id) : RxFrame(id, p)

Command ==
  \E K \in SUBSET {k \in Triggers : Config(k).source = "mqtt"} : K # {} /\ MqttTrigger(K)

Toggle(a) == ToggleRead(a) \/ WriteActive(a) \/ WriteSince(a)

Next ==
  \/ Frame
  \/ Command
  \/ TimerTick
  \/ \E a \in Tasks : Toggle(a)
  \/ \E r \in Rules : Reload(r)
  \/ \E mode \in {"no", "auto", "paused"} : SetCapture(mode)
  \/ TimePasses

Spec == Init /\ [][Next]_vars

\* Time passes and the tick comes; a task that executes goes on.
FairSpec ==
  /\ Spec
  /\ WF_vars(TimePasses) /\ WF_vars(TimerTick)
  /\ \A a \in Tasks : WF_vars(Toggle(a))
================================================================================
