------------------------------- MODULE CanDoProps -------------------------------
(***************************************************************************)
(* Correctness properties of a Can-Do rule.  They speak of what came in on *)
(* the bus (`seen`), not of the flags the code keeps.                      *)
(***************************************************************************)
EXTENDS CanDo

TriggerState ==
  [last : [class : [Triggers -> Classes \cup {"none"}], tag : Tags \cup {0}],
   held : BOOLEAN, was : BOOLEAN, since : Ages \cup {Unset}, holdFired : BOOLEAN,
   clicks : 0 .. 3, gap : Ages, latched : BOOLEAN, pending : BOOLEAN, age : Ages]

ObserverState ==
  [free : BOOLEAN, quiet : Ages, down : Ages \cup {Unset}, chain : 0 .. 3, apart : Ages]

\* Every variable stays in its type; a task never owes more executions than triggers.
TypeOK ==
  /\ rule \in Rules
  /\ trig \in [Triggers -> TriggerState] /\ seen \in [Triggers -> ObserverState]
  /\ active \in BOOLEAN /\ since \in Ages \cup {Unset}
  /\ pc \in [Tasks -> {"idle", "toggle", "on", "off", "stamp", "clear"}]
  /\ todo \in [Tasks -> 0 .. Cardinality(Triggers)]
  /\ capture \in {"no", "auto", "paused"}
  /\ shots \in SUBSET Triggers

\* The trigger sees every frame of its identifier: no combination breaks off before it.
Undisturbed(k) == ~Combo \/ \A j \in Triggers \ {k} : Config(j).id # Config(k).id

Single(k) == Config(k).source = "can" /\ Config(k).clicks = 1
Transition(k) == Single(k) /\ Config(k).from /\ Config(k).to
MultiPress(k) == Config(k).source = "can" /\ Config(k).to /\ Config(k).clicks > 1
OneShot(k) == Single(k) /\ Config(k).mode = "one_shot"

\* A button named by a transition fires once per press: between two firings of a
\* trigger with "from" and "to" the bus showed the "from" state, however often the
\* pressed frame is repeated, whatever expires and whatever the capture mode hides.
OncePerPress ==
  [][\A k \in shots' :
       Transition(k) /\ Undisturbed(k) => seen[k].free]_vars

\* Firings keep their distance: the cooldown always, and for a one-shot trigger without
\* a release in between more than the time that re-arms it - for ever when that is 0.
ShotsApart ==
  [][\A k \in shots' :
       /\ seen[k].quiet >= Cooldown
       /\ OneShot(k) => seen[k].free \/ (ResetAfter > 0 /\ seen[k].quiet > ResetAfter)]_vars

\* A trigger with a hold time and a "to" pattern fires only when the button has been down
\* that long without a release, and once in that press.
HoldsLongEnough ==
  [][\A k \in shots' :
       Single(k) /\ Config(k).to /\ Config(k).hold > 0
         => seen[k].down >= Config(k).hold /\ seen[k].free]_vars

\* A multi-press of a "to" pattern fires on the release that completes it: enough presses,
\* each released within the window of the release before, none counted for two firings.
ClicksInWindow ==
  [][\A k \in shots' :
       MultiPress(k)
         => /\ seen[k].down # Unset
            /\ seen[k].chain >= Config(k).clicks - 1 /\ seen[k].apart <= Window]_vars

\* A frame fires a combination only while every other button of it is down.  (A command
\* that is part of a combination fires it alone.)
ComboHeld ==
  [][\A k \in shots' :
       Combo /\ Config(k).source = "can"
         => \A j \in Triggers \ {k} :
              Config(j).to => seen'[j].down # Unset]_vars

\* A pending confirmation ends: it arrives or times out, unless the rules are paused.
VerifyEnds ==
  \A k \in Triggers : trig[k].pending ~> ~trig[k].pending \/ capture = "paused"

=================================================================================
