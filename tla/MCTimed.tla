--------------------------------- MODULE MCTimed ---------------------------------
(* What runs on the clock: the rule of the Can-Do engine, which the 40 ms tick    *)
(* drives, and the ISO-TP transmitter with its deadlines.  Each behaviour is one  *)
(* of one machine; `part` says which, the other stays put.                        *)
EXTENDS CanDoProps, IsoTpTxProps

VARIABLE part

timedVars == <<part, vars, isoVars>>

(* One rule per kind of button.                                                   *)
Button(mode) ==
  [source |-> "can", id |-> 1, from |-> TRUE, to |-> TRUE, mode |-> mode, hold |-> 0,
   clicks |-> 1, verify |-> {}, reset |-> FALSE]
Level(mode) == [Button(mode) EXCEPT !.from = FALSE]
Remote == [Button("on_change") EXCEPT !.source = "mqtt"]
Rule(t, u) ==
  [trigger |-> [k \in 1 .. 2 |-> IF k = 1 THEN t ELSE u],
   combo |-> FALSE, toggle |-> FALSE, revert |-> 0]
Chord(t, u) == [Rule(t, u) EXCEPT !.combo = TRUE]

MCTriggers == 1 .. 2
PlainRule == Rule(Button("on_change"), Remote)
MCRules ==
  {PlainRule,
   [Rule(Remote, Remote) EXCEPT !.toggle = TRUE, !.revert = 1],
   Rule([Button("on_change") EXCEPT !.clicks = 2], Remote),
   Rule([Level("poll_verify") EXCEPT !.hold = 2, !.verify = {"other"}], Remote),
   Rule([Level("on_change") EXCEPT !.to = FALSE], [Button("one_shot") EXCEPT !.id = 2, !.reset = TRUE]),
   Chord(Level("one_shot"), [Level("one_shot") EXCEPT !.id = 2]),
   Chord(Level("continuous"), Button("one_shot")),
   Chord([Level("continuous") EXCEPT !.clicks = 2], [Level("continuous") EXCEPT !.id = 2])}

(* The machine that stands still has one initial state.                           *)
TimedInit ==
  /\ part \in {"rule", "transmitter"}
  /\ Init /\ IsoInit
  /\ part # "rule" => rule = PlainRule

TimedNext ==
  \/ part = "rule" /\ Next /\ UNCHANGED <<part, isoVars>>
  \/ part = "transmitter" /\ IsoNext /\ UNCHANGED <<part, vars>>

(* Each machine has its own fairness; what a machine could do that stands still   *)
(* is left out of it.                                                             *)
TimedSpec ==
  /\ TimedInit /\ [][TimedNext]_timedVars
  /\ WF_vars(part = "rule" /\ TimePasses) /\ WF_vars(part = "rule" /\ TimerTick)
  /\ \A a \in Tasks : WF_vars(Toggle(a))
  /\ \A c \in Clients : WF_isoVars(StartGoesOn(c))
  /\ WF_isoVars(FinishGoesOn) /\ WF_isoVars(RxGoesOn)
  /\ WF_isoVars(DeadlineComes) /\ WF_isoVars(WaitEnds)
  /\ WF_isoVars(part = "transmitter" /\ (WorkerPlan \/ WorkerWake \/ WorkerTick))
  /\ SF_isoVars(part = "transmitter" /\ (WorkerStart \/ WorkerPoll))
==================================================================================
