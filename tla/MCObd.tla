------------------------------- MODULE MCObd --------------------------------
(* What polls the car and passes its values on: four machines that call    *)
(* one another in single steps, the ELM327 interpreter's request loop, the *)
(* AutoPID task with the HTTP server's scan, the evaluation of an          *)
(* expression, the webhook.  Each behaviour is one of one machine; `part`  *)
(* says which, the others stay put.                                        *)
EXTENDS AutoPid, Elm327, ExpressionProps, Webhook

VARIABLE part

obdVars == <<part, elmVars, autoPidVars, expressionVars, webhookVars>>

(* The settings of the interpreter that its request loop depends on.       *)
CmdTimeout == [do |-> "st", len |-> 2, arg |-> 3]
CmdReset   == [do |-> "d", len |-> 0, arg |-> 0]
CmdAddress == [do |-> "cra", len |-> 3, arg |-> "e2"]
Commands   == {CmdTimeout, CmdReset, CmdAddress}

(* A configuration with a parameter of each type, whose initialisations    *)
(* differ in the header: each must be sent again when the type changes.    *)
Typed(cmds) == [cmds |-> cmds, ended |-> TRUE]

TheFile ==
  [pids |-> <<[name |-> "soc", pid |-> "2201", init |-> Typed(<<At("sh", "7E2", 3)>>)]>>,
   std  |-> <<[name |-> "rpm", pid |-> "0C", rx |-> Unset]>>,
   stdEnabled |-> TRUE, carEnabled |-> FALSE, protocol |-> "6", polling |-> BOOLEAN,
   init |-> Typed(<<At("sp", "6", 1), At("sh", "7E4", 3), At("cra", "7EC", 3)>>)]

TheCar ==
  [pids |-> <<[pid |-> "2101", params |-> <<"range", "temp">>, init |-> Typed(<<>>)]>>,
   init |-> Typed(<<>>)]

TheAnswers == {<<>>, <<2, 1>>}

(* The settings there can be, and the commands that may be sent.           *)
TheSettings ==
  [header : {Unset, "7DF", "7E2", "7E4", "DB33F1"}, prio : {24}, rx : {Unset, "7EC"},
   protocol : {"6", "7"}, timeout : {StdTimeout, 150}, fcMode : {0}, fcHeader : {Unset},
   fcData : {<<>>}, shows : SUBSET {"linefeed", "echo", "space", "header"}]

TheCommands ==
  UNION ({ToSet(DefaultInit)} \cup {ToSet(Restoring(c)) : c \in TheSettings}
         \cup {ToSet(ScanConfig(p)) : p \in ScanProtocols \cap CanProtocols}
         \cup {ToSet(TypeInit[Polled[i].type] \o Polled[i].init) : i \in 1..Len(Polled)})

ASSUME InitsDoFit == Occur(TheSettings, TheCommands) /\ InitsFit(TheSettings)

(* The machines that stand still have one initial state.                   *)
ObdInit ==
  /\ part \in {"elm", "poll", "expression", "webhook"}
  /\ ElmInit /\ AutoPidInit /\ ExpressionInit /\ WebhookInit
  /\ part # "poll" => pollingOn
  /\ part # "webhook" => full

ObdNext ==
  \/ part = "elm" /\ ElmNext /\ UNCHANGED <<part, autoPidVars, expressionVars, webhookVars>>
  \/ part = "poll" /\ AutoPidNext /\ UNCHANGED <<part, elmVars, expressionVars, webhookVars>>
  \/ /\ part = "expression" /\ ExpressionNext
     /\ UNCHANGED <<part, elmVars, autoPidVars, webhookVars>>
  \/ part = "webhook" /\ WebhookNext /\ UNCHANGED <<part, elmVars, autoPidVars, expressionVars>>

(* The liveness properties are about the first two machines, each with its *)
(* own fairness.  A machine that stands still can do nothing of            *)
(* ElmFairness; AutoPidFairness is repeated for its own part only, as the  *)
(* task would have to start.                                               *)
ObdSpec ==
  /\ ObdInit /\ [][ObdNext]_obdVars /\ ElmFairness
  /\ WF_autoPidVars(part = "poll" /\ TaskStep)
  /\ SF_autoPidVars(part = "poll" /\ TakeElm)
  /\ WF_autoPidVars(part = "poll" /\ ScanStep)
  /\ \A r \in Readers : WF_autoPidVars(part = "poll" /\ ReadWaited(r))
=============================================================================
