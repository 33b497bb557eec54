----------------------------- MODULE TrackPopupProps -----------------------------
(***************************************************************************)
(* Correctness properties of the track pop-up.                             *)
(***************************************************************************)
EXTENDS TrackPopup

\* Every variable stays in its type; the queue never exceeds its depth.
PopupTypeOK ==
  /\ queue \in Seq(Texts) /\ Len(queue) <= QueueDepth
  /\ leaf \in {"idle", "trigger", "sending", "hold"}
  /\ ctx \in [request : Texts \cup {HeadText}, remaining : 0 .. TriggerFrames,
              selected : BOOLEAN, late : BOOLEAN, settled : BOOLEAN]
  /\ held \in BOOLEAN /\ owned \in BOOLEAN /\ running \in BOOLEAN /\ leaked \in BOOLEAN
  /\ transport \in Families /\ media \in MediaTypes
  /\ outcome \in Service!Outcomes \cup {"idle", "in-progress"}
  /\ triggers \in 0 .. TriggerFrames
  /\ wire \in [pair : Families, intact : BOOLEAN]
  /\ shown \in [Families -> Texts \cup {HeadText}]

\* While a text is displayed, it is the one that was asked for: it went whole to the
\* pair of the active media type, and no text of the head unit replaced it.
HoldShowsText == leaf = "hold" => shown[transport] = ctx.request

\* A transfer never loses its pair: transport and forced media type change only
\* while the transmitter is free, so set_active_transport never writes the
\* configuration under a running worker.
StrategyStable == [][running /\ running' => UNCHANGED <<transport, owned>>]_popupVars

\* A transfer starts only after all trigger frames of its own request were offered.
AttentionFirst == [][~running /\ running' => triggers = TriggerFrames]_popupVars

\* The head unit never hears the cluster's flow control for a transfer of ours.
NoAnswerLeaks == ~leaked

\* An attempt that is over leaves nothing behind: the transmitter is free for the
\* next one, whose "busy" refusal never happens, and no media type stays forced.
FreeBetweenAttempts == /\ leaf # "sending" => ~running
                       /\ leaf = "idle" => ~owned

\* A full queue takes texts again, whatever the head unit and the cluster do:
\* every attempt ends.
QueueDrains == Len(queue) = QueueDepth ~> Len(queue) < QueueDepth
==================================================================================
