--------------------------- MODULE PreconSession ---------------------------
(***************************************************************************)
(* What the preconditioning machine promises its user, without states,     *)
(* bursts or timers: a session that only the user (or a restart that       *)
(* restores it) starts, and the few reasons for which it may end.          *)
(***************************************************************************)
CONSTANT Sources   (* who may act: the user, the car, the clock...         *)

VARIABLES
  mode,      (* the configured mode                                        *)
  session,   (* "off", "on", or "stopping"                                 *)
  cause      (* who caused the last step                                   *)

vars == <<mode, session, cause>>

\* At boot a session is on only if persistent mode restored it.
Boot(m, s) == s = "off" \/ (s = "on" /\ m = "PERSISTENT")

Init == mode \in {"ONCE", "CONTINUOUS", "PERSISTENT"} /\ session \in {"off", "on"}
        /\ Boot(mode, session) /\ cause = "boot"

\* A press starts a session, stops it, or is debounced; where ONCE mode cannot
\* start, it goes straight to stopping.
User ==
  /\ cause' = "user"
  /\ mode' = mode
  /\ session' \in CASE session = "off"      -> {"on", "stopping"}
                    [] session = "on"       -> {"on", "stopping"}
                    [] session = "stopping" -> {"on", "stopping"}
  /\ session # "on" /\ session' = "stopping" => mode = "ONCE"

\* A cancel command ends a session; it never starts one in a settled machine.
Cancel == cause' = "cancel" /\ mode' = mode
          /\ session = "on" /\ session' \in {"on", "stopping"}

\* Everybody else may finish a stop, and end a session for the mode's reasons:
\* ONCE is one attempt, and CONTINUOUS lasts until the car is switched off.
Others ==
  /\ cause' \in Sources \ {"user", "cancel", "boot"}
  /\ mode' = mode
  /\ \/ session' = session
     \/ session = "stopping" /\ session' = "off"
     \/ session = "on" /\ session' = "stopping" /\ mode = "ONCE"
     \/ session = "on" /\ session' = "off" /\ mode # "PERSISTENT" /\ cause' = "car"

Restart == cause' = "boot" /\ mode' \in {"ONCE", "CONTINUOUS", "PERSISTENT"}
           /\ session' \in {"off", "on"} /\ Boot(mode', session')

Next == User \/ Cancel \/ Others \/ Restart

Spec == Init /\ [][Next]_vars
============================================================================
