------------------------- MODULE PreconditionProps -------------------------
(***************************************************************************)
(* Correctness properties of the preconditioning state machine.            *)
(***************************************************************************)
EXTENDS Precondition

\* Every variable stays in its type; ages stay below the saturation bound.
TypeOK ==
  /\ mode \in Modes
  /\ sm \in Machine
  /\ platform \in [status : Statuses, ready : BOOLEAN]
  /\ warm \in BOOLEAN /\ continuous \in BOOLEAN
  /\ desired \in BOOLEAN /\ inited \in BOOLEAN
  /\ toggleReq \in BOOLEAN /\ ticking \in BOOLEAN /\ aborted \in BOOLEAN
  /\ call \in [Callers -> {"none", "init", "toggle", "cancel"}]
  /\ sent \in {"none", "start", "stop"}
  /\ cause \in {"boot", "user", "cancel", "web", "call", "car", "tick", "time"}
  /\ carOff \in BOOLEAN /\ bursts \in 0 .. (MaxRetries + 2)

---------------------------------------------------------------------------
(* With a mode that stays as configured (no mode command).                 *)

\* In a repeating mode the latch that survives is on exactly while REQUESTED
\* owns the session, whichever of the many ways in and out was taken; in ONCE
\* mode no latch is ever on.  (requested_enter, requested_exit, idle_enter)
LatchFollowsSession ==
  IF Repeating THEN Enabled <=> sm.leaf \in Requested ELSE ~continuous

\* The states that wait for another attempt exist only where an attempt can be
\* repeated: MANAGED in the repeating modes, the relaunch delay in PERSISTENT.
WaitingNeedsMode ==
  /\ sm.leaf = "managed" => Repeating
  /\ sm.leaf = "car-start-delay" => mode = "PERSISTENT"

---------------------------------------------------------------------------
(* With or without mode commands.                                          *)

\* Once the car has left READY nothing is sent to start preconditioning until it
\* is READY again or the user asks: retries, re-nudges and relaunches all wait.
CarOffStartsNothing == carOff => sent # "start"

\* ONCE mode spends one retry budget on a request, however often the car bounces
\* between started and starting in between.
OnceRetryBudget ==
  mode = "ONCE" /\ sm.leaf \in Requested => bursts <= MaxRetries + 1

\* Without commands the machine implements the promise made to its user: only a
\* press or a restored persistent latch starts a session, and nobody but the
\* user ends one in PERSISTENT mode.
SessionOf(leaf) == IF leaf \in Requested THEN "on"
                   ELSE IF leaf \in Stopping THEN "stopping" ELSE "off"

Session == INSTANCE PreconSession WITH
             session <- SessionOf(sm.leaf),
             Sources <- {"web", "call", "car", "tick", "time"}

ImplementsSession == Session!Spec

\* The action "Cancel / Turn Off Preconditioning" never turns it on.
CancelNeverStarts ==
  [][cause' = "cancel" /\ sm.leaf \notin Requested => sm'.leaf \notin Requested]_vars

\* A start attempt comes to its end: running, parked, or given up.  So does a stop,
\* confirmed or given up, unless the user presses again (a press restarts it, so
\* somebody who never stops pressing can keep it going).
AttemptsResolve ==
  /\ (sm.leaf \in Starting) ~> (sm.leaf \notin Starting)
  /\ (sm.leaf \in Stopping) ~> (sm.leaf \notin Stopping \/ cause = "user")
===========================================================================
