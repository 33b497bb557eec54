-------------------------- MODULE PersistentSettings --------------------------
(***************************************************************************)
(* The mirrored setting of main/persistent_settings.c: the latch of        *)
(* persistent mode, held in RAM and written to flash by a task of its own. *)
(*                                                                         *)
(* The client is the preconditioning machine: a dispatch, under the        *)
(* machine's lock, sets the latch once (a session starts or stops) or      *)
(* twice (REQUESTED is left and entered again by the same dispatch).  Each *)
(* set is three steps (exchange the value, bump the generation, notify),   *)
(* and the writer runs on the other core between any two of them.          *)
(*                                                                         *)
(* The generation is compared only for equality with the last one the      *)
(* writer saw, so `unseen` says whether they differ; retry_at is compared  *)
(* only with the clock, so it is a moment in the future or in the past.    *)
(* There is one setting, as in the code (MIRRORED_U8_COUNT = 1).           *)
(***************************************************************************)
EXTENDS Naturals

CONSTANTS
  MaxRetries,   (* PERSISTENT_SETTINGS_MAX_RETRIES                         *)
  Dispatches    (* what the machine's dispatches do to the latch           *)

ASSUME RetryAssumption == MaxRetries \in Nat
ASSUME DispatchAssumption == Dispatches \subseteq {"start", "stop", "renudge"}

VARIABLES
  desired,      (* desired_value                                           *)
  unseen,       (* generation # observed_generation                        *)
  job,          (* what the current dispatch has still to do to the latch  *)
  setting,      (* where set_u8 is: "exchange", "bump" or "notify"         *)
  notified,     (* the writer's notification count is not zero             *)
  writer,       (* where the writer is: "waiting", "load", "decide", "save"*)
  writing,      (* the value the writer read and is saving                 *)
  mirror,       (* flash_mirror                                            *)
  failures,     (* save_failures                                           *)
  retryAt,      (* retry_at: "none", "future" or "past"                    *)
  timed,        (* the writer waits with a deadline                        *)
  nvs,          (* what flash holds                                        *)
  tries,        (* history: saves attempted since the last change or boot  *)
  torn          (* history: flash may hold what a failed save left there   *)

clientVars == <<desired, unseen, job, setting>>
writerVars == <<writer, writing, mirror, failures, retryAt, timed, nvs>>
vars == <<desired, unseen, job, setting, notified, writer, writing, mirror,
          failures, retryAt, timed, nvs, tries, torn>>

Budget == MaxRetries + 1

---------------------------------------------------------------------------
(* The client: set_u8, called once or twice by a dispatch.                 *)

Latch == {0, 1}

\* The value set next, and what is left to do then: a dispatch that leaves and
\* enters REQUESTED is a stop followed by a start.
Value == IF job = "start" THEN 1 ELSE 0
Rest  == IF job = "renudge" THEN "start" ELSE "none"

Idle == job = "none"

\* The latch is on exactly while a session is (LatchFollowsSession of
\* PreconditionProps), so a start finds it off and the others find it on.
Dispatch ==
  /\ Idle
  /\ \E d \in Dispatches : /\ desired = IF d = "start" THEN 0 ELSE 1
                           /\ job' = d
  /\ UNCHANGED <<desired, unseen, setting, notified, writerVars, tries, torn>>

\* A set that changes nothing returns at once.
Exchange ==
  /\ ~Idle /\ setting = "exchange"
  /\ desired' = Value
  /\ IF desired = Value
     THEN job' = Rest /\ UNCHANGED setting
     ELSE setting' = "bump" /\ UNCHANGED job
  /\ UNCHANGED <<unseen, notified, writerVars, tries, torn>>

Bump ==
  /\ setting = "bump"
  /\ unseen' = TRUE
  /\ tries' = 0
  /\ setting' = "notify"
  /\ UNCHANGED <<desired, job, notified, writerVars, torn>>

\* Mutant: only switching on wakes the writer.
Notify_OnlyOn ==
  /\ setting = "notify"
  /\ notified' = (notified \/ desired = 1)
  /\ job' = Rest
  /\ setting' = "exchange"
  /\ UNCHANGED <<desired, unseen, writerVars, tries, torn>>

Notify ==
  /\ setting = "notify"
  /\ notified' = TRUE
  /\ job' = Rest
  /\ setting' = "exchange"
  /\ UNCHANGED <<desired, unseen, writerVars, tries, torn>>

---------------------------------------------------------------------------
(* The writer: persistent_settings_task and flush_setting.                 *)

\* Back to ulTaskNotifyTake, with a deadline or for ever.
Wait(deadline) == writer' = "waiting" /\ timed' = deadline

\* A notification or the deadline; taking it clears the count.
Wake ==
  /\ writer = "waiting"
  /\ notified \/ (timed /\ retryAt = "past")
  /\ notified' = FALSE
  /\ writer' = "load"
  /\ UNCHANGED <<clientVars, writing, mirror, failures, retryAt, timed, nvs, tries, torn>>

\* A new generation gets a new retry budget.
Load ==
  /\ writer = "load"
  /\ IF unseen THEN failures' = 0 /\ retryAt' = "none" ELSE UNCHANGED <<failures, retryAt>>
  /\ unseen' = FALSE
  /\ writer' = "decide"
  /\ UNCHANGED <<desired, job, setting, notified, writing, mirror, timed, nvs, tries, torn>>

\* Mutant: a pending retry is waited for without a deadline.
Decide_NoDeadline ==
  /\ writer = "decide"
  /\ IF desired = mirror \/ failures > MaxRetries
     THEN Wait(FALSE) /\ UNCHANGED writing
     ELSE IF retryAt = "future"
          THEN Wait(FALSE) /\ UNCHANGED writing
     ELSE writer' = "save" /\ writing' = desired /\ UNCHANGED timed
  /\ UNCHANGED <<clientVars, notified, mirror, failures, retryAt, nvs, tries, torn>>

Decide ==
  /\ writer = "decide"
  /\ IF desired = mirror \/ failures > MaxRetries
     THEN Wait(FALSE) /\ UNCHANGED writing
     ELSE IF retryAt = "future"
          THEN Wait(TRUE) /\ UNCHANGED writing
     ELSE writer' = "save" /\ writing' = desired /\ UNCHANGED timed
  /\ UNCHANGED <<clientVars, notified, mirror, failures, retryAt, nvs, tries, torn>>

SaveOk ==
  /\ nvs' = writing /\ mirror' = writing
  /\ failures' = 0
  /\ torn' = FALSE
  /\ Wait(FALSE)
  /\ UNCHANGED retryAt

\* A failed commit says nothing about what reached the flash.
SaveFails ==
  /\ nvs' \in {nvs, writing} /\ UNCHANGED mirror
  /\ failures' = failures + 1
  /\ torn' = (torn \/ nvs' # nvs)
  /\ IF failures' > MaxRetries
     THEN Wait(FALSE) /\ UNCHANGED retryAt
     ELSE Wait(TRUE) /\ retryAt' = "future"

Save ==
  /\ writer = "save"
  /\ SaveOk \/ SaveFails
  /\ tries' = IF tries < Budget THEN tries + 1 ELSE tries
  /\ UNCHANGED <<clientVars, notified, writing>>

---------------------------------------------------------------------------
(* The rest of the world.                                                  *)

\* Five seconds pass.
Elapse ==
  /\ retryAt = "future"
  /\ retryAt' = "past"
  /\ UNCHANGED <<clientVars, notified, writer, writing, mirror, failures, timed, nvs, tries, torn>>

\* Power loss at any moment, a save in progress done or not, and the next boot:
\* persistent_settings_init loads the flash.
Reboot ==
  /\ nvs' \in IF writer = "save" THEN {nvs, writing} ELSE {nvs}
  /\ desired' = nvs' /\ mirror' = nvs' /\ writing' = nvs'
  /\ unseen' = FALSE /\ job' = "none" /\ setting' = "exchange"
  /\ notified' = FALSE /\ writer' = "waiting" /\ timed' = FALSE
  /\ failures' = 0 /\ retryAt' = "none"
  /\ tries' = 0 /\ torn' = FALSE

\* The writer's first round, before any notification, finds nothing to do: it
\* starts with retry_at = 0, which waits for ever.
Init ==
  /\ nvs \in Latch
  /\ desired = nvs /\ mirror = nvs /\ writing = nvs
  /\ unseen = FALSE /\ job = "none" /\ setting = "exchange"
  /\ notified = FALSE /\ writer = "waiting" /\ timed = FALSE
  /\ failures = 0 /\ retryAt = "none"
  /\ tries = 0 /\ torn = FALSE

Client == Dispatch \/ Exchange \/ Bump \/ Notify
Writer == Wake \/ Load \/ Decide \/ Save
Next == Client \/ Writer \/ Elapse \/ Reboot

Spec == Init /\ [][Next]_vars

\* A dispatch that began ends, the writer's task gets its share (its priority
\* leaves it time, and nothing above it spins), and time passes.
Fairness == /\ WF_vars(Exchange \/ Bump \/ Notify)
            /\ WF_vars(Writer) /\ WF_vars(Elapse)
FairSpec == Spec /\ Fairness
===============================================================================
