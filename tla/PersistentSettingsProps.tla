------------------------ MODULE PersistentSettingsProps ------------------------
(***************************************************************************)
(* Correctness properties of the mirrored setting.                         *)
(***************************************************************************)
EXTENDS PersistentSettings

\* Every variable stays in its type; the failure count stops at the budget.
TypeOK ==
  /\ desired \in Latch /\ writing \in Latch /\ mirror \in Latch /\ nvs \in Latch
  /\ unseen \in BOOLEAN /\ notified \in BOOLEAN /\ timed \in BOOLEAN /\ torn \in BOOLEAN
  /\ job \in {"none", "start", "stop", "renudge"}
  /\ setting \in {"exchange", "bump", "notify"}
  /\ writer \in {"waiting", "load", "decide", "save"}
  /\ failures \in 0 .. Budget
  /\ retryAt \in {"none", "future", "past"}
  /\ tries \in 0 .. Budget

\* No client is setting, and the writer waits with nothing to wake it.
Settled == Idle /\ writer = "waiting" /\ ~notified /\ ~timed
GaveUp  == failures > MaxRetries

\* No change of the latch is lost between its announcement and the writer: when
\* everything has settled the writer knows the latest value, or has given it up.
NoLostUpdate == Settled => ~unseen /\ (mirror = desired \/ GaveUp)

\* What the writer believes flash holds is what a restart would find there,
\* unless a save that reported failure had written all the same.
MirrorIsFlash == torn \/ mirror = nvs

\* A value is given up only after its own full budget of attempts, whatever
\* failures the value before it had used up.
FullBudget == Settled /\ GaveUp => tries = Budget

\* A changed latch reaches flash, or is given up, without another change.
EventuallySaved == (mirror # desired) ~> (mirror = desired \/ GaveUp)
===============================================================================
