----------------------------- MODULE IsoTpService -----------------------------
(***************************************************************************)
(* What the ISO-TP transmitter promises its clients: one transfer at a     *)
(* time; a start is accepted only while none is running, and an accepted   *)
(* one ends with a result that stays until the next start.                 *)
(***************************************************************************)
VARIABLES
  running,   (* a transfer was accepted and its result is not yet out      *)
  outcome    (* the result of the last transfer, "idle" before the first   *)

Outcomes == {"success", "timeout", "overflow", "protocol-error", "send-error"}

Init == running = FALSE /\ outcome = "idle"

Accept == ~running /\ running' = TRUE /\ outcome' = "in-progress"

End == running /\ running' = FALSE /\ outcome' \in Outcomes

Next == Accept \/ End

Spec == Init /\ [][Next]_<<running, outcome>>
===============================================================================
