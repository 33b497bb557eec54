----------------------------- MODULE SleepState ------------------------------
(***************************************************************************)
(* The sleep state of adc_task (sleep_mode.c): what the samples of the     *)
(* battery voltage make of it.  One turn of the loop is the unit of time;  *)
(* what the task does to the radio in each state is in Power.              *)
(***************************************************************************)
EXTENDS Naturals

CONSTANTS
  SleepVolt,   (* sleep_voltage; a sample is 0 .. SleepVolt + 1            *)
  SleepTime    (* sleep_time in turns (180 in the code)                    *)

ASSUME SleepAssumption == SleepVolt \in Nat \ {0} /\ SleepTime \in Nat

VARIABLES
  delay,       (* the task is between two turns                            *)
  volt,        (* the last sample, in voltage_queue                        *)
  sleepState,  (* sleep_state                                              *)
  waited,      (* turns since sleep_detect_time                            *)
  calm         (* history: turns before the last without a high sample     *)

sleepVars == <<delay, volt, sleepState, waited, calm>>

Volts == 0..(SleepVolt + 1)
Low(v) == v < SleepVolt
High(v) == v > SleepVolt

SleepInit == delay = FALSE /\ volt = SleepVolt + 1 /\ sleepState = "RUN" /\ waited = 0 /\ calm = 0

(* Mutant: a high sample does not end the detection.                       *)
NextState_Deaf(v) ==
  CASE sleepState = "RUN" -> IF Low(v) THEN "SLEEP_DETECTED" ELSE "RUN"
    [] sleepState = "SLEEP_DETECTED" -> IF waited + 1 > SleepTime THEN "SLEEP" ELSE sleepState
    [] sleepState = "SLEEP" -> IF High(v) THEN "WAKEUP" ELSE "SLEEP"
    [] sleepState = "WAKEUP" -> IF High(v) THEN "RUN" ELSE IF Low(v) THEN "SLEEP" ELSE "WAKEUP"

(* The switch.  In SLEEP_DETECTED a high sample goes back to RUN, but the  *)
(* test of the time follows all the same; from WAKEUP the device restarts, *)
(* 200 ms and therefore one turn after it got there.                       *)
NextState(v) ==
  CASE sleepState = "RUN" -> IF Low(v) THEN "SLEEP_DETECTED" ELSE "RUN"
    [] sleepState = "SLEEP_DETECTED" ->
         IF waited + 1 > SleepTime THEN "SLEEP" ELSE IF High(v) THEN "RUN" ELSE sleepState
    [] sleepState = "SLEEP" -> IF High(v) THEN "WAKEUP" ELSE "SLEEP"
    [] sleepState = "WAKEUP" -> IF High(v) THEN "RUN" ELSE IF Low(v) THEN "SLEEP" ELSE "WAKEUP"

(* The clock runs on while the voltage cannot be read.                     *)
TurnPasses ==
  /\ waited' = IF sleepState' = "SLEEP_DETECTED" /\ sleepState = sleepState'
                 THEN waited + 1 ELSE 0
  /\ calm' = IF High(volt) THEN 0 ELSE IF calm > SleepTime THEN calm ELSE calm + 1

TakeSample ==
  /\ ~delay /\ delay' = TRUE
  /\ \E v \in Volts : volt' = v /\ sleepState' = NextState(v) /\ TurnPasses

(* No valid reading: a second's delay, nothing else.                       *)
SampleFails ==
  /\ ~delay /\ delay' = TRUE
  /\ waited <= SleepTime
  /\ UNCHANGED <<volt, sleepState>> /\ TurnPasses

Delay == delay /\ delay' = FALSE /\ UNCHANGED <<volt, sleepState, waited, calm>>

SleepNext == TakeSample \/ SampleFails \/ Delay

SleepSpec == SleepInit /\ [][SleepNext]_sleepVars

-----------------------------------------------------------------------------
(* The device falls asleep only when a whole sleep time has passed without *)
(* a high sample before the last one (sleep_mode.c:370-394); the last one  *)
(* may be high.                                                            *)
SleepEarned ==
  [][sleepState = "SLEEP_DETECTED" /\ sleepState' = "SLEEP" => calm' > SleepTime]_sleepVars
=============================================================================
