------------------------------- MODULE Elm327 -------------------------------
(* The ELM327 interpreter: AT commands that change its configuration, and  *)
(* the request, which sends one frame and collects answers until enough    *)
(* of them came or none came for long enough (elm327.c).  The receive task *)
(* hands it frames only while it says it is ready.                         *)
(* Times are FreeRTOS ticks, one of them standing for many.                *)
EXTENDS ElmCommands, FiniteSets

CONSTANTS
  AtCommands,   (* AT commands the host sends                              *)
  Expected,     (* numbers of answers a request may announce; 0: none      *)
  Others,       (* senders with another identifier                         *)
  RxDepth,      (* xmsg_obd_rx_queue, and the driver's own queue           *)
  MaxAnswers    (* bound: frames a request's ECUs answer with              *)

ASSUME ElmAssumption ==
  /\ StdTimeout \in Nat \ {0} /\ RxDepth \in Nat \ {0} /\ MaxAnswers \in Nat
  /\ Expected \subseteq 0..9

---------------------------------------------------------------------------
VARIABLES
  chip,     (* elm327_config                                              *)
  rate,     (* bit rate of bus 0                                          *)
  at,       (* where elm327_request is                                    *)
  expect,   (* req_expected_rsp, 0 for 0xFF                               *)
  left,     (* xwait_time                                                 *)
  waited,   (* ticks the current xQueueReceive has waited                 *)
  elapsed,  (* ticks since txtime                                         *)
  count,    (* number_of_rsp                                              *)
  ready,    (* ELM327_READY_TO_RECEIVE_CAN                                *)
  driver,   (* frames in the driver's receive queue                       *)
  hand,     (* the frame can_rx_task works on                             *)
  rxq,      (* xmsg_obd_rx_queue                                          *)
  fc,       (* output: the flow control frame this step sends             *)
  answers   (* bound: answers the ECUs may still give to this request     *)

canRxVars == <<driver, hand>>
waitVars  == <<left, waited, elapsed, count>>
elmVars   == <<chip, rate, at, expect, waitVars, ready, canRxVars, rxq, fc, answers>>

Kinds  == {"single", "first", "next"}
Frames == [id : Ecus \cup Others, kind : Kinds]
NoFrame == [id |-> "none", kind |-> "none"]
NoFc    == [to |-> <<>>, data |-> <<>>]

ElmInit ==
  /\ chip = Default("6") /\ rate = 500
  /\ at = "idle" /\ expect = 0
  /\ left = 0 /\ waited = 0 /\ elapsed = 0 /\ count = 0
  /\ ready = FALSE /\ driver = <<>> /\ hand = NoFrame /\ rxq = <<>>
  /\ fc = NoFc /\ answers = 0

---------------------------------------------------------------------------
(* The host: a command, or a request.  One that cannot be sent (no CAN     *)
(* protocol, more than 7 bytes) is answered at once.                       *)

AtCommand ==
  /\ at = "idle"
  /\ \E cmd \in AtCommands : chip' = Obey(chip, cmd) /\ rate' = RateAfter(rate, chip, cmd)
  /\ fc' = NoFc
  /\ UNCHANGED <<at, expect, waitVars, ready, canRxVars, rxq, answers>>

Request ==
  /\ at = "idle" /\ chip.protocol \in CanProtocols
  /\ expect' \in Expected
  /\ at' = "drain" /\ fc' = NoFc
  /\ UNCHANGED <<chip, rate, waitVars, ready, canRxVars, rxq, answers>>

(* What the queue still holds is thrown away, then what the driver holds.  *)
Drain ==
  /\ at = "drain" /\ at' = "flush" /\ rxq' = <<>> /\ fc' = NoFc
  /\ UNCHANGED <<chip, rate, expect, waitVars, ready, canRxVars, answers>>

Flush ==
  /\ at = "flush" /\ at' = "send" /\ driver' = <<>> /\ fc' = NoFc
  /\ UNCHANGED <<chip, rate, expect, waitVars, ready, hand, rxq, answers>>

Send ==
  /\ at = "send" /\ at' = "arm" /\ answers' = MaxAnswers /\ fc' = NoFc
  /\ UNCHANGED <<chip, rate, expect, waitVars, ready, canRxVars, rxq>>

Arm ==
  /\ at = "arm" /\ at' = "wait" /\ ready' = TRUE
  /\ left' = chip.timeout /\ waited' = 0 /\ elapsed' = 0 /\ count' = 0
  /\ fc' = NoFc
  /\ UNCHANGED <<chip, rate, expect, canRxVars, rxq, answers>>

---------------------------------------------------------------------------
(* Waiting for answers.                                                    *)

Finish ==
  /\ at' = "idle" /\ ready' = FALSE /\ answers' = 0
  /\ left' = 0 /\ waited' = 0 /\ elapsed' = 0 /\ count' = 0

Enough == expect # 0 /\ count + 1 = expect

(* An answer: the whole time again, and a flow control for a first frame.  *)
TakeAnswer ==
  /\ at = "wait" /\ rxq # <<>> /\ Wanted(chip, Head(rxq))
  /\ rxq' = Tail(rxq)
  /\ fc' = IF Head(rxq).kind = "first" THEN FlowControl(chip, Head(rxq)) ELSE NoFc
  /\ IF Enough
     THEN Finish
     ELSE /\ left' = chip.timeout /\ waited' = 0
          /\ count' = IF expect = 0 THEN 1 ELSE count + 1
          /\ UNCHANGED <<at, ready, elapsed, answers>>
  /\ UNCHANGED <<chip, rate, expect, canRxVars>>

(* Mutant: a frame of somebody else, too, gives the whole time again.      *)
TakeOther_StartsAgain ==
  /\ at = "wait" /\ rxq # <<>> /\ ~Wanted(chip, Head(rxq))
  /\ rxq' = Tail(rxq)
  /\ left' = chip.timeout /\ waited' = 0
  /\ fc' = NoFc
  /\ UNCHANGED <<at, ready, answers, elapsed, count,
                 chip, rate, expect, canRxVars>>

(* A frame of somebody else: what is left is the timeout less the time     *)
(* since the request was sent, whatever was answered since; the difference *)
(* is unsigned, and one below zero ends the request.                       *)
TakeOther ==
  /\ at = "wait" /\ rxq # <<>> /\ ~Wanted(chip, Head(rxq))
  /\ rxq' = Tail(rxq)
  /\ IF elapsed > chip.timeout
     THEN Finish
     ELSE /\ left' = chip.timeout - elapsed /\ waited' = 0
          /\ UNCHANGED <<at, ready, answers, elapsed, count>>
  /\ fc' = NoFc
  /\ UNCHANGED <<chip, rate, expect, canRxVars>>

GiveUp ==
  /\ at = "wait" /\ rxq = <<>> /\ waited >= left
  /\ Finish /\ fc' = NoFc
  /\ UNCHANGED <<chip, rate, expect, canRxVars, rxq>>

(* Time passes; it is told apart up to the timeout.                        *)
Later(t) == IF t > chip.timeout THEN t ELSE t + 1
Tick ==
  /\ at = "wait" /\ (waited < left \/ elapsed <= chip.timeout)
  /\ waited' = IF waited < left THEN waited + 1 ELSE waited
  /\ elapsed' = Later(elapsed)
  /\ fc' = NoFc
  /\ UNCHANGED <<chip, rate, at, expect, left, count, ready, canRxVars, rxq, answers>>

---------------------------------------------------------------------------
(* The bus and the receive task: a full queue loses frames.                *)

Arrives ==
  /\ Len(driver) < RxDepth
  /\ \E f \in Frames :
       /\ driver' = Append(driver, f)
       /\ IF f.id \in Ecus THEN answers > 0 /\ answers' = answers - 1
                           ELSE f.kind = "single" /\ UNCHANGED answers
  /\ fc' = NoFc
  /\ UNCHANGED <<chip, rate, at, expect, waitVars, ready, hand, rxq>>

RxTake ==
  /\ hand = NoFrame /\ driver # <<>>
  /\ hand' = Head(driver) /\ driver' = Tail(driver) /\ fc' = NoFc
  /\ UNCHANGED <<chip, rate, at, expect, waitVars, ready, rxq, answers>>

RxHandOver ==
  /\ hand # NoFrame /\ hand' = NoFrame
  /\ rxq' = IF ready /\ Len(rxq) < RxDepth THEN Append(rxq, hand) ELSE rxq
  /\ fc' = NoFc
  /\ UNCHANGED <<chip, rate, at, expect, waitVars, ready, driver, answers>>

ElmNext ==
  \/ AtCommand \/ Request \/ Drain \/ Flush \/ Send \/ Arm
  \/ TakeAnswer \/ TakeOther \/ GiveUp \/ Tick
  \/ Arrives \/ RxTake \/ RxHandOver

(* The interpreter's task runs, and time passes while it waits.            *)
ElmFairness ==
  /\ WF_elmVars(Drain) /\ WF_elmVars(Flush) /\ WF_elmVars(Send) /\ WF_elmVars(Arm)
  /\ WF_elmVars(TakeAnswer) /\ WF_elmVars(TakeOther) /\ WF_elmVars(GiveUp)
  /\ WF_elmVars(Tick)

-----------------------------------------------------------------------------
(* A request ends, however busy the bus is with the frames of others, once *)
(* its own ECUs have stopped answering: whoever asked holds the            *)
(* interpreter's lock meanwhile (elm327.c:984, autopid.c:1588).            *)
RequestEnds == (at = "wait") ~> (at = "idle")
=============================================================================
