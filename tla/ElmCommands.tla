---------------------------- MODULE ElmCommands ----------------------------
(* The AT commands of the ELM327 interpreter (elm327.c): what each of them *)
(* makes of the configuration, and what a request makes of it.  A command  *)
(* is a record: what it does, its argument, and the length of the argument *)
(* where that decides whether it is accepted.                              *)
EXTENDS Integers, Sequences

CONSTANTS
  StdTimeout,   (* req_timeout after a reset                               *)
  Ecus          (* senders with an identifier in the default answer range  *)

Unset == "unset"
CanProtocols == {"6", "7", "8", "9"}

---------------------------------------------------------------------------
(* The configuration, and what each command makes of it.                   *)

Default(protocol) ==
  [header |-> Unset, prio |-> 24, rx |-> Unset, protocol |-> protocol,
   timeout |-> StdTimeout, fcMode |-> 0, fcHeader |-> Unset, fcData |-> <<>>,
   shows |-> {"linefeed", "echo", "space"}]

(* An argument has a length in digits besides its value; a command that    *)
(* does not like it answers "?" and changes nothing.                       *)
Accepts(c, cmd) ==
  CASE cmd.do = "sh"   -> cmd.len \in {3, 6, 8}
    [] cmd.do = "cp"   -> cmd.len = 2
    [] cmd.do = "cra"  -> cmd.len \in {0, 3, 8}
    [] cmd.do = "fcsh" -> cmd.len \in {3, 8}
    [] cmd.do = "fcsd" -> Len(cmd.arg) \in 1..5
    [] cmd.do = "fcsm" -> /\ cmd.arg \in 0..2
                          /\ cmd.arg # 0 => c.fcData # <<>>
                          /\ cmd.arg = 1 => c.fcHeader # Unset
    [] cmd.do = "show" -> cmd.arg \in BOOLEAN
    [] cmd.do = "dp"   -> c.protocol \in {"0", "1", "2", "3", "4", "5"} \cup CanProtocols
    [] OTHER -> TRUE

(* "SP a x" chooses x, or 4 if x is no CAN protocol.                       *)
Chosen(cmd) == IF cmd.auto /\ cmd.arg \notin CanProtocols THEN "4" ELSE cmd.arg

Effect(c, cmd) ==
  CASE cmd.do = "sh"   -> [c EXCEPT !.header = cmd.arg,
                                    !.prio = IF cmd.len = 8 THEN cmd.prio ELSE @]
    [] cmd.do = "cp"   -> [c EXCEPT !.prio = cmd.arg]
    [] cmd.do = "cra"  -> [c EXCEPT !.rx = IF cmd.len = 0 THEN Unset ELSE cmd.arg]
    [] cmd.do = "fcsh" -> [c EXCEPT !.fcHeader = cmd.arg]
    [] cmd.do = "fcsd" -> [c EXCEPT !.fcData = cmd.arg]
    [] cmd.do = "fcsm" -> [c EXCEPT !.fcMode = cmd.arg]
    [] cmd.do = "show" -> [c EXCEPT !.shows = IF cmd.arg THEN @ \cup {cmd.what} ELSE @ \ {cmd.what}]
    [] cmd.do = "sp"   -> [c EXCEPT !.protocol = Chosen(cmd)]
    [] cmd.do = "st"   -> [c EXCEPT !.timeout = IF cmd.arg = 0 THEN StdTimeout ELSE cmd.arg]
    [] cmd.do \in {"d", "z"} -> Default(c.protocol)
    [] OTHER -> c

Obey(c, cmd) == IF Accepts(c, cmd) THEN Effect(c, cmd) ELSE c

(* A new CAN protocol closes and opens bus 0 with its bit rate.            *)
Rate(protocol) == IF protocol \in {"6", "7"} THEN 500 ELSE 250
RateAfter(rate, c, cmd) ==
  IF cmd.do = "sp" /\ Chosen(cmd) # c.protocol /\ Chosen(cmd) \in CanProtocols
  THEN Rate(Chosen(cmd)) ELSE rate

(* The identifier of a request: the header, or the one all ECUs listen to; *)
(* the priority counts in 29-bit protocols only.                           *)
Extended(protocol) == protocol \in {"7", "9"}
Functional(protocol) == IF Extended(protocol) THEN "DB33F1" ELSE "7DF"
HeaderInUse(c) == IF c.header = Unset THEN Functional(c.protocol) ELSE c.header
PrioInUse(c) == IF c.header = Unset THEN 24 ELSE c.prio
Identifier(c) ==
  IF Extended(c.protocol) THEN <<PrioInUse(c), HeaderInUse(c)>> ELSE <<HeaderInUse(c)>>

(* Which frames are answers.                                               *)
Wanted(c, f) == IF c.rx # Unset THEN f.id = c.rx ELSE f.id \in Ecus

(* Where the flow control of a first frame goes, and with what.            *)
FlowControl(c, f) ==
  [to |-> IF c.fcMode = 1 THEN c.fcHeader ELSE <<"physical", f.id>>,
   data |-> IF c.fcMode = 0 THEN <<48, 0, 10>> ELSE c.fcData]
=============================================================================
