------------------------------ MODULE Adapters ------------------------------
(***************************************************************************)
(* can_tx_task of main.c and the byte-stream adapters it feeds: slcan.c,   *)
(* gvret.c and realdash.c.  Hosts on several channels send commands, the   *)
(* network cuts them into chunks anywhere, and each adapter keeps one      *)
(* parser for all channels and all clients.                                *)
(* An effect is a call the adapter makes: a frame for the bus, a call that *)
(* configures a bus, an answer.  SLCAN bytes are characters and digits,    *)
(* GVRET bytes and RealDash's tokens are numbers.                          *)
(***************************************************************************)
EXTENDS Integers, Sequences, SequencesExt

CONSTANTS
  StdIdLen,   (* nibbles of a standard identifier in SLCAN (3 in the code) *)
  ExtIdLen,   (* nibbles of an extended one (8)                            *)
  MaskLen,    (* nibbles of a mask or an acceptance code (8)               *)
  BusCount,   (* CAN_BUS_COUNT                                             *)
  Channels,   (* where hosts speak                                         *)
  MaxStrays,  (* bound: chunks out of place and commands abandoned         *)
  SlCommands, WsCommands, GvCommands, RdCommands  (* what hosts may send   *)

ASSUME AdapterAssumption ==
  /\ StdIdLen \in Nat \ {0} /\ ExtIdLen \in Nat \ {0} /\ MaskLen \in Nat \ {0}
  /\ StdIdLen < ExtIdLen /\ MaxStrays \in Nat /\ BusCount \in {1, 2} /\ Channels \subseteq {"wifi", "ws", "ble"}

ASSUME CommandAssumption ==
  /\ \A c \in SlCommands \cup WsCommands : c.bytes \in Seq(STRING)
  /\ \A c \in GvCommands \cup RdCommands : c.bytes \in Seq(Nat)

Protocols == {"SLCAN", "SAVVYCAN", "REALDASH"}

-----------------------------------------------------------------------------
(* SLCAN.  The parser: state, cmd, nibbles of mask or code (`msg`), and the *)
(* collector of slcan_set_frame (`col`, `got`) with its own static state.   *)

SlClean == [state |-> "HEADER", cmd |-> "none", msg |-> <<>>, col |-> "ID", got |-> <<>>]

(* tx_msg is not initialised: its flags are all clear or all set.           *)
NoFrames == {[id |-> <<>>, extd |-> set, rtr |-> set, dlc |-> 0, data |-> <<>>] : set \in BOOLEAN}

(* A remote frame carries no data, whatever its buffer holds.               *)
OnBus(m) == IF m.rtr THEN [m EXCEPT !.data = <<>>] ELSE m

Digits == <<"0", "1", "2", "3", "4", "5", "6", "7", "8">>
IsDigit(b) == b \in ToSet(Digits)
Digit(b) == (CHOOSE i \in DOMAIN Digits : Digits[i] = b) - 1

IsFrameCmd(cmd) == cmd \in {"t", "T", "r", "R"}
IsRemote(cmd) == cmd \in {"r", "R"}
IsExt(cmd) == cmd \in {"T", "R"}

(* Every adapter returns its parser, tx_msg and the effects so far.         *)
Res(p, msg, did) == [p |-> p, msg |-> msg, did |-> did]

Opens(silent, loop) ==
  << <<"silent", 0, silent>>, <<"loopback", 0, loop>>, <<"enable", 0>> >>

(* The first letter of a command; unknown ones are ignored.                 *)
SlHeader(r, b) ==
  LET at(state) == [r.p EXCEPT !.state = state, !.cmd = b]
      open(silent, loop) ==
        Res(at("END"), r.msg, r.did \o Opens(silent, loop))
  IN  CASE b = "O" -> open(FALSE, FALSE)
        [] b = "Y" -> open(FALSE, TRUE)
        [] b = "L" -> open(TRUE, FALSE)
        [] b = "C" -> Res(at("END"), r.msg, Append(r.did, <<"disable", 0>>))
        [] b \in {"V", "N", "F"} -> Res(at("END"), r.msg, r.did)
        [] b \in {"S", "s", "A", "D", "Z", "m", "M", "t", "T", "r", "R"} ->
             Res(at("BODY"), r.msg, r.did)
        [] OTHER -> r

(* slcan_set_frame.  An index that runs past its array is undefined from    *)
(* there on: the collector is "wild" and nothing is promised any more.      *)
Collect(r, b) ==
  LET len == IF IsExt(r.p.cmd) THEN ExtIdLen ELSE StdIdLen
      got == Append(r.p.got, IF IsDigit(b) THEN Digit(b) ELSE 0)
      end(p) == [p EXCEPT !.state = "END", !.col = "ID", !.got = <<>>]
      flags == [r.msg EXCEPT !.rtr = IsRemote(r.p.cmd), !.extd = IsExt(r.p.cmd)]
  IN  CASE r.p.col = "ID" /\ Len(got) = len ->
             Res([r.p EXCEPT !.col = "DLC", !.got = <<>>], [r.msg EXCEPT !.id = got], r.did)
        [] r.p.col = "ID" /\ Len(got) # len ->
             Res([r.p EXCEPT !.got = got,
                             !.col = IF Len(got) > ExtIdLen THEN "wild" ELSE "ID"],
                 r.msg, r.did)
        [] r.p.col = "DLC" ->
             IF IsRemote(r.p.cmd)
               THEN Res(end(r.p), [flags EXCEPT !.dlc = IF IsDigit(b) THEN Digit(b) ELSE 0], r.did)
               ELSE IF IsDigit(b) /\ b # "0"
               THEN Res([r.p EXCEPT !.col = "DATA"], [r.msg EXCEPT !.dlc = Digit(b)], r.did)
               ELSE Res([r.p EXCEPT !.col = "wild"], r.msg, r.did)
        [] r.p.col = "DATA" ->
             IF Len(got) = 2 * r.msg.dlc
               THEN Res(end(r.p), [flags EXCEPT !.data = got], r.did)
               ELSE Res([r.p EXCEPT !.got = got], r.msg, r.did)
        [] OTHER -> r

(* One character of a command's body.  SL_CUS_SPEED ("s") is missing in the *)
(* list of the first branch and so goes to the frame collector.             *)
SlBody(r, b) ==
  LET p == r.p
      msg == Append(p.msg, b)
      end == [p EXCEPT !.state = "END"]
      word(call) == IF Len(msg) = MaskLen
                      THEN Res([end EXCEPT !.msg = <<>>], r.msg, Append(r.did, <<call, 0, msg>>))
                      ELSE Res([p EXCEPT !.msg = msg], r.msg, r.did)
  IN  CASE p.cmd = "S" ->
             Res(end, r.msg, IF IsDigit(b) THEN Append(r.did, <<"bitrate", 0, b>>) ELSE r.did)
        [] p.cmd = "Z" ->
             Res(end, r.msg, IF b \in {"0", "1"} THEN Append(r.did, <<"stamp", 0, b>>) ELSE r.did)
        [] p.cmd \in {"A", "D"} -> Res(end, r.msg, r.did)
        [] p.cmd = "M" -> word("filter")
        [] p.cmd = "m" -> word("mask")
        [] OTHER -> Collect(r, b)

Reply(cmd) == CASE cmd = "N" -> "serial" [] cmd = "V" -> "version" [] cmd = "F" -> "status"
                [] OTHER -> "ack"

(* Up to the carriage return everything else is skipped.                    *)
SlEnd(r, b) ==
  IF b # "CR" THEN r
  ELSE Res([r.p EXCEPT !.state = "HEADER", !.cmd = "none", !.msg = <<>>], r.msg,
           r.did \o (IF IsFrameCmd(r.p.cmd) THEN << <<"send", 0, OnBus(r.msg)>> >> ELSE <<>>)
                 \o << <<"reply", Reply(r.p.cmd)>> >>)

SlByte(r, b) ==
  CASE r.p.state = "HEADER" -> SlHeader(r, b)
    [] r.p.state = "BODY" -> SlBody(r, b)
    [] OTHER -> SlEnd(r, b)

(* slcan_parse_str after more than 100 ms without a body byte.  Only its    *)
(* own statics are reset, not those of slcan_set_frame.                     *)
SlReset(p) == [p EXCEPT !.state = "HEADER", !.cmd = "none", !.msg = <<>>]

(* slcan_parse_frame: a received frame as the text that is streamed to the  *)
(* hosts; `stamp` is the time stamp, four digits or nothing.                *)
Text(nibbles) == [i \in DOMAIN nibbles |-> Digits[nibbles[i] + 1]]

Letter(m) == IF m.extd THEN (IF m.rtr THEN "R" ELSE "T") ELSE (IF m.rtr THEN "r" ELSE "t")

(* Mutant: the length counts nibbles.                                       *)
SlEmit_Nibbles(m, stamp) ==
  <<Letter(m)>> \o Text(m.id) \o Text(<<Len(m.data)>>) \o Text(m.data) \o stamp \o <<"CR">>

SlEmit(m, stamp) ==
  <<Letter(m)>> \o Text(m.id) \o Text(<<m.dlc>>) \o Text(m.data) \o stamp \o <<"CR">>

SlParse(p, msg, bytes) == FoldLeft(SlByte, Res(p, msg, <<>>), bytes)

(* A chunk has a body byte: SL_BODY is what notes the time.                 *)
SlNotesTime(p, msg, bytes) ==
  \E k \in 0..(Len(bytes) - 1) : SlParse(p, msg, SubSeq(bytes, 1, k)).p.state = "BODY"

-----------------------------------------------------------------------------
(* GVRET.  The parser: state, step and what the bytes so far have built;    *)
(* `pend` is the transmit buffer, which a time-sync answer stays in until   *)
(* the next byte.  What a finished command leaves in it is never read.      *)

GvClean == [state |-> "IDLE", step |-> 0, acc |-> <<>>, pend |-> <<>>]

(* Commands that are answered at once.                                      *)
AnsweredAtOnce == {2, 3, 6, 7, 9, 12, 13}
(* Commands whose body is one byte: SET_DIG_OUT, SET_SW_MODE, SET_SYSTYPE.  *)
OneByte == {4, 8, 10}

GvCommand(r, b) ==
  LET go(state) == Res([r.p EXCEPT !.state = state, !.step = 0, !.acc = <<>>], r.msg, r.did)
  IN  CASE b = 0 -> go("BUILD")
        [] b = 1 -> Res([r.p EXCEPT !.state = "SYNC", !.step = 0, !.pend = <<1>>], r.msg, r.did)
        [] b \in AnsweredAtOnce ->
             Res(GvClean, r.msg,
                 Append(r.did, <<"reply", Append(r.p.pend, b)>>))
        [] b \in OneByte -> go("ONE")
        [] b = 5 -> go("SETUP")
        [] b = 11 -> go("ECHO")
        [] b = 14 -> go("EXT")
        [] OTHER -> r

(* Mutant: a frame is remote if the one before it was.                      *)
GvBuild_KeepsRtr(r, b) ==
  LET p == [r.p EXCEPT !.step = @ + 1, !.acc = Append(@, b)]
      m == r.msg
      step == r.p.step
      msg == CASE step < 3 -> [m EXCEPT !.id = p.acc]
               [] step = 3 -> [m EXCEPT !.id = p.acc, !.extd = b >= 128]
               [] step = 5 -> [m EXCEPT !.dlc = IF b % 16 > 8 THEN 8 ELSE b % 16, !.data = <<>>]
               [] step > 5 /\ step < m.dlc + 6 -> [m EXCEPT !.data = Append(@, b)]
               [] OTHER -> m
      bus == p.acc[5] % 4
  IN  IF step < 6 \/ step < m.dlc + 6
        THEN Res(p, msg, r.did)
        ELSE Res(GvClean, m,
                 IF bus < BusCount THEN Append(r.did, <<"send", bus, OnBus(m)>>) ELSE r.did)

(* BUILD_CAN_FRAME: identifier (4), bus, length, data, checksum (ignored).  *)
GvBuild(r, b) ==
  LET p == [r.p EXCEPT !.step = @ + 1, !.acc = Append(@, b)]
      m == r.msg
      step == r.p.step
      msg == CASE step < 3 -> [m EXCEPT !.id = p.acc]
               [] step = 3 -> [m EXCEPT !.id = p.acc, !.extd = b >= 128]
               [] step = 5 -> [m EXCEPT !.dlc = IF b % 16 > 8 THEN 8 ELSE b % 16, !.data = <<>>]
               [] step > 5 /\ step < m.dlc + 6 -> [m EXCEPT !.data = Append(@, b)]
               [] OTHER -> m
      bus == p.acc[5] % 4
  IN  IF step < 6 \/ step < m.dlc + 6
        THEN Res(p, msg, r.did)
        ELSE Res(GvClean, [m EXCEPT !.rtr = FALSE],
                 IF bus < BusCount THEN Append(r.did, <<"send", bus, [m EXCEPT !.rtr = FALSE]>>)
                                   ELSE r.did)

(* gvret_setup_bus: the bus is off while it is configured.                  *)
SetupBus(bus, word) ==
  LET flags == word[4] \div 32          \* bits 31, 30, 29: extended, enable, listen only
      extended == flags >= 4
      on == IF extended THEN flags \in {6, 7} ELSE word # <<0, 0, 0, 0>>
  IN  << <<"disable", bus>>, <<"bitrate", bus, SubSeq(word, 1, 3)>>,
         <<"silent", bus, IF extended THEN flags \in {5, 7} ELSE "kept">> >>
      \o (IF on THEN << <<"enable", bus>> >> ELSE <<>>)

(* SETUP_CANBUS: the first bus is configured after four bytes, the second   *)
(* after eight.                                                             *)
GvSetup(r, b) ==
  LET p == [r.p EXCEPT !.step = @ + 1, !.acc = Append(@, b)]
      word == IF p.step < 4 THEN <<>> ELSE SubSeq(p.acc, p.step - 3, p.step)
  IN  CASE r.p.step = 3 -> Res(p, r.msg, r.did \o SetupBus(0, word))
        [] r.p.step = 7 -> Res(GvClean, r.msg,
                               r.did \o (IF BusCount > 1 THEN SetupBus(1, word) ELSE <<>>))
        [] OTHER -> Res(p, r.msg, r.did)

(* ECHO_CAN_FRAME is read to its end and not echoed; SETUP_EXT_BUSES has    *)
(* twelve bytes without effect.                                             *)
GvSkip(r, b) ==
  LET p == [r.p EXCEPT !.step = @ + 1, !.acc = Append(@, b)]
      len == IF p.acc[6] % 16 > 8 THEN 8 ELSE p.acc[6] % 16
      over == IF r.p.state = "EXT" THEN r.p.step = 11
                                   ELSE r.p.step >= 6 /\ r.p.step >= len + 6
  IN  Res(IF over THEN GvClean ELSE p, r.msg, r.did)

GvByte(r, b) ==
  CASE r.p.state = "IDLE" ->
         Res(IF b = 241 THEN [r.p EXCEPT !.state = "COMMAND"] ELSE r.p, r.msg, r.did)
    [] r.p.state = "COMMAND" -> GvCommand(r, b)
    [] r.p.state = "BUILD" -> GvBuild(r, b)
    [] r.p.state = "SYNC" -> Res(GvClean, r.msg,
                                 Append(r.did, <<"reply", r.p.pend>>))
    [] r.p.state = "ONE" -> Res(GvClean, r.msg, r.did)
    [] r.p.state = "SETUP" -> GvSetup(r, b)
    [] OTHER -> GvSkip(r, b)

GvParse(p, msg, bytes) == FoldLeft(GvByte, Res(p, msg, <<>>), bytes)

-----------------------------------------------------------------------------
(* RealDash has no parser state: a chunk is a packet or it is not.  A packet *)
(* is three numbers: 66 or 44, the identifier (1 an extended one), and 2 for *)
(* a right CRC or 3 for a right checksum.  The second kind must fill its     *)
(* chunk.  tx_msg is sent whatever the two functions say, and its extd is    *)
(* only ever set.                                                            *)
RdParse(p, msg, bytes) ==
  LET is66 == Len(bytes) >= 3 /\ bytes[1] = 66 /\ bytes[3] = 2
      is44 == Len(bytes) = 3 /\ bytes[1] = 44 /\ bytes[3] = 3
      sent == IF is66 \/ is44
                THEN [msg EXCEPT !.id = <<bytes[2]>>, !.dlc = 8, !.data = <<bytes[1]>>,
                                 !.extd = @ \/ bytes[2] = 1]
                ELSE [msg EXCEPT !.data = <<>>]
  IN  Res(p, sent, << <<"send", 0, sent.id, sent.data>> >>)

-----------------------------------------------------------------------------
VARIABLES
  protocol,   (* chosen at boot                                            *)
  wsUp,       (* config_server_ws_connected()                              *)
  quiet,      (* SLCAN: more than 100 ms since the last body byte          *)
  sl, gv,     (* the two parsers                                           *)
  txMsg,      (* tx_msg of can_tx_task, which keeps its storage            *)
  last,       (* history: the channel of the last chunk, or "none"         *)
  asked,      (* history: per channel, the effect its command should have  *)
  todo,       (* per channel: bytes of that command that have not come yet *)
  did,        (* history: the effects it has had so far                    *)
  strays,     (* bound: unexpected chunks and abandoned commands so far    *)
  whole       (* history: the parser was clean when the command began, and *)
              (* neither a reset nor another channel came between its bytes *)

adapterVars == <<protocol, wsUp, quiet, sl, gv, txMsg, last, asked, todo, did,
                 strays, whole>>

AdapterInit ==
  /\ protocol \in Protocols /\ wsUp = FALSE /\ quiet = TRUE
  /\ sl = SlClean /\ gv = GvClean /\ txMsg \in NoFrames
  /\ last = "none" /\ strays = 0
  /\ asked = [ch \in Channels |-> <<>>]
  /\ todo = [ch \in Channels |-> <<>>]
  /\ did = [ch \in Channels |-> <<>>]
  /\ whole = [ch \in Channels |-> TRUE]

(* Which adapters a channel's bytes go to.  A WebSocket speaks SLCAN under  *)
(* every protocol; GVRET and RealDash take the bytes of every channel.      *)
ToSlcan(ch) == IF ch = "ws" THEN wsUp ELSE protocol = "SLCAN"
ToGvret == protocol = "SAVVYCAN"
ToRealDash == protocol = "REALDASH"

(* What one turn of can_tx_task does with the bytes of a channel.  To GVRET *)
(* and RealDash the characters of a WebSocket are just bytes, none of them  *)
(* the start of a command.                                                  *)
Feed(ch, bytes) ==
  LET sl0 == IF quiet THEN SlReset(sl) ELSE sl
      r1 == IF ToSlcan(ch) THEN SlParse(sl0, txMsg, bytes) ELSE Res(sl, txMsg, <<>>)
      other(b) == IF ch = "ws" THEN [i \in DOMAIN bytes |-> b] ELSE bytes
      r2 == IF ToGvret THEN GvParse(gv, r1.msg, other(79))
            ELSE IF ToRealDash THEN RdParse(gv, r1.msg, other(79))
            ELSE Res(gv, r1.msg, <<>>)
  IN  [sl |-> r1.p, gv |-> r2.p, msg |-> r2.msg, did |-> r1.did \o r2.did,
       quiet |-> quiet /\ ~(ToSlcan(ch) /\ SlNotesTime(sl0, txMsg, bytes))]

Clean(ch) ==
  /\ ToSlcan(ch) => sl = SlClean
  /\ ToGvret => gv = GvClean

(* What a host on this channel may say.                                     *)
Sayable(ch) ==
  IF ch = "ws" THEN WsCommands
  ELSE IF protocol = "SLCAN" THEN SlCommands
  ELSE IF protocol = "SAVVYCAN" THEN GvCommands ELSE RdCommands

(* A chunk arrives: the beginning of a new command or more of the last one. *)
(* RealDash's packets must come whole.  A command that is over or disturbed *)
(* is forgotten.  Bound: one command at a time is in pieces, and only while  *)
(* it is undisturbed; after an undefined access nothing more is followed.    *)
Chunk(ch) ==
  LET fresh == todo[ch] = <<>>
      busy(o) == todo[o] # <<>>
  IN
  /\ ch = "ws" => wsUp
  /\ sl.col # "wild"
  /\ \E c \in IF fresh THEN Sayable(ch) ELSE {[bytes |-> todo[ch], effect |-> asked[ch]]} :
     \E k \in 1..Len(c.bytes) :
       LET e == Feed(ch, SubSeq(c.bytes, 1, k))
           ok == IF fresh THEN Clean(ch) /\ (ToRealDash => ch # "ws" /\ k = Len(c.bytes))
                          ELSE whole[ch] /\ ~(ToSlcan(ch) /\ quiet)
       IN  /\ k < Len(c.bytes) => ok /\ \A o \in Channels \ {ch} : ~busy(o)
           /\ strays' = IF ok THEN strays ELSE strays + 1
           /\ strays' <= MaxStrays
           /\ sl' = e.sl /\ gv' = e.gv /\ txMsg' = e.msg /\ quiet' = e.quiet
           /\ todo' = [todo EXCEPT ![ch] = SubSeq(c.bytes, k + 1, Len(c.bytes))]
           /\ asked' = [o \in Channels |-> IF o = ch /\ ok THEN c.effect ELSE <<>>]
           /\ did' = [o \in Channels |-> IF ~(o = ch /\ ok) THEN <<>>
                                          ELSE IF fresh THEN e.did ELSE did[ch] \o e.did]
           /\ whole' = [o \in Channels |-> IF o = ch THEN ok ELSE ~busy(o)]
  /\ last' = ch
  /\ UNCHANGED <<protocol, wsUp>>

TimePasses ==
  /\ ~quiet /\ quiet' = TRUE
  /\ UNCHANGED <<protocol, wsUp, sl, gv, txMsg, last, asked, todo, did, strays, whole>>

(* A WebSocket connects, or goes away with a command half sent.             *)
WsToggles ==
  /\ "ws" \in Channels
  /\ wsUp' = ~wsUp
  /\ todo' = [todo EXCEPT !["ws"] = <<>>]
  /\ did' = [did EXCEPT !["ws"] = <<>>]
  /\ asked' = [asked EXCEPT !["ws"] = <<>>]
  /\ whole' = [whole EXCEPT !["ws"] = TRUE]
  /\ last' = "none"
  /\ strays' = IF todo["ws"] = <<>> THEN strays ELSE strays + 1
  /\ strays' <= MaxStrays
  /\ UNCHANGED <<protocol, quiet, sl, gv, txMsg>>

AdapterNext == TimePasses \/ WsToggles \/ \E ch \in Channels : Chunk(ch)
=============================================================================
