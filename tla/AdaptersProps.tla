--------------------------- MODULE AdaptersProps ----------------------------
(* What a host may rely on when it talks to an adapter.                    *)
EXTENDS Adapters

AdapterSpec == AdapterInit /\ [][AdapterNext]_adapterVars

(* A command that reaches a parser undisturbed has its effect, the whole   *)
(* effect and no other, however it was cut into chunks, whoever spoke      *)
(* before and whatever the earlier commands were; and it leaves the parser *)
(* ready for the next one (slcan.c:239, gvret.c:115, realdash.c:118).      *)
(* While the rest of it is on its way nothing of it reaches the bus.       *)
CommandsExact ==
  /\ last # "none" /\ whole[last] /\ todo[last] = <<>>
       => did[last] = asked[last] /\ Clean(last)
  /\ \A ch \in Channels : whole[ch] /\ todo[ch] # <<>> =>
       \A i \in DOMAIN did[ch] : did[ch][i][1] # "send"

(* A frame as good as any for tx_msg to begin with.                        *)
FreshFrame == [id |-> <<>>, extd |-> FALSE, rtr |-> FALSE, dlc |-> 0, data |-> <<>>]

Harmless(calls) == \A i \in DOMAIN calls : calls[i][1] # "send"

SlExact(c) ==
  /\ SlParse(SlClean, FreshFrame, c.bytes).p = SlClean
  /\ SlParse(SlClean, FreshFrame, c.bytes).did = c.effect
  /\ \A k \in 1..(Len(c.bytes) - 1) :
       Harmless(SlParse(SlClean, FreshFrame, SubSeq(c.bytes, 1, k)).did)

GvExact(c) ==
  /\ GvParse(GvClean, FreshFrame, c.bytes).p = GvClean
  /\ GvParse(GvClean, FreshFrame, c.bytes).did = c.effect
  /\ \A k \in 1..(Len(c.bytes) - 1) :
       Harmless(GvParse(GvClean, FreshFrame, SubSeq(c.bytes, 1, k)).did)

(* A RealDash packet of a data or of a remote frame.                       *)
IsPacket(s) == \/ Len(s) >= 3 /\ s[1] = 66 /\ s[3] = 2
               \/ Len(s) = 3 /\ s[1] = 44 /\ s[3] = 3

RdExact(c) ==
  IsPacket(c.bytes) /\ c.effect = << <<"send", 0, <<c.bytes[2]>>, <<c.bytes[1]>> >> >>

(* The effect a command is said to have is the one it has when it comes    *)
(* whole, to a parser that has never heard another: that, with the parser  *)
(* clean again, and no frame for the bus from any beginning of it          *)
(* (slcan.c:239, gvret.c:115, realdash.c:118).  Whether it has that effect *)
(* in pieces and after others too is what CommandsExact says.              *)
CommandsDefined ==
  /\ \A c \in SlCommands \cup WsCommands : SlExact(c)
  /\ \A c \in GvCommands : GvExact(c)
  /\ \A c \in RdCommands : RdExact(c)

(* What SLCAN streams to a host can be sent back: whatever the commands    *)
(* before have left in the parser's statics and in tx_msg, the parser      *)
(* reads it as the frame that was received, time stamp or not              *)
(* (slcan.c:65, 153).  Data frames without data are left out: the parser   *)
(* cannot read them at all.                                                *)
Echoes(m) ==
  \A stamp \in {<<>>, <<"0", "1", "2", "1">>} :
    LET read == SlParse(sl, txMsg, SlEmit(m, stamp))
    IN  read.p = SlClean /\ read.did = << <<"send", 0, OnBus(m)>>, <<"reply", "ack">> >>

StreamReadsBack ==
  last # "none" /\ ToSlcan(last) /\ sl = SlClean =>
    \A ext, rtr \in BOOLEAN, size \in 1..2, b \in 0..1 :
      Echoes([id |-> [i \in 1..(IF ext THEN ExtIdLen ELSE StdIdLen) |-> (i + b) % 2],
              extd |-> ext, rtr |-> rtr, dlc |-> size,
              data |-> [i \in 1..2*size |-> (i * b) % 2]])
=============================================================================
