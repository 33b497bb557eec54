----------------------------- MODULE MCAdapters -----------------------------
(* Hosts with a few commands of each protocol, written down with the       *)
(* effect their documentation gives them.                                  *)
EXTENDS AdaptersProps

Cmd(bytes, effect) == [bytes |-> bytes, effect |-> effect]
Frame(id, extd, rtr, dlc, data) ==
  [id |-> id, extd |-> extd, rtr |-> rtr, dlc |-> dlc, data |-> data]
Ack == <<"reply", "ack">>

Slcan == {
  Cmd(<<"L", "CR">>, Opens(TRUE, FALSE) \o <<Ack>>),
  Cmd(<<"S", "6", "CR">>, << <<"bitrate", 0, "6">>, Ack>>),
  Cmd(<<"m", "1", "0", "CR">>, << <<"mask", 0, <<"1", "0">> >>, Ack>>),
  Cmd(<<"t", "1", "1", "0", "1", "CR">>,
      << <<"send", 0, Frame(<<1>>, FALSE, FALSE, 1, <<0, 1>>)>>, Ack>>),
  Cmd(<<"T", "1", "0", "1", "1", "0", "CR">>,
      << <<"send", 0, Frame(<<1, 0>>, TRUE, FALSE, 1, <<1, 0>>)>>, Ack>>),
  Cmd(<<"r", "0", "1", "CR">>,
      << <<"send", 0, Frame(<<0>>, FALSE, TRUE, 1, <<>>)>>, Ack>>) }

(* A WebSocket speaks the same language.                                   *)
SlcanOnWs == {c \in Slcan : c.bytes[1] \in {"L", "t", "r"}}

Gvret == {
  Cmd(<<231>>, <<>>),
  Cmd(<<241, 9>>, << <<"reply", <<9>> >> >>),
  Cmd(<<241, 1, 0>>, << <<"reply", <<1>> >> >>),
  Cmd(<<241, 0, 1, 0, 0, 128, 1, 1, 241, 0>>,
      << <<"send", 1, Frame(<<1, 0, 0, 128>>, TRUE, FALSE, 1, <<241>>)>> >>),
  Cmd(<<241, 0, 2, 1, 0, 0, 0, 0, 0>>,
      << <<"send", 0, Frame(<<2, 1, 0, 0>>, FALSE, FALSE, 0, <<>>)>> >>),
  Cmd(<<241, 0, 2, 1, 0, 0, 3, 0, 0>>, <<>>),
  Cmd(<<241, 11, 0, 0, 0, 0, 0, 1, 241, 0>>, <<>>),
  Cmd(<<241, 5, 32, 161, 7, 224, 0, 0, 0, 0>>,
      << <<"disable", 0>>, <<"bitrate", 0, <<32, 161, 7>> >>, <<"silent", 0, TRUE>>,
         <<"enable", 0>>,
         <<"disable", 1>>, <<"bitrate", 1, <<0, 0, 0>> >>, <<"silent", 1, "kept">> >>) }

RealDash == {
  Cmd(<<66, 0, 2>>, << <<"send", 0, <<0>>, <<66>> >> >>),
  Cmd(<<44, 1, 3>>, << <<"send", 0, <<1>>, <<44>> >> >>) }

(* What is said of them here is what they do when they come whole and     *)
(* first of all.                                                           *)
ASSUME CommandsAreDefined == CommandsDefined
=============================================================================
