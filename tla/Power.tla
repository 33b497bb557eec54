-------------------------------- MODULE Power --------------------------------
(***************************************************************************)
(* Who is awake and who is reachable: what the ADC task of sleep_mode.c    *)
(* makes of its sleep state (SleepState has the state itself);             *)
(* wifi_network.c with its event handler and its connection task; and what *)
(* ble.c does to both.  The Wi-Fi driver and the BLE stack are modelled    *)
(* from how they are called.                                               *)
(***************************************************************************)
EXTENDS Naturals, Sequences

CONSTANTS
  Configs,     (* the configurations looked at                             *)
  MaxEvents    (* bound: the world waits while so many events are queued   *)

(* apAuto is ap_auto_disable, nets config_server_get_sta_network_count().  *)
(* joins is no setting: whether stations join and leave our access point   *)
(* never, "apart" (not while a phone connects over BLE) or "ever".         *)
Config == [apAuto : BOOLEAN, ble : BOOLEAN, nets : Nat \ {0},
           joins : {"never", "apart", "ever"}]

ASSUME PowerAssumption == Configs \subseteq Config /\ MaxEvents \in Nat \ {0}

VARIABLES
  cfg,       (* the configuration, read once                               *)
  asleep,    (* sleep_state: "no" (RUN, SLEEP_DETECTED), "yes", "waking"   *)
  adc,       (* place of the ADC task                                      *)
  awake,     (* DEV_AWAKE_BIT                                              *)
  bits,      (* s_wifi_event_group                                         *)
  listening, (* the event handler is registered                            *)
  radio,     (* the Wi-Fi driver: on, mode, link                           *)
  events,    (* the default event loop's queue                             *)
  handler,   (* the event being handled and WIFI_INIT_BIT as it was read   *)
  succ,      (* sta_successfuly_connected                                  *)
  conn,      (* wifi_conn_task: place, network, s_retry_num                *)
  deinit,    (* per task: its place in wifi_network_deinit                 *)
  ble        (* stack on, phone connected                                  *)

adcVars == <<asleep, adc, awake>>
wifiVars == <<bits, listening, radio, events, handler, succ, conn>>
powerVars == <<cfg, adcVars, wifiVars, deinit, ble>>

-----------------------------------------------------------------------------
(* app_main has come to its end: everything is started.                    *)

FreshBits == [init |-> TRUE, conn |-> FALSE, disc |-> TRUE, idle |-> TRUE]
FreshRadio == [on |-> TRUE, mode |-> "APSTA", link |-> "down"]
NoEvent == [ev |-> "none", init |-> FALSE]
FreshConn == [at |-> "gate", net |-> 0, retry |-> 0]
NoDeinit == [adc |-> "no", bt |-> "no"]
FreshBle == [on |-> cfg.ble, phone |-> FALSE]

PowerInit ==
  /\ cfg \in Configs
  /\ asleep = "no" /\ adc = "sample" /\ awake = TRUE
  /\ bits = FreshBits /\ listening = TRUE /\ radio = FreshRadio
  /\ events = <<"start">> /\ handler = NoEvent /\ succ = FALSE
  /\ conn = FreshConn /\ deinit = NoDeinit /\ ble = FreshBle

Restart ==
  /\ asleep' = "no" /\ adc' = "sample" /\ awake' = TRUE
  /\ bits' = FreshBits /\ listening' = TRUE /\ radio' = FreshRadio
  /\ events' = <<"start">> /\ handler' = NoEvent /\ succ' = FALSE
  /\ conn' = FreshConn /\ deinit' = NoDeinit /\ ble' = FreshBle /\ UNCHANGED cfg

-----------------------------------------------------------------------------
(* The driver: what a call makes of radio and of the events queued.        *)

Wifi(r, es) == [r |-> r, es |-> es]
Now == Wifi(radio, events)

(* esp_wifi_connect: without effect while the radio is off or busy.        *)
Connect(w) ==
  IF w.r.on /\ w.r.link = "down" THEN Wifi([w.r EXCEPT !.link = "trying"], w.es) ELSE w

Disconnect(w) ==
  IF w.r.link # "down" THEN Wifi([w.r EXCEPT !.link = "down"], Append(w.es, "disc")) ELSE w

Stop(w) ==
  LET d == Disconnect(w) IN Wifi([d.r EXCEPT !.on = FALSE], d.es)

Start(w, mode) ==
  Wifi([w.r EXCEPT !.on = TRUE, !.mode = mode], Append(w.es, "start"))

SetWifi(w) == radio' = w.r /\ events' = w.es

(* The light sleep stops every task.                                       *)
Running == adc # "light"
Calm == Running /\ Len(events) < MaxEvents

(* An attempt ends, a connection is lost.                                  *)
LinkUp ==
  /\ Calm /\ radio.link = "trying"
  /\ SetWifi(Wifi([radio EXCEPT !.link = "up"], Append(events, "ip")))
  /\ UNCHANGED <<cfg, adcVars, bits, listening, handler, succ, conn, deinit, ble>>

LinkDown ==
  /\ Calm /\ radio.link # "down"
  /\ SetWifi(Disconnect(Now))
  /\ UNCHANGED <<cfg, adcVars, bits, listening, handler, succ, conn, deinit, ble>>

(* A station joins our access point or leaves it.                          *)
StationComesOrGoes ==
  /\ cfg.joins # "never" /\ (cfg.joins = "apart" => deinit.bt = "no")
  /\ Calm /\ radio.on /\ radio.mode = "APSTA"
  /\ \E e \in {"join", "leave"} : events' = Append(events, e)
  /\ UNCHANGED <<cfg, adcVars, bits, listening, radio, handler, succ, conn,
                 deinit, ble>>

-----------------------------------------------------------------------------
(* wifi_network_event_handler.  The event loop's mutex is held while it    *)
(* runs.  WIFI_INIT_BIT is read first.                                     *)

TakeEvent ==
  /\ Running /\ events # <<>> /\ handler.ev = "none"
  /\ handler' = IF listening THEN [ev |-> Head(events), init |-> bits.init] ELSE handler
  /\ events' = Tail(events)
  /\ UNCHANGED <<cfg, adcVars, bits, listening, radio, succ, conn, deinit, ble>>

HandleStart ==
  /\ Running /\ handler.ev = "start"
  /\ handler' = NoEvent
  /\ IF handler.init THEN SetWifi(Connect(Now)) ELSE UNCHANGED <<radio, events>>
  /\ UNCHANGED <<cfg, adcVars, bits, listening, succ, conn, deinit, ble>>

(* Mutant: the fallback to the access point forgets that the last          *)
(* connection is over.                                                     *)
HandleDisconnected_KeepsSucc ==
  /\ Running /\ handler.ev = "disc"
  /\ handler' = NoEvent
  /\ bits' = [bits EXCEPT !.disc = TRUE, !.idle = TRUE, !.conn = FALSE]
  /\ IF radio.mode = "STA" /\ ~succ /\ cfg.apAuto /\ handler.init
       THEN SetWifi(Connect(Start(Stop(Now), "APSTA"))) ELSE UNCHANGED <<radio, events>>
  /\ UNCHANGED <<cfg, adcVars, listening, succ, conn, deinit, ble>>

HandleDisconnected ==
  /\ Running /\ handler.ev = "disc"
  /\ handler' = NoEvent
  /\ bits' = [bits EXCEPT !.disc = TRUE, !.idle = TRUE, !.conn = FALSE]
  /\ IF radio.mode = "STA" /\ ~succ /\ cfg.apAuto /\ handler.init
       THEN SetWifi(Connect(Start(Stop(Now), "APSTA"))) ELSE UNCHANGED <<radio, events>>
  /\ succ' = FALSE
  /\ UNCHANGED <<cfg, adcVars, listening, conn, deinit, ble>>

(* With ap_auto_disable the access point is given up on the first address. *)
HandleGotIp ==
  /\ Running /\ handler.ev = "ip"
  /\ handler' = NoEvent
  /\ bits' = [bits EXCEPT !.conn = TRUE, !.disc = FALSE, !.idle = TRUE]
  /\ IF radio.mode = "APSTA" /\ cfg.apAuto /\ handler.init
       THEN /\ SetWifi(Connect(Start(Stop(Now), "STA")))
            /\ succ' = TRUE /\ UNCHANGED conn
       ELSE /\ conn' = [conn EXCEPT !.retry = 0]
            /\ UNCHANGED <<radio, events, succ>>
  /\ UNCHANGED <<cfg, adcVars, listening, deinit, ble>>

(* ble_disable waits for the BLE task, which may be in wifi_network_deinit. *)
BleOff == deinit.bt = "no" /\ ble' = [ble EXCEPT !.on = FALSE, !.phone = FALSE]

HandleJoin ==
  /\ Running /\ handler.ev = "join"
  /\ handler' = NoEvent
  /\ IF cfg.ble THEN BleOff ELSE UNCHANGED ble
  /\ UNCHANGED <<cfg, adcVars, bits, listening, radio, events, succ, conn, deinit>>

HandleLeave ==
  /\ Running /\ handler.ev = "leave"
  /\ handler' = NoEvent
  /\ IF cfg.ble THEN ble' = [ble EXCEPT !.on = TRUE] ELSE UNCHANGED ble
  /\ UNCHANGED <<cfg, adcVars, bits, listening, radio, events, succ, conn, deinit>>

EventsDone == events = <<>> /\ handler.ev = "none"

Handle == HandleStart \/ HandleDisconnected \/ HandleGotIp \/ HandleJoin \/ HandleLeave

-----------------------------------------------------------------------------
(* wifi_network_deinit, in the ADC task or in the BLE task.                *)

DeinitWait(t) ==
  /\ Running /\ deinit[t] = "wait" /\ bits.idle
  /\ bits' = [bits EXCEPT !.init = FALSE]
  /\ deinit' = [deinit EXCEPT ![t] = "stop"]
  /\ UNCHANGED <<cfg, adcVars, listening, radio, events, handler, succ, conn, ble>>

DeinitStop(t) ==
  /\ Running /\ deinit[t] = "stop"
  /\ SetWifi(Stop(Now))
  /\ deinit' = [deinit EXCEPT ![t] = "unregister"]
  /\ UNCHANGED <<cfg, adcVars, bits, listening, handler, succ, conn, ble>>

(* esp_event_handler_unregister takes the event loop's mutex.              *)
DeinitUnregister(t) ==
  /\ Running /\ deinit[t] = "unregister" /\ handler.ev = "none"
  /\ listening' = FALSE
  /\ deinit' = [deinit EXCEPT ![t] = "no"]
  /\ UNCHANGED <<cfg, adcVars, bits, radio, events, handler, succ, conn, ble>>

-----------------------------------------------------------------------------
(* wifi_conn_task.                                                         *)

ConnMove(c) ==
  /\ Running /\ conn' = c
  /\ UNCHANGED <<cfg, adcVars, listening, handler, succ, deinit, ble>>

ConnGate ==
  /\ conn.at = "gate" /\ bits.init /\ bits.disc
  /\ ConnMove([conn EXCEPT !.at = "awake"])
  /\ UNCHANGED <<bits, radio, events>>

(* After two attempts the next network gets its turn.                      *)
ConnChoose ==
  /\ conn.at = "awake" /\ awake
  /\ ConnMove(IF cfg.nets > 1 /\ conn.retry >= 2
                THEN [at |-> "clear", net |-> (conn.net + 1) % cfg.nets, retry |-> 0]
                ELSE [conn EXCEPT !.at = "clear"])
  /\ UNCHANGED <<bits, radio, events>>

ConnConnect ==
  /\ conn.at = "clear"
  /\ bits' = [bits EXCEPT !.idle = FALSE]
  /\ SetWifi(Connect(Now))
  /\ ConnMove([conn EXCEPT !.at = "wait"])

ConnDone ==
  /\ conn.at = "wait" /\ bits.idle
  /\ ConnMove([conn EXCEPT !.at = "delay"])
  /\ UNCHANGED <<bits, radio, events>>

(* 15 s suffice for an attempt and for the events it brings: the time-out  *)
(* is for an attempt that brings none.                                     *)
NoAnswerComes ==
  /\ radio.link # "trying"
  /\ {events[i] : i \in DOMAIN events} \cup {handler.ev} \subseteq {"join", "leave", "none"}

(* Mutant: the time-out leaves the attempt marked as under way.            *)
ConnTimeout_StaysBusy ==
  /\ conn.at = "wait" /\ ~bits.idle
  /\ NoAnswerComes
  /\ SetWifi(Disconnect(Now))
  /\ bits' = [bits EXCEPT !.disc = TRUE]
  /\ ConnMove([conn EXCEPT !.at = "delay"])

ConnTimeout ==
  /\ conn.at = "wait" /\ ~bits.idle
  /\ NoAnswerComes
  /\ SetWifi(Disconnect(Now))
  /\ bits' = [bits EXCEPT !.disc = TRUE, !.idle = TRUE]
  /\ ConnMove([conn EXCEPT !.at = "delay"])

(* s_retry_num matters, and is counted, only with several networks, and is *)
(* then at most 3: its wrap-around at 6 is out of reach.                   *)
(* A second suffices for a task that waits for the idle bit to wake.       *)
ConnDelay ==
  /\ conn.at = "delay" /\ \A t \in DOMAIN deinit : deinit[t] # "wait"
  /\ ConnMove([conn EXCEPT !.at = "gate", !.retry = IF cfg.nets > 1 THEN @ + 1 ELSE 0])
  /\ UNCHANGED <<bits, radio, events>>

ConnTask ==
  ConnGate \/ ConnChoose \/ ConnConnect \/ ConnDone \/ ConnTimeout \/ ConnDelay

-----------------------------------------------------------------------------
(* The BLE task.  A phone that connects ends Wi-Fi; nothing restores it.   *)

PhoneConnects ==
  /\ Running /\ ble.on /\ ~ble.phone /\ deinit.bt = "no"
  /\ cfg.joins = "apart" => handler.ev # "join" /\ \A i \in DOMAIN events : events[i] # "join"
  /\ ble' = [ble EXCEPT !.phone = TRUE]
  /\ deinit' = [deinit EXCEPT !.bt = "wait"]
  /\ UNCHANGED <<cfg, adcVars, wifiVars>>

PhoneLeaves ==
  /\ Running /\ ble.phone /\ deinit.bt = "no"
  /\ ble' = [ble EXCEPT !.phone = FALSE]
  /\ UNCHANGED <<cfg, adcVars, wifiVars, deinit>>

-----------------------------------------------------------------------------
(* adc_task.  Which way the switch goes is up to the voltage: see          *)
(* SleepState.                                                             *)

(* Between two samples the event loop keeps up (a second awake, the eight  *)
(* readings of a sample asleep).                                           *)
Due == adc = "sample" /\ EventsDone

Goes(from, to) == Due /\ asleep = from /\ asleep' = to

(* Asleep: first of all Wi-Fi goes off.                                    *)
FallAsleep == adc' = "deinit" /\ deinit' = [deinit EXCEPT !.adc = "wait"]

(* Awake: a second of delay.                                               *)
Pause == adc' = "pause" /\ UNCHANGED <<awake, deinit>>

Sample ==
  /\ \/ Goes("no", "no") /\ Pause
     \/ Goes("no", "yes") /\ FallAsleep /\ UNCHANGED awake
     \/ Goes("yes", "yes") /\ FallAsleep /\ UNCHANGED awake
     \/ Goes("yes", "waking") /\ Pause
     \/ Goes("waking", "waking") /\ Pause
     \/ Goes("waking", "yes") /\ FallAsleep /\ awake' = FALSE
  /\ UNCHANGED <<cfg, wifiVars, ble>>

(* The car runs.                                                           *)
CarRuns == Due /\ asleep = "waking" /\ Restart

AdcMove(place) == adc' = place /\ UNCHANGED <<cfg, asleep, awake, listening, handler, succ, conn>>

(* The battery is low and the last alert old.  wifi_network_init: the      *)
(* driver may start before WIFI_INIT_BIT is set.                           *)
AlertStart ==
  /\ Due /\ asleep = "yes"
  /\ adc' = IF bits.init THEN "connecting" ELSE "alert bits"
  /\ IF bits.init THEN UNCHANGED <<listening, radio, events>>
                  ELSE listening' = TRUE /\ SetWifi(Start(Now, "APSTA"))
  /\ UNCHANGED <<cfg, asleep, awake, bits, handler, succ, conn, deinit, ble>>

AlertBits ==
  /\ adc = "alert bits" /\ AdcMove("connecting")
  /\ bits' = [bits EXCEPT !.init = TRUE, !.disc = TRUE, !.idle = TRUE]
  /\ UNCHANGED <<radio, events, deinit, ble>>

(* Connected within 11 s: publish, and the radio goes off.                 *)
AlertPublish ==
  /\ adc = "connecting" /\ bits.conn
  /\ AdcMove("published")
  /\ deinit' = [deinit EXCEPT !.adc = "wait"]
  /\ UNCHANGED <<bits, radio, events, ble>>

(* It goes off again, or now if there was no connection.                   *)
AlertOver ==
  /\ \/ adc = "connecting" /\ ~bits.conn
     \/ adc = "published" /\ deinit.adc = "no"
  /\ FallAsleep
  /\ UNCHANGED <<cfg, asleep, awake, wifiVars, ble>>

GoDark ==
  /\ adc = "deinit" /\ deinit.adc = "no"
  /\ BleOff /\ AdcMove("light")
  /\ UNCHANGED <<bits, radio, events, deinit>>

(* The second, or two seconds of light sleep, are over.                    *)
TimerWakes ==
  /\ adc \in {"pause", "light"} /\ AdcMove("sample")
  /\ UNCHANGED <<bits, radio, events, deinit, ble>>

AdcTask ==
  Sample \/ CarRuns \/ AlertStart \/ AlertBits \/ AlertPublish \/ AlertOver \/ GoDark \/ TimerWakes

-----------------------------------------------------------------------------
World == LinkUp \/ LinkDown \/ StationComesOrGoes \/ PhoneConnects \/ PhoneLeaves

Deinit == \E t \in {"adc", "bt"} : DeinitWait(t) \/ DeinitStop(t) \/ DeinitUnregister(t)

PowerNext == World \/ TakeEvent \/ Handle \/ ConnTask \/ Deinit \/ AdcTask

-----------------------------------------------------------------------------
(* The tasks are scheduled, an attempt of the driver ends, and the event   *)
(* loop's mutex goes to a task that keeps waiting for it.                  *)
PowerFairness ==
  /\ WF_powerVars(AdcTask) /\ WF_powerVars(ConnTask)
  /\ WF_powerVars(TakeEvent) /\ WF_powerVars(Handle)
  /\ SF_powerVars(radio.link = "trying" /\ (LinkUp \/ LinkDown))
  /\ \A t \in {"adc", "bt"} :
       /\ WF_powerVars(DeinitWait(t)) /\ WF_powerVars(DeinitStop(t))
       /\ SF_powerVars(DeinitUnregister(t))

PowerSpec == PowerInit /\ [][PowerNext]_powerVars /\ PowerFairness

-----------------------------------------------------------------------------
(* A device that stays asleep and has no alert to send goes dark: no end   *)
(* of Wi-Fi, by the sleep task or for a phone, waits for good for the      *)
(* attempt under way or for the event loop, and after a while every light  *)
(* sleep has Wi-Fi and BLE off, whatever event handler and connection task *)
(* were in the midst of (wifi_network.c:142-162, 280-292,                  *)
(* sleep_mode.c:474-486).                                                  *)
SleepsDark ==
  <>[](asleep = "yes" /\ adc \notin {"alert bits", "connecting", "published"})
    => /\ \A t \in {"adc", "bt"} : []<>(deinit[t] = "no")
       /\ <>[](adc = "light" => ~radio.on /\ ~ble.on)

(* A device that gave up its access point gets a connection or opens it    *)
(* again, and while it is not connected every configured network is tried  *)
(* (wifi_network.c:77-89, 225-300), unless Wi-Fi was ended by the sleep or *)
(* by a phone over BLE.                                                    *)
Reachable ==
  /\ radio.mode = "STA" /\ radio.link # "up" ~>
       radio.mode = "APSTA" \/ radio.link = "up" \/ ~bits.init
  /\ <>[](bits.init /\ awake /\ ~bits.conn) =>
       []<>(conn.net = 0) /\ []<>(conn.net = cfg.nets - 1)
=============================================================================
