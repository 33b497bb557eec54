----------------------------- MODULE MqttClient ------------------------------
(***************************************************************************)
(* mqtt.c: the task that turns the queued CAN frames into messages, with   *)
(* the CAN filters, and the handler of the messages from the broker.       *)
(***************************************************************************)
EXTENDS Integers, Sequences, FiniteSets, SequencesExt

CONSTANTS
  FilterSets,  (* the sequences of CAN filters looked at: records id, pid  *)
               (* (-1: any), cycle                                         *)
  RxEnabled,   (* config_server_mqtt_rx_en_config()                        *)
  Frames,      (* what is queued: records type, id, pid (the byte at PID   *)
               (* index)                                                   *)
  Arrays,      (* "frame" arrays of broker messages: sequences of "ok" and *)
               (* "bad" entries                                            *)
  Depth,       (* length of xmsg_mqtt_rx_queue (32 in the code)            *)
  BatchMax     (* frames that fit into one message                         *)

ASSUME MqttAssumption ==
  /\ RxEnabled \in BOOLEAN /\ Depth \in Nat \ {0} /\ BatchMax \in Nat \ {0}
  /\ \A fs \in FilterSets : \A i \in DOMAIN fs : fs[i].cycle \in Nat \ {0}
  /\ \A fs \in FilterSets : fs \in Seq(ToSet(fs))

VARIABLES
  filters,     (* mqtt_canflt_values                                       *)
  mqttQueue,   (* xmsg_mqtt_rx_queue                                       *)
  mqttUp,      (* MQTT_CONNECTED_BIT                                       *)
  age,         (* per filter, the time since logtime, up to its cycle      *)
  batch,       (* the message published last: topic and content            *)
  canTx        (* frames of the last broker message given to can_send      *)

mqttVars == <<filters, mqttQueue, mqttUp, age, batch, canTx>>

Nothing == [topic |-> "none", what |-> {}]

MqttInit ==
  /\ filters \in FilterSets
  /\ mqttQueue = <<>> /\ mqttUp = FALSE /\ age = [i \in DOMAIN filters |-> filters[i].cycle] /\ batch = Nothing /\ canTx = 0

(* can_rx_task while connected, log_can_to_mqtt whenever.  A full queue    *)
(* drops the frame.                                                        *)
FrameComes ==
  \E f \in Frames :
    /\ f.type = "CAN" => mqttUp
    /\ Len(mqttQueue) < Depth /\ mqttQueue' = Append(mqttQueue, f)
    /\ UNCHANGED <<filters, mqttUp, age, batch, canTx>>

BrokerComesOrGoes == mqttUp' = ~mqttUp /\ UNCHANGED <<filters, mqttQueue, age, batch, canTx>>

Ticks ==
  /\ age' = [i \in DOMAIN filters |-> IF age[i] < filters[i].cycle THEN age[i] + 1 ELSE age[i]]
  /\ UNCHANGED <<filters, mqttQueue, mqttUp, batch, canTx>>

Turn == mqttQueue # <<>>
Drop == mqttQueue' = Tail(mqttQueue)

(* Not connected: the frame is thrown away.                                *)
Discard ==
  /\ Turn /\ ~mqttUp /\ Drop
  /\ UNCHANGED <<filters, mqttUp, age, batch, canTx>>

Matches(i, f) == filters[i].id = f.id /\ filters[i].pid \in {-1, f.pid}
CycleOver(i) == age[i] = filters[i].cycle

(* Mutant: a filter that waits for another PID ends the search.            *)
FindNext_StopsAtPid(acc, i, f) ==
  IF ~acc.going \/ filters[i].id # f.id THEN acc
  ELSE IF ~Matches(i, f) \/ ~CycleOver(i) THEN [acc EXCEPT !.going = FALSE]
  ELSE [acc EXCEPT !.out = @ \cup {i}]

(* One turn of the loop over the filters of the frame's identifier: one    *)
(* whose cycle is not over ends it.                                        *)
FindNext(acc, i, f) ==
  IF ~acc.going \/ filters[i].id # f.id \/ ~Matches(i, f) THEN acc
  ELSE IF ~CycleOver(i) THEN [acc EXCEPT !.going = FALSE]
  ELSE [acc EXCEPT !.out = @ \cup {i}]

Served(f) ==
  FoldLeft(LAMBDA acc, i : FindNext(acc, i, f), [going |-> TRUE, out |-> {}],
           [i \in DOMAIN filters |-> i]).out

PublishFiltered ==
  /\ Turn /\ mqttUp /\ Head(mqttQueue).type = "CAN" /\ filters # <<>> /\ Drop
  /\ LET served == Served(Head(mqttQueue)) IN
       /\ age' = [i \in DOMAIN filters |-> IF i \in served THEN 0 ELSE age[i]]
       /\ batch' = IF served = {} THEN batch ELSE [topic |-> "rx", what |-> served]
  /\ UNCHANGED <<filters, mqttUp, canTx>>

(* Without filters all that is queued goes into one message, of whichever  *)
(* type; without filters and without rx the frame stays where it is.       *)
PublishBatch ==
  /\ Turn /\ mqttUp /\ Head(mqttQueue).type = "CAN" /\ filters = <<>> /\ RxEnabled
  /\ LET n == IF Len(mqttQueue) < BatchMax THEN Len(mqttQueue) ELSE BatchMax IN
       /\ mqttQueue' = SubSeq(mqttQueue, n + 1, Len(mqttQueue))
       /\ batch' = [topic |-> "rx", what |-> {mqttQueue[i].type : i \in 1..n}]
  /\ UNCHANGED <<filters, mqttUp, age, canTx>>

PublishObd ==
  /\ Turn /\ mqttUp /\ Head(mqttQueue).type # "CAN" /\ Drop
  /\ batch' = [topic |-> "elm327", what |-> {Head(mqttQueue).type}]
  /\ UNCHANGED <<filters, mqttUp, age, canTx>>

(* mqtt_parse_data: the frames before the first bad entry are sent.        *)
BrokerSends ==
  /\ mqttUp
  /\ \E array \in Arrays :
       canTx' = Cardinality({k \in DOMAIN array : \A j \in 1..k : array[j] = "ok"})
  /\ UNCHANGED <<filters, mqttQueue, mqttUp, age, batch>>

MqttNext ==
  FrameComes \/ BrokerComesOrGoes \/ Ticks \/ Discard \/ PublishFiltered \/ PublishBatch
    \/ PublishObd \/ BrokerSends
MqttSpec == MqttInit /\ [][MqttNext]_mqttVars

-----------------------------------------------------------------------------
Taken == PublishFiltered \/ PublishBatch \/ PublishObd \/ Discard

(* A frame that is taken off the queue while connected renews exactly the  *)
(* filters it matches up to the first that was published less than its     *)
(* cycle ago: a PID that is not the filter's, or another identifier, never *)
(* keeps a later filter from its value (mqtt.c:384-432).                   *)
FiltersServed ==
  [][LET f == Head(mqttQueue) IN
     PublishFiltered =>
       \A i \in DOMAIN filters :
         (age'[i] = 0 /\ age[i] > 0) =
            (Matches(i, f) /\ \A j \in 1..i : Matches(j, f) => CycleOver(j))]_mqttVars
=============================================================================
