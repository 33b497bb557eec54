------------------------------ MODULE MCDevice ------------------------------
(* The device around the CAN side, machines that do not meet: the mirrored *)
(* settings, the sleep state, Wi-Fi under sleep and BLE, the transmitter   *)
(* of the BLE server, the MQTT client.  Each behaviour is one of       *)
(* them; `part` says which, the others stay put.                           *)
EXTENDS PersistentSettingsProps, Power, SleepState, BleTx, MqttClient

VARIABLE part

deviceVars == <<part, vars, powerVars, sleepVars, bleVars, mqttVars>>

Setup(apAuto, withBle, nets, joins) ==
  [apAuto |-> apAuto, ble |-> withBle, nets |-> nets, joins |-> joins]
Setups == {Setup(TRUE, TRUE, 1, "never"), Setup(FALSE, TRUE, 1, "apart"),
           Setup(FALSE, FALSE, 2, "never")}

(* Two filters of one PID, one of another, one of any, and a second frame. *)
CanFilter(id, pid, cycle) == [id |-> id, pid |-> pid, cycle |-> cycle]
FourFilters ==
  <<CanFilter(1, 5, 1), CanFilter(1, 6, 2), CanFilter(2, -1, 1), CanFilter(1, -1, 2)>>
NoneOrFour == {<<>>, FourFilters}
Frame(type, id, pid) == [type |-> type, id |-> id, pid |-> pid]
SomeFrames == {Frame("CAN", 1, 5), Frame("CAN", 1, 6), Frame("CAN", 2, 5), Frame("TX", 1, 5)}
SomeArrays == {<<>>, <<"ok", "bad", "ok">>, <<"ok", "ok">>}

(* Neither awake nor asleep: nothing is enabled.                           *)
PowerOff ==
  /\ cfg = Setup(TRUE, TRUE, 1, "never")
  /\ asleep = "no" /\ adc = "off" /\ awake = TRUE
  /\ bits = FreshBits /\ listening = TRUE /\ radio = FreshRadio
  /\ events = <<>> /\ handler = NoEvent /\ succ = FALSE
  /\ conn = [FreshConn EXCEPT !.at = "off"] /\ deinit = NoDeinit /\ ble = FreshBle

(* The machines that stand still have one initial state.                   *)
DeviceInit ==
  /\ part \in {"settings", "power", "sleep", "ble", "mqtt"}
  /\ Init /\ (IF part = "power" THEN PowerInit ELSE PowerOff) /\ SleepInit /\ BleInit /\ MqttInit
  /\ part # "settings" => nvs = 0
  /\ part # "ble" => dataSize = 2
  /\ part # "mqtt" => filters = <<>>

DeviceNext ==
  \/ part = "settings" /\ Next /\ UNCHANGED <<part, powerVars, sleepVars, bleVars, mqttVars>>
  \/ part = "power" /\ PowerNext /\ UNCHANGED <<part, vars, sleepVars, bleVars, mqttVars>>
  \/ part = "sleep" /\ SleepNext /\ UNCHANGED <<part, vars, powerVars, bleVars, mqttVars>>
  \/ part = "ble" /\ BleNext /\ UNCHANGED <<part, vars, powerVars, sleepVars, mqttVars>>
  \/ part = "mqtt" /\ MqttNext /\ UNCHANGED <<part, vars, powerVars, sleepVars, bleVars>>

(* The fairness of a machine asks nothing of the behaviours of another:    *)
(* what it is about is not enabled there.                                  *)
DeviceFairness == Fairness /\ PowerFairness

DeviceSpec == DeviceInit /\ [][DeviceNext]_deviceVars /\ DeviceFairness
=============================================================================
