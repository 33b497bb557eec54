------------------------------ MODULE AutoPid ------------------------------
(* AutoPID (autopid.c): a task polls the car's parameters through the      *)
(* ELM327 interpreter, the HTTP server scans for the standard ones through *)
(* the same interpreter, and readers ask for the values.  The interpreter  *)
(* answers into one queue; its lock is all that keeps task and scan apart. *)
(*                                                                         *)
(* A parameter's value is the answer it was computed from.  all_pids->mutex*)
(* is never held while another lock is awaited, and is left out.           *)
EXTENDS ElmCommands, FiniteSetsExt, SequencesExt

CONSTANTS
  File,          (* auto_pid.json: [pids, std, stdEnabled, carEnabled, init, *)
                 (* protocol, polling]                                       *)
  CarData,       (* car_data.json: [pids, init]                             *)
  Answers,       (* ECUs that may answer a command, in their order          *)
  ScanProtocols, (* protocols a scan is asked for                           *)
  ScanRequests,  (* PID support requests of a scan                          *)
  MaxScans,      (* bound: scans asked for                                  *)
  QueueSize,     (* QUEUE_SIZE of autopidQueue                              *)
  Readers        (* tasks that call autopid_data_read                       *)

ASSUME AutoPidAssumption ==
  /\ QueueSize \in Nat \ {0} /\ ScanRequests \in Nat \ {0} /\ MaxScans \in Nat
  /\ Answers \subseteq Seq(Nat)
  /\ File.protocol \in CanProtocols /\ File.polling \subseteq BOOLEAN
  /\ \A i \in 1..Len(CarData.pids) : Len(CarData.pids[i].params) > 0

---------------------------------------------------------------------------
(* load_all_pids.  In the files the commands of an initialisation end with *)
(* semicolons; one that does not end is never sent.                        *)

At(what, arg, length) == [do |-> what, arg |-> arg, len |-> length, auto |-> FALSE, prio |-> 24]
Show(what, on) == [do |-> "show", what |-> what, arg |-> on]
SetHeader(protocol, header, prio) ==
  [At("sh", header, IF Extended(protocol) THEN 8 ELSE 3) EXCEPT !.prio = prio]

Sent(init) == IF init.ended THEN init.cmds ELSE Front(init.cmds)

CustomPids ==
  [i \in 1..Len(File.pids) |->
     [type |-> "CUSTOM", init |-> Sent(File.pids[i].init), cmd |-> <<File.pids[i].pid>>,
      params |-> <<File.pids[i].name>>]]

StandardPids ==
  [i \in 1..Len(File.std) |->
     [type |-> "STD", init |-> <<>>, cmd |-> <<"01", File.std[i].pid>>,
      params |-> <<File.std[i].name>>]]

(* Every standard PID writes the initialisation of all of them anew: the   *)
(* last one's receive header counts.                                       *)
StandardInit ==
  IF File.std = <<>> THEN <<>>
  ELSE <<At("sp", File.protocol, 1), SetHeader(File.protocol, Functional(File.protocol), 24),
         LET rx == Last(File.std).rx IN At("cra", rx, IF rx = Unset THEN 0 ELSE 3)>>

SpecificPids ==
  [i \in 1..Len(CarData.pids) |->
     [type |-> "SPECIFIC", init |-> Sent(CarData.pids[i].init), cmd |-> <<CarData.pids[i].pid>>,
      params |-> CarData.pids[i].params]]

Pids == CustomPids \o StandardPids \o SpecificPids
TypeInit == [CUSTOM |-> Sent(File.init), STD |-> StandardInit, SPECIFIC |-> Sent(CarData.init)]
Enabled == {type \in DOMAIN TypeInit :
              \/ type = "CUSTOM" /\ File.pids # <<>>
              \/ type = "STD" /\ File.stdEnabled
              \/ type = "SPECIFIC" /\ File.carEnabled}

(* autopid_values has one entry per PID, named after its first parameter.  *)
Entry(i) == Pids[i].params[1]
Params   == UNION {ToSet(Pids[i].params) : i \in 1..Len(Pids)}

(* The parameters of the enabled types, in the order they are polled.      *)
Polled ==
  LET items(pid) == [p \in 1..Len(pid.params) |->
                       [type |-> pid.type, init |-> pid.init, cmd |-> pid.cmd,
                        name |-> pid.params[p]]]
  IN  FoldLeft(LAMBDA sofar, pid : sofar \o items(pid), <<>>,
               SelectSeq(Pids, LAMBDA pid : pid.type \in Enabled))

---------------------------------------------------------------------------
VARIABLES
  pollingOn,  (* all_pids->autopid_polling is "enable"                     *)
  polling,    (* ~AUTOPID_POLLING_DISABLED_BIT                             *)
  awake,      (* DEV_AWAKE_BIT                                             *)
  task,       (* where autopid_task is                                     *)
  nth,        (* the polled parameter it works on                          *)
  todo,       (* commands of the initialisation still to be sent           *)
  prevType,   (* previous_pid_type                                         *)
  setup,      (* elm327_config                                             *)
  elmLock,    (* holder of elm327_mutex                                    *)
  queue,      (* autopidQueue                                              *)
  failed,     (* parameters whose last request failed                      *)
  connected,  (* ECU_CONNECTED_BIT                                         *)
  value,      (* parameter values, read under all_pids->mutex              *)
  reported,   (* autopid_values                                            *)
  wanted,     (* AUTOPID_REQUEST_BIT                                       *)
  scan,       (* where autopid_find_standard_pid is                        *)
  saved,      (* restore_cmd                                               *)
  asked,      (* PID support requests the scan has sent                    *)
  overtaken,  (* history: a scan got the lock after the settings it had    *)
              (* read were changed                                         *)
  scans,      (* bound: scans still to be asked for                        *)
  reader      (* where each reader is                                      *)

taskVars    == <<task, nth, todo, prevType>>
resultVars  == <<failed, connected, value, reported>>
scanVars    == <<scan, saved, asked, overtaken, scans>>
modeVars    == <<pollingOn, polling, awake>>
autoPidVars == <<modeVars, taskVars, setup, elmLock, queue, resultVars, wanted, scanVars, reader>>

NoAnswer == [cmd |-> <<>>, to |-> <<>>, rx |-> Unset, from |-> 0]
NoType   == "PID_MAX"

(* autopid_init sets both bits, whatever is configured.                    *)
AutoPidInit ==
  /\ pollingOn \in File.polling /\ polling = FALSE /\ awake = TRUE
  /\ task = "boot" /\ nth = 1 /\ todo = <<>> /\ prevType = NoType
  /\ setup = Default("6") /\ elmLock = "free" /\ queue = <<>>
  /\ failed = {} /\ connected = FALSE
  /\ value = [p \in Params |-> NoAnswer]
  /\ reported = [i \in 1..Len(Pids) |-> NoAnswer]
  /\ wanted = TRUE
  /\ scan = "idle" /\ saved = <<>> /\ asked = 0 /\ overtaken = FALSE /\ scans = MaxScans
  /\ reader = [r \in Readers |-> "idle"]

---------------------------------------------------------------------------
(* The interpreter answers into the queue; what a full one has no room for *)
(* is lost.  An answer nobody gave is an error.                            *)
Put(q, answer) == IF Len(q) < QueueSize THEN Append(q, answer) ELSE q

AnswerTo(cmd, c, ecus) == [cmd |-> cmd, to |-> Identifier(c), rx |-> c.rx, ecus |-> ecus]

(* parse_elm327_response: the lines one after the other, and as priority   *)
(* data the first line of the lowest header if several ECUs answered.  A   *)
(* standard parameter is taken from the priority data, any other from the  *)
(* beginning of all the data.                                              *)
Source(type, answer) ==
  IF type = "STD" THEN Min(ToSet(answer.ecus)) ELSE Head(answer.ecus)

Computed(type, answer) ==
  [cmd |-> answer.cmd, to |-> answer.to, rx |-> answer.rx, from |-> Source(type, answer)]

(* send_commands does not send what would change the form of the answers.  *)
KeptBack(cmd) == cmd.do = "show" /\ \/ cmd.what \in {"header", "space"} /\ ~cmd.arg
                                    \/ cmd.what = "echo" /\ cmd.arg
ObeyAll(c, cmds) == FoldLeft(LAMBDA sofar, cmd : Obey(sofar, cmd), c, cmds)

DefaultInit ==
  <<Show("echo", FALSE), Show("header", TRUE), Show("linefeed", FALSE),
    Show("space", TRUE), At("sp", "6", 1), At("st", 150, 2)>>

(* The task sends its first commands, without the lock.                    *)
Boot ==
  /\ task = "boot" /\ scan = "idle"
  /\ task' = "mqtt" /\ setup' = ObeyAll(setup, DefaultInit)
  /\ UNCHANGED <<modeVars, nth, todo, prevType, elmLock, queue, resultVars, wanted,
                 scanVars, reader>>

(* Only when the broker is connected, if there is to be one, does it set   *)
(* the polling bit as configured.                                          *)
StartLoop ==
  /\ task = "mqtt" /\ task' = "gate" /\ polling' = pollingOn
  /\ UNCHANGED <<pollingOn, awake, nth, todo, prevType, setup, elmLock, queue,
                 resultVars, wanted, scanVars, reader>>

(* It waits for the device to be awake, and for a request unless it polls. *)
PassGate ==
  /\ task = "gate" /\ awake /\ task' = "wait"
  /\ UNCHANGED <<modeVars, nth, todo, prevType, setup, elmLock, queue, resultVars,
                 wanted, scanVars, reader>>

PassRequest ==
  /\ task = "wait" /\ (polling \/ wanted) /\ task' = "lock"
  /\ UNCHANGED <<modeVars, nth, todo, prevType, setup, elmLock, queue, resultVars,
                 wanted, scanVars, reader>>

TakeElm ==
  /\ task = "lock" /\ elmLock = "free"
  /\ elmLock' = "task" /\ task' = "param" /\ nth' = 1
  /\ UNCHANGED <<modeVars, todo, prevType, setup, queue, resultVars, wanted,
                 scanVars, reader>>

(* A parameter whose timer has not expired is passed over.                 *)
NotDue ==
  /\ task = "param" /\ nth <= Len(Polled) /\ nth' = nth + 1
  /\ UNCHANGED <<modeVars, task, todo, prevType, setup, elmLock, queue, resultVars,
                 wanted, scanVars, reader>>

(* Mutant: the initialisation of a type is sent the first time only.       *)
IsDue_InitOnce ==
  /\ task = "param" /\ nth <= Len(Polled)
  /\ LET item == Polled[nth] IN
     /\ todo' = (IF prevType = NoType THEN TypeInit[item.type] ELSE <<>>)
                \o (IF item.type = "STD" THEN <<>> ELSE item.init)
     /\ prevType' = item.type
  /\ task' = "ask"
  /\ UNCHANGED <<modeVars, nth, setup, elmLock, queue, resultVars, wanted, scanVars,
                 reader>>

(* One that is due: the initialisation of its type when the type changes,  *)
(* its own if it is not a standard one, then its command.                  *)
IsDue ==
  /\ task = "param" /\ nth <= Len(Polled)
  /\ LET item == Polled[nth] IN
     /\ todo' = (IF item.type # prevType THEN TypeInit[item.type] ELSE <<>>)
                \o (IF item.type = "STD" THEN <<>> ELSE item.init)
     /\ prevType' = item.type
  /\ task' = "ask"
  /\ UNCHANGED <<modeVars, nth, setup, elmLock, queue, resultVars, wanted, scanVars,
                 reader>>

(* One command of an initialisation; its answer is taken from the queue.   *)
SendCommand ==
  /\ task = "ask" /\ todo # <<>> /\ todo' = Tail(todo)
  /\ IF KeptBack(Head(todo))
     THEN UNCHANGED <<setup, queue>>
     ELSE setup' = Obey(setup, Head(todo)) /\ queue' = <<>>
  /\ UNCHANGED <<modeVars, task, nth, prevType, elmLock, resultVars, wanted, scanVars,
                 reader>>

(* The command: the interpreter has answered before it returns.  An answer *)
(* is computed with unless it is an error; the result may be out of range  *)
(* and dropped.                                                            *)
Ask ==
  /\ task = "ask" /\ todo = <<>>
  /\ \E ecus \in Answers :
       LET item == Polled[nth]
           q    == Put(queue, AnswerTo(item.cmd, setup, ecus))
           got  == Head(q)
       IN  /\ queue' = Tail(q)
           /\ IF got.ecus = <<>>
              THEN failed' = failed \cup {item.name} /\ UNCHANGED <<connected, value>>
              ELSE /\ failed' = failed \ {item.name} /\ connected' = TRUE
                   /\ \/ value' = [value EXCEPT ![item.name] = Computed(item.type, got)]
                      \/ UNCHANGED value
  /\ task' = "param" /\ nth' = nth + 1
  /\ UNCHANGED <<modeVars, todo, prevType, setup, elmLock, reported, wanted, scanVars,
                 reader>>

GiveElm ==
  /\ task = "param" /\ nth > Len(Polled)
  /\ elmLock' = "free" /\ task' = "update"
  /\ UNCHANGED <<modeVars, nth, todo, prevType, setup, queue, resultVars, wanted,
                 scanVars, reader>>

(* autopid_update_values walks the polled parameters and the entries side  *)
(* by side and copies where the names agree.                               *)
Updated ==
  [i \in 1..Len(Pids) |->
     IF i <= Len(Polled) /\ Polled[i].name = Entry(i) THEN value[Entry(i)] ELSE reported[i]]

UpdateValues ==
  /\ task = "update" /\ task' = "clear" /\ reported' = Updated
  /\ UNCHANGED <<modeVars, nth, todo, prevType, setup, elmLock, queue, failed,
                 connected, value, wanted, scanVars, reader>>

(* Mutant: the request is done with as soon as something was polled.       *)
ClearRequest_WhenConnected ==
  /\ task = "clear" /\ task' = "check"
  /\ wanted' = (polling \/ ~connected) /\ wanted
  /\ UNCHANGED <<modeVars, nth, todo, prevType, setup, elmLock, queue, resultVars,
                 scanVars, reader>>

ClearRequest ==
  /\ task = "clear" /\ task' = "check"
  /\ wanted' = (polling /\ wanted)
  /\ UNCHANGED <<modeVars, nth, todo, prevType, setup, elmLock, queue, resultVars,
                 scanVars, reader>>

(* Every two seconds: is there a parameter that did not fail?  Those of    *)
(* disabled types count, and so does one that was never asked for.         *)
CheckEcu ==
  /\ task = "check" /\ task' = "gate"
  /\ \/ connected' = (failed # Params)
     \/ UNCHANGED connected
  /\ UNCHANGED <<modeVars, nth, todo, prevType, setup, elmLock, queue, failed,
                 value, reported, wanted, scanVars, reader>>

---------------------------------------------------------------------------
(* The scan.  It reads what it will restore before it has the lock.        *)

(* Protocol and identifier in use, and the address if there is one.        *)
Restoring(c) ==
  <<At("sp", c.protocol, 1), SetHeader(c.protocol, HeaderInUse(c), PrioInUse(c))>>
  \o (IF c.rx = Unset THEN <<>> ELSE <<At("cra", c.rx, 3)>>)

ScanRead ==
  /\ scan = "idle" /\ task # "boot" /\ scans > 0 /\ scans' = scans - 1
  /\ scan' = "lock" /\ saved' = Restoring(setup)
  /\ UNCHANGED <<modeVars, taskVars, setup, elmLock, queue, resultVars, wanted,
                 asked, overtaken, reader>>

(* With the lock it sets the protocol it was asked for; an unknown one     *)
(* ends the scan at once.                                                  *)
ScanConfig(protocol) ==
  <<Show("echo", FALSE), Show("header", TRUE), Show("linefeed", FALSE), Show("space", TRUE),
    At("st", 150, 2), At("sp", protocol, 1), SetHeader(protocol, Functional(protocol), 24),
    At("cra", Unset, 0)>>

ScanStart ==
  /\ scan = "lock" /\ elmLock = "free"
  /\ \E protocol \in ScanProtocols :
       IF protocol \in CanProtocols
       THEN /\ elmLock' = "scan" /\ scan' = "ask" /\ queue' = <<>>
            /\ setup' = ObeyAll(setup, ScanConfig(protocol))
            /\ overtaken' = (overtaken \/ saved # Restoring(setup))
            /\ UNCHANGED saved
       ELSE /\ scan' = "idle" /\ saved' = <<>>
            /\ UNCHANGED <<elmLock, setup, queue, overtaken>>
  /\ UNCHANGED <<modeVars, taskVars, resultVars, wanted, asked, scans, reader>>

(* Each answer is taken from the queue as it comes.                        *)
ScanAsk ==
  /\ scan = "ask" /\ asked < ScanRequests /\ asked' = asked + 1
  /\ \E ecus \in Answers : queue' = Tail(Put(queue, AnswerTo(<<"support">>, setup, ecus)))
  /\ UNCHANGED <<modeVars, taskVars, setup, elmLock, resultVars, wanted, scan,
                 saved, overtaken, scans, reader>>

(* Both ways out restore and unlock.                                       *)
ScanEnd ==
  /\ scan = "ask" /\ asked = ScanRequests
  /\ scan' = "idle" /\ saved' = <<>> /\ asked' = 0
  /\ setup' = ObeyAll(setup, saved) /\ queue' = <<>> /\ elmLock' = "free"
  /\ UNCHANGED <<modeVars, taskVars, resultVars, wanted, overtaken, scans, reader>>

---------------------------------------------------------------------------
(* Readers, the broker's request, and the device that falls asleep.        *)

ReadStart(r) ==
  /\ reader[r] = "idle"
  /\ reader' = [reader EXCEPT ![r] = IF polling THEN "copy" ELSE "wait"]
  /\ wanted' = (wanted \/ ~polling)
  /\ UNCHANGED <<modeVars, taskVars, setup, elmLock, queue, resultVars, scanVars>>

ReadWaited(r) ==
  /\ reader[r] = "wait" /\ ~wanted
  /\ reader' = [reader EXCEPT ![r] = "copy"]
  /\ UNCHANGED <<modeVars, taskVars, setup, elmLock, queue, resultVars, wanted,
                 scanVars>>

ReadCopy(r) ==
  /\ reader[r] = "copy"
  /\ reader' = [reader EXCEPT ![r] = "idle"]
  /\ UNCHANGED <<modeVars, taskVars, setup, elmLock, queue, resultVars, wanted,
                 scanVars>>

BrokerAsks ==
  /\ wanted' = TRUE
  /\ UNCHANGED <<modeVars, taskVars, setup, elmLock, queue, resultVars, scanVars,
                 reader>>

SleepOrWake ==
  /\ awake' = ~awake
  /\ UNCHANGED <<pollingOn, polling, taskVars, setup, elmLock, queue, resultVars,
                 wanted, scanVars, reader>>

TaskStep ==
  \/ Boot \/ StartLoop \/ PassGate \/ PassRequest \/ NotDue \/ IsDue \/ SendCommand \/ Ask
  \/ GiveElm \/ UpdateValues \/ ClearRequest \/ CheckEcu
ScanStep == ScanAsk \/ ScanEnd

AutoPidNext ==
  \/ TaskStep \/ TakeElm \/ ScanRead \/ ScanStart \/ ScanStep
  \/ \E r \in Readers : ReadStart(r) \/ ReadWaited(r) \/ ReadCopy(r)
  \/ BrokerAsks \/ SleepOrWake

(* The tasks run, and the broker connects; a task that waits for the       *)
(* interpreter gets it, scans being asked for by hand.                     *)
AutoPidFairness ==
  /\ WF_autoPidVars(TaskStep) /\ SF_autoPidVars(TakeElm) /\ WF_autoPidVars(ScanStep)
  /\ \A r \in Readers : WF_autoPidVars(ReadWaited(r))

-----------------------------------------------------------------------------
(* What a parameter is asked with when its initialisation is in force.     *)
OwnSetup(item) ==
  LET c == ObeyAll(Default("6"), TypeInit[item.type] \o item.init)
  IN  <<item.cmd, Identifier(c), c.rx>>

(* A value is computed from the answer to the parameter's own command, and *)
(* the command went where, and was listened to as, its initialisation says *)
(* - although parameters of several types and the scans of the HTTP task   *)
(* share the interpreter, its settings and its answer queue                *)
(* (autopid.c:1610, 1660, 790), as long as no scan restores settings that  *)
(* were changed after it read them.                                        *)
ValuesAreOwn ==
  \A i \in 1..Len(Polled) :
    LET v == value[Polled[i].name]
    IN  v = NoAnswer \/ overtaken \/ <<v.cmd, v.to, v.rx>> = OwnSetup(Polled[i])

(* ValuesAreOwn needs initialisations that fit together: a command counts  *)
(* on those that were sent before its own.  InForce: from settings c, each *)
(* parameter of a type reaches its own ECU.                                *)
OwnInit(item) == IF item.type = "STD" THEN <<>> ELSE item.init

InForce(c, type) ==
  \A i \in 1..Len(Polled) :
    Polled[i].type = type =>
      LET d == ObeyAll(c, OwnInit(Polled[i]))
      IN  <<Polled[i].cmd, Identifier(d), d.rx>> = OwnSetup(Polled[i])

(* What a scan brings back of settings c.                                  *)
Restored(c) ==
  [Default(c.protocol) EXCEPT !.header = HeaderInUse(c), !.rx = c.rx,
                              !.prio = IF Extended(c.protocol) THEN PrioInUse(c) ELSE @]

(* The initialisation of a type puts it in force whatever was set before,  *)
(* those of its parameters keep it in force, and what a scan brings back   *)
(* is as good as what it found.                                            *)
InitsFit(settings) ==
  \A c \in settings, i \in 1..Len(Polled) :
    LET item == Polled[i]
    IN  /\ InForce(ObeyAll(c, TypeInit[item.type]), item.type)
        /\ InForce(c, item.type) => InForce(ObeyAll(c, OwnInit(item)), item.type)
        /\ InForce(c, item.type) <=> InForce(Restored(c), item.type)

(* Settings and commands that take in all there can be, and a parameter of *)
(* its own for each name that is polled.                                   *)
AllFields(c) ==
  c = [header |-> c.header, prio |-> c.prio, rx |-> c.rx, protocol |-> c.protocol,
       timeout |-> c.timeout, fcMode |-> c.fcMode, fcHeader |-> c.fcHeader,
       fcData |-> c.fcData, shows |-> c.shows]

Occur(settings, said) ==
  /\ Default("6") \in settings
  /\ \A c \in settings : AllFields(c) /\ \A cmd \in said : Obey(c, cmd) \in settings
  /\ DefaultInit \in Seq(said) /\ \A c \in settings : Restoring(c) \in Seq(said)
  /\ \A p \in ScanProtocols \cap CanProtocols : ScanConfig(p) \in Seq(said)
  /\ \A i \in 1..Len(Polled) :
       /\ Polled[i].type \in DOMAIN TypeInit /\ TypeInit[Polled[i].type] \in Seq(said)
       /\ OwnInit(Polled[i]) \in Seq(said) /\ Polled[i].name \in Params
       /\ \A j \in 1..Len(Polled) : Polled[j].name = Polled[i].name => j = i

AutoPidSpec == AutoPidInit /\ [][AutoPidNext]_autoPidVars

(* Without polling, a request for data is served while the device is awake *)
(* (autopid.c:1582, 1801): whoever waits for the bit to clear holds up the *)
(* HTTP server or the webhooks.                                            *)
RequestServed == (wanted /\ ~pollingOn) ~> (~wanted \/ ~awake)
=============================================================================
