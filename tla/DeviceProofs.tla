----------------------------- MODULE DeviceProofs -----------------------------
(***************************************************************************)
(* Theorems about the tasks around the CAN side: the mirrored setting, for *)
(* every retry budget and every set of dispatches; the sleep state, for    *)
(* every threshold; the transmitter of the BLE server, for every size of   *)
(* items and packets; the values AutoPID polls, for every configuration    *)
(* whose initialisations fit together; the expressions that compute them,  *)
(* for every set of operators and every length.  The machines do not meet. *)
(***************************************************************************)
EXTENDS PersistentSettingsProps, SleepState, BleTx, AutoPid, ExpressionProps,
        SequenceTheorems, FiniteSetTheorems, TLAPS

---------------------------------------------------------------------------
(* Type correctness.                                                       *)

\* The part that matters: a save is only attempted with budget left.
TypeInv == TypeOK /\ (writer = "save" => failures <= MaxRetries)
                  /\ (setting # "exchange" => ~Idle)

\* Every step of clients and writer keeps the types.
LEMMA TypeStep == ASSUME TypeInv, [Next]_vars PROVE TypeInv'
  <1>b. MaxRetries \in Nat /\ Budget = MaxRetries + 1
    BY RetryAssumption DEF Budget
  <1>z. 0 \in 0 .. Budget
    BY <1>b
  <1> USE DEF TypeInv, TypeOK, Idle
  <1>1. CASE Dispatch
    BY <1>1, DispatchAssumption DEF Dispatch, writerVars
  <1>2. CASE Exchange
    BY <1>2 DEF Exchange, Value, Rest, Latch, writerVars
  <1>3. CASE Bump
    BY <1>3, <1>b DEF Bump, writerVars
  <1>4. CASE Notify
    BY <1>4 DEF Notify, Rest, writerVars
  <1>5. CASE Wake
    BY <1>5 DEF Wake, clientVars
  <1>6. CASE Load
    <2>1. failures' \in 0 .. Budget
      BY <1>6, <1>z DEF Load
    <2>2. QED
      BY <1>6, <2>1 DEF Load
  <1>7. CASE Decide
    <2>1. failures <= MaxRetries \/ failures > MaxRetries
      BY <1>b
    <2>2. writer' = "save" => failures' <= MaxRetries /\ writing' \in Latch
      BY <1>7, <1>b, <2>1, SMT DEF Decide, Wait
    <2>3. writer' \in {"waiting", "save"} /\ timed' \in BOOLEAN /\ writing' \in Latch
      BY <1>7 DEF Decide, Wait
    <2>4. QED
      BY <1>7, <2>2, <2>3 DEF Decide, clientVars
  <1>8. CASE Save
    <2>1. failures \in 0 .. MaxRetries
      BY <1>8, <1>b DEF Save
    <2>2. tries' \in 0 .. Budget
      BY <1>8, <1>b DEF Save
    <2>3. CASE SaveOk
      <3>1. failures' \in 0 .. Budget
        BY <1>z, <2>3 DEF SaveOk
      <3>2. QED
        BY <1>8, <2>2, <2>3, <3>1 DEF Save, SaveOk, Wait, clientVars
    <2>4. CASE SaveFails
      <3>1. failures' \in 0 .. Budget
        BY <1>b, <2>1, <2>4 DEF SaveFails
      <3>2. retryAt' \in {"none", "future", "past"} /\ timed' \in BOOLEAN
            /\ torn' \in BOOLEAN /\ nvs' \in Latch /\ writer' = "waiting"
        BY <2>4 DEF SaveFails, Wait
      <3>3. QED
        BY <1>8, <2>2, <2>4, <3>1, <3>2 DEF Save, SaveFails, clientVars
    <2>5. QED
      BY <1>8, <2>3, <2>4 DEF Save
  <1>9. CASE Elapse
    BY <1>9 DEF Elapse, clientVars
  <1>10. CASE Reboot
    <2>1. nvs' \in Latch
      BY <1>10 DEF Reboot
    <2>2. QED
      BY <1>10, <1>z, <2>1 DEF Reboot
  <1>11. CASE UNCHANGED vars
    BY <1>11 DEF vars
  <1>12. QED
    BY <1>1, <1>2, <1>3, <1>4, <1>5, <1>6, <1>7, <1>8, <1>9, <1>10, <1>11
       DEF Next, Client, Writer

\* The variables of the mirrored setting keep their types, for every retry budget.
THEOREM SettingsTypeInvariant == Spec => []TypeInv
  <1>1. Init => TypeInv
    <2>1. 0 \in 0 .. Budget
      BY RetryAssumption DEF Budget
    <2>2. QED
      BY <2>1 DEF Init, TypeInv, TypeOK, Idle
  <1>2. QED
    BY <1>1, TypeStep, PTL DEF Spec

\* The failure count stops one past the retries: no save is attempted beyond it.
THEOREM SettingsTypeCorrect == Spec => []TypeOK
  <1>1. TypeInv => TypeOK
    BY DEF TypeInv
  <1>2. QED
    BY <1>1, SettingsTypeInvariant, PTL

---------------------------------------------------------------------------
(* No lost update.                                                         *)

\* The writer has been told, or is about to be.
Coming == setting \in {"bump", "notify"} \/ notified

\* A bumped generation is on its way to the writer's next look at it; and once the
\* writer has looked at the value, only a change that is on its way can make what
\* it waits with, or saves, differ from the latch.
UpdateInv ==
  /\ unseen => setting = "notify" \/ notified \/ writer = "load"
  /\ writer = "save" /\ writing # desired => Coming
  /\ writer = "waiting" /\ ~timed /\ mirror # desired => Coming \/ GaveUp

\* No step of clients or writer leaves an update that nobody will see.
LEMMA UpdateStep == ASSUME UpdateInv, [Next]_vars PROVE UpdateInv'
  <1> USE DEF UpdateInv, Coming, GaveUp
  <1>1. CASE Dispatch
    BY <1>1 DEF Dispatch, writerVars
  <1>2. CASE Exchange
    BY <1>2 DEF Exchange, writerVars
  <1>3. CASE Bump
    BY <1>3 DEF Bump, writerVars
  <1>4. CASE Notify
    BY <1>4 DEF Notify, writerVars
  <1>5. CASE Wake
    BY <1>5 DEF Wake, clientVars
  <1>6. CASE Load
    BY <1>6 DEF Load
  <1>7. CASE Decide
    BY <1>7 DEF Decide, Wait, clientVars
  <1>8. CASE Save
    BY <1>8 DEF Save, SaveOk, SaveFails, Wait, clientVars
  <1>9. CASE Elapse
    BY <1>9 DEF Elapse, clientVars
  <1>10. CASE Reboot
    BY <1>10 DEF Reboot
  <1>11. CASE UNCHANGED vars
    BY <1>11 DEF vars
  <1>12. QED
    BY <1>1, <1>2, <1>3, <1>4, <1>5, <1>6, <1>7, <1>8, <1>9, <1>10, <1>11
       DEF Next, Client, Writer

\* An update is on its way to the writer, known to it, or given up after a full
\* budget of attempts.
THEOREM UpdateInvariant == Spec => []UpdateInv
  <1>1. Init => UpdateInv
    BY DEF Init, UpdateInv, Coming
  <1>2. QED
    BY <1>1, UpdateStep, PTL DEF Spec

\* When client and writer have settled, the writer knows the latest value or has
\* given it up: no interleaving of a set with a save loses the set.
THEOREM UpdatesArriveCorrect == Spec => []NoLostUpdate
  <1>1. TypeInv /\ UpdateInv => NoLostUpdate
    BY DEF TypeInv, UpdateInv, NoLostUpdate, Settled, Coming, Idle
  <1>2. QED
    BY <1>1, SettingsTypeInvariant, UpdateInvariant, PTL

---------------------------------------------------------------------------
(* The mirror and the budget.                                              *)

\* What the writer believes flash holds is there, unless a failed save wrote.
THEOREM MirrorCorrect == Spec => []MirrorIsFlash
  <1>1. Init => MirrorIsFlash
    BY DEF Init, MirrorIsFlash
  <1>2. MirrorIsFlash /\ [Next]_vars => MirrorIsFlash'
    <2> SUFFICES ASSUME MirrorIsFlash, [Next]_vars PROVE MirrorIsFlash'
      OBVIOUS
    <2>1. CASE Save
      BY <2>1 DEF Save, SaveOk, SaveFails, MirrorIsFlash
    <2>2. CASE Reboot
      BY <2>2 DEF Reboot, MirrorIsFlash
    <2>3. CASE ~Save /\ ~Reboot
      <3>1. UNCHANGED <<mirror, nvs, torn>>
        BY <2>3 DEF Next, Client, Writer, Dispatch, Exchange, Bump, Notify, Wake, Load, Decide,
             Elapse, vars, writerVars
      <3>2. QED
        BY <3>1 DEF MirrorIsFlash
    <2>4. QED
      BY <2>1, <2>2, <2>3
  <1>3. QED
    BY <1>1, <1>2, PTL DEF Spec

\* Failures are counted no faster than attempts, except between the bump that
\* restarts the count of attempts and the look that restarts the other.
BudgetInv == unseen \/ failures <= tries

\* A value is given up only after a full budget of attempts of its own.
THEOREM FullBudgetCorrect == Spec => []FullBudget
  <1>1. Init => BudgetInv
    BY DEF Init, BudgetInv
  <1>2. TypeInv /\ BudgetInv /\ [Next]_vars => BudgetInv'
    <2> SUFFICES ASSUME TypeInv, BudgetInv, [Next]_vars PROVE BudgetInv'
      OBVIOUS
    <2>b. /\ MaxRetries \in Nat /\ Budget = MaxRetries + 1
          /\ failures \in 0 .. Budget /\ tries \in 0 .. Budget
      BY RetryAssumption DEF Budget, TypeInv, TypeOK
    <2>1. CASE Save
      <3>1. failures <= MaxRetries
        BY <2>1 DEF Save, TypeInv
      <3>2. /\ unseen' = unseen /\ failures' \in {0, failures + 1}
            /\ tries' = IF tries < Budget THEN tries + 1 ELSE tries
        BY <2>1 DEF Save, SaveOk, SaveFails, clientVars
      <3>3. failures <= tries => failures' <= tries'
        BY <2>b, <3>1, <3>2, SMT
      <3>4. QED
        BY <3>2, <3>3 DEF BudgetInv
    <2>2. CASE Load
      <3>1. failures' <= tries'
        BY <2>2, <2>b DEF Load, BudgetInv
      <3>2. QED
        BY <3>1 DEF BudgetInv
    <2>3. CASE Bump
      BY <2>3 DEF Bump, BudgetInv
    <2>4. CASE Reboot
      BY <2>4 DEF Reboot, BudgetInv
    <2>5. CASE ~Save /\ ~Load /\ ~Bump /\ ~Reboot
      <3>1. UNCHANGED <<unseen, failures, tries>>
        BY <2>5 DEF Next, Client, Writer, Dispatch, Exchange, Notify, Wake, Decide, Elapse,
           vars,
             clientVars, writerVars
      <3>2. QED
        BY <3>1 DEF BudgetInv
    <2>6. QED
      BY <2>1, <2>2, <2>3, <2>4, <2>5
  <1>3. TypeInv /\ UpdateInv /\ BudgetInv => FullBudget
    BY RetryAssumption
       DEF TypeInv, TypeOK, UpdateInv, BudgetInv, FullBudget, Settled, GaveUp, Idle, Budget
  <1>4. QED
    BY <1>1, <1>2, <1>3, SettingsTypeInvariant, UpdateInvariant, PTL DEF Spec

---------------------------------------------------------------------------
(* The sleep state.                                                        *)

SleepTypes == /\ volt \in Volts /\ waited \in Nat /\ calm \in Nat
              /\ sleepState \in {"RUN", "SLEEP_DETECTED", "SLEEP", "WAKEUP"}

\* While the detection runs the last sample was not high, and every turn it has
\* counted was calm.
DetectInv ==
  sleepState = "SLEEP_DETECTED" => ~High(volt) /\ (calm >= waited \/ calm > SleepTime)

SleepInv == SleepTypes /\ DetectInv

\* A turn of the task counts upwards.
LEMMA TurnTypes ==
  ASSUME SleepTypes, TurnPasses PROVE waited' \in Nat /\ calm' \in Nat
  BY DEF SleepTypes, TurnPasses

\* Every sample keeps the count of calm turns up with the detection.
LEMMA SleepStep == ASSUME SleepInv, [SleepNext]_sleepVars PROVE SleepInv'
  <1>0. SleepVolt \in Nat /\ SleepTime \in Nat /\ waited \in Nat /\ calm \in Nat
    BY SleepAssumption DEF SleepInv, SleepTypes
  <1>1. ASSUME NEW v \in Volts, volt' = v, sleepState' = NextState(v), TurnPasses
        PROVE  SleepInv'
    <2>1. SleepTypes'
      BY <1>1, TurnTypes DEF SleepInv, SleepTypes, NextState
    <2>2. ASSUME sleepState' = "SLEEP_DETECTED"
          PROVE  ~High(v) /\ (calm' >= waited' \/ calm' > SleepTime)
      <3>1. CASE sleepState = "RUN"
        <4>1. Low(v) /\ waited' = 0 /\ calm' \in Nat
          BY <1>1, <2>1, <2>2, <3>1 DEF NextState, TurnPasses, SleepTypes
        <4>2. QED
          BY <1>0, <1>1, <4>1, SMT DEF Low, High, Volts
      <3>2. CASE sleepState = "SLEEP_DETECTED"
        <4>1. ~High(v)
          BY <1>1, <2>2, <3>2 DEF NextState
        <4>2. ~High(volt) /\ (calm >= waited \/ calm > SleepTime) /\ waited' = waited + 1
          BY <1>1, <2>2, <3>2 DEF SleepInv, DetectInv, TurnPasses
        <4>3. calm' = IF calm > SleepTime THEN calm ELSE calm + 1
          BY <1>1, <4>2 DEF TurnPasses
        <4>4. QED
          BY <1>0, <4>1, <4>2, <4>3, SMT
      <3>3. CASE sleepState \in {"SLEEP", "WAKEUP"}
        BY <1>1, <2>2, <3>3 DEF NextState
      <3>4. QED
        BY <3>1, <3>2, <3>3 DEF SleepInv, SleepTypes
    <2>3. QED
      BY <1>1, <2>1, <2>2 DEF SleepInv, DetectInv
  <1>2. CASE SampleFails
    <2>1. SleepTypes'
      BY <1>2, TurnTypes DEF SleepInv, SleepTypes, SampleFails
    <2>2. ASSUME sleepState' = "SLEEP_DETECTED"
          PROVE  ~High(volt') /\ (calm' >= waited' \/ calm' > SleepTime)
      <3>1. /\ sleepState = "SLEEP_DETECTED" /\ volt' = volt /\ ~High(volt)
            /\ (calm >= waited \/ calm > SleepTime) /\ waited' = waited + 1
        BY <1>2, <2>2 DEF SampleFails, TurnPasses, SleepInv, DetectInv
      <3>2. calm' = IF calm > SleepTime THEN calm ELSE calm + 1
        BY <1>2, <3>1 DEF SampleFails, TurnPasses
      <3>3. QED
        BY <1>0, <3>1, <3>2, SMT
    <2>3. QED
      BY <2>1, <2>2 DEF SleepInv, DetectInv
  <1>3. CASE Delay \/ UNCHANGED sleepVars
    BY <1>3 DEF Delay, sleepVars, SleepInv, SleepTypes, DetectInv
  <1>4. QED
    BY <1>1, <1>2, <1>3 DEF SleepNext, TakeSample

\* The device falls asleep only when a whole sleep time has passed without a high
\* sample before the last one: readings that fail and the restart of the detection
\* shorten nothing (sleep_mode.c:370-394).
THEOREM SleepEarnedCorrect == SleepSpec => SleepEarned
  <1> DEFINE A == sleepState = "SLEEP_DETECTED" /\ sleepState' = "SLEEP" => calm' > SleepTime
  <1>1. SleepInit => SleepInv
    BY SleepAssumption DEF SleepInit, SleepInv, SleepTypes, DetectInv, Volts
  <1>2. SleepInv /\ [SleepNext]_sleepVars => SleepInv'
    BY SleepStep
  <1>3. SleepInv /\ [SleepNext]_sleepVars => [A]_sleepVars
    <2> SUFFICES ASSUME SleepInv, SleepNext, sleepState = "SLEEP_DETECTED", sleepState' = "SLEEP"
                 PROVE  calm' > SleepTime
      OBVIOUS
    <2>1. PICK v \in Volts : sleepState' = NextState(v) /\ TurnPasses
      BY DEF SleepNext, TakeSample, SampleFails, Delay
    <2>2. waited + 1 > SleepTime
      BY <2>1 DEF NextState
    <2>3. calm' = IF calm > SleepTime THEN calm ELSE calm + 1
      BY <2>1 DEF TurnPasses, SleepInv, DetectInv
    <2>4. QED
      BY <2>2, <2>3, SleepAssumption, SMT DEF SleepInv, SleepTypes, DetectInv
  <1>4. QED
    BY <1>1, <1>2, <1>3, PTL DEF SleepSpec, SleepEarned

---------------------------------------------------------------------------
(* The transmitter of the BLE server.                                      *)

BleTypes ==
  /\ items \in Seq(Seq(Nat)) /\ made \in Nat
  /\ sendBuf \in Seq(Nat) /\ taken \in Seq(Nat) /\ heard \in Seq(Nat)
  /\ free \in Nat /\ credits \in Nat /\ dataSize \in Nat \ {0} /\ link \in BOOLEAN

\* What was taken and not yet sent is in the buffer; nothing is there between two
\* passes, or counts for a phone that has gone.  A pass never has more packets left than
\* the stack takes.
BufferInv ==
  /\ Between => sendBuf = <<>>
  /\ link => taken = heard \o sendBuf
  /\ ~link => taken = <<>> /\ heard = <<>>
  /\ link => free <= credits

BleInv == BleTypes /\ BufferInv

\* The packets needed, rounded up, are no fewer than the full ones, and as many only
\* if every packet is full.
LEMMA RoundUp ==
  ASSUME NEW n \in Nat, NEW d \in Nat \ {0}
  PROVE  LET full == n \div d  up == (n + d - 1) \div d
         IN  /\ full \in Nat /\ full * d <= n /\ full <= up
             /\ up = full => full * d = n
  <1> DEFINE full == n \div d
  <1> DEFINE up == (n + d - 1) \div d
  <1>1. full \in Nat /\ full * d <= n /\ n < full * d + d
    BY Z3
  <1>2. up \in Nat /\ up * d <= n + d - 1 /\ n + d - 1 < up * d + d
    BY Z3
  <1> QED
    BY <1>1, <1>2, Z3

\* A buffer cut in two loses nothing.
LEMMA CutBuffer ==
  ASSUME NEW all \in Seq(Nat), NEW n \in Nat, n <= Len(all)
  PROVE  /\ SubSeq(all, 1, n) \in Seq(Nat) /\ SubSeq(all, n + 1, Len(all)) \in Seq(Nat)
         /\ SubSeq(all, 1, n) \o SubSeq(all, n + 1, Len(all)) = all
  <1>1. Len(all) \in Nat /\ \A i \in 1 .. Len(all) : all[i] \in Nat
    BY ElementOfSeq, LenProperties
  <1>2. SubSeq(all, 1, n) \in Seq(Nat)
    <2>1. \A i \in 1 .. n : all[i] \in Nat
      BY <1>1
    <2>2. QED
      BY <2>1, SubSeqProperties
  <1>3. SubSeq(all, n + 1, Len(all)) \in Seq(Nat)
    <2>1. \A i \in n + 1 .. Len(all) : all[i] \in Nat
      BY <1>1
    <2>2. n + 1 \in Int /\ Len(all) \in Int
      BY <1>1
    <2>3. QED
      BY <2>1, <2>2, SubSeqProperties
  <1>4. SubSeq(all, 1, n) \o SubSeq(all, n + 1, Len(all)) = SubSeq(all, 1, Len(all))
    <2>1. 1 \in 1 .. Len(all) + 1 /\ n \in 1 - 1 .. Len(all) /\ Len(all) \in n .. Len(all)
      BY <1>1
    <2>2. QED
      BY <2>1, ConcatAdjacentSubSeq
  <1>5. QED
    BY <1>2, <1>3, <1>4, SubSeqFull

\* Three pieces in a row: it does not matter which two are put together first.
LEMMA ThreePieces ==
  ASSUME NEW a \in Seq(Nat), NEW b \in Seq(Nat), NEW c \in Seq(Nat)
  PROVE  (a \o b) \o c = a \o (b \o c)
  BY ConcatAssociative

\* An item taken: what goes out and what stays are the buffer and the item, in order.
LEMMA TakeItemBuffer ==
  ASSUME BleInv, TakeItem
  PROVE  /\ sendBuf' \in Seq(Nat) /\ heard' \in Seq(Nat) /\ taken' \in Seq(Nat)
         /\ items' \in Seq(Seq(Nat)) /\ free' \in Nat /\ credits' \in Nat
         /\ BufferInv'
  <1> DEFINE item == Head(items)
  <1> DEFINE all == sendBuf \o item
  <1> DEFINE full == Len(all) \div dataSize
  <1> DEFINE sent == IF full < free THEN full ELSE free
  <1> DEFINE out == SubSeq(all, 1, sent * dataSize)
  <1> DEFINE rest == SubSeq(all, sent * dataSize + 1, Len(all))
  <1>1. /\ item \in Seq(Nat) /\ Tail(items) \in Seq(Seq(Nat))
        /\ sendBuf \in Seq(Nat) /\ heard \in Seq(Nat) /\ taken \in Seq(Nat)
        /\ free \in Nat /\ dataSize \in Nat \ {0} /\ link \in BOOLEAN
    BY HeadTailProperties DEF BleInv, BleTypes, TakeItem
  <1>2. all \in Seq(Nat) /\ Len(all) = Len(sendBuf) + Len(item) /\ Len(all) \in Nat
    BY <1>1, ConcatProperties, LenProperties
  <1>3. /\ full \in Nat /\ full * dataSize <= Len(all)
        /\ (full >= free => free = full /\ full * dataSize = Len(all))
    <2> DEFINE up == (Len(all) + dataSize - 1) \div dataSize
    <2>1. full \in Nat /\ full * dataSize <= Len(all) /\ full <= up
          /\ (up = full => full * dataSize = Len(all))
      BY <1>1, <1>2, RoundUp
    <2>2. up <= free
      BY <1>2 DEF TakeItem, Required
    <2>3. up \in Int
      BY <1>1, <1>2
    <2> HIDE DEF up, full, all
    <2>4. QED
      BY <1>1, <2>1, <2>2, <2>3, SMT
  <1>4. sent \in Nat /\ sent <= free /\ (sent = free => sent * dataSize = Len(all))
        /\ sent * dataSize \in Nat /\ sent * dataSize <= Len(all)
    <2> HIDE DEF full, all
    <2>1. sent = full
      BY <1>1, <1>3, SMT
    <2>2. sent \in Nat /\ sent <= free
      BY <1>1, <1>3, SMT
    <2>3. sent = free => full * dataSize = Len(all)
      BY <1>1, <1>3, <2>1, SMT
    <2> HIDE DEF sent
    <2>4. full * dataSize \in Nat
      BY <1>1, <1>3, SMT
    <2>5. QED
      BY <1>3, <2>1, <2>2, <2>3, <2>4
  <1>5. /\ heard' = IF link THEN heard \o out ELSE heard
        /\ sendBuf' = IF sent = free THEN <<>> ELSE rest
        /\ free' = free - sent /\ items' = Tail(items) /\ link' = link
        /\ taken' = IF link THEN taken \o item ELSE taken
        /\ credits' = IF link THEN credits - sent ELSE credits
    BY DEF TakeItem, Send
  <1> HIDE DEF full, sent
  <1>6. out \in Seq(Nat) /\ rest \in Seq(Nat) /\ out \o rest = all
    <2> HIDE DEF all
    <2>1. QED
      BY <1>2, <1>4, CutBuffer
  <1>7. sent = free => rest = <<>>
    <2>1. sent = free => Len(all) < sent * dataSize + 1
      BY <1>2, <1>4
    <2>2. sent * dataSize + 1 \in Int /\ Len(all) \in Int
      BY <1>2, <1>4
    <2> HIDE DEF all
    <2>3. QED
      BY <2>1, <2>2, SubSeqEmpty
  <1>8. sendBuf' = rest
    BY <1>5, <1>7
  <1>9. heard' \in Seq(Nat) /\ taken' \in Seq(Nat)
    BY <1>1, <1>5, <1>6, ConcatProperties
  <1>10. free' \in Nat /\ credits' \in Nat /\ (link => free' <= credits')
    BY <1>1, <1>4, <1>5 DEF BleInv, BleTypes, BufferInv
  <1>11. Between' => sendBuf' = <<>>
    <2>1. free' = 0 => sent = free
      BY <1>1, <1>4, <1>5, SMT
    <2>2. QED
      BY <1>5, <2>1 DEF Between
  <1>12. link => taken' = heard' \o sendBuf'
    <2> HAVE link
    <2>1. taken = heard \o sendBuf
      BY DEF BleInv, BufferInv
    <2>2. taken' = (heard \o sendBuf) \o item /\ heard' = heard \o out
      BY <1>5, <2>1
    <2> HIDE DEF item
    <2>3. (heard \o sendBuf) \o item = heard \o all
      BY <1>1, ThreePieces
    <2> HIDE DEF out, rest
    <2>4. (heard \o out) \o rest = heard \o (out \o rest)
      BY <1>1, <1>6, ThreePieces
    <2> HIDE DEF all
    <2>5. QED
      BY <1>6, <1>8, <2>2, <2>3, <2>4
  <1>13. QED
    BY <1>1, <1>5, <1>6, <1>8, <1>9, <1>10, <1>11, <1>12 DEF BufferInv, BleInv

\* Every step keeps the bytes handed in, packed and sent in order.
LEMMA BleStep == ASSUME BleInv, [BleNext]_bleVars PROVE BleInv'
  <1>0. /\ DataSizes \subseteq Nat \ {0} /\ ItemSizes \subseteq Nat \ {0} /\ Packets \in Nat
        /\ <<>> \in Seq(Nat)
    BY BleAssumption, EmptySeq
  <1>1. CASE Queue
    <2>1. PICK n \in ItemSizes :
            items' = Append(items, [i \in 1..n |-> made + i]) /\ made' = made + n
      BY <1>1 DEF Queue
    <2>2. n \in Nat /\ made \in Nat
      BY <1>0 DEF BleInv, BleTypes
    <2>3. [i \in 1..n |-> made + i] \in Seq(Nat)
      BY <2>2, SMT
    <2>4. items' \in Seq(Seq(Nat)) /\ made' \in Nat
      BY <2>1, <2>2, <2>3, AppendProperties DEF BleInv, BleTypes
    <2>5. QED
      BY <1>1, <2>4 DEF Queue, BleInv, BleTypes, BufferInv, Between
  <1>2. CASE Link
    BY <1>0, <1>2, ConcatEmptySeq DEF Link, BleInv, BleTypes, BufferInv, Between
  <1>3. CASE LinkLost
    BY <1>0, <1>3 DEF LinkLost, BleInv, BleTypes, BufferInv, Between
  <1>4. CASE PacketSent
    BY <1>4 DEF PacketSent, BleInv, BleTypes, BufferInv, Between
  <1>5. CASE Begin
    BY <1>5 DEF Begin, BleInv, BleTypes, BufferInv, Between
  <1>6. CASE TakeItem
    BY <1>6, TakeItemBuffer DEF TakeItem, BleInv, BleTypes
  <1>7. CASE EndPass
    <2>1. /\ items' = items /\ made' = made /\ dataSize' = dataSize /\ link' = link
          /\ taken' = taken /\ sendBuf' = <<>> /\ free' = 0
      BY <1>7 DEF EndPass
    <2>2. CASE sendBuf # <<>> /\ link
      <3>1. heard' = heard \o sendBuf /\ credits' = credits - 1 /\ free # 0
        BY <1>7, <2>2 DEF EndPass, Send, Between
      <3>2. heard' \in Seq(Nat) /\ heard' \o <<>> = heard'
        BY <3>1, ConcatProperties, ConcatEmptySeq DEF BleInv, BleTypes
      <3>3. QED
        BY <1>0, <2>1, <2>2, <3>1, <3>2 DEF BleInv, BleTypes, BufferInv, Between
    <2>3. CASE sendBuf = <<>> \/ ~link
      <3>1. heard' = heard /\ credits' = credits
        BY <1>7, <2>3 DEF EndPass, Send
      <3>2. BleTypes'
        BY <1>0, <2>1, <3>1 DEF BleInv, BleTypes
      <3>3. link => taken' = heard' \o sendBuf'
        BY <2>1, <2>3, <3>1 DEF BleInv, BufferInv
      <3>4. QED
        BY <2>1, <3>1, <3>2, <3>3 DEF BleInv, BleTypes, BufferInv
    <2>4. QED
      BY <2>2, <2>3
  <1>8. CASE UNCHANGED bleVars
    BY <1>8 DEF bleVars, BleInv, BleTypes, BufferInv, Between
  <1>9. QED
    BY <1>1, <1>2, <1>3, <1>4, <1>5, <1>6, <1>7, <1>8 DEF BleNext

\* What is taken from the queue reaches the phone, every byte once and in order, for
\* every packet size and however often a pass runs out of packets (ble.c:684-752).
THEOREM BytesReachPhoneCorrect == BleSpec => []BytesReachPhone
  <1>1. BleInit => BleInv
    <2> SUFFICES ASSUME BleInit PROVE BleInv
      OBVIOUS
    <2>1. <<>> \in Seq(Nat) /\ <<>> \in Seq(Seq(Nat)) /\ dataSize \in Nat \ {0}
      BY BleAssumption, EmptySeq DEF BleInit
    <2>2. QED
      BY <2>1 DEF BleInit, BleInv, BleTypes, BufferInv, Between
  <1>2. BleInv /\ [BleNext]_bleVars => BleInv'
    BY BleStep
  <1>3. BleInv => BytesReachPhone
    <2> SUFFICES ASSUME BleInv PROVE BytesReachPhone
      OBVIOUS
    <2>1. heard \in Seq(Nat) /\ sendBuf \in Seq(Nat) /\ Len(heard) \in Nat /\ Len(sendBuf) \in Nat
      BY LenProperties DEF BleInv, BleTypes
    <2>2. CASE link
      <3>1. taken = heard \o sendBuf
        BY <2>2 DEF BleInv, BufferInv
      <3>2. Len(taken) = Len(heard) + Len(sendBuf)
        BY <2>1, <3>1, ConcatProperties
      <3>3. SubSeq(taken, 1, Len(heard)) = heard
        BY <2>1, <3>1, SubSeqOfConcat1
      <3>4. SubSeq(heard, 1, Len(heard)) = heard
        BY <2>1, SubSeqFull
      <3>5. IsPrefix(heard, taken)
        BY <2>1, <3>2, <3>3, <3>4 DEF IsPrefix
      <3>6. Between => heard = taken /\ sendBuf = <<>>
        BY <2>1, <3>1, ConcatEmptySeq DEF BleInv, BufferInv
      <3>7. QED
        BY <3>5, <3>6 DEF BytesReachPhone
    <2>3. CASE ~link
      <3>1. heard = taken /\ (Between => sendBuf = <<>>)
        BY <2>3 DEF BleInv, BufferInv
      <3>2. QED
        BY <2>1, <3>1 DEF BytesReachPhone, IsPrefix
    <2>4. QED
      BY <2>2, <2>3 DEF BleInv, BleTypes
  <1>4. QED
    BY <1>1, <1>2, <1>3, PTL DEF BleSpec
-----------------------------------------------------------------------------
(* For the folds: induction over numbers, and the end of a range.           *)

(* A non-empty set of numbers has a least one.                             *)
LEMMA LeastNat ==
  ASSUME NEW T \in SUBSET Nat, T # {}
  PROVE  \E x \in T : \A y \in T : ~(y < x)
<1> DEFINE R == OpToRel(<, Nat)
<1>1. IsWellFoundedOn(R, Nat)
  BY NatLessThanWellFounded
<1>2. \E x \in T : \A y \in T : ~(<<y, x>> \in R)
  <2> HIDE DEF R
  <2> QED BY <1>1, WFMin
<1>3. \A x, y \in Nat : <<y, x>> \in R <=> y < x
  BY DEF OpToRel
<1>4. QED
  BY <1>2, <1>3

(* Induction, with a set in the place of a predicate.                       *)
LEMMA SetInduction ==
  ASSUME NEW T, 0 \in T, \A n \in Nat : n \in T => n + 1 \in T
  PROVE  \A n \in Nat : n \in T
<1> DEFINE U == {n \in Nat : n \notin T}
<1> SUFFICES ASSUME U # {} PROVE FALSE
  OBVIOUS
<1>1. PICK x \in U : \A y \in U : ~(y < x)
  <2>1. U \in SUBSET Nat
    OBVIOUS
  <2> HIDE DEF U
  <2> QED BY <2>1, LeastNat
<1>2. x \in Nat /\ x # 0 /\ x \notin T
  BY <1>1
<1>3. x - 1 \in Nat /\ x - 1 < x /\ (x - 1) + 1 = x
  BY <1>2
<1>4. x - 1 \in T
  BY <1>1, <1>3
<1>5. QED
  BY <1>2, <1>3, <1>4

(* The upper end of a range is its largest number.                          *)
LEMMA MaxOf ==
  ASSUME NEW n \in Nat, NEW s \in SUBSET (1..n), n \in s
  PROVE  Max(s) = n
<1>1. \A x \in s : n >= x
  OBVIOUS
<1>2. \A m \in s : (\A x \in s : m >= x) => m = n
  OBVIOUS
<1>3. QED
  BY <1>1, <1>2 DEF Max

-----------------------------------------------------------------------------
(* AutoPID. A list of commands is obeyed by a fold, which has a run.        *)

ObeyRun(g, c, s) ==
  /\ DOMAIN g = 0..Len(s) /\ g[0] = c
  /\ \A k \in 1..Len(s) : g[k] = Obey(g[k - 1], s[k])

(* The run exists, and ends where the list leads to.                        *)
LEMMA ObeyAllRuns ==
  ASSUME NEW S, NEW s \in Seq(S), NEW c
  PROVE  \E g : ObeyRun(g, c, s) /\ ObeyAll(c, s) = g[Len(s)]
<1> DEFINE n == Len(s)
           Eq(g, k) == g = [t \in SUBSET (1..k) |->
                              IF t = {} THEN c ELSE Obey(g[t \ {Max(t)}], s[Max(t)])]
           Good == {k \in Nat : \E g : Eq(g, k)}
<1>n. n \in Nat /\ DOMAIN s = 1..n
  OBVIOUS
<1>1. 0 \in Good
  <2> DEFINE g == [t \in SUBSET (1..0) |-> c]
  <2>1. \A t \in SUBSET (1..0) : t = {}
    OBVIOUS
  <2>2. Eq(g, 0)
    BY <2>1
  <2> HIDE DEF Eq
  <2>3. QED
    BY <2>2
<1>2. ASSUME NEW k \in Nat, k \in Good PROVE k + 1 \in Good
  <2>1. PICK g : Eq(g, k)
    BY <1>2
  <2> DEFINE h == [t \in SUBSET (1..(k + 1)) |->
                     IF (k + 1) \in t THEN Obey(g[t \ {k + 1}], s[k + 1]) ELSE g[t]]
  <2>2. ASSUME NEW t \in SUBSET (1..(k + 1)), (k + 1) \notin t
        PROVE  h[t] = IF t = {} THEN c ELSE Obey(h[t \ {Max(t)}], s[Max(t)])
    <3>1. t \in SUBSET (1..k) /\ t \ {Max(t)} \in SUBSET (1..k)
      <4>1. \A x \in 1..(k + 1) : x # k + 1 => x \in 1..k
        OBVIOUS
      <4> HIDE DEF h
      <4>2. t \subseteq 1..k
        BY <2>2, <4>1
      <4>3. QED
        BY <4>2
    <3>2. h[t] = g[t]
      BY <2>2
    <3>3. h[t \ {Max(t)}] = g[t \ {Max(t)}]
      BY <2>2, <3>1
    <3>4. g[t] = IF t = {} THEN c ELSE Obey(g[t \ {Max(t)}], s[Max(t)])
      BY <2>1, <3>1
    <3>5. QED
      BY <3>2, <3>3, <3>4
  <2>3. ASSUME NEW t \in SUBSET (1..(k + 1)), (k + 1) \in t
        PROVE  h[t] = IF t = {} THEN c ELSE Obey(h[t \ {Max(t)}], s[Max(t)])
    <3>1. Max(t) = k + 1
      BY <2>3, MaxOf
    <3>2. t \ {k + 1} \in SUBSET (1..(k + 1)) /\ (k + 1) \notin t \ {k + 1}
      OBVIOUS
    <3>3. h[t \ {k + 1}] = g[t \ {k + 1}]
      BY <3>2
    <3>4. QED
      BY <2>3, <3>1, <3>3
  <2>4. Eq(h, k + 1)
    BY <2>2, <2>3
  <2> HIDE DEF h, Eq
  <2>5. QED
    BY <2>4
<1>3. \A k \in Nat : k \in Good
  <2> HIDE DEF Good
  <2>1. QED
    BY <1>1, <1>2, SetInduction
<1> DEFINE it == CHOOSE g : Eq(g, n)
<1>4. Eq(it, n)
  <2>1. \E g : Eq(g, n)
    BY <1>3, <1>n
  <2> HIDE DEF Eq
  <2>2. QED
    BY <2>1
<1>5. ObeyAll(c, s) = it[1..n]
  BY <1>n DEF ObeyAll, FoldLeft, MapThenFoldSet
<1> HIDE DEF it
<1> DEFINE g == [k \in 0..n |-> it[1..k]]
<1>6. g[0] = c
  BY <1>4, <1>n
<1>7. ASSUME NEW k \in 1..n PROVE g[k] = Obey(g[k - 1], s[k])
  <2> HIDE DEF n
  <2>1. 1..k \in SUBSET (1..n) /\ 1..k # {} /\ k \in 1..k /\ 1..k \in SUBSET (1..k) /\ k \in Nat
    <3>1. k \in Nat /\ k <= n /\ 1 <= k
      BY <1>n
    <3>2. 1..k \subseteq 1..n /\ k \in 1..k
      BY <3>1, <1>n
    <3>3. QED
      BY <3>1, <3>2
  <2>2. Max(1..k) = k
    BY <2>1, MaxOf
  <2>3. (1..k) \ {k} = 1..(k - 1)
    BY <1>n
  <2>4. it[1..k] = Obey(it[1..(k - 1)], s[k])
    BY <1>4, <2>1, <2>2, <2>3
  <2>6. QED
    BY <2>4, <1>n
<1>8. n \in 0..n /\ g[n] = it[1..n] /\ DOMAIN g = 0..n
  BY <1>n
<1> HIDE DEF g
<1>9. ObeyRun(g, c, s)
  BY <1>6, <1>7, <1>8 DEF ObeyRun
<1>10. QED
  BY <1>5, <1>8, <1>9

(* There is only one.                                                       *)
LEMMA ObeyAllIs ==
  ASSUME NEW S, NEW s \in Seq(S), NEW c, NEW g, g[0] = c,
         \A k \in 1..Len(s) : g[k] = Obey(g[k - 1], s[k])
  PROVE  ObeyAll(c, s) = g[Len(s)]
<1>1. PICK h : ObeyRun(h, c, s) /\ ObeyAll(c, s) = h[Len(s)]
  BY ObeyAllRuns
<1> DEFINE Good == {k \in Nat : k <= Len(s) => h[k] = g[k]}
<1>2. 0 \in Good
  BY <1>1 DEF ObeyRun
<1>3. ASSUME NEW k \in Nat, k \in Good PROVE k + 1 \in Good
  <2>1. SUFFICES ASSUME k + 1 <= Len(s) PROVE h[k + 1] = g[k + 1]
    OBVIOUS
  <2>2. k + 1 \in 1..Len(s) /\ (k + 1) - 1 = k /\ h[k] = g[k]
    BY <1>3, <2>1
  <2>3. QED
    BY <1>1, <2>2 DEF ObeyRun
<1>4. \A k \in Nat : k \in Good
  <2> HIDE DEF Good
  <2>1. QED
    BY <1>2, <1>3, SetInduction
<1>5. QED
  BY <1>1, <1>4

(* Nothing to obey changes nothing.                                         *)
LEMMA ObeyNone ==
  ASSUME NEW c
  PROVE  ObeyAll(c, <<>>) = c
<1> DEFINE none == <<>>
<1>1. none \in Seq({}) /\ Len(none) = 0
  OBVIOUS
<1> HIDE DEF none
<1>2. PICK g : ObeyRun(g, c, none) /\ ObeyAll(c, none) = g[Len(none)]
  BY <1>1, ObeyAllRuns
<1>3. ObeyAll(c, none) = c
  BY <1>1, <1>2 DEF ObeyRun
<1>4. QED
  BY <1>3 DEF none

(* One list after the other: the second goes on from where the first led.   *)
LEMMA ObeyBoth ==
  ASSUME NEW S, NEW s \in Seq(S), NEW t \in Seq(S), NEW c
  PROVE  ObeyAll(c, s \o t) = ObeyAll(ObeyAll(c, s), t)
<1>1. /\ s \o t \in Seq(S) /\ Len(s \o t) = Len(s) + Len(t) /\ Len(s) \in Nat /\ Len(t) \in Nat
      /\ \A k \in 1..Len(s) : (s \o t)[k] = s[k]
      /\ \A k \in 1..Len(t) : (s \o t)[Len(s) + k] = t[k]
  OBVIOUS
<1> DEFINE u == s \o t
<1> HIDE DEF u
<1>2. PICK g : ObeyRun(g, c, u) /\ ObeyAll(c, u) = g[Len(u)]
  <2>1. u \in Seq(S)
    BY <1>1 DEF u
  <2>2. QED
    BY <2>1, ObeyAllRuns
<1>3. g[0] = c /\ \A k \in 1..(Len(s) + Len(t)) : g[k] = Obey(g[k - 1], u[k])
  BY <1>1, <1>2 DEF ObeyRun, u
<1>4. ObeyAll(c, s) = g[Len(s)]
  <2>1. \A k \in 1..Len(s) : k \in 1..(Len(s) + Len(t)) /\ u[k] = s[k]
    BY <1>1 DEF u
  <2>2. \A k \in 1..Len(s) : g[k] = Obey(g[k - 1], s[k])
    BY <1>3, <2>1
  <2>3. QED
    BY <1>3, <2>2, ObeyAllIs
<1> DEFINE h == [k \in 0..Len(t) |-> g[Len(s) + k]]
<1>5. \A k \in 0..Len(t) : h[k] = g[Len(s) + k]
  OBVIOUS
<1> HIDE DEF h
<1>6. ASSUME NEW k \in 1..Len(t) PROVE h[k] = Obey(h[k - 1], t[k])
  <2>1. /\ k \in 0..Len(t) /\ k - 1 \in 0..Len(t) /\ Len(s) + k \in 1..(Len(s) + Len(t))
        /\ (Len(s) + k) - 1 = Len(s) + (k - 1)
    BY <1>1
  <2>2. u[Len(s) + k] = t[k]
    BY <1>1 DEF u
  <2>3. QED
    BY <1>3, <1>5, <2>1, <2>2
<1>7. h[0] = g[Len(s)] /\ h[Len(t)] = g[Len(s) + Len(t)]
  BY <1>1, <1>5
<1>8. ObeyAll(g[Len(s)], t) = h[Len(t)]
  BY <1>6, <1>7, ObeyAllIs
<1>9. QED
  BY <1>1, <1>2, <1>4, <1>7, <1>8 DEF u

(* The first command first.                                                 *)
LEMMA ObeyFirst ==
  ASSUME NEW S, NEW s \in Seq(S), s # <<>>, NEW c
  PROVE  ObeyAll(c, s) = ObeyAll(Obey(c, Head(s)), Tail(s))
<1>1. /\ <<Head(s)>> \in Seq(S) /\ Tail(s) \in Seq(S) /\ s = <<Head(s)>> \o Tail(s)
      /\ Len(<<Head(s)>>) = 1 /\ <<Head(s)>>[1] = Head(s)
  OBVIOUS
<1> DEFINE g == [k \in 0..1 |-> IF k = 0 THEN c ELSE Obey(c, Head(s))]
<1>2. g[0] = c /\ g[1] = Obey(c, Head(s))
  OBVIOUS
<1> HIDE DEF g
<1> DEFINE one == <<Head(s)>>
<1>3. one \in Seq(S) /\ Len(one) = 1 /\ one[1] = Head(s) /\ s = one \o Tail(s)
  BY <1>1
<1> HIDE DEF one
<1>4. \A k \in 1..Len(one) : g[k] = Obey(g[k - 1], one[k])
  BY <1>2, <1>3
<1>5. ObeyAll(c, one) = Obey(c, Head(s))
  BY <1>2, <1>3, <1>4, ObeyAllIs
<1>6. ObeyAll(c, one \o Tail(s)) = ObeyAll(ObeyAll(c, one), Tail(s))
  BY <1>1, <1>3, ObeyBoth
<1>7. QED
  BY <1>3, <1>5, <1>6

(* Two settings with the same address: what else is set does not matter for *)
(* it, and never will.                                                      *)
SameAddress(c, d) ==
  /\ AllFields(c) /\ AllFields(d)
  /\ c.header = d.header /\ c.prio = d.prio /\ c.rx = d.rx /\ c.protocol = d.protocol

(* What a command makes of the address depends on the address only.         *)
LEMMA ObeyKeepsSame ==
  ASSUME NEW c, NEW d, SameAddress(c, d), NEW cmd
  PROVE  SameAddress(Obey(c, cmd), Obey(d, cmd))
<1> USE DEF SameAddress, AllFields
<1>1. CASE cmd.do = "sh"
  BY <1>1 DEF Obey, Accepts, Effect
<1>2. CASE cmd.do = "cp"
  BY <1>2 DEF Obey, Accepts, Effect
<1>3. CASE cmd.do = "cra"
  BY <1>3 DEF Obey, Accepts, Effect
<1>4. CASE cmd.do = "fcsh"
  BY <1>4 DEF Obey, Accepts, Effect
<1>5. CASE cmd.do = "fcsd"
  BY <1>5 DEF Obey, Accepts, Effect
<1>6. CASE cmd.do = "fcsm"
  BY <1>6 DEF Obey, Accepts, Effect
<1>7. CASE cmd.do = "show"
  BY <1>7 DEF Obey, Accepts, Effect
<1>8. CASE cmd.do = "sp"
  BY <1>8 DEF Obey, Accepts, Effect
<1>9. CASE cmd.do = "st"
  BY <1>9 DEF Obey, Accepts, Effect
<1>10. CASE cmd.do \in {"d", "z"}
  BY <1>10 DEF Obey, Accepts, Effect, Default
<1>11. CASE cmd.do \notin {"sh", "cp", "cra", "fcsh", "fcsd", "fcsm", "show", "sp", "st", "d", "z"}
  <2>1. Effect(c, cmd) = c /\ Effect(d, cmd) = d
    BY <1>11 DEF Effect
  <2>2. Obey(c, cmd) = c /\ Obey(d, cmd) = d
    BY <2>1 DEF Obey
  <2>3. QED
    BY <2>2
<1>12. QED
  BY <1>1, <1>2, <1>3, <1>4, <1>5, <1>6, <1>7, <1>8, <1>9, <1>10, <1>11

(* And so does what a list of commands makes of it.                         *)
LEMMA ObeyAllKeepsSame ==
  ASSUME NEW S, NEW s \in Seq(S), NEW c, NEW d, SameAddress(c, d)
  PROVE  SameAddress(ObeyAll(c, s), ObeyAll(d, s))
<1>1. PICK g : ObeyRun(g, c, s) /\ ObeyAll(c, s) = g[Len(s)]
  BY ObeyAllRuns
<1>2. PICK h : ObeyRun(h, d, s) /\ ObeyAll(d, s) = h[Len(s)]
  BY ObeyAllRuns
<1> DEFINE Good == {k \in Nat : k <= Len(s) => SameAddress(g[k], h[k])}
<1>3. 0 \in Good
  BY <1>1, <1>2 DEF ObeyRun
<1>4. ASSUME NEW k \in Nat, k \in Good PROVE k + 1 \in Good
  <2>1. SUFFICES ASSUME k + 1 <= Len(s) PROVE SameAddress(g[k + 1], h[k + 1])
    OBVIOUS
  <2>2. k + 1 \in 1..Len(s) /\ (k + 1) - 1 = k /\ SameAddress(g[k], h[k])
    BY <1>4, <2>1
  <2>3. g[k + 1] = Obey(g[k], s[k + 1]) /\ h[k + 1] = Obey(h[k], s[k + 1])
    BY <1>1, <1>2, <2>2 DEF ObeyRun
  <2>4. QED
    BY <2>2, <2>3, ObeyKeepsSame
<1>5. \A k \in Nat : k \in Good
  <2> HIDE DEF Good
  <2>1. QED
    BY <1>3, <1>4, SetInduction
<1>6. QED
  BY <1>1, <1>2, <1>5

(* What is not sent would not have changed it.                              *)
LEMMA KeptBackIsSame ==
  ASSUME NEW c, AllFields(c), NEW cmd, KeptBack(cmd)
  PROVE  SameAddress(Obey(c, cmd), c)
BY DEF KeptBack, SameAddress, AllFields, Obey, Accepts, Effect

(* Settings with the same address serve the same.                           *)
LEMMA SameReaches ==
  ASSUME NEW c, NEW d, SameAddress(c, d)
  PROVE  Identifier(c) = Identifier(d) /\ c.rx = d.rx
BY DEF SameAddress, Identifier, PrioInUse, HeaderInUse

(* Whether a type is in force is a matter of the address.                   *)
LEMMA SameInForce ==
  ASSUME NEW Said, \A i \in 1..Len(Polled) : OwnInit(Polled[i]) \in Seq(Said),
         NEW c, NEW d, SameAddress(c, d), NEW type, InForce(c, type)
  PROVE  InForce(d, type)
<1>1. SUFFICES ASSUME NEW i \in 1..Len(Polled), Polled[i].type = type
               PROVE  LET e == ObeyAll(d, OwnInit(Polled[i]))
                      IN  <<Polled[i].cmd, Identifier(e), e.rx>> = OwnSetup(Polled[i])
  BY DEF InForce
<1>2. SameAddress(ObeyAll(c, OwnInit(Polled[i])), ObeyAll(d, OwnInit(Polled[i])))
  BY ObeyAllKeepsSame
<1>3. LET e == ObeyAll(c, OwnInit(Polled[i]))
      IN  <<Polled[i].cmd, Identifier(e), e.rx>> = OwnSetup(Polled[i])
  BY <1>1 DEF InForce
<1>4. QED
  BY <1>2, <1>3, SameReaches

(* Settings stay settings, command by command.                              *)
LEMMA ObeyAllStays ==
  ASSUME NEW Settings, NEW Said, Occur(Settings, Said),
         NEW s \in Seq(Said), NEW c \in Settings
  PROVE  ObeyAll(c, s) \in Settings
<1>1. PICK g : ObeyRun(g, c, s) /\ ObeyAll(c, s) = g[Len(s)]
  BY ObeyAllRuns
<1> DEFINE Good == {k \in Nat : k <= Len(s) => g[k] \in Settings}
<1>3. 0 \in Good
  BY <1>1 DEF ObeyRun
<1>4. ASSUME NEW k \in Nat, k \in Good PROVE k + 1 \in Good
  <2>1. SUFFICES ASSUME k + 1 <= Len(s) PROVE g[k + 1] \in Settings
    OBVIOUS
  <2>2. k + 1 \in 1..Len(s) /\ (k + 1) - 1 = k /\ g[k] \in Settings /\ s[k + 1] \in Said
    BY <1>4, <2>1
  <2>3. g[k + 1] = Obey(g[k], s[k + 1])
    BY <1>1, <2>2 DEF ObeyRun
  <2>4. \A x \in Settings : \A cmd \in Said : Obey(x, cmd) \in Settings
    BY DEF Occur
  <2>5. QED
    BY <2>2, <2>3, <2>4
<1>5. \A k \in Nat : k \in Good
  <2> HIDE DEF Good
  <2>1. QED
    BY <1>3, <1>4, SetInduction
<1>6. QED
  BY <1>1, <1>5

(* The settings of a scan accept any answer: no address is set.             *)
LEMMA ScanListens ==
  ASSUME NEW Settings, NEW Said, Occur(Settings, Said), NEW c \in Settings,
         NEW p \in ScanProtocols \cap CanProtocols
  PROVE  ObeyAll(c, ScanConfig(p)) \in Settings /\ ObeyAll(c, ScanConfig(p)).rx = Unset
<1> DEFINE s == ScanConfig(p)
<1>1. s \in Seq(Said)
  BY DEF Occur
<1>2. Len(s) = 8 /\ s[8] = At("cra", Unset, 0)
  BY DEF ScanConfig
<1> HIDE DEF s
<1>3. PICK g : ObeyRun(g, c, s) /\ ObeyAll(c, s) = g[Len(s)]
  BY <1>1, ObeyAllRuns
<1>4. g[8] = Obey(g[7], At("cra", Unset, 0)) /\ ObeyAll(c, s) = g[8]
  <2>1. 8 \in 1..Len(s) /\ 8 - 1 = 7
    BY <1>2
  <2>2. QED
    BY <1>2, <1>3, <2>1 DEF ObeyRun
<1>5. ObeyAll(c, s) \in Settings
  BY <1>1, ObeyAllStays
<1>6. AllFields(Obey(g[7], At("cra", Unset, 0)))
  BY <1>4, <1>5 DEF Occur
<1>7. Obey(g[7], At("cra", Unset, 0)).rx = Unset
  <2>1. Obey(g[7], At("cra", Unset, 0)) = [g[7] EXCEPT !.rx = Unset]
    BY DEF Obey, Accepts, Effect, At
  <2>2. "rx" \in DOMAIN g[7]
    BY <1>6, <2>1 DEF AllFields
  <2>3. QED
    BY <2>1, <2>2
<1>8. QED
  BY <1>4, <1>5, <1>7 DEF s

(* A scan restores what it read: protocol, identifier and address.          *)
LEMMA ScanRestores ==
  ASSUME NEW Settings, NEW Said, Occur(Settings, Said), NEW c \in Settings,
         NEW d \in Settings, d.rx = Unset
  PROVE  /\ ObeyAll(d, Restoring(c)) \in Settings
         /\ Restored(ObeyAll(d, Restoring(c))) = Restored(c)
<1> DEFINE s == Restoring(c)
           d1 == Obey(d, At("sp", c.protocol, 1))
           d2 == Obey(d1, SetHeader(c.protocol, HeaderInUse(c), PrioInUse(c)))
           d3 == IF c.rx = Unset THEN d2 ELSE Obey(d2, At("cra", c.rx, 3))
           g == [k \in 0..3 |-> IF k = 0 THEN d ELSE IF k = 1 THEN d1 ELSE IF k = 2 THEN d2 ELSE d3]
<1>1. AllFields(c) /\ AllFields(d) /\ s \in Seq(Said)
  BY DEF Occur
<1>2. ObeyAll(d, s) \in Settings
  BY <1>1, ObeyAllStays
<1>3. /\ s[1] = At("sp", c.protocol, 1)
      /\ s[2] = SetHeader(c.protocol, HeaderInUse(c), PrioInUse(c))
      /\ Len(s) = IF c.rx = Unset THEN 2 ELSE 3
      /\ c.rx # Unset => s[3] = At("cra", c.rx, 3)
  BY DEF Restoring
<1>4. g[0] = d /\ g[1] = d1 /\ g[2] = d2 /\ g[3] = d3
  OBVIOUS
<1>5. ObeyAll(d, s) = d3
  <2> HIDE DEF g, d3, d2, d1, s
  <2>1. \A k \in 1..Len(s) : g[k] = Obey(g[k - 1], s[k])
    <3>1. 1 - 1 = 0 /\ 2 - 1 = 1 /\ 3 - 1 = 2
      OBVIOUS
    <3>2. g[1] = Obey(g[0], s[1]) /\ g[2] = Obey(g[1], s[2])
      BY <1>3, <1>4 DEF d1, d2
    <3>3. c.rx # Unset => g[3] = Obey(g[2], s[3])
      BY <1>3, <1>4 DEF d3
    <3>4. \A k \in 1..Len(s) : k = 1 \/ k = 2 \/ (k = 3 /\ c.rx # Unset)
      BY <1>3
    <3>5. QED
      BY <3>1, <3>2, <3>3, <3>4
  <2>2. ObeyAll(d, s) = g[Len(s)]
    BY <1>1, <1>4, <2>1, ObeyAllIs
  <2>3. QED
    BY <1>3, <1>4, <2>2 DEF d3
<1>6. d1 = [d EXCEPT !.protocol = c.protocol]
  BY DEF Obey, Accepts, Effect, At, Chosen
<1>7. /\ AllFields(d1) /\ d1.protocol = c.protocol /\ d1.rx = Unset
  BY <1>1, <1>6 DEF AllFields
<1>8. /\ AllFields(d2) /\ d2.protocol = c.protocol /\ d2.rx = Unset
      /\ d2.header = HeaderInUse(c)
      /\ Extended(c.protocol) => d2.prio = PrioInUse(c)
  <2> HIDE DEF d1
  <2> DEFINE cmd == SetHeader(c.protocol, HeaderInUse(c), PrioInUse(c))
  <2>1. /\ cmd.do = "sh" /\ cmd.arg = HeaderInUse(c) /\ cmd.prio = PrioInUse(c)
        /\ cmd.len = IF Extended(c.protocol) THEN 8 ELSE 3
    BY DEF SetHeader, At
  <2> HIDE DEF cmd
  <2>2. Accepts(d1, cmd)
    BY <2>1 DEF Accepts
  <2>3. Effect(d1, cmd) = [d1 EXCEPT !.header = cmd.arg,
                                     !.prio = IF cmd.len = 8 THEN cmd.prio ELSE @]
    BY <2>1 DEF Effect
  <2>4. d2 = [d1 EXCEPT !.header = cmd.arg, !.prio = IF cmd.len = 8 THEN cmd.prio ELSE @]
    BY <2>2, <2>3 DEF Obey, cmd
  <2>5. QED
    BY <1>7, <2>1, <2>4 DEF AllFields
<1>9. /\ AllFields(d3) /\ d3.protocol = c.protocol /\ d3.rx = c.rx
      /\ d3.header = HeaderInUse(c)
      /\ Extended(c.protocol) => d3.prio = PrioInUse(c)
  <2> HIDE DEF d2
  <2>1. CASE c.rx = Unset
    BY <1>8, <2>1
  <2>2. CASE c.rx # Unset
    <3>1. Obey(d2, At("cra", c.rx, 3)) = [d2 EXCEPT !.rx = c.rx]
      BY DEF Obey, Accepts, Effect, At
    <3>2. QED
      BY <1>8, <2>2, <3>1 DEF AllFields
  <2>3. QED
    BY <2>1, <2>2
<1>10. HeaderInUse(c) # Unset
  BY DEF HeaderInUse, Functional, Unset
<1>11. Restored(d3) = Restored(c)
  <2> HIDE DEF d3
  <2>1. HeaderInUse(d3) = HeaderInUse(c) /\ (Extended(c.protocol) => PrioInUse(d3) = PrioInUse(c))
    BY <1>9, <1>10 DEF HeaderInUse, PrioInUse
  <2>2. QED
    BY <1>9, <2>1 DEF Restored
<1>12. QED
  BY <1>2, <1>5, <1>11 DEF s

-----------------------------------------------------------------------------
(* The task and the scan under elm327_mutex. Whoever does not hold it       *)
(* changes no settings; the task leaves them in force for the type it       *)
(* polled last, and a scan gives back what it found.                        *)

PollTypes(Settings, Said) ==
  /\ setup \in Settings /\ todo \in Seq(Said) /\ queue = <<>>
  /\ nth \in Nat \ {0} /\ overtaken \in BOOLEAN
  /\ elmLock = "task" <=> task \in {"param", "ask"}
  /\ elmLock = "scan" <=> scan = "ask"
  /\ DOMAIN value = Params /\ (task = "boot" => prevType = NoType)

(* The commands still to be sent lead to the parameter's own settings.      *)
AskingOwn ==
  task = "ask" =>
    /\ nth <= Len(Polled) /\ prevType = Polled[nth].type
    /\ LET d == ObeyAll(setup, todo)
       IN  <<Polled[nth].cmd, Identifier(d), d.rx>> = OwnSetup(Polled[nth])
    /\ InForce(ObeyAll(setup, todo), prevType)

Restful == task # "ask" /\ scan # "ask" /\ prevType # NoType => InForce(setup, prevType)

Scanning(Settings) ==
  /\ scan = "ask" => setup.rx = Unset /\ task # "boot"
  /\ scan = "lock" => task # "boot"
  /\ scan \in {"lock", "ask"} => \E c \in Settings : saved = Restoring(c)
  /\ scan = "ask" /\ ~overtaken /\ prevType # NoType =>
       \E c \in Settings : saved = Restoring(c) /\ InForce(c, prevType)

PollInv(Settings, Said) ==
  /\ PollTypes(Settings, Said) /\ Scanning(Settings)
  /\ ValuesAreOwn /\ (overtaken \/ (AskingOwn /\ Restful))

(* The task starts without a type, and with nothing polled.                 *)
LEMMA PollInvInit ==
  ASSUME NEW Settings, NEW Said, Occur(Settings, Said), AutoPidInit
  PROVE  PollInv(Settings, Said)
<1>1. /\ setup \in Settings /\ todo \in Seq(Said) /\ queue = <<>> /\ nth \in Nat \ {0}
      /\ elmLock = "free" /\ task = "boot" /\ scan = "idle" /\ overtaken = FALSE
      /\ DOMAIN value = Params /\ (task = "boot" => prevType = NoType) /\ prevType = NoType
  BY DEF AutoPidInit, Occur
<1>2. ValuesAreOwn
  <2>1. \A i \in 1..Len(Polled) : value[Polled[i].name] = NoAnswer
    BY DEF AutoPidInit, Occur
  <2>2. QED
    BY <2>1 DEF ValuesAreOwn
<1>3. QED
  BY <1>1, <1>2 DEF PollInv, PollTypes, Scanning, AskingOwn, Restful

(* Steps that touch neither the settings nor the answers, and go from one   *)
(* place without the lock to another, or stay.                              *)
LEMMA PollElsewhere ==
  ASSUME NEW Settings, NEW Said, PollInv(Settings, Said),
         UNCHANGED <<setup, todo, queue, nth, overtaken, elmLock, scan, value, saved, prevType>>,
         task' = task \/ {task, task'} \cap {"boot", "param", "ask"} = {}
  PROVE  PollInv(Settings, Said)'
<1>1. PollTypes(Settings, Said)'
  BY DEF PollInv, PollTypes
<1>2. Scanning(Settings)'
  BY DEF PollInv, Scanning
<1>3. ValuesAreOwn'
  BY DEF PollInv, ValuesAreOwn
<1>4. AskingOwn => AskingOwn'
  BY DEF AskingOwn
<1>5. Restful => Restful'
  BY DEF Restful, InForce
<1>6. QED
  BY <1>1, <1>2, <1>3, <1>4, <1>5 DEF PollInv

(* The task's first commands, its way into and out of the lock, and a       *)
(* parameter passed over.                                                   *)
LEMMA PollTurns ==
  ASSUME NEW Settings, NEW Said, Occur(Settings, Said), PollInv(Settings, Said),
         Boot \/ TakeElm \/ NotDue \/ GiveElm
  PROVE  PollInv(Settings, Said)'
<1>1. CASE Boot
  <2>1. ObeyAll(setup, DefaultInit) \in Settings
    BY ObeyAllStays DEF Occur, PollInv, PollTypes
  <2>2. PollTypes(Settings, Said)'
    BY <1>1, <2>1 DEF Boot, scanVars, resultVars, PollInv, PollTypes
  <2>3. Scanning(Settings)'
    BY <1>1 DEF Boot, scanVars, Scanning
  <2>4. ValuesAreOwn'
    BY <1>1 DEF Boot, scanVars, resultVars, PollInv, ValuesAreOwn
  <2>5. AskingOwn' /\ Restful'
    BY <1>1 DEF Boot, PollInv, PollTypes, AskingOwn, Restful
  <2>6. QED
    BY <2>2, <2>3, <2>4, <2>5 DEF PollInv
<1>2. CASE TakeElm
  <2>2. PollTypes(Settings, Said)'
    BY <1>2 DEF TakeElm, scanVars, resultVars, PollInv, PollTypes
  <2>3. Scanning(Settings)'
    BY <1>2 DEF TakeElm, scanVars, PollInv, Scanning
  <2>4. ValuesAreOwn' /\ overtaken' = overtaken
    BY <1>2 DEF TakeElm, scanVars, resultVars, PollInv, ValuesAreOwn
  <2>5. AskingOwn' /\ (Restful => Restful')
    BY <1>2 DEF TakeElm, scanVars, AskingOwn, Restful, InForce
  <2>6. QED
    BY <2>2, <2>3, <2>4, <2>5 DEF PollInv
<1>3. CASE NotDue
  <2>2. PollTypes(Settings, Said)'
    BY <1>3 DEF NotDue, scanVars, resultVars, PollInv, PollTypes
  <2>3. Scanning(Settings)'
    BY <1>3 DEF NotDue, scanVars, PollInv, Scanning
  <2>4. ValuesAreOwn' /\ overtaken' = overtaken
    BY <1>3 DEF NotDue, scanVars, resultVars, PollInv, ValuesAreOwn
  <2>5. AskingOwn' /\ (Restful => Restful')
    BY <1>3 DEF NotDue, scanVars, AskingOwn, Restful, InForce
  <2>6. QED
    BY <2>2, <2>3, <2>4, <2>5 DEF PollInv
<1>4. CASE GiveElm
  <2>2. PollTypes(Settings, Said)'
    BY <1>4 DEF GiveElm, scanVars, resultVars, PollInv, PollTypes
  <2>3. Scanning(Settings)'
    BY <1>4 DEF GiveElm, scanVars, PollInv, Scanning
  <2>4. ValuesAreOwn' /\ overtaken' = overtaken
    BY <1>4 DEF GiveElm, scanVars, resultVars, PollInv, ValuesAreOwn
  <2>5. AskingOwn' /\ (Restful => Restful')
    BY <1>4 DEF GiveElm, scanVars, AskingOwn, Restful, InForce
  <2>6. QED
    BY <2>2, <2>3, <2>4, <2>5 DEF PollInv
<1>5. QED
  BY <1>1, <1>2, <1>3, <1>4

(* A parameter that is due: what will be sent for it leads to its own       *)
(* settings, the initialisation of its type being in force or sent again.   *)
LEMMA PollDue ==
  ASSUME NEW Settings, NEW Said, Occur(Settings, Said), InitsFit(Settings),
         PollInv(Settings, Said), IsDue
  PROVE  PollInv(Settings, Said)'
<1> DEFINE item == Polled[nth]
           first == IF item.type # prevType THEN TypeInit[item.type] ELSE <<>>
           c == ObeyAll(setup, first)
<1>1. /\ nth \in 1..Len(Polled) /\ todo' = first \o OwnInit(item) /\ prevType' = item.type
      /\ setup' = setup /\ nth' = nth /\ task' = "ask" /\ elmLock' = elmLock /\ queue' = queue
      /\ value' = value /\ scan' = scan /\ saved' = saved /\ overtaken' = overtaken
      /\ elmLock = "task" /\ scan # "ask" /\ task = "param" /\ setup \in Settings
  BY DEF IsDue, OwnInit, PollInv, PollTypes, scanVars, resultVars
<1>2. /\ TypeInit[item.type] \in Seq(Said) /\ OwnInit(item) \in Seq(Said)
      /\ item.type \in DOMAIN TypeInit
  BY <1>1 DEF Occur
<1>3. item.type # NoType
  BY <1>2 DEF TypeInit, NoType
<1>4. first \in Seq(Said)
  BY <1>2
<1> HIDE DEF item
<1>5. PollTypes(Settings, Said)'
  <2> HIDE DEF first
  <2>1. todo' \in Seq(Said)
    BY <1>1, <1>2, <1>4
  <2>2. QED
    BY <1>1, <2>1 DEF PollInv, PollTypes
<1>6. Scanning(Settings)'
  BY <1>1 DEF PollInv, Scanning
<1>7. ValuesAreOwn'
  BY <1>1 DEF PollInv, ValuesAreOwn
<1>8. ASSUME AskingOwn, Restful PROVE AskingOwn'
  <2>1. c \in Settings
    <3> HIDE DEF first
    <3>1. QED
      BY <1>1, <1>4, ObeyAllStays
  <2>2. InForce(c, item.type)
    <3>1. CASE item.type # prevType
      <4>1. c = ObeyAll(setup, TypeInit[item.type])
        BY <3>1
      <4>2. QED
        BY <1>1, <4>1 DEF InitsFit, item
    <3>2. CASE item.type = prevType
      <4>1. InForce(setup, item.type)
        BY <1>1, <1>3, <1>8, <3>2 DEF Restful
      <4>2. c = setup
        BY <3>2, ObeyNone
      <4>3. QED
        BY <4>1, <4>2
    <3>3. QED
      BY <3>1, <3>2
  <2> HIDE DEF first
  <2>3. ObeyAll(setup, todo') = ObeyAll(c, OwnInit(item))
    BY <1>1, <1>2, <1>4, ObeyBoth
  <2> HIDE DEF c
  <2>4. InForce(ObeyAll(c, OwnInit(item)), item.type)
    BY <1>1, <2>1, <2>2 DEF InitsFit, item
  <2>5. LET d == ObeyAll(c, OwnInit(item))
        IN  <<item.cmd, Identifier(d), d.rx>> = OwnSetup(item)
    BY <1>1, <2>2 DEF InForce, item
  <2> DEFINE d == ObeyAll(setup', todo')
  <2>6. d = ObeyAll(c, OwnInit(item))
    BY <1>1, <2>3
  <2> HIDE DEF d
  <2>7. /\ nth' <= Len(Polled) /\ prevType' = Polled[nth'].type
        /\ <<Polled[nth'].cmd, Identifier(d), d.rx>> = OwnSetup(Polled[nth'])
        /\ InForce(d, prevType')
    BY <1>1, <2>4, <2>5, <2>6 DEF item
  <2>8. QED
    BY <2>7 DEF AskingOwn, InForce, d
<1>9. Restful'
  BY <1>1 DEF Restful
<1>10. QED
  BY <1>1, <1>5, <1>6, <1>7, <1>8, <1>9 DEF PollInv

(* A command less to be sent: where the list leads to stays the same.       *)
LEMMA PollSends ==
  ASSUME NEW Settings, NEW Said, Occur(Settings, Said), PollInv(Settings, Said), SendCommand
  PROVE  PollInv(Settings, Said)'
<1>1. /\ task = "ask" /\ todo # <<>> /\ todo' = Tail(todo) /\ task' = task /\ nth' = nth
      /\ prevType' = prevType /\ elmLock' = elmLock /\ value' = value /\ scan' = scan
      /\ saved' = saved /\ overtaken' = overtaken /\ queue' = <<>>
      /\ setup' = IF KeptBack(Head(todo)) THEN setup ELSE Obey(setup, Head(todo))
      /\ elmLock = "task" /\ scan # "ask" /\ setup \in Settings /\ todo \in Seq(Said)
  BY DEF SendCommand, PollInv, PollTypes, scanVars, resultVars
<1>2. Head(todo) \in Said /\ Tail(todo) \in Seq(Said)
  BY <1>1
<1>3. setup' \in Settings /\ AllFields(setup)
  BY <1>1, <1>2 DEF Occur
<1>4. PollTypes(Settings, Said)'
  BY <1>1, <1>2, <1>3 DEF PollInv, PollTypes
<1>5. Scanning(Settings)'
  BY <1>1 DEF PollInv, Scanning
<1>6. ValuesAreOwn'
  BY <1>1 DEF PollInv, ValuesAreOwn
<1>7. ASSUME AskingOwn PROVE AskingOwn'
  <2> DEFINE c == ObeyAll(setup, todo)
             d == ObeyAll(setup', todo')
  <2>1. c = ObeyAll(Obey(setup, Head(todo)), Tail(todo))
    BY <1>1, ObeyFirst
  <2>2. SameAddress(c, d)
    <3>1. SameAddress(Obey(setup, Head(todo)), setup')
      <4>1. CASE KeptBack(Head(todo))
        BY <1>1, <1>3, <4>1, KeptBackIsSame
      <4>2. CASE ~KeptBack(Head(todo))
        <5>1. AllFields(setup') /\ setup' = Obey(setup, Head(todo))
          BY <1>1, <1>3, <4>2 DEF Occur
        <5>2. QED
          BY <5>1 DEF SameAddress
      <4>3. QED
        BY <4>1, <4>2
    <3>2. SameAddress(ObeyAll(Obey(setup, Head(todo)), Tail(todo)), ObeyAll(setup', Tail(todo)))
      BY <1>2, <3>1, ObeyAllKeepsSame
    <3>3. QED
      BY <1>1, <2>1, <3>2
  <2>3. /\ nth <= Len(Polled) /\ prevType = Polled[nth].type
        /\ <<Polled[nth].cmd, Identifier(c), c.rx>> = OwnSetup(Polled[nth])
        /\ InForce(c, prevType)
    BY <1>1, <1>7 DEF AskingOwn
  <2> HIDE DEF c, d
  <2>4. Identifier(c) = Identifier(d) /\ c.rx = d.rx
    BY <2>2, SameReaches
  <2>5. InForce(d, prevType)
    <3>1. \A i \in 1..Len(Polled) : OwnInit(Polled[i]) \in Seq(Said)
      BY DEF Occur
    <3>2. QED
      BY <2>2, <2>3, <3>1, SameInForce
  <2>6. /\ nth' <= Len(Polled) /\ prevType' = Polled[nth'].type
        /\ <<Polled[nth'].cmd, Identifier(d), d.rx>> = OwnSetup(Polled[nth'])
        /\ InForce(d, prevType')
    BY <1>1, <2>3, <2>4, <2>5
  <2>7. QED
    BY <2>6 DEF AskingOwn, InForce, d
<1>8. Restful'
  BY <1>1 DEF Restful
<1>9. QED
  BY <1>1, <1>4, <1>5, <1>6, <1>7, <1>8 DEF PollInv

(* The command itself, asked with the parameter's own settings; the answer  *)
(* is the only one in the queue.                                            *)
LEMMA PollAsks ==
  ASSUME NEW Settings, NEW Said, Occur(Settings, Said), PollInv(Settings, Said), Ask
  PROVE  PollInv(Settings, Said)'
<1> DEFINE item == Polled[nth]
<1>1. PICK ecus \in Answers :
        LET q   == Put(queue, AnswerTo(item.cmd, setup, ecus))
            got == Head(q)
        IN  /\ queue' = Tail(q)
            /\ IF got.ecus = <<>>
               THEN failed' = failed \cup {item.name} /\ UNCHANGED <<connected, value>>
               ELSE /\ failed' = failed \ {item.name} /\ connected' = TRUE
                    /\ \/ value' = [value EXCEPT ![item.name] = Computed(item.type, got)]
                       \/ UNCHANGED value
  BY DEF Ask
<1>2. /\ task = "ask" /\ todo = <<>> /\ task' = "param" /\ nth' = nth + 1
      /\ UNCHANGED <<todo, prevType, setup, elmLock, scan, saved, overtaken>>
      /\ elmLock = "task" /\ scan # "ask" /\ queue = <<>> /\ nth \in Nat \ {0}
      /\ DOMAIN value = Params
  BY DEF Ask, PollInv, PollTypes, scanVars
<1> DEFINE got == AnswerTo(item.cmd, setup, ecus)
<1>3. Put(queue, got) = <<got>>
  BY <1>2, AutoPidAssumption DEF Put
<1>4. /\ queue' = <<>>
      /\ value' = value \/ value' = [value EXCEPT ![item.name] = Computed(item.type, got)]
  <2> HIDE DEF got
  <2>1. Head(<<got>>) = got /\ Tail(<<got>>) = <<>>
    OBVIOUS
  <2>2. QED
    BY <1>1, <1>3, <2>1 DEF got
<1>5. PollTypes(Settings, Said)'
  <2>1. DOMAIN value' = DOMAIN value
    BY <1>4
  <2>2. QED
    BY <1>2, <1>4, <2>1 DEF PollInv, PollTypes
<1>6. Scanning(Settings)'
  BY <1>2 DEF PollInv, Scanning
<1>7. AskingOwn' /\ (AskingOwn => Restful')
  <2>1. ObeyAll(setup, todo) = setup
    BY <1>2, ObeyNone
  <2>2. AskingOwn => InForce(setup, prevType)
    BY <1>2, <2>1 DEF AskingOwn
  <2>3. QED
    BY <1>2, <2>2 DEF AskingOwn, Restful, InForce
<1>8. ValuesAreOwn'
  <2>1. SUFFICES ASSUME ~overtaken, NEW i \in 1..Len(Polled)
                 PROVE  LET v == value'[Polled[i].name]
                        IN  v = NoAnswer \/ <<v.cmd, v.to, v.rx>> = OwnSetup(Polled[i])
    BY <1>2 DEF ValuesAreOwn
  <2>2. LET v == value[Polled[i].name]
        IN  v = NoAnswer \/ <<v.cmd, v.to, v.rx>> = OwnSetup(Polled[i])
    BY <2>1 DEF PollInv, ValuesAreOwn
  <2>3. /\ nth \in 1..Len(Polled)
        /\ <<item.cmd, Identifier(setup), setup.rx>> = OwnSetup(item)
    <3>1. ObeyAll(setup, todo) = setup
      BY <1>2, ObeyNone
    <3>2. AskingOwn
      BY <2>1 DEF PollInv
    <3>3. /\ nth <= Len(Polled)
          /\ LET d == ObeyAll(setup, todo)
             IN  <<item.cmd, Identifier(d), d.rx>> = OwnSetup(item)
      BY <1>2, <3>2 DEF AskingOwn
    <3>4. QED
      BY <1>2, <3>1, <3>3
  <2>4. CASE value' = value
    BY <2>2, <2>4
  <2>5. CASE value' = [value EXCEPT ![item.name] = Computed(item.type, got)]
    <3>1. CASE Polled[i].name = item.name
      <4>1. i = nth /\ item.name \in DOMAIN value
        BY <1>2, <2>3, <3>1 DEF Occur
      <4>2. value'[item.name] = Computed(item.type, got)
        BY <2>5, <4>1
      <4>3. /\ Computed(item.type, got).cmd = item.cmd
            /\ Computed(item.type, got).to = Identifier(setup)
            /\ Computed(item.type, got).rx = setup.rx
        BY DEF Computed, AnswerTo
      <4> HIDE DEF got
      <4>4. QED
        BY <2>3, <4>1, <4>2, <4>3
    <3>2. CASE Polled[i].name # item.name
      <4>1. value'[Polled[i].name] = value[Polled[i].name]
        BY <1>2, <2>5, <3>2 DEF Occur
      <4>2. QED
        BY <2>2, <4>1
    <3>3. QED
      BY <3>1, <3>2
  <2>6. QED
    BY <1>4, <2>4, <2>5
<1>9. QED
  BY <1>2, <1>5, <1>6, <1>7, <1>8 DEF PollInv

(* The scan: read without the lock, it is right when the lock comes, or     *)
(* counts as overtaken; what it restores is in force as before.             *)
LEMMA PollScans ==
  ASSUME NEW Settings, NEW Said, Occur(Settings, Said), InitsFit(Settings),
         PollInv(Settings, Said), ScanRead \/ ScanStart \/ ScanAsk \/ ScanEnd
  PROVE  PollInv(Settings, Said)'
<1>1. UNCHANGED <<task, nth, todo, prevType, value>>
  BY DEF ScanRead, ScanStart, ScanAsk, ScanEnd, taskVars, resultVars
<1>2. setup \in Settings /\ queue = <<>>
  BY DEF PollInv, PollTypes
<1>3. CASE ScanRead
  <2>1. /\ scan = "idle" /\ task # "boot" /\ scan' = "lock" /\ saved' = Restoring(setup)
        /\ UNCHANGED <<setup, elmLock, queue, overtaken>>
    BY <1>3 DEF ScanRead
  <2>2. PollTypes(Settings, Said)'
    BY <1>1, <2>1 DEF PollInv, PollTypes
  <2>3. Scanning(Settings)'
    BY <1>1, <1>2, <2>1 DEF Scanning
  <2>4. ValuesAreOwn'
    BY <1>1, <2>1 DEF PollInv, ValuesAreOwn
  <2>5. (AskingOwn => AskingOwn') /\ (Restful => Restful')
    BY <1>1, <2>1 DEF AskingOwn, Restful, InForce
  <2>6. QED
    BY <2>1, <2>2, <2>3, <2>4, <2>5 DEF PollInv
<1>4. CASE ScanStart
  <2>1. PICK p \in ScanProtocols :
          /\ scan = "lock" /\ elmLock = "free"
          /\ IF p \in CanProtocols
             THEN /\ elmLock' = "scan" /\ scan' = "ask" /\ queue' = <<>>
                  /\ setup' = ObeyAll(setup, ScanConfig(p))
                  /\ overtaken' = (overtaken \/ saved # Restoring(setup))
                  /\ UNCHANGED saved
             ELSE /\ scan' = "idle" /\ saved' = <<>>
                  /\ UNCHANGED <<elmLock, setup, queue, overtaken>>
    BY <1>4 DEF ScanStart
  <2>2. task \notin {"param", "ask", "boot"}
    BY <2>1 DEF PollInv, PollTypes, Scanning
  <2>3. CASE p \in CanProtocols
    <3>1. setup' \in Settings /\ setup'.rx = Unset
      BY <1>2, <2>1, <2>3, ScanListens
    <3>2. PollTypes(Settings, Said)'
      BY <1>1, <2>1, <2>2, <2>3, <3>1 DEF PollInv, PollTypes
    <3>3. Scanning(Settings)'
      <4>1. \E c \in Settings : saved = Restoring(c)
        BY <2>1 DEF PollInv, Scanning
      <4>2. ASSUME ~overtaken', prevType # NoType
            PROVE  \E c \in Settings : saved = Restoring(c) /\ InForce(c, prevType)
        <5>1. ~overtaken /\ saved = Restoring(setup)
          BY <2>1, <2>3, <4>2
        <5>2. InForce(setup, prevType)
          BY <2>1, <2>2, <4>2, <5>1 DEF PollInv, Restful
        <5>3. QED
          BY <1>2, <5>1, <5>2
      <4>3. scan' = "ask" /\ saved' = saved /\ task' # "boot" /\ prevType' = prevType
        BY <1>1, <2>1, <2>2, <2>3
      <4>4. QED
        BY <3>1, <4>1, <4>2, <4>3 DEF Scanning, InForce
    <3>4. ValuesAreOwn'
      BY <1>1, <2>1, <2>3 DEF PollInv, ValuesAreOwn
    <3>5. AskingOwn' /\ Restful'
      BY <1>1, <2>1, <2>2, <2>3 DEF AskingOwn, Restful
    <3>6. QED
      BY <3>2, <3>3, <3>4, <3>5 DEF PollInv
  <2>4. CASE p \notin CanProtocols
    <3>1. /\ scan = "lock" /\ scan' = "idle" /\ UNCHANGED <<elmLock, setup, queue, overtaken>>
      BY <2>1, <2>4
    <3>2. PollTypes(Settings, Said)'
      BY <1>1, <3>1 DEF PollInv, PollTypes
    <3>3. Scanning(Settings)'
      BY <3>1 DEF Scanning
    <3>4. ValuesAreOwn'
      BY <1>1, <3>1 DEF PollInv, ValuesAreOwn
    <3>5. (AskingOwn => AskingOwn') /\ (Restful => Restful')
      BY <1>1, <3>1 DEF AskingOwn, Restful, InForce
    <3>6. QED
      BY <3>1, <3>2, <3>3, <3>4, <3>5 DEF PollInv
  <2>5. QED
    BY <2>3, <2>4
<1>5. CASE ScanAsk
  <2>1. /\ scan = "ask" /\ UNCHANGED <<setup, elmLock, scan, saved, overtaken>>
        /\ \E ecus \in Answers : queue' = Tail(Put(queue, AnswerTo(<<"support">>, setup, ecus)))
    BY <1>5 DEF ScanAsk
  <2>2. queue' = <<>>
    <3>1. PICK ecus : queue' = Tail(Put(queue, AnswerTo(<<"support">>, setup, ecus)))
      BY <2>1
    <3> DEFINE got == AnswerTo(<<"support">>, setup, ecus)
    <3>2. Put(queue, got) = <<got>>
      BY <1>2, AutoPidAssumption DEF Put
    <3> HIDE DEF got
    <3>3. Tail(<<got>>) = <<>>
      OBVIOUS
    <3>4. QED
      BY <3>1, <3>2, <3>3 DEF got
  <2>3. PollTypes(Settings, Said)'
    BY <1>1, <2>1, <2>2 DEF PollInv, PollTypes
  <2>4. Scanning(Settings)'
    BY <1>1, <2>1 DEF PollInv, Scanning, InForce
  <2>5. ValuesAreOwn'
    BY <1>1, <2>1 DEF PollInv, ValuesAreOwn
  <2>6. (AskingOwn => AskingOwn') /\ Restful'
    BY <1>1, <2>1 DEF AskingOwn, Restful, InForce
  <2>7. QED
    BY <2>1, <2>3, <2>4, <2>5, <2>6 DEF PollInv
<1>6. CASE ScanEnd
  <2>1. /\ scan = "ask" /\ scan' = "idle" /\ setup' = ObeyAll(setup, saved) /\ queue' = <<>>
        /\ elmLock' = "free" /\ overtaken' = overtaken
    BY <1>6 DEF ScanEnd
  <2>2. elmLock = "scan" /\ setup.rx = Unset /\ task \notin {"param", "ask", "boot"}
    BY <2>1 DEF PollInv, PollTypes, Scanning
  <2>3. setup' \in Settings
    <3>1. PICK c \in Settings : saved = Restoring(c)
      BY <2>1 DEF PollInv, Scanning
    <3>2. QED
      BY <1>2, <2>1, <2>2, <3>1, ScanRestores
  <2>4. PollTypes(Settings, Said)'
    BY <1>1, <2>1, <2>2, <2>3 DEF PollInv, PollTypes
  <2>5. Scanning(Settings)'
    BY <2>1 DEF Scanning
  <2>6. ValuesAreOwn'
    BY <1>1, <2>1 DEF PollInv, ValuesAreOwn
  <2>7. AskingOwn'
    BY <1>1, <2>2 DEF AskingOwn
  <2>8. ASSUME ~overtaken PROVE Restful'
    <3>1. SUFFICES ASSUME prevType # NoType PROVE InForce(setup', prevType)
      BY <1>1 DEF Restful, InForce
    <3>2. PICK c \in Settings : saved = Restoring(c) /\ InForce(c, prevType)
      BY <2>1, <2>8, <3>1 DEF PollInv, Scanning
    <3>3. Restored(setup') = Restored(c)
      BY <1>2, <2>1, <2>2, <3>2, ScanRestores
    <3>4. CASE \E i \in 1..Len(Polled) : Polled[i].type = prevType
      <4>1. \A x \in Settings : InForce(x, prevType) <=> InForce(Restored(x), prevType)
        BY <3>4 DEF InitsFit
      <4>2. QED
        BY <2>3, <3>2, <3>3, <4>1
    <3>5. CASE ~\E i \in 1..Len(Polled) : Polled[i].type = prevType
      BY <3>5 DEF InForce
    <3>6. QED
      BY <3>4, <3>5
  <2>9. QED
    BY <2>1, <2>4, <2>5, <2>6, <2>7, <2>8 DEF PollInv
<1>7. QED
  BY <1>3, <1>4, <1>5, <1>6

(* Every step of the task, of a scan and of those around them.              *)
LEMMA PollInvNext ==
  ASSUME NEW Settings, NEW Said, Occur(Settings, Said), InitsFit(Settings),
         PollInv(Settings, Said), [AutoPidNext]_autoPidVars
  PROVE  PollInv(Settings, Said)'
<1>1. CASE Boot \/ TakeElm \/ NotDue \/ GiveElm
  BY <1>1, PollTurns
<1>2. CASE IsDue
  BY <1>2, PollDue
<1>3. CASE SendCommand
  BY <1>3, PollSends
<1>4. CASE Ask
  BY <1>4, PollAsks
<1>5. CASE ScanRead \/ ScanStart \/ ScanStep
  BY <1>5, PollScans DEF ScanStep
<1>6. CASE \/ StartLoop \/ PassGate \/ PassRequest \/ UpdateValues \/ ClearRequest \/ CheckEcu
           \/ BrokerAsks \/ SleepOrWake \/ UNCHANGED autoPidVars
           \/ \E r \in Readers : ReadStart(r) \/ ReadWaited(r) \/ ReadCopy(r)
  <2>1. UNCHANGED <<setup, todo, queue, nth, overtaken, elmLock, scan, value, saved, prevType>>
    BY <1>6
    DEF StartLoop, PassGate, PassRequest, UpdateValues, ClearRequest, CheckEcu, BrokerAsks,
        SleepOrWake, ReadStart, ReadWaited, ReadCopy, autoPidVars, scanVars, resultVars,
        taskVars, modeVars
  <2>2. task' = task \/ {task, task'} \cap {"boot", "param", "ask"} = {}
    BY <1>6
    DEF StartLoop, PassGate, PassRequest, UpdateValues, ClearRequest, CheckEcu, BrokerAsks,
        SleepOrWake, ReadStart, ReadWaited, ReadCopy, autoPidVars, taskVars
  <2>3. QED
    BY <2>1, <2>2, PollElsewhere
<1>7. QED
  BY <1>1, <1>2, <1>3, <1>4, <1>5, <1>6 DEF AutoPidNext, TaskStep

(* For every configuration whose initialisations fit together, any answers  *)
(* and any scans: a value comes from the answer to the parameter's own      *)
(* command, sent where and listened to as its own initialisation says       *)
(* (autopid.c:1610, 1660, 790), unless a scan was overtaken.                *)
THEOREM ValuesAreOwnCorrect ==
  ASSUME NEW CONSTANT Settings, NEW CONSTANT Said, Occur(Settings, Said), InitsFit(Settings)
  PROVE  AutoPidSpec => []ValuesAreOwn
<1>1. AutoPidInit => PollInv(Settings, Said)
  BY PollInvInit
<1>2. PollInv(Settings, Said) /\ [AutoPidNext]_autoPidVars => PollInv(Settings, Said)'
  BY PollInvNext
<1>3. PollInv(Settings, Said) => ValuesAreOwn
  BY DEF PollInv
<1>4. QED
  BY <1>1, <1>2, <1>3, PTL DEF AutoPidSpec
-----------------------------------------------------------------------------
(* The expressions. What the tokens are.                                    *)

Token == Operators \cup {"(", ")", "x", "0"}

(* An operator binds; a parenthesis does not.                               *)
LEMMA Precedence ==
  /\ \A op \in Operators : precedence(op) \in 1..5 /\ op \notin {"(", ")", "x", "0"}
  /\ precedence("(") = 0
<1>1. ASSUME NEW op \in Operators PROVE precedence(op) \in 1..5 /\ op \notin {"(", ")", "x", "0"}
  <2>1. op \in {"|", "^", "&", "<", ">", "+", "-", "*", "/"}
    BY ExpressionAssumption
  <2>2. QED
    BY <2>1 DEF precedence
<1>2. precedence("(") = 0
  BY DEF precedence
<1>3. QED
  BY <1>1, <1>2

(* Of the tokens up to the i'th, those that are y.                          *)
CountTo(t, i, y) == Cardinality({j \in 1..i : t[j] = y})

(* With the next token there is one more of them, or as many.               *)
LEMMA Counting ==
  ASSUME NEW t, NEW i \in Nat \ {0}, NEW y
  PROVE  /\ CountTo(t, i, y) \in Nat /\ CountTo(t, i - 1, y) \in Nat
         /\ CountTo(t, i, y) = CountTo(t, i - 1, y) + (IF t[i] = y THEN 1 ELSE 0)
<1> DEFINE all == {j \in 1..i : t[j] = y}
           old == {j \in 1..(i - 1) : t[j] = y}
<1>0. CountTo(t, i, y) = Cardinality(all) /\ CountTo(t, i - 1, y) = Cardinality(old)
  BY DEF CountTo
<1>1. IsFiniteSet(1..(i - 1)) /\ old \in SUBSET (1..(i - 1))
  BY FS_Interval
<1>2. IsFiniteSet(old)
  BY <1>1, FS_Subset
<1>3. i \notin old
  OBVIOUS
<1>4. all = IF t[i] = y THEN old \cup {i} ELSE old
  OBVIOUS
<1> HIDE DEF all, old
<1>5. Cardinality(old) \in Nat
  BY <1>2, FS_CardinalityType
<1>6. Cardinality(old \cup {i}) = Cardinality(old) + 1
  BY <1>2, <1>3, FS_AddElement
<1>7. QED
  BY <1>0, <1>4, <1>5, <1>6

(* A parenthesis goes one deeper and the other comes back.                  *)
LEMMA DepthStep ==
  ASSUME NEW t, NEW i \in Nat \ {0}
  PROVE  /\ Depth(t, i) \in Int /\ Depth(t, i - 1) \in Int
         /\ Depth(t, i) = Depth(t, i - 1) + (IF t[i] = "(" THEN 1 ELSE IF t[i] = ")" THEN -1 ELSE 0)
<1>1. /\ CountTo(t, i, "(") \in Nat /\ CountTo(t, i - 1, "(") \in Nat
      /\ CountTo(t, i, "(") = CountTo(t, i - 1, "(") + (IF t[i] = "(" THEN 1 ELSE 0)
  BY Counting
<1>2. /\ CountTo(t, i, ")") \in Nat /\ CountTo(t, i - 1, ")") \in Nat
      /\ CountTo(t, i, ")") = CountTo(t, i - 1, ")") + (IF t[i] = ")" THEN 1 ELSE 0)
  BY Counting
<1>3. \A k : Depth(t, k) = CountTo(t, k, "(") - CountTo(t, k, ")")
  BY DEF Depth, CountTo
<1>4. QED
  BY <1>1, <1>2, <1>3

(* How deep a text is at a token is a whole number.                         *)
LEMMA DepthType ==
  ASSUME NEW t, NEW i \in Nat
  PROVE  Depth(t, i) \in Int
<1>1. (i + 1) - 1 = i /\ i + 1 \in Nat \ {0}
  OBVIOUS
<1>2. Depth(t, (i + 1) - 1) \in Int
  BY <1>1, DepthStep
<1>3. QED
  BY <1>1, <1>2

(* Before the first token nothing is open.                                  *)
LEMMA DepthNone ==
  ASSUME NEW t
  PROVE  Depth(t, 0) = 0
<1>1. \A y : {j \in 1..0 : t[j] = y} = {}
  OBVIOUS
<1>2. Cardinality({}) = 0
  BY FS_EmptySet
<1>3. QED
  BY <1>1, <1>2 DEF Depth

(* One more token changes nothing before it.                                *)
LEMMA OneMore ==
  ASSUME NEW t \in Seq(Token), NEW x \in Token
  PROVE  /\ Append(t, x) \in Seq(Token) /\ Len(Append(t, x)) = Len(t) + 1 /\ Len(t) \in Nat
         /\ Append(t, x)[Len(t) + 1] = x
         /\ \A i \in 1..Len(t) : Append(t, x)[i] = t[i]
         /\ \A i \in 0..Len(t) : Depth(Append(t, x), i) = Depth(t, i)
<1> DEFINE u == Append(t, x)
<1>1. /\ u \in Seq(Token) /\ Len(u) = Len(t) + 1 /\ Len(t) \in Nat /\ u[Len(t) + 1] = x
      /\ \A i \in 1..Len(t) : u[i] = t[i]
  OBVIOUS
<1>2. ASSUME NEW i \in 0..Len(t) PROVE Depth(u, i) = Depth(t, i)
  <2>1. \A j \in 1..i : u[j] = t[j]
    BY <1>1
  <2> HIDE DEF u
  <2>2. \A y : {j \in 1..i : u[j] = y} = {j \in 1..i : t[j] = y}
    BY <2>1
  <2>3. QED
    BY <2>2 DEF Depth
<1>3. QED
  BY <1>1, <1>2

(* The operator applied last is one of them, and which one.                 *)
Weakest(t, a, e) ==
  {i \in Outside(t, a, e) : \A j \in Outside(t, a, e) : precedence(t[i]) <= precedence(t[j])}

(* It is the rightmost of the weakest.                                      *)
LEMMA AppliedLastIs ==
  ASSUME NEW t, NEW a \in Nat, NEW e \in Nat, NEW c \in Weakest(t, a, e),
         \A i \in Weakest(t, a, e) : i <= c
  PROVE  AppliedLast(t, a, e) = c
<1> DEFINE W == Weakest(t, a, e)
<1>1. W \subseteq Int
  BY DEF Weakest, Outside
<1>2. AppliedLast(t, a, e) = Max(W)
  BY DEF AppliedLast, Weakest
<1>3. c \in W /\ \A i \in W : c >= i
  BY <1>1
<1> HIDE DEF W
<1>4. \A m \in W : (\A i \in W : m >= i) => m = c
  BY <1>1, <1>3
<1>5. Max(W) = c
  BY <1>3, <1>4 DEF Max
<1>6. QED
  BY <1>2, <1>5

(* Among some operators there is one that is applied last.                  *)
LEMMA AppliedLastIn ==
  ASSUME NEW t, NEW a \in Nat, NEW e \in Nat, Outside(t, a, e) # {}
  PROVE  AppliedLast(t, a, e) \in Outside(t, a, e)
<1> DEFINE out == Outside(t, a, e)
           levels == {precedence(t[i]) : i \in out}
<1>1. \A i \in out : i \in Nat /\ i <= e /\ precedence(t[i]) \in Nat
  BY Precedence DEF Outside
<1>2. levels \in SUBSET Nat /\ levels # {}
  BY <1>1
<1>3. PICK l \in levels : \A k \in levels : ~(k < l)
  <2> HIDE DEF levels
  <2> QED BY <1>2, LeastNat
<1>4. PICK i \in out : precedence(t[i]) = l
  OBVIOUS
<1>5. \A j \in out : l <= precedence(t[j])
  BY <1>1, <1>2, <1>3
<1>6. i \in Weakest(t, a, e)
  BY <1>4, <1>5 DEF Weakest
<1> DEFINE gaps == {e - k : k \in Weakest(t, a, e)}
<1>7. gaps \in SUBSET Nat /\ gaps # {}
  BY <1>1, <1>6 DEF Weakest
<1>8. PICK g \in gaps : \A h \in gaps : ~(h < g)
  <2> HIDE DEF gaps
  <2> QED BY <1>7, LeastNat
<1>9. PICK c \in Weakest(t, a, e) : g = e - c
  OBVIOUS
<1>10. \A k \in Weakest(t, a, e) : k <= c
  <2> TAKE k \in Weakest(t, a, e)
  <2>1. k \in Nat /\ c \in Nat
    BY <1>1 DEF Weakest
  <2>2. ~(e - k < e - c)
    BY <1>8, <1>9
  <2>3. QED
    BY <2>1, <2>2
<1>11. QED
  BY <1>9, <1>10, AppliedLastIs DEF Weakest
-----------------------------------------------------------------------------
(* What a window of tokens means is said by the windows inside it.          *)

Windows(t) == (1..Len(t) + 1) \X (0..Len(t))

ValueOf(M, t, a, e) ==
  IF a > e THEN Failed
  ELSE IF Outside(t, a, e) # {}
       THEN Computes(t[AppliedLast(t, a, e)], M[<<a, AppliedLast(t, a, e) - 1>>],
                     M[<<AppliedLast(t, a, e) + 1, e>>])
       ELSE IF t[a] = "(" THEN M[<<a + 1, e - 1>>]
            ELSE IF t[a] = "0" THEN Zero ELSE <<"x", a>>

\* The tokens of t are the first of those of u.
Begins(t, u) ==
  /\ t \in Seq(Token) /\ u \in Seq(Token) /\ Len(t) <= Len(u)
  /\ \A i \in 1..Len(t) : u[i] = t[i]
  /\ \A i \in 0..Len(t) : Depth(u, i) = Depth(t, i)

(* Before the end of t the two have the same operators outside parentheses. *)
LEMMA SameOutside ==
  ASSUME NEW t, NEW u, Begins(t, u), NEW a \in 1..(Len(t) + 1), NEW e \in 0..Len(t)
  PROVE  Outside(u, a, e) = Outside(t, a, e) /\ AppliedLast(u, a, e) = AppliedLast(t, a, e)
<1>1. Len(t) \in Nat
  BY DEF Begins
<1>2. \A i \in a..e : i \in 0..Len(t) /\ u[i] = t[i] /\ Depth(u, i) = Depth(t, i)
  BY <1>1 DEF Begins
<1>3. Depth(u, a - 1) = Depth(t, a - 1)
  BY <1>1 DEF Begins
<1>4. Outside(u, a, e) = Outside(t, a, e)
  BY <1>2, <1>3 DEF Outside
<1>5. \A i \in Outside(t, a, e) : u[i] = t[i]
  BY <1>2 DEF Outside
<1>6. {i \in Outside(u, a, e) : \A j \in Outside(u, a, e) : precedence(u[i]) <= precedence(u[j])}
      = {i \in Outside(t, a, e) : \A j \in Outside(t, a, e) : precedence(t[i]) <= precedence(t[j])}
  BY <1>4, <1>5
<1>7. QED
  BY <1>4, <1>6 DEF AppliedLast

\* M and N agree on the windows of t that are shorter than l.
Agree(M, N, t, l) ==
  \A b \in 1..(Len(t) + 1), d \in 0..Len(t) : d - b < l => N[<<b, d>>] = M[<<b, d>>]

(* A value depends on nothing but the shorter windows.                      *)
LEMMA ValueFrom ==
  ASSUME NEW t, NEW u, Begins(t, u), NEW a \in 1..(Len(t) + 1), NEW e \in 0..Len(t), NEW M, NEW N,
         Agree(M, N, t, e - a)
  PROVE  ValueOf(N, u, a, e) = ValueOf(M, t, a, e)
<1>1. Len(t) \in Nat
  BY DEF Begins
<1>2. CASE a > e
  BY <1>2 DEF ValueOf
<1>3. CASE a <= e
  <2> DEFINE c == AppliedLast(t, a, e)
  <2>1. a \in 1..Len(t) /\ u[a] = t[a]
    BY <1>1, <1>3 DEF Begins
  <2>2. Outside(u, a, e) = Outside(t, a, e) /\ AppliedLast(u, a, e) = c
    BY SameOutside
  <2>3. CASE Outside(t, a, e) # {}
    <3>1. c \in a..e /\ c \in 1..Len(t)
      BY <1>1, <2>1, <2>3, AppliedLastIn DEF Outside
    <3> HIDE DEF c
    <3>2. u[c] = t[c]
      BY <3>1 DEF Begins
    <3>3. /\ c - 1 \in 0..Len(t) /\ (c - 1) - a < e - a
          /\ c + 1 \in 1..(Len(t) + 1) /\ e - (c + 1) < e - a
      BY <1>1, <3>1
    <3>4. N[<<a, c - 1>>] = M[<<a, c - 1>>] /\ N[<<c + 1, e>>] = M[<<c + 1, e>>]
      BY <3>3 DEF Agree
    <3>5. ValueOf(N, u, a, e) = Computes(u[c], N[<<a, c - 1>>], N[<<c + 1, e>>])
      BY <1>3, <2>2, <2>3 DEF ValueOf
    <3>6. ValueOf(M, t, a, e) = Computes(t[c], M[<<a, c - 1>>], M[<<c + 1, e>>])
      BY <1>3, <2>3 DEF ValueOf, c
    <3>7. QED
      BY <3>2, <3>4, <3>5, <3>6
  <2>4. CASE Outside(t, a, e) = {}
    <3>1. a + 1 \in 1..(Len(t) + 1) /\ e - 1 \in 0..Len(t) /\ (e - 1) - (a + 1) < e - a
      BY <1>1, <1>3
    <3>2. N[<<a + 1, e - 1>>] = M[<<a + 1, e - 1>>]
      BY <3>1 DEF Agree
    <3>3. QED
      BY <1>3, <2>1, <2>2, <2>4, <3>2 DEF ValueOf
  <2>5. QED
    BY <2>3, <2>4
<1>4. QED
  BY <1>2, <1>3

(* A text begins with itself.                                               *)
LEMMA BeginsItself ==
  ASSUME NEW t \in Seq(Token)
  PROVE  Begins(t, t)
BY DEF Begins

(* There is such a function of the windows.                                 *)
LEMMA MeaningIs ==
  ASSUME NEW t \in Seq(Token), NEW a \in 1..(Len(t) + 1), NEW e \in 0..Len(t)
  PROVE  Meaning(t)[<<a, e>>] = ValueOf(Meaning(t), t, a, e)
<1> DEFINE W == Windows(t)
           Eq(M, V) == M = [w \in V |-> ValueOf(M, t, w[1], w[2])]
           Short(k) == {w \in W : w[2] - w[1] < k}
           Good == {k \in Nat : \E M : Eq(M, Short(k))}
<1>1. Len(t) \in Nat /\ Begins(t, t)
  BY BeginsItself
<1>2. 0 \in Good
  <2> DEFINE M == [w \in Short(0) |-> Failed]
  <2>1. \A w \in Short(0) : ValueOf(M, t, w[1], w[2]) = Failed
    BY <1>1 DEF ValueOf, Windows
  <2>2. Eq(M, Short(0))
    BY <2>1
  <2> HIDE DEF Eq, M
  <2>3. QED
    BY <2>2
<1>3. ASSUME NEW k \in Nat, k \in Good PROVE k + 1 \in Good
  <2>1. PICK M : Eq(M, Short(k))
    BY <1>3
  <2> DEFINE N == [w \in Short(k + 1) |->
                     IF w \in Short(k) THEN M[w] ELSE ValueOf(M, t, w[1], w[2])]
  <2>2. Short(k) \subseteq Short(k + 1)
    BY <1>1 DEF Windows
  <2>3. \A w \in Short(k) : N[w] = M[w]
    BY <2>2
  <2>4. \A w \in Short(k) : M[w] = ValueOf(M, t, w[1], w[2])
    BY <2>1
  <2>5. \A w \in Short(k + 1) : N[w] = ValueOf(M, t, w[1], w[2])
    BY <2>4
  <2>6. ASSUME NEW w \in Short(k + 1) PROVE ValueOf(N, t, w[1], w[2]) = ValueOf(M, t, w[1], w[2])
    <3>1. w[1] \in 1..(Len(t) + 1) /\ w[2] \in 0..Len(t) /\ w[2] - w[1] < k + 1
      BY DEF Windows
    <3>2. ASSUME NEW b \in 1..(Len(t) + 1), NEW d \in 0..Len(t), d - b < w[2] - w[1]
          PROVE  N[<<b, d>>] = M[<<b, d>>]
      <4>1. d - b < k
        BY <1>1, <3>1, <3>2
      <4>2. <<b, d>> \in Short(k)
        BY <4>1 DEF Windows
      <4>3. QED
        BY <2>3, <4>2
    <3> HIDE DEF N
    <3>3. Agree(M, N, t, w[2] - w[1])
      BY <3>2 DEF Agree
    <3>4. QED
      BY <1>1, <3>1, <3>3, ValueFrom
  <2>7. N = [w \in Short(k + 1) |-> N[w]]
    OBVIOUS
  <2>8. \A w \in Short(k + 1) : N[w] = ValueOf(N, t, w[1], w[2])
    BY <2>5, <2>6
  <2> HIDE DEF N, Short
  <2>9. Eq(N, Short(k + 1))
    BY <2>7, <2>8
  <2> HIDE DEF Eq
  <2>10. QED
    BY <2>9
<1>4. \A k \in Nat : k \in Good
  <2> HIDE DEF Good
  <2>1. QED
    BY <1>2, <1>3, SetInduction
<1>5. Short(Len(t) + 1) = W
  BY <1>1 DEF Windows
<1>6. \E M : Eq(M, W)
  <2>1. Len(t) + 1 \in Good
    <3> HIDE DEF Good
    <3> QED BY <1>1, <1>4
  <2> HIDE DEF Short, Eq
  <2>2. QED
    BY <1>5, <2>1
<1>7. Meaning(t) = CHOOSE M : Eq(M, W)
  BY DEF Meaning, ValueOf, Windows
<1>8. Eq(Meaning(t), W)
  <2> HIDE DEF Eq
  <2> QED BY <1>6, <1>7
<1>9. <<a, e>> \in W
  BY DEF Windows
<1>10. QED
  BY <1>8, <1>9

(* The windows of t mean the same when more is read.                        *)
LEMMA MeaningStays ==
  ASSUME NEW t, NEW u, Begins(t, u), NEW a \in 1..(Len(t) + 1), NEW e \in 0..Len(t)
  PROVE  Meaning(u)[<<a, e>>] = Meaning(t)[<<a, e>>]
<1> DEFINE Same(b, d) == Meaning(u)[<<b, d>>] = Meaning(t)[<<b, d>>]
           Good == {k \in Nat : \A b \in 1..(Len(t) + 1), d \in 0..Len(t) : d - b < k => Same(b, d)}
<1>1. /\ Len(t) \in Nat /\ Len(u) \in Nat /\ Len(t) <= Len(u)
      /\ t \in Seq(Token) /\ u \in Seq(Token)
  BY DEF Begins
<1>2. ASSUME NEW k \in Nat, NEW b \in 1..(Len(t) + 1), NEW d \in 0..Len(t), d - b < k,
             Agree(Meaning(t), Meaning(u), t, d - b)
      PROVE  Same(b, d)
  <2>1. ValueOf(Meaning(u), u, b, d) = ValueOf(Meaning(t), t, b, d)
    BY <1>2, ValueFrom
  <2>2. Meaning(t)[<<b, d>>] = ValueOf(Meaning(t), t, b, d)
    BY <1>1, MeaningIs
  <2>3. b \in 1..(Len(u) + 1) /\ d \in 0..Len(u)
    BY <1>1
  <2>4. Meaning(u)[<<b, d>>] = ValueOf(Meaning(u), u, b, d)
    BY <1>1, <2>3, MeaningIs
  <2>5. QED
    BY <2>1, <2>2, <2>4
<1>3. 0 \in Good
  <2>1. ASSUME NEW b \in 1..(Len(t) + 1), NEW d \in 0..Len(t), d - b < 0 PROVE Same(b, d)
    <3>1. b > d
      BY <1>1, <2>1
    <3>2. ValueOf(Meaning(u), u, b, d) = Failed /\ ValueOf(Meaning(t), t, b, d) = Failed
      BY <3>1 DEF ValueOf
    <3>3. b \in 1..(Len(u) + 1) /\ d \in 0..Len(u)
      BY <1>1
    <3>4. QED
      BY <1>1, <3>2, <3>3, MeaningIs
  <2>2. QED
    BY <2>1
<1>4. ASSUME NEW k \in Nat, k \in Good PROVE k + 1 \in Good
  <2>1. ASSUME NEW b \in 1..(Len(t) + 1), NEW d \in 0..Len(t), d - b < k + 1 PROVE Same(b, d)
    <3>1. \A f \in 1..(Len(t) + 1), g \in 0..Len(t) : g - f < d - b => g - f < k
      BY <1>1, <2>1
    <3>2. Agree(Meaning(t), Meaning(u), t, d - b)
      BY <1>4, <3>1 DEF Agree
    <3> HIDE DEF Same
    <3>3. QED
      BY <1>2, <1>4, <2>1, <3>2
  <2>2. QED
    BY <2>1
<1>5. \A k \in Nat : k \in Good
  <2> HIDE DEF Good
  <2>1. QED
    BY <1>3, <1>4, SetInduction
<1>6. Len(t) + 1 \in Good
  <2> HIDE DEF Good
  <2> QED BY <1>1, <1>5
<1>7. e - a < Len(t) + 1
  BY <1>1
<1>8. QED
  BY <1>6, <1>7
-----------------------------------------------------------------------------
(* The tokens from a to e are an operand of value v, whose operators        *)
(* outside parentheses bind q at least.                                     *)

Reads(t, a, e, q, v) ==
  /\ a \in 1..Len(t) /\ e \in a..Len(t) /\ v = Meaning(t)[<<a, e>>]
  /\ Depth(t, e) = Depth(t, a - 1)
  /\ \A i \in a..e : Depth(t, i) >= Depth(t, a - 1)
  /\ \A i \in Outside(t, a, e) : q <= precedence(t[i])

(* They stay one when more is read.                                         *)
LEMMA ReadsStays ==
  ASSUME NEW t, NEW u, Begins(t, u), NEW a, NEW e, NEW q, NEW v, Reads(t, a, e, q, v)
  PROVE  Reads(u, a, e, q, v)
<1>1. /\ Len(t) \in Nat /\ Len(u) \in Nat /\ Len(t) <= Len(u)
      /\ a \in 1..Len(t) /\ e \in a..Len(t) /\ v = Meaning(t)[<<a, e>>]
  BY DEF Begins, Reads
<1>2. a \in 1..(Len(t) + 1) /\ e \in 0..Len(t) /\ a \in 1..Len(u) /\ e \in a..Len(u)
  BY <1>1
<1>3. Meaning(u)[<<a, e>>] = v
  BY <1>1, <1>2, MeaningStays
<1>4. /\ Depth(u, e) = Depth(t, e) /\ Depth(u, a - 1) = Depth(t, a - 1)
      /\ \A i \in a..e : Depth(u, i) = Depth(t, i)
  BY <1>1 DEF Begins
<1>5. Outside(u, a, e) = Outside(t, a, e)
  BY <1>2, SameOutside
<1>6. \A i \in Outside(t, a, e) : u[i] = t[i]
  BY <1>1 DEF Outside, Begins
<1>7. QED
  BY <1>2, <1>3, <1>4, <1>5, <1>6 DEF Reads

(* A number, a byte of the answer: an operand without operators.            *)
LEMMA ReadsAtom ==
  ASSUME NEW t \in Seq(Token), NEW x \in {"x", "0"}
  PROVE  LET m == Len(t) + 1
         IN  Reads(Append(t, x), m, m, 6, IF x = "0" THEN Zero ELSE <<"x", m>>)
<1> DEFINE m == Len(t) + 1
           u == Append(t, x)
<1>1. u \in Seq(Token) /\ Len(u) = m /\ Len(t) \in Nat /\ u[m] = x
  BY OneMore DEF Token
<1> HIDE DEF u
<1>2. x # "(" /\ x # ")" /\ x \notin Operators
  BY Precedence
<1>3. Depth(u, m) = Depth(u, m - 1) /\ Depth(u, m) \in Int
  BY <1>1, <1>2, DepthStep
<1>4. Outside(u, m, m) = {}
  BY <1>1, <1>2 DEF Outside
<1>5. Meaning(u)[<<m, m>>] = ValueOf(Meaning(u), u, m, m)
  BY <1>1, MeaningIs
<1>6. ValueOf(Meaning(u), u, m, m) = IF x = "0" THEN Zero ELSE <<"x", m>>
  BY <1>1, <1>2, <1>4 DEF ValueOf
<1>7. m \in 1..Len(u) /\ m \in m..Len(u) /\ \A i \in m..m : Depth(u, i) >= Depth(u, m - 1)
  BY <1>1, <1>3
<1>8. QED
  BY <1>3, <1>4, <1>5, <1>6, <1>7 DEF Reads, u

(* In parentheses: an operand of the same value, without operators outside. *)
LEMMA ReadsParenthesis ==
  ASSUME NEW t \in Seq(Token), NEW a \in 1..Len(t), t[a] = "(",
         NEW q, NEW v, Reads(t, a + 1, Len(t), q, v)
  PROVE  Reads(Append(t, ")"), a, Len(t) + 1, 6, v)
<1> DEFINE m == Len(t)
           u == Append(t, ")")
<1>1. /\ u \in Seq(Token) /\ Len(u) = m + 1 /\ m \in Nat /\ u[m + 1] = ")"
      /\ \A i \in 1..m : u[i] = t[i]
      /\ \A i \in 0..m : Depth(u, i) = Depth(t, i)
  BY OneMore DEF Token
<1> HIDE DEF u
<1>2. Begins(t, u)
  BY <1>1 DEF Begins
<1>3. Reads(u, a + 1, m, q, v)
  BY <1>2, ReadsStays
<1>4. a + 1 \in 1..m /\ m \in (a + 1)..(m + 1) /\ (a + 1) - 1 = a
  BY <1>1, <1>3 DEF Reads
<1>5. u[a] = "(" /\ Depth(u, a) = Depth(u, a - 1) + 1 /\ Depth(u, a - 1) \in Int
  <2>1. u[a] = "(" /\ a \in Nat \ {0}
    BY <1>1
  <2>2. QED
    BY <2>1, DepthStep
<1>6. /\ \A i \in (a + 1)..m : Depth(u, i) >= Depth(u, a - 1) + 1 /\ Depth(u, i) \in Int
      /\ Depth(u, m) = Depth(u, a - 1) + 1
  <2>1. Depth(u, m) = Depth(u, a) /\ \A i \in (a + 1)..m : Depth(u, i) >= Depth(u, a)
    BY <1>3, <1>4 DEF Reads
  <2>2. QED
    BY <1>5, <2>1, DepthType
<1>7. Depth(u, m + 1) = Depth(u, a - 1)
  <2>1. m + 1 \in Nat \ {0} /\ (m + 1) - 1 = m
    BY <1>1
  <2>2. Depth(u, m + 1) = Depth(u, (m + 1) - 1) + (-1)
    BY <1>1, <2>1, DepthStep
  <2>3. QED
    BY <1>5, <1>6, <2>1, <2>2
<1>8. u[a] \notin Operators /\ u[m + 1] \notin Operators
  BY <1>1, <1>5, Precedence
<1>9. Outside(u, a, m + 1) = {}
  <2>1. ASSUME NEW i \in a..(m + 1), u[i] \in Operators PROVE Depth(u, i) # Depth(u, a - 1)
    <3>1. i \in (a + 1)..m
      BY <1>1, <1>8, <2>1
    <3>2. QED
      BY <1>5, <1>6, <3>1
  <2>2. QED
    BY <2>1 DEF Outside
<1>10. Meaning(u)[<<a, m + 1>>] = ValueOf(Meaning(u), u, a, m + 1)
  BY <1>1, MeaningIs
<1>11. ValueOf(Meaning(u), u, a, m + 1) = Meaning(u)[<<a + 1, m>>]
  <2>1. ~(a > m + 1) /\ (m + 1) - 1 = m
    BY <1>1
  <2>2. QED
    BY <1>5, <1>9, <2>1 DEF ValueOf
<1>12. Meaning(u)[<<a, m + 1>>] = v
  BY <1>3, <1>10, <1>11 DEF Reads
<1>13. \A i \in a..(m + 1) : Depth(u, i) >= Depth(u, a - 1)
  <2>1. \A i \in a..(m + 1) : i = a \/ i = m + 1 \/ i \in (a + 1)..m
    BY <1>1
  <2>2. QED
    BY <1>5, <1>6, <1>7, <2>1
<1>14. a \in 1..Len(u) /\ m + 1 \in a..Len(u)
  BY <1>1
<1>15. QED
  BY <1>7, <1>9, <1>12, <1>13, <1>14 DEF Reads, u

(* Two operands and the operator between them: it is the one applied last,  *)
(* when what is on its right binds more strongly.                           *)
LEMMA ReadsJoined ==
  ASSUME NEW t \in Seq(Token), NEW a, NEW c, NEW e, t[c] \in Operators, NEW l, NEW r, NEW q \in Nat,
         Reads(t, a, c - 1, precedence(t[c]), l), Reads(t, c + 1, e, q, r), c \in Nat,
         precedence(t[c]) < q
  PROVE  Reads(t, a, e, precedence(t[c]), Computes(t[c], l, r))
<1> DEFINE p == precedence(t[c])
<1>1. /\ Len(t) \in Nat /\ a \in 1..Len(t) /\ e \in 1..Len(t) /\ a <= c - 1 /\ c + 1 <= e
      /\ (c + 1) - 1 = c /\ c \in Nat \ {0} /\ p \in 1..5
  BY Precedence DEF Reads
<1>2. Depth(t, c) = Depth(t, c - 1) /\ Depth(t, c) \in Int
  <2>1. t[c] # "(" /\ t[c] # ")"
    BY Precedence
  <2>2. /\ Depth(t, c) \in Int /\ Depth(t, c - 1) \in Int
        /\ Depth(t, c) = Depth(t, c - 1) + (IF t[c] = "(" THEN 1 ELSE IF t[c] = ")" THEN -1 ELSE 0)
    <3>1. c \in Nat \ {0}
      BY <1>1
    <3>2. QED
      BY <3>1, DepthStep
  <2>3. QED
    BY <2>1, <2>2
<1>3. /\ Depth(t, c - 1) = Depth(t, a - 1) /\ Depth(t, e) = Depth(t, c)
      /\ \A i \in a..(c - 1) : Depth(t, i) >= Depth(t, a - 1)
      /\ \A i \in (c + 1)..e : Depth(t, i) >= Depth(t, c)
  BY <1>1 DEF Reads
<1>4. \A i \in a..e : i = c \/ i \in a..(c - 1) \/ i \in (c + 1)..e
  BY <1>1
<1>5. \A i \in a..e : Depth(t, i) >= Depth(t, a - 1)
  BY <1>2, <1>3, <1>4
<1>6. \A i \in Outside(t, a, e) : i = c \/ i \in Outside(t, a, c - 1) \/ i \in Outside(t, c + 1, e)
  BY <1>1, <1>2, <1>3, <1>4 DEF Outside
<1>7. c \in Outside(t, a, e)
  BY <1>1, <1>2, <1>3 DEF Outside
<1>8. \A i \in Outside(t, a, e) : precedence(t[i]) \in 1..5
  BY Precedence DEF Outside
<1>9. \A i \in Outside(t, a, e) : p <= precedence(t[i]) /\ (i > c => p < precedence(t[i]))
  <2> TAKE i \in Outside(t, a, e)
  <2>1. CASE i = c
    BY <1>1, <2>1
  <2>2. CASE i \in Outside(t, a, c - 1)
    <3>1. p <= precedence(t[i]) /\ i \in a..(c - 1)
      BY <2>2 DEF Reads, Outside
    <3>2. QED
      BY <1>1, <3>1
  <2>3. CASE i \in Outside(t, c + 1, e)
    <3>1. q <= precedence(t[i])
      BY <2>3 DEF Reads
    <3>2. QED
      BY <1>1, <1>8, <3>1
  <2>4. QED
    BY <1>6, <2>1, <2>2, <2>3
<1>10. AppliedLast(t, a, e) = c
  <2>1. c \in Weakest(t, a, e)
    BY <1>7, <1>9 DEF Weakest
  <2>2. ASSUME NEW i \in Weakest(t, a, e) PROVE i <= c
    <3>1. i \in Outside(t, a, e) /\ precedence(t[i]) <= p /\ i \in Int
      BY <1>7, <2>2 DEF Weakest, Outside
    <3>2. ~(i > c)
      BY <1>1, <1>8, <1>9, <3>1
    <3>3. QED
      BY <1>1, <3>1, <3>2
  <2>3. QED
    BY <1>1, <2>1, <2>2, AppliedLastIs
<1>11. Meaning(t)[<<a, e>>] = ValueOf(Meaning(t), t, a, e)
  BY <1>1, MeaningIs
<1>12. ValueOf(Meaning(t), t, a, e) =
         Computes(t[c], Meaning(t)[<<a, c - 1>>], Meaning(t)[<<c + 1, e>>])
  BY <1>1, <1>7, <1>10 DEF ValueOf
<1>13. Meaning(t)[<<a, e>>] = Computes(t[c], l, r)
  BY <1>11, <1>12 DEF Reads
<1>14. a \in 1..Len(t) /\ e \in a..Len(t) /\ Depth(t, e) = Depth(t, a - 1)
  BY <1>1, <1>2, <1>3
<1>15. QED
  BY <1>5, <1>9, <1>13, <1>14 DEF Reads
-----------------------------------------------------------------------------
(* How the stacks lie over the text: p[i] is where the i'th operator on the *)
(* stack stands, and o[i] how many operands lie below what is on its right. *)

Placed(t, U, O, p, o, i) ==
  /\ p[i] \in 1..Len(t) /\ t[p[i]] = O[i] /\ Depth(t, p[i]) = i - o[i]
  /\ \/ O[i] = "(" /\ p[i] = p[i - 1] + 1 /\ o[i] = o[i - 1]
     \/ /\ O[i] \in Operators /\ o[i] = o[i - 1] + 1
        /\ Reads(t, p[i - 1] + 1, p[i] - 1, precedence(O[i]), U[o[i]])
        /\ i > 1 => precedence(O[i - 1]) < precedence(O[i])

Layout(t, U, O, p, o) ==
  /\ t \in Seq(Token) /\ O \in Seq(Operators \cup {"("}) /\ p \in [Nat -> Nat] /\ o \in [Nat -> Nat]
  /\ p[0] = 0 /\ o[0] = 0
  /\ \A i \in 1..Len(O) : Placed(t, U, O, p, o, i)
  /\ \A i, k \in 0..Len(O) : i <= k => o[i] <= o[k]

\* What stands on the right of the operator on the top.
Waiting(t, U, O, p, o) == p[Len(O)] = Len(t) /\ Len(U) = o[Len(O)]
Done(t, U, O, p, o) ==
  /\ Len(U) = o[Len(O)] + 1 /\ Reads(t, p[Len(O)] + 1, Len(t), 6, U[Len(U)])
  /\ t[Len(t)] \notin Operators \cup {"("}

(* The types of what lies over a text.                                      *)
LEMMA LayoutTypes ==
  ASSUME NEW t, NEW U, NEW O, NEW p, NEW o, Layout(t, U, O, p, o)
  PROVE  /\ Len(t) \in Nat /\ Len(O) \in Nat /\ t \in Seq(Token) /\ O \in Seq(Operators \cup {"("})
         /\ p \in [Nat -> Nat] /\ o \in [Nat -> Nat] /\ p[0] = 0 /\ o[0] = 0
         /\ \A i \in Nat : p[i] \in Nat /\ o[i] \in Nat
<1>1. t \in Seq(Token) /\ O \in Seq(Operators \cup {"("})
  BY DEF Layout
<1>2. p \in [Nat -> Nat] /\ o \in [Nat -> Nat] /\ p[0] = 0 /\ o[0] = 0
  BY DEF Layout
<1>3. Len(t) \in Nat /\ Len(O) \in Nat
  BY <1>1, LenProperties
<1>4. QED
  BY <1>1, <1>2, <1>3

\* N and O have the same first k elements.
SameTo(N, O, k) == \A i \in 1..k : N[i] = O[i]

(* The lower part of the stacks keeps its places when more is read.         *)
LEMMA LayoutKeeps ==
  ASSUME NEW t, NEW U, NEW O, NEW p, NEW o, Layout(t, U, O, p, o), NEW u, Begins(t, u),
         NEW j \in 0..Len(O), NEW N \in Seq(Operators \cup {"("}), Len(N) = j,
         SameTo(N, O, j), NEW V, SameTo(V, U, o[j])
  PROVE  Layout(u, V, N, p, o)
<1>1. /\ Len(O) \in Nat /\ j \in Nat /\ j <= Len(O) /\ Len(t) \in Nat /\ Len(u) \in Nat
      /\ Len(t) <= Len(u) /\ u \in Seq(Token)
  <2>1. Len(O) \in Nat /\ Len(t) \in Nat
    BY LayoutTypes
  <2>2. u \in Seq(Token) /\ Len(t) <= Len(u)
    BY DEF Begins
  <2>3. Len(u) \in Nat
    BY <2>2, LenProperties
  <2>4. QED
    BY <2>1, <2>2, <2>3
<1>2. \A i \in 0..j : i \in 0..Len(O) /\ o[i] \in Nat /\ p[i] \in Nat
  <2>1. \A i \in Nat : p[i] \in Nat /\ o[i] \in Nat
    BY LayoutTypes
  <2>2. QED
    BY <1>1, <2>1
<1>3. ASSUME NEW i \in 1..j PROVE Placed(u, V, N, p, o, i)
  <2>1. i \in 1..Len(O) /\ i - 1 \in 0..j /\ i \in 0..j
    BY <1>1
  <2>2. Placed(t, U, O, p, o, i) /\ o[i] <= o[j]
    BY <1>1, <2>1 DEF Layout
  <2>3. /\ p[i] \in 1..Len(t) /\ p[i] \in 1..Len(u) /\ u[p[i]] = t[p[i]]
        /\ Depth(u, p[i]) = Depth(t, p[i])
    BY <1>1, <2>2 DEF Placed, Begins
  <2>4. N[i] = O[i] /\ (i > 1 => N[i - 1] = O[i - 1])
    BY <1>1 DEF SameTo
  <2>5. CASE O[i] = "("
    <3>1. O[i] \notin Operators
      BY <2>5, Precedence
    <3>2. QED
      BY <2>2, <2>3, <2>4, <2>5, <3>1 DEF Placed
  <2>6. CASE O[i] \in Operators /\ O[i] # "("
    <3>1. /\ o[i] = o[i - 1] + 1 /\ Reads(t, p[i - 1] + 1, p[i] - 1, precedence(O[i]), U[o[i]])
          /\ i > 1 => precedence(O[i - 1]) < precedence(O[i])
      BY <2>2, <2>6 DEF Placed
    <3>2. V[o[i]] = U[o[i]]
      BY <1>2, <2>1, <2>2, <3>1 DEF SameTo
    <3>3. Reads(u, p[i - 1] + 1, p[i] - 1, precedence(O[i]), U[o[i]])
      BY <3>1, ReadsStays
    <3>4. QED
      BY <2>2, <2>3, <2>4, <2>6, <3>1, <3>2, <3>3 DEF Placed
  <2>7. QED
    BY <2>2, <2>5, <2>6 DEF Placed
<1>4. \A i, k \in 0..Len(N) : i <= k => o[i] <= o[k]
  BY <1>1, <1>2 DEF Layout
<1>5. QED
  BY <1>1, <1>3, <1>4 DEF Layout

(* An operator goes onto the stack where it is read.                        *)
LEMMA LayoutPushes ==
  ASSUME NEW t, NEW U, NEW O, NEW p, NEW o, Layout(t, U, O, p, o),
         NEW y \in Operators \cup {"("}, NEW d \in Nat, o[Len(O)] <= d, NEW s \in Nat,
         LET n == Len(O) + 1
         IN  Placed(t, U, Append(O, y), [p EXCEPT ![n] = s], [o EXCEPT ![n] = d], n)
  PROVE  LET n == Len(O) + 1
         IN  Layout(t, U, Append(O, y), [p EXCEPT ![n] = s], [o EXCEPT ![n] = d])
<1> DEFINE n == Len(O) + 1
           N == Append(O, y)
           q == [p EXCEPT ![n] = s]
           r == [o EXCEPT ![n] = d]
<1>0. Len(O) \in Nat /\ O \in Seq(Operators \cup {"("}) /\ p \in [Nat -> Nat] /\ o \in [Nat -> Nat]
  BY LayoutTypes
<1>1. /\ Len(O) \in Nat /\ n \in Nat /\ N \in Seq(Operators \cup {"("}) /\ Len(N) = n
      /\ \A i \in 1..Len(O) : N[i] = O[i]
  BY <1>0
<1>2. /\ q \in [Nat -> Nat] /\ r \in [Nat -> Nat] /\ q[n] = s /\ r[n] = d
      /\ \A i \in 0..Len(O) : q[i] = p[i] /\ r[i] = o[i]
  <2>1. n \in Nat /\ \A i \in 0..Len(O) : i \in Nat /\ i # n
    <3>1. Len(O) \in Nat
      BY <1>0
    <3>2. QED
      BY <3>1
  <2> HIDE DEF n
  <2>2. q \in [Nat -> Nat] /\ q[n] = s /\ \A i \in Nat : i # n => q[i] = p[i]
    BY <1>0, <2>1
  <2>3. r \in [Nat -> Nat] /\ r[n] = d /\ \A i \in Nat : i # n => r[i] = o[i]
    BY <1>0, <2>1
  <2>4. QED
    BY <2>1, <2>2, <2>3
<1>3. Placed(t, U, N, q, r, n)
  OBVIOUS
<1> HIDE DEF N, q, r
<1>4. ASSUME NEW i \in 1..Len(O) PROVE Placed(t, U, N, q, r, i)
  <2>1. i \in 0..Len(O) /\ i - 1 \in 0..Len(O)
    BY <1>1
  <2>2. /\ q[i] = p[i] /\ r[i] = o[i] /\ q[i - 1] = p[i - 1] /\ r[i - 1] = o[i - 1] /\ N[i] = O[i]
        /\ i > 1 => N[i - 1] = O[i - 1]
    <3>1. q[i] = p[i] /\ r[i] = o[i] /\ q[i - 1] = p[i - 1] /\ r[i - 1] = o[i - 1]
      BY <1>2, <2>1
    <3>2. i > 1 => i - 1 \in 1..Len(O)
      BY <1>1
    <3>3. QED
      BY <1>1, <3>1, <3>2
  <2>3. Placed(t, U, O, p, o, i)
    BY DEF Layout
  <2>4. QED
    BY <2>2, <2>3 DEF Placed
<1>5. \A i \in 1..Len(N) : i = n \/ i \in 1..Len(O)
  BY <1>1
<1>6. \A i, k \in 0..Len(N) : i <= k => r[i] <= r[k]
  <2> TAKE i, k \in 0..Len(N)
  <2> HAVE i <= k
  <2>1. CASE k = n /\ i = n
    BY <1>2, <2>1
  <2>2. CASE k = n /\ i # n
    <3>1. i \in 0..Len(O) /\ Len(O) \in 0..Len(O) /\ i <= Len(O)
      BY <1>1, <2>2
    <3>2. o[i] <= o[Len(O)] /\ o[i] \in Nat /\ o[Len(O)] \in Nat
      BY <3>1 DEF Layout
    <3>3. r[i] = o[i] /\ r[k] = d
      BY <1>2, <2>2, <3>1
    <3>4. QED
      BY <3>2, <3>3
  <2>3. CASE k # n
    <3>1. i \in 0..Len(O) /\ k \in 0..Len(O)
      BY <1>1, <2>3
    <3>2. QED
      BY <1>2, <3>1 DEF Layout
  <2>4. QED
    BY <2>1, <2>2, <2>3
<1>7. q[0] = 0 /\ r[0] = 0
  BY <1>1, <1>2 DEF Layout
<1>8. Layout(t, U, N, q, r)
  BY <1>1, <1>2, <1>3, <1>4, <1>5, <1>6, <1>7 DEF Layout
<1>9. QED
  BY <1>8 DEF N, q, r

\* How strongly the operator binds that comes after the first i.
Above(O, i) == IF i < Len(O) THEN precedence(O[i + 1]) ELSE 6

\* What stands on the right of the i'th operator, to the end.
OnRight(t, p, i) == Meaning(t)[<<p[i] + 1, Len(t)>>]

\* Above the first j there are operators only.
NoneOpen(O, j) == \A i \in (j + 1)..Len(O) : O[i] \in Operators

\* Applied from the top down to the j'th, the operators give that.
Climbs(t, U, O, p, o, j) ==
  \A i \in (j + 1)..Len(O) : OnRight(t, p, i - 1) = Computes(O[i], U[o[i]], OnRight(t, p, i))

(* From the top down, what is on the right of each operator is an operand,  *)
(* as far as there is no open parenthesis.                                  *)
LEMMA Climb ==
  ASSUME NEW t, NEW U, NEW O, NEW p, NEW o, Layout(t, U, O, p, o), NEW v,
         Reads(t, p[Len(O)] + 1, Len(t), 6, v),
         NEW j \in 0..Len(O), NoneOpen(O, j)
  PROVE  /\ OnRight(t, p, Len(O)) = v
         /\ Reads(t, p[j] + 1, Len(t), Above(O, j), OnRight(t, p, j))
         /\ Climbs(t, U, O, p, o, j)
<1> DEFINE n == Len(O)
           h(i) == OnRight(t, p, i)
           Right(i) == Reads(t, p[i] + 1, Len(t), Above(O, i), h(i))
           Good == {k \in Nat : k <= n - j => Right(n - k)}
<1>1. n \in Nat /\ j \in Nat /\ j <= n /\ t \in Seq(Token)
  BY LayoutTypes
<1>2. h(n) = v
  BY DEF Reads, OnRight
<1>3. ASSUME NEW i \in (j + 1)..n, Right(i)
      PROVE  Right(i - 1) /\ h(i - 1) = Computes(O[i], U[o[i]], h(i))
  <2>1. i \in 1..n /\ O[i] \in Operators /\ O[i] # "(" /\ i \in Nat
    BY <1>1, Precedence DEF NoneOpen
  <2>2. Placed(t, U, O, p, o, i)
    BY <2>1 DEF Layout
  <2>3. /\ p[i] \in Nat /\ t[p[i]] = O[i]
        /\ Reads(t, p[i - 1] + 1, p[i] - 1, precedence(t[p[i]]), U[o[i]])
    BY <2>1, <2>2 DEF Placed
  <2>4. Above(O, i) \in Nat /\ precedence(O[i]) < Above(O, i)
    <3>1. CASE i < n
      <4>1. i + 1 \in 1..n /\ (i + 1) - 1 = i /\ i + 1 > 1 /\ i + 1 \in (j + 1)..n
        BY <1>1, <2>1, <3>1
      <4>2. O[i + 1] \in Operators /\ O[i + 1] # "("
        BY <4>1, Precedence DEF NoneOpen
      <4>3. Placed(t, U, O, p, o, i + 1)
        BY <4>1 DEF Layout
      <4>4. precedence(O[i]) < precedence(O[i + 1])
        BY <4>1, <4>2, <4>3 DEF Placed
      <4>5. precedence(O[i + 1]) \in Nat
        BY <4>2, Precedence
      <4>6. QED
        BY <3>1, <4>4, <4>5 DEF Above
    <3>2. CASE ~(i < n)
      <4>1. precedence(O[i]) \in 1..5
        BY <2>1, Precedence
      <4>2. QED
        BY <3>2, <4>1 DEF Above
    <3>3. QED
      BY <3>1, <3>2
  <2>5. Reads(t, p[i - 1] + 1, Len(t), precedence(t[p[i]]), Computes(t[p[i]], U[o[i]], h(i)))
    <3> HIDE DEF h
    <3>1. t[p[i]] \in Operators /\ precedence(t[p[i]]) < Above(O, i)
      BY <2>1, <2>3, <2>4
    <3>2. QED
      BY <1>1, <1>3, <2>3, <2>4, <3>1, ReadsJoined
  <2>6. h(i - 1) = Computes(O[i], U[o[i]], h(i))
    BY <2>3, <2>5 DEF Reads, OnRight
  <2>7. Above(O, i - 1) = precedence(O[i])
    BY <1>1, <2>1 DEF Above
  <2>8. QED
    BY <2>3, <2>5, <2>6, <2>7
<1>4. 0 \in Good
  <2>1. Above(O, n) = 6 /\ n - 0 = n
    BY <1>1 DEF Above
  <2>2. Right(n)
    BY <1>2, <2>1
  <2>3. QED
    BY <2>1, <2>2
<1>5. ASSUME NEW k \in Nat, k \in Good PROVE k + 1 \in Good
  <2>1. SUFFICES ASSUME k + 1 <= n - j PROVE Right(n - (k + 1))
    OBVIOUS
  <2>2. n - k \in (j + 1)..n /\ (n - k) - 1 = n - (k + 1) /\ k <= n - j
    BY <1>1, <2>1
  <2> HIDE DEF Right, h
  <2>3. Right(n - k)
    BY <1>5, <2>2
  <2>4. Right((n - k) - 1)
    BY <1>3, <2>2, <2>3
  <2>5. QED
    BY <2>2, <2>4
<1>6. \A k \in Nat : k \in Good
  <2> HIDE DEF Good
  <2>1. QED
    BY <1>4, <1>5, SetInduction
<1>7. ASSUME NEW i \in j..n PROVE Right(i)
  <2>1. n - i \in Nat /\ n - i <= n - j /\ n - (n - i) = i
    BY <1>1
  <2> HIDE DEF Right, h
  <2>2. Right(n - (n - i))
    BY <1>6, <2>1
  <2>3. QED
    BY <2>1, <2>2
<1>8. \A i \in (j + 1)..n : i \in j..n
  BY <1>1
<1>9. \A i \in (j + 1)..n : h(i - 1) = Computes(O[i], U[o[i]], h(i))
  <2> HIDE DEF Right
  <2> QED BY <1>3, <1>7, <1>8
<1>10. Right(j)
  BY <1>1, <1>7
<1>11. QED
  BY <1>2, <1>9, <1>10 DEF Climbs
-----------------------------------------------------------------------------
(* Operators are applied by a fold, which has a run.                        *)

ApplyRun(g, c, s) ==
  /\ DOMAIN g = 0..Len(s) /\ g[0] = c
  /\ \A k \in 1..Len(s) : g[k] = Apply(g[k - 1], s[k])

(* The run exists, and ends where the operators lead to.                    *)
LEMMA ApplyRuns ==
  ASSUME NEW S, NEW s \in Seq(S), NEW c
  PROVE  \E g : ApplyRun(g, c, s) /\ FoldLeft(Apply, c, s) = g[Len(s)]
<1> DEFINE n == Len(s)
           Eq(g, k) == g = [t \in SUBSET (1..k) |->
                              IF t = {} THEN c ELSE Apply(g[t \ {Max(t)}], s[Max(t)])]
           Good == {k \in Nat : \E g : Eq(g, k)}
<1>n. n \in Nat /\ DOMAIN s = 1..n
  OBVIOUS
<1>1. 0 \in Good
  <2> DEFINE g == [t \in SUBSET (1..0) |-> c]
  <2>1. \A t \in SUBSET (1..0) : t = {}
    OBVIOUS
  <2>2. Eq(g, 0)
    BY <2>1
  <2> HIDE DEF Eq
  <2>3. QED
    BY <2>2
<1>2. ASSUME NEW k \in Nat, k \in Good PROVE k + 1 \in Good
  <2>1. PICK g : Eq(g, k)
    BY <1>2
  <2> DEFINE h == [t \in SUBSET (1..(k + 1)) |->
                     IF (k + 1) \in t THEN Apply(g[t \ {k + 1}], s[k + 1]) ELSE g[t]]
  <2>2. ASSUME NEW t \in SUBSET (1..(k + 1)), (k + 1) \notin t
        PROVE  h[t] = IF t = {} THEN c ELSE Apply(h[t \ {Max(t)}], s[Max(t)])
    <3>1. t \in SUBSET (1..k) /\ t \ {Max(t)} \in SUBSET (1..k)
      <4>1. \A x \in 1..(k + 1) : x # k + 1 => x \in 1..k
        OBVIOUS
      <4> HIDE DEF h
      <4>2. t \subseteq 1..k
        BY <2>2, <4>1
      <4>3. QED
        BY <4>2
    <3>2. h[t] = g[t]
      BY <2>2
    <3>3. h[t \ {Max(t)}] = g[t \ {Max(t)}]
      BY <2>2, <3>1
    <3>4. g[t] = IF t = {} THEN c ELSE Apply(g[t \ {Max(t)}], s[Max(t)])
      BY <2>1, <3>1
    <3>5. QED
      BY <3>2, <3>3, <3>4
  <2>3. ASSUME NEW t \in SUBSET (1..(k + 1)), (k + 1) \in t
        PROVE  h[t] = IF t = {} THEN c ELSE Apply(h[t \ {Max(t)}], s[Max(t)])
    <3>1. Max(t) = k + 1
      BY <2>3, MaxOf
    <3>2. t \ {k + 1} \in SUBSET (1..(k + 1)) /\ (k + 1) \notin t \ {k + 1}
      OBVIOUS
    <3>3. h[t \ {k + 1}] = g[t \ {k + 1}]
      BY <3>2
    <3>4. QED
      BY <2>3, <3>1, <3>3
  <2>4. Eq(h, k + 1)
    BY <2>2, <2>3
  <2> HIDE DEF h, Eq
  <2>5. QED
    BY <2>4
<1>3. \A k \in Nat : k \in Good
  <2> HIDE DEF Good
  <2>1. QED
    BY <1>1, <1>2, SetInduction
<1> DEFINE it == CHOOSE g : Eq(g, n)
<1>4. Eq(it, n)
  <2>1. \E g : Eq(g, n)
    BY <1>3, <1>n
  <2> HIDE DEF Eq
  <2>2. QED
    BY <2>1
<1>5. FoldLeft(Apply, c, s) = it[1..n]
  BY <1>n DEF FoldLeft, MapThenFoldSet
<1> HIDE DEF it
<1> DEFINE g == [k \in 0..n |-> it[1..k]]
<1>6. g[0] = c
  BY <1>4, <1>n
<1>7. ASSUME NEW k \in 1..n PROVE g[k] = Apply(g[k - 1], s[k])
  <2> HIDE DEF n
  <2>1. 1..k \in SUBSET (1..n) /\ 1..k # {} /\ k \in 1..k /\ 1..k \in SUBSET (1..k) /\ k \in Nat
    <3>1. k \in Nat /\ k <= n /\ 1 <= k
      BY <1>n
    <3>2. 1..k \subseteq 1..n /\ k \in 1..k
      BY <3>1, <1>n
    <3>3. QED
      BY <3>1, <3>2
  <2>2. Max(1..k) = k
    BY <2>1, MaxOf
  <2>3. (1..k) \ {k} = 1..(k - 1)
    BY <1>n
  <2>4. it[1..k] = Apply(it[1..(k - 1)], s[k])
    BY <1>4, <2>1, <2>2, <2>3
  <2>6. QED
    BY <2>4, <1>n
<1>8. n \in 0..n /\ g[n] = it[1..n] /\ DOMAIN g = 0..n
  BY <1>n
<1> HIDE DEF g
<1>9. ApplyRun(g, c, s)
  BY <1>6, <1>7, <1>8 DEF ApplyRun
<1>10. QED
  BY <1>5, <1>8, <1>9

(* The beginning of a sequence, and what is added to it.                    *)
LEMMA Beginning ==
  ASSUME NEW S, NEW s \in Seq(S), NEW k \in 0..Len(s)
  PROVE  /\ SubSeq(s, 1, k) \in Seq(S) /\ Len(SubSeq(s, 1, k)) = k
         /\ \A i \in 1..k : SubSeq(s, 1, k)[i] = s[i]
<1>1. Len(s) \in Nat /\ k \in Nat /\ k \in Int /\ 1 \in Int
  BY LenProperties
<1>2. \A i \in 1..k : s[i] \in S
  BY <1>1, ElementOfSeq
<1>3. /\ SubSeq(s, 1, k) \in Seq(S) /\ Len(SubSeq(s, 1, k)) = IF 1 <= k THEN k - 1 + 1 ELSE 0
      /\ \A i \in 1..(k - 1 + 1) : SubSeq(s, 1, k)[i] = s[1 + i - 1]
  BY <1>1, <1>2, SubSeqProperties
<1>4. \A i \in 1..k : SubSeq(s, 1, k)[i] = s[i]
  <2> TAKE i \in 1..k
  <2>1. i \in 1..(k - 1 + 1) /\ 1 + i - 1 = i
    BY <1>1
  <2>2. QED
    BY <1>3, <2>1
<1>5. QED
  BY <1>1, <1>3, <1>4

(* A sequence with one element added.                                       *)
LEMMA Added ==
  ASSUME NEW S, NEW s \in Seq(S), NEW v
  PROVE  /\ Append(s, v) \in Seq(S \cup {v}) /\ Len(Append(s, v)) = Len(s) + 1 /\ Len(s) \in Nat
         /\ Append(s, v)[Len(s) + 1] = v
         /\ \A i \in 1..Len(s) : Append(s, v)[i] = s[i]
<1>1. s \in Seq(S \cup {v})
  BY SeqMonotonic
<1>2. QED
  BY <1>1

(* A stack with something on it: its top, and what is below.                *)
LEMMA OnTop ==
  ASSUME NEW S, NEW s \in Seq(S), NEW v
  PROVE  Append(s, v) # <<>> /\ Top(Append(s, v)) = v /\ Pop(Append(s, v)) = s
<1> DEFINE u == Append(s, v)
<1>1. /\ u \in Seq(S \cup {v}) /\ Len(u) = Len(s) + 1 /\ Len(s) \in Nat /\ u[Len(s) + 1] = v
      /\ \A i \in 1..Len(s) : u[i] = s[i]
  BY Added
<1>2. u # <<>>
  BY <1>1
<1> HIDE DEF u
<1>3. Top(u) = v
  BY <1>1, <1>2 DEF Top, Last
<1>4. Pop(u) = SubSeq(u, 1, Len(s))
  <2>1. Len(u) - 1 = Len(s)
    BY <1>1
  <2>2. QED
    BY <1>2, <2>1 DEF Pop, Front
<1>5. /\ SubSeq(u, 1, Len(s)) \in Seq(S \cup {v}) /\ Len(SubSeq(u, 1, Len(s))) = Len(s)
      /\ \A i \in 1..Len(s) : SubSeq(u, 1, Len(s))[i] = s[i]
  <2>1. Len(s) \in 0..Len(u)
    BY <1>1
  <2>2. QED
    BY <1>1, <2>1, Beginning
<1>6. s \in Seq(S \cup {v})
  BY SeqMonotonic
<1>7. SubSeq(u, 1, Len(s)) = s
  BY <1>5, <1>6, SeqEqual
<1>8. QED
  BY <1>2, <1>3, <1>4, <1>7 DEF u

(* A stack whose top has not failed is not the failed one.                  *)
LEMMA NotFailed ==
  ASSUME NEW S, NEW s \in Seq(S), NEW v, v # Failed
  PROVE  Append(s, v) # <<Failed>>
<1> DEFINE u == Append(s, v)
<1>1. u # <<>> /\ Top(u) = v
  BY OnTop
<1>2. <<Failed>> # <<>> /\ Top(<<Failed>>) = Failed
  BY DEF Top, Last
<1> HIDE DEF u
<1>3. u # <<Failed>>
  BY <1>1, <1>2
<1>4. QED
  BY <1>3 DEF u

(* The first k of them: the last of these, on the ones before.              *)
LEMMA BeginningGrows ==
  ASSUME NEW S, NEW s \in Seq(S), NEW k \in 1..Len(s)
  PROVE  SubSeq(s, 1, k) = Append(SubSeq(s, 1, k - 1), s[k])
<1> DEFINE a == SubSeq(s, 1, k)
           b == SubSeq(s, 1, k - 1)
<1>1. Len(s) \in Nat /\ k \in Nat /\ k \in 0..Len(s) /\ k - 1 \in 0..Len(s)
  BY LenProperties
<1>2. a \in Seq(S) /\ Len(a) = k /\ \A i \in 1..k : a[i] = s[i]
  BY <1>1, Beginning
<1>3. b \in Seq(S) /\ Len(b) = k - 1 /\ \A i \in 1..(k - 1) : b[i] = s[i]
  BY <1>1, Beginning
<1>4. s[k] \in S
  BY ElementOfSeq
<1> HIDE DEF a, b
<1>5. /\ Append(b, s[k]) \in Seq(S) /\ Len(Append(b, s[k])) = k
      /\ \A i \in 1..k : Append(b, s[k])[i] = s[i]
  <2>1. Append(b, s[k]) \in Seq(S) /\ Len(Append(b, s[k])) = Len(b) + 1
    BY <1>3, <1>4, AppendProperties
  <2>2. /\ Append(b, s[k])[Len(b) + 1] = s[k]
        /\ \A i \in 1..Len(b) : Append(b, s[k])[i] = b[i]
    BY <1>3, Added
  <2>3. \A i \in 1..k : i = k \/ i \in 1..(k - 1)
    BY <1>1
  <2>4. Len(b) + 1 = k
    BY <1>1, <1>3
  <2>5. QED
    BY <1>3, <2>1, <2>2, <2>3, <2>4
<1>6. QED
  BY <1>2, <1>5, SeqEqual DEF a, b

(* The operands of which the first k are left, below the value v.           *)
StackOf(U, k, v) == IF v = Failed THEN <<Failed>> ELSE Append(SubSeq(U, 1, k), v)

(* One operator applied to the two operands on the top.                     *)
LEMMA ApplyTwo ==
  ASSUME NEW S, NEW U \in Seq(S), Failed \notin S, NEW k \in 1..Len(U), NEW op \in Operators, NEW v
  PROVE  Apply(StackOf(U, k, v), op) = StackOf(U, k - 1, Computes(op, U[k], v))
<1> DEFINE w == Computes(op, U[k], v)
           low == SubSeq(U, 1, k - 1)
           mid == SubSeq(U, 1, k)
           stack == Append(mid, v)
<1>1. U[k] \in S /\ U[k] # Failed
  BY ElementOfSeq
<1>2. CASE v = Failed
  <2>1. w = Failed
    BY <1>2 DEF Computes
  <2>2. Apply(<<Failed>>, op) = <<Failed>>
    BY DEF Apply
  <2>3. QED
    BY <1>2, <2>1, <2>2 DEF StackOf
<1>3. CASE v # Failed
  <2>1. k \in 0..Len(U) /\ k - 1 \in 0..Len(U) /\ k \in Nat
    BY LenProperties
  <2>2. low \in Seq(S) /\ mid \in Seq(S) /\ Len(mid) = k /\ mid = Append(low, U[k])
    BY <2>1, Beginning, BeginningGrows
  <2> HIDE DEF low, mid
  <2>3. stack # <<>> /\ Top(stack) = v /\ Pop(stack) = mid
    BY <2>2, OnTop
  <2>4. Top(mid) = U[k] /\ Pop(mid) = low
    BY <2>2, OnTop
  <2>5. stack # <<Failed>>
    BY <1>3, <2>2, NotFailed
  <2>6. op # "("
    BY Precedence
  <2>7. <<op, U[k], v>> # Failed
    BY DEF Failed
  <2>8. Combined(op, U[k], v) = w
    BY <1>1, <1>3, <2>6, <2>7 DEF Combined, Computes
  <2> HIDE DEF stack, w
  <2>9. Apply(stack, op) = IF w = Failed THEN <<Failed>> ELSE Append(low, w)
    BY <2>3, <2>4, <2>5, <2>8 DEF Apply
  <2>10. QED
    BY <1>3, <2>9 DEF stack, w, low, mid, StackOf
<1>4. QED
  BY <1>2, <1>3
-----------------------------------------------------------------------------
(* What is left when the operators above the j'th have been applied.        *)
LEMMA ReducedIs ==
  ASSUME NEW S, operands \in Seq(S), Failed \notin S, NEW p, NEW o,
         Layout(text, operands, operators, p, o), Done(text, operands, operators, p, o),
         NEW j \in 0..Len(operators), NoneOpen(operators, j)
  PROVE  Reduced(j) = StackOf(operands, o[j], OnRight(text, p, j))
<1> DEFINE n == Len(operators)
           h(i) == OnRight(text, p, i)
           Stack(i) == StackOf(operands, o[i], h(i))
           above == SubSeq(operators, j + 1, n)
           s == Reverse(above)
<1>1. /\ n \in Nat /\ j \in Nat /\ j <= n /\ operators \in Seq(Operators \cup {"("})
      /\ \A i \in Nat : o[i] \in Nat
  <2>1. n \in Nat /\ operators \in Seq(Operators \cup {"("}) /\ \A i \in Nat : o[i] \in Nat
    BY LayoutTypes
  <2>2. QED
    BY <2>1
<1>2. Len(operands) = o[n] + 1 /\ Reads(text, p[n] + 1, Len(text), 6, operands[Len(operands)])
  BY DEF Done
<1>3. /\ h(n) = operands[Len(operands)]
      /\ \A i \in (j + 1)..n : h(i - 1) = Computes(operators[i], operands[o[i]], h(i))
  <2>1. OnRight(text, p, n) = operands[Len(operands)] /\ Climbs(text, operands, operators, p, o, j)
    BY <1>2, Climb
  <2>2. QED
    BY <2>1 DEF Climbs
<1>4. Stack(n) = operands
  <2>1. o[n] + 1 \in 1..Len(operands) /\ (o[n] + 1) - 1 = o[n]
    BY <1>1, <1>2
  <2>2. h(n) \in S
    BY <1>2, <1>3, <2>1, ElementOfSeq
  <2> HIDE DEF h
  <2>3. SubSeq(operands, 1, o[n] + 1) = Append(SubSeq(operands, 1, o[n]), operands[o[n] + 1])
    BY <2>1, BeginningGrows
  <2>4. SubSeq(operands, 1, o[n] + 1) = operands
    BY <1>2, SubSeqFull
  <2>5. QED
    BY <1>2, <1>3, <2>2, <2>3, <2>4 DEF StackOf
<1>5. ASSUME NEW i \in (j + 1)..n PROVE Apply(Stack(i), operators[i]) = Stack(i - 1)
  <2>1. i \in 1..n /\ i \in Nat /\ i - 1 \in Nat /\ operators[i] \in Operators /\ operators[i] # "("
    BY <1>1, Precedence DEF NoneOpen
  <2>2. Placed(text, operands, operators, p, o, i) /\ o[i] <= o[n]
    BY <1>1, <2>1 DEF Layout
  <2>3. o[i] = o[i - 1] + 1
    BY <2>1, <2>2 DEF Placed
  <2>4. o[i] \in 1..Len(operands) /\ o[i] - 1 = o[i - 1]
    <3>1. o[i] \in Nat /\ o[i - 1] \in Nat /\ o[n] \in Nat
      BY <1>1, <2>1
    <3>2. QED
      BY <1>2, <2>2, <2>3, <3>1
  <2>5. h(i - 1) = Computes(operators[i], operands[o[i]], h(i))
    BY <1>3
  <2> HIDE DEF h
  <2>6. Apply(Stack(i), operators[i]) =
          StackOf(operands, o[i] - 1, Computes(operators[i], operands[o[i]], h(i)))
    BY <2>1, <2>4, ApplyTwo
  <2>7. QED
    BY <2>4, <2>5, <2>6
<1>6. /\ s \in Seq(Operators \cup {"("}) /\ Len(s) = n - j
      /\ \A k \in 1..(n - j) : s[k] = operators[n + 1 - k]
  <2>1. /\ above \in Seq(Operators \cup {"("}) /\ Len(above) = n - j
        /\ \A k \in 1..(n - j) : above[k] = operators[j + k]
    <3>1. \A k \in (j + 1)..n : operators[k] \in Operators \cup {"("}
      BY DEF NoneOpen
    <3>2. j + 1 \in Int /\ n \in Int
      BY <1>1
    <3>3. /\ above \in Seq(Operators \cup {"("})
          /\ Len(above) = IF j + 1 <= n THEN n - (j + 1) + 1 ELSE 0
          /\ \A k \in 1..(n - (j + 1) + 1) : above[k] = operators[j + 1 + k - 1]
      BY <3>1, <3>2, SubSeqProperties
    <3>4. n - (j + 1) + 1 = n - j /\ \A k \in 1..(n - j) : j + 1 + k - 1 = j + k
      BY <1>1
    <3>5. Len(above) = n - j
      BY <1>1, <3>3
    <3>6. ASSUME NEW k \in 1..(n - j) PROVE above[k] = operators[j + k]
      BY <3>3, <3>4
    <3>7. QED
      BY <3>3, <3>5, <3>6
  <2> HIDE DEF above
  <2>2. s = [k \in 1..(n - j) |-> above[n - j - k + 1]]
    BY <2>1 DEF Reverse
  <2>3. \A k \in 1..(n - j) : n - j - k + 1 \in 1..(n - j) /\ j + (n - j - k + 1) = n + 1 - k
    BY <1>1
  <2>4. \A k \in 1..(n - j) : above[n - j - k + 1] = operators[n + 1 - k]
    BY <2>1, <2>3
  <2>5. ASSUME NEW k \in 1..(n - j) PROVE operators[n + 1 - k] \in Operators \cup {"("}
    <3>1. n - j - k + 1 \in 1..Len(above)
      BY <2>1, <2>3
    <3>2. above[n - j - k + 1] \in Operators \cup {"("}
      BY <2>1, <3>1, ElementOfSeq
    <3>3. QED
      BY <2>4, <3>2
  <2>6. s = [k \in 1..(n - j) |-> operators[n + 1 - k]]
    BY <2>2, <2>4
  <2> HIDE DEF s, n
  <2>7. QED
    BY <1>1, <2>5, <2>6
<1>7. Reduced(j) = FoldLeft(Apply, operands, s)
  BY DEF Reduced
<1> HIDE DEF s
<1>8. PICK g : ApplyRun(g, operands, s) /\ FoldLeft(Apply, operands, s) = g[Len(s)]
  BY <1>6, ApplyRuns
<1> DEFINE Good == {k \in Nat : k <= n - j => g[k] = Stack(n - k)}
<1>9. 0 \in Good
  <2>1. n - 0 = n /\ g[0] = operands
    BY <1>1, <1>8 DEF ApplyRun
  <2> HIDE DEF Stack
  <2>2. QED
    BY <1>4, <2>1
<1>10. ASSUME NEW k \in Nat, k \in Good PROVE k + 1 \in Good
  <2>1. SUFFICES ASSUME k + 1 <= n - j PROVE g[k + 1] = Stack(n - (k + 1))
    BY DEF Good
  <2>2. k + 1 \in 1..(n - j) /\ (k + 1) - 1 = k /\ n + 1 - (k + 1) = n - k /\ k <= n - j
    BY <1>1, <2>1
  <2>3. n - k \in (j + 1)..n /\ (n - k) - 1 = n - (k + 1)
    BY <1>1, <2>1
  <2> HIDE DEF Stack
  <2>4. g[k] = Stack(n - k)
    BY <1>10, <2>2
  <2>5. g[k + 1] = Apply(g[k], operators[n - k])
    BY <1>6, <1>8, <2>2 DEF ApplyRun
  <2>6. QED
    BY <1>5, <2>3, <2>4, <2>5
<1>11. \A k \in Nat : k \in Good
  <2> HIDE DEF Good
  <2>1. QED
    BY <1>9, <1>10, SetInduction
<1>12. n - j \in Nat /\ n - (n - j) = j /\ Len(s) = n - j
  BY <1>1, <1>6
<1>13. Reduced(j) = Stack(j)
  <2> HIDE DEF Stack
  <2> QED BY <1>7, <1>8, <1>11, <1>12
<1>14. QED
  BY <1>13

(* Without an open parenthesis below, there is an operand for each operator.*)
LEMMA Counted ==
  ASSUME NEW t, NEW U, NEW O, NEW p, NEW o, Layout(t, U, O, p, o)
  PROVE  o[Len(O)] = Len(O) <=> \A i \in 1..Len(O) : O[i] \in Operators
<1> DEFINE Below(k) == \A i \in 1..k : O[i] \in Operators
           Good == {k \in Nat : k <= Len(O) => o[k] <= k /\ (o[k] = k <=> Below(k))}
<1>1. Len(O) \in Nat /\ o[0] = 0 /\ \A i \in Nat : o[i] \in Nat
  BY LayoutTypes
<1>2. 0 \in Good
  BY <1>1
<1>3. ASSUME NEW k \in Nat, k \in Good PROVE k + 1 \in Good
  <2>1. SUFFICES ASSUME k + 1 <= Len(O)
                 PROVE  o[k + 1] <= k + 1 /\ (o[k + 1] = k + 1 <=> Below(k + 1))
    OBVIOUS
  <2>2. k + 1 \in 1..Len(O) /\ (k + 1) - 1 = k /\ k <= Len(O)
    BY <1>1, <2>1
  <2>3. Placed(t, U, O, p, o, k + 1)
    BY <2>2 DEF Layout
  <2>4. Below(k + 1) <=> Below(k) /\ O[k + 1] \in Operators
    <3>1. \A i \in 1..(k + 1) : i = k + 1 \/ i \in 1..k
      OBVIOUS
    <3>2. \A i \in 1..k : i \in 1..(k + 1)
      OBVIOUS
    <3>3. k + 1 \in 1..(k + 1)
      OBVIOUS
    <3>4. QED
      BY <3>1, <3>2, <3>3
  <2>5. o[k] <= k /\ (o[k] = k <=> Below(k)) /\ o[k] \in Nat
    BY <1>1, <1>3, <2>2
  <2> HIDE DEF Below
  <2>6. CASE O[k + 1] = "("
    <3>1. o[k + 1] = o[k] /\ O[k + 1] \notin Operators
      BY <2>2, <2>3, <2>6, Precedence DEF Placed
    <3>2. QED
      BY <2>4, <2>5, <3>1
  <2>7. CASE O[k + 1] # "("
    <3>1. o[k + 1] = o[k] + 1 /\ O[k + 1] \in Operators
      BY <2>2, <2>3, <2>7 DEF Placed
    <3>2. QED
      BY <2>4, <2>5, <3>1
  <2>8. QED
    BY <2>6, <2>7
<1>4. \A k \in Nat : k \in Good
  <2> HIDE DEF Good
  <2>1. QED
    BY <1>2, <1>3, SetInduction
<1>5. QED
  BY <1>1, <1>4

(* How deep the text is at its end: the parentheses on the stack.           *)
LEMMA DepthAtEnd ==
  ASSUME NEW t, NEW U, NEW O, NEW p, NEW o, Layout(t, U, O, p, o),
         p[Len(O)] = Len(t) \/ \E q, v : Reads(t, p[Len(O)] + 1, Len(t), q, v)
  PROVE  Depth(t, Len(t)) = Len(O) - o[Len(O)] /\ Len(O) \in Nat /\ o[Len(O)] \in Nat
<1>1. Len(O) \in Nat /\ p[0] = 0 /\ o[0] = 0 /\ \A i \in Nat : o[i] \in Nat /\ p[i] \in Nat
  BY LayoutTypes
<1>2. Depth(t, p[Len(O)]) = Len(O) - o[Len(O)]
  <2>1. CASE Len(O) = 0
    BY <1>1, <2>1, DepthNone
  <2>2. CASE Len(O) # 0
    <3>1. Len(O) \in 1..Len(O)
      BY <1>1, <2>2
    <3>2. QED
      BY <3>1 DEF Layout, Placed
  <2>3. QED
    BY <2>1, <2>2
<1>3. Depth(t, Len(t)) = Depth(t, p[Len(O)])
  <2>1. CASE p[Len(O)] = Len(t)
    BY <2>1
  <2>2. CASE \E q, v : Reads(t, p[Len(O)] + 1, Len(t), q, v)
    <3>1. PICK q, v : Reads(t, p[Len(O)] + 1, Len(t), q, v)
      BY <2>2
    <3>2. (p[Len(O)] + 1) - 1 = p[Len(O)]
      BY <1>1
    <3>3. QED
      BY <3>1, <3>2 DEF Reads
  <2>3. QED
    BY <2>1, <2>2
<1>4. QED
  BY <1>1, <1>2, <1>3

(* What failed on the right makes everything fail.                          *)
LEMMA FailsThrough ==
  ASSUME NEW t, NEW U, NEW O, NEW p, NEW o, Layout(t, U, O, p, o),
         Reads(t, p[Len(O)] + 1, Len(t), 6, Failed), Depth(t, Len(t)) = 0
  PROVE  Meaning(t)[<<1, Len(t)>>] = Failed
<1> DEFINE n == Len(O)
           h(i) == OnRight(t, p, i)
           Good == {k \in Nat : k <= n => h(n - k) = Failed}
<1>1. n \in Nat /\ p[0] = 0
  BY LayoutTypes
<1>2. o[n] = n
  BY DepthAtEnd
<1>3. NoneOpen(O, 0)
  BY <1>2, Counted DEF NoneOpen
<1>4. h(n) = Failed /\ \A i \in (0 + 1)..n : h(i - 1) = Computes(O[i], U[o[i]], h(i))
  <2>1. 0 \in 0..n
    BY <1>1
  <2>2. OnRight(t, p, Len(O)) = Failed /\ Climbs(t, U, O, p, o, 0)
    BY <1>3, <2>1, Climb
  <2>3. QED
    BY <2>2 DEF Climbs
<1>5. 0 \in Good
  <2>1. n - 0 = n
    BY <1>1
  <2>2. QED
    BY <1>4, <2>1
<1>6. ASSUME NEW k \in Nat, k \in Good PROVE k + 1 \in Good
  <2>1. SUFFICES ASSUME k + 1 <= n PROVE h(n - (k + 1)) = Failed
    OBVIOUS
  <2>2. n - k \in (0 + 1)..n /\ (n - k) - 1 = n - (k + 1) /\ k <= n
    BY <1>1, <2>1
  <2> HIDE DEF h
  <2>3. h(n - k) = Failed
    BY <1>6, <2>2
  <2>4. h((n - k) - 1) = Computes(O[n - k], U[o[n - k]], h(n - k))
    BY <1>4, <2>2
  <2>5. QED
    BY <2>2, <2>3, <2>4 DEF Computes
<1>7. \A k \in Nat : k \in Good
  <2> HIDE DEF Good
  <2>1. QED
    BY <1>5, <1>6, SetInduction
<1>8. h(n - n) = Failed
  <2> HIDE DEF h
  <2> QED BY <1>1, <1>7
<1>9. n - n = 0
  BY <1>1
<1>10. QED
  BY <1>1, <1>8, <1>9 DEF OnRight
-----------------------------------------------------------------------------
(* The invariant: until the evaluation returns, the stacks lie over the     *)
(* text, and nothing on them has failed.                                    *)

Lies(t, U, O, S, p, o) ==
  /\ U \in Seq(S) /\ Failed \notin S /\ Layout(t, U, O, p, o)
  /\ Waiting(t, U, O, p, o) \/ Done(t, U, O, p, o)

ReadInv ==
  /\ text \in Seq(Token)
  /\ result = <<>> => \E S, p, o : Lies(text, operands, operators, S, p, o)
  /\ EvaluatesAsRead

(* An operand comes next exactly when the operator on the top waits for one.*)
LEMMA WaitsOrDone ==
  ASSUME NEW S, NEW p, NEW o, Lies(text, operands, operators, S, p, o)
  PROVE  IF OperandNext THEN Waiting(text, operands, operators, p, o)
                        ELSE Done(text, operands, operators, p, o)
<1> DEFINE n == Len(operators)
<1>1. /\ n \in Nat /\ Len(text) \in Nat /\ text \in Seq(Token) /\ p[0] = 0
      /\ Layout(text, operands, operators, p, o)
  <2>1. Layout(text, operands, operators, p, o)
    BY DEF Lies
  <2>2. QED
    BY <2>1, LayoutTypes
<1>2. Waiting(text, operands, operators, p, o) => OperandNext
  <2>1. SUFFICES ASSUME p[n] = Len(text), text # <<>> PROVE text[Len(text)] \in Operators \cup {"("}
    BY DEF Waiting, OperandNext, Last
  <2>2. Len(text) # 0
    BY <1>1, <2>1
  <2>3. n \in 1..n
    BY <1>1, <2>1, <2>2
  <2>4. Placed(text, operands, operators, p, o, n)
    BY <1>1, <2>3 DEF Layout
  <2>5. QED
    BY <2>1, <2>4 DEF Placed
<1>3. Done(text, operands, operators, p, o) => ~OperandNext
  <2>1. SUFFICES ASSUME Done(text, operands, operators, p, o)
                 PROVE  text # <<>> /\ text[Len(text)] \notin Operators \cup {"("}
    BY DEF OperandNext, Last
  <2>2. Len(text) \in 1..Len(text) \/ Len(text) > 0
    BY <1>1, <2>1 DEF Done, Reads
  <2>3. text # <<>>
    BY <1>1, <2>2
  <2>4. QED
    BY <2>1, <2>3 DEF Done
<1>4. QED
  BY <1>2, <1>3 DEF Lies

(* What a token read does not change.                                       *)
LEMMA ReadKeeps ==
  ASSUME NEW token \in Token, NEW t \in Seq(Token),
         NEW U, NEW O, NEW p, NEW o, Layout(t, U, O, p, o),
         NEW j \in 0..Len(O), NEW V, SameTo(V, U, o[j])
  PROVE  /\ Begins(t, Append(t, token)) /\ Append(t, token) \in Seq(Token)
         /\ Layout(Append(t, token), V, SubSeq(O, 1, j), p, o) /\ Len(SubSeq(O, 1, j)) = j
<1>1. Begins(t, Append(t, token)) /\ Append(t, token) \in Seq(Token)
  <2>1. Len(t) <= Len(t) + 1
    BY OneMore
  <2>2. QED
    BY <2>1, OneMore DEF Begins
<1>2. O \in Seq(Operators \cup {"("})
  BY LayoutTypes
<1>3. /\ SubSeq(O, 1, j) \in Seq(Operators \cup {"("}) /\ Len(SubSeq(O, 1, j)) = j
      /\ SameTo(SubSeq(O, 1, j), O, j)
  BY <1>2, Beginning DEF SameTo
<1>4. Layout(Append(t, token), V, SubSeq(O, 1, j), p, o)
  BY <1>1, <1>3, LayoutKeeps
<1>5. QED
  BY <1>1, <1>3, <1>4

(* A number goes onto the stack of operands.                                *)
LEMMA OperandReads ==
  ASSUME ReadInv, ReadOperand
  PROVE  ReadInv'
<1>1. PICK x \in {"x", "0"} :
        /\ Read(x)
        /\ Continue(Append(operands, IF x = "0" THEN Zero ELSE <<"x", Len(text) + 1>>), operators)
  BY DEF ReadOperand
<1> DEFINE v == IF x = "0" THEN Zero ELSE <<"x", Len(text) + 1>>
           n == Len(operators)
<1>2. result = <<>> /\ text' = Append(text, x) /\ text \in Seq(Token) /\ x \in Token
  BY <1>1 DEF Read, ReadInv, Token
<1>3. PICK S, p, o : Lies(text, operands, operators, S, p, o)
  BY <1>2 DEF ReadInv
<1>4. /\ operands \in Seq(S) /\ Failed \notin S /\ Layout(text, operands, operators, p, o)
      /\ p[n] = Len(text) /\ Len(operands) = o[n]
  <2>1. Waiting(text, operands, operators, p, o)
    BY <1>3, WaitsOrDone DEF ReadOperand
  <2>2. QED
    BY <1>3, <2>1 DEF Lies, Waiting
<1>5. v # Failed
  BY DEF Zero, Failed
<1>6. operands' = Append(operands, v) /\ operators' = operators /\ result' = <<>>
  <2>1. Append(operands, v) # <<Failed>>
    <3> HIDE DEF v
    <3> QED BY <1>4, <1>5, NotFailed
  <2>2. QED
    BY <1>1, <1>2, <2>1 DEF Continue
<1> HIDE DEF v
<1>7. /\ operands' \in Seq(S \cup {v}) /\ Len(operands') = o[n] + 1 /\ operands'[o[n] + 1] = v
      /\ SameTo(operands', operands, o[n])
  BY <1>4, <1>6, Added DEF SameTo
<1>8. n \in Nat /\ n \in 0..n /\ operators \in Seq(Operators \cup {"("})
  BY <1>4, LayoutTypes
<1>9. /\ text' \in Seq(Token) /\ Layout(text', operands', operators, p, o)
  <2>1. SubSeq(operators, 1, n) = operators
    BY <1>8, SubSeqFull
  <2>2. /\ text' \in Seq(Token)
        /\ Layout(text', operands', SubSeq(operators, 1, n), p, o)
    BY <1>2, <1>4, <1>7, <1>8, ReadKeeps
  <2>3. QED
    BY <2>1, <2>2
<1>10. Done(text', operands', operators', p, o)
  <2>1. Reads(text', Len(text) + 1, Len(text) + 1, 6, v)
    BY <1>2, ReadsAtom DEF v
  <2>2. Len(text') = Len(text) + 1 /\ text'[Len(text) + 1] = x
    BY <1>2, OneMore
  <2>3. x \notin Operators \cup {"("}
    BY Precedence
  <2>4. QED
    BY <1>4, <1>6, <1>7, <2>1, <2>2, <2>3 DEF Done
<1>11. Lies(text', operands', operators', S \cup {v}, p, o)
  BY <1>4, <1>5, <1>6, <1>7, <1>9, <1>10 DEF Lies
<1>12. QED
  BY <1>6, <1>9, <1>11 DEF ReadInv, EvaluatesAsRead

(* What the step that puts an operator where it is read leaves.             *)
LEMMA OperatorLies ==
  ASSUME NEW t, NEW U, NEW O, NEW p, NEW o, NEW j, NEW y \in Operators \cup {"("}, NEW d \in Nat,
         Layout(t, U, O, p, o), NEW S, U \in Seq(S), Failed \notin S,
         j = Len(O), o[j] <= d, d = Len(U),
         Placed(t, U, Append(O, y), [p EXCEPT ![j + 1] = Len(t)], [o EXCEPT ![j + 1] = d], j + 1)
  PROVE  \E T, q, r : Lies(t, U, Append(O, y), T, q, r)
<1> DEFINE q == [p EXCEPT ![j + 1] = Len(t)]
           r == [o EXCEPT ![j + 1] = d]
           N == Append(O, y)
<1>1. /\ Len(t) \in Nat /\ j \in Nat /\ O \in Seq(Operators \cup {"("})
      /\ p \in [Nat -> Nat] /\ o \in [Nat -> Nat]
  BY LayoutTypes
<1>2. Layout(t, U, N, q, r)
  BY <1>1, LayoutPushes
<1>3. Len(N) = j + 1
  BY <1>1
<1>4. q[j + 1] = Len(t) /\ r[j + 1] = d
  BY <1>1
<1> HIDE DEF q, r, N
<1>5. Waiting(t, U, N, q, r)
  BY <1>3, <1>4 DEF Waiting
<1>6. Lies(t, U, N, S, q, r)
  BY <1>2, <1>5 DEF Lies
<1>7. QED
  BY <1>6 DEF N
(* The largest of numbers up to n.                                          *)
LEMMA MaxBelow ==
  ASSUME NEW n \in Nat, NEW s \in SUBSET (0..n), s # {}
  PROVE  Max(s) \in s /\ \A x \in s : x <= Max(s)
<1> DEFINE gaps == {n - x : x \in s}
<1>1. gaps \in SUBSET Nat /\ gaps # {}
  <2>1. \A x \in s : n - x \in Nat
    OBVIOUS
  <2>2. QED
    BY <2>1
<1>2. PICK g \in gaps : \A h \in gaps : ~(h < g)
  <2> HIDE DEF gaps
  <2> QED BY <1>1, LeastNat
<1>3. PICK m \in s : g = n - m
  OBVIOUS
<1>4. \A x \in s : m >= x
  <2> TAKE x \in s
  <2>1. ~(n - x < n - m)
    BY <1>2, <1>3
  <2>2. QED
    BY <2>1
<1>5. \E y \in s : \A x \in s : y >= x
  BY <1>4
<1>6. Max(s) \in s /\ \A x \in s : Max(s) >= x
  BY <1>5 DEF Max
<1>7. QED
  BY <1>6

(* What stays on the stack when op comes.                                   *)
LEMMA WeakerIs ==
  ASSUME NEW op \in Operators, operators \in Seq(Operators \cup {"("})
  PROVE  LET j == Weaker(op)
         IN  /\ j \in 0..Len(operators) /\ NoneOpen(operators, j)
             /\ precedence(op) <= Above(operators, j) /\ Above(operators, j) \in Nat
             /\ j > 0 => precedence(operators[j]) < precedence(op)
<1> DEFINE n == Len(operators)
           s == {0} \cup {k \in 1..n : precedence(operators[k]) < precedence(op)}
           j == Weaker(op)
<1>1. n \in Nat /\ s \in SUBSET (0..n) /\ s # {}
  BY LenProperties
<1>2. j = Max(s)
  BY DEF Weaker
<1>3. j \in s /\ \A x \in s : x <= j
  <2> HIDE DEF s, j
  <2> QED BY <1>1, <1>2, MaxBelow
<1> HIDE DEF j
<1>4. j \in 0..n /\ (j > 0 => precedence(operators[j]) < precedence(op))
  BY <1>1, <1>3
<1>5. ASSUME NEW k \in (j + 1)..n
      PROVE  operators[k] \in Operators /\ precedence(op) <= precedence(operators[k])
  <2>1. k \in 1..n /\ ~(k <= j)
    BY <1>1, <1>4
  <2>2. ~(precedence(operators[k]) < precedence(op))
    BY <1>3, <2>1
  <2>3. operators[k] \in Operators \cup {"("}
    BY <2>1, ElementOfSeq
  <2>4. precedence(op) \in 1..5 /\ precedence("(") = 0
    BY Precedence
  <2>5. operators[k] \in Operators
    BY <2>2, <2>3, <2>4
  <2>6. precedence(operators[k]) \in 1..5
    BY <2>5, Precedence
  <2>7. QED
    BY <2>2, <2>4, <2>5, <2>6
<1>6. precedence(op) <= Above(operators, j) /\ Above(operators, j) \in Nat
  <2>1. precedence(op) \in 1..5
    BY Precedence
  <2>2. CASE j < n
    <3>1. j + 1 \in (j + 1)..n
      BY <1>1, <1>4, <2>2
    <3>2. operators[j + 1] \in Operators /\ precedence(op) <= precedence(operators[j + 1])
      BY <1>5, <3>1
    <3>3. precedence(operators[j + 1]) \in Nat
      BY <3>2, Precedence
    <3>4. QED
      BY <2>2, <3>2, <3>3 DEF Above
  <2>3. CASE ~(j < n)
    BY <2>1, <2>3 DEF Above
  <2>4. QED
    BY <2>2, <2>3
<1>7. NoneOpen(operators, j)
  BY <1>5 DEF NoneOpen
<1>8. QED
  BY <1>4, <1>6, <1>7 DEF j

(* What binds strongly binds weakly enough.                                 *)
LEMMA ReadsWeaker ==
  ASSUME NEW t, NEW a, NEW e, NEW q \in Nat, NEW v, Reads(t, a, e, q, v), NEW l \in Nat, l <= q
  PROVE  Reads(t, a, e, l, v)
<1>1. \A i \in Outside(t, a, e) : precedence(t[i]) \in Nat /\ q <= precedence(t[i])
  BY Precedence DEF Reads, Outside
<1>2. \A i \in Outside(t, a, e) : l <= precedence(t[i])
  BY <1>1
<1>3. QED
  BY <1>2 DEF Reads

(* What is applied when an operator or the end of the text comes.           *)
LEMMA Applied ==
  ASSUME NEW S, NEW p, NEW o, Lies(text, operands, operators, S, p, o), ~OperandNext,
         NEW j \in 0..Len(operators), NoneOpen(operators, j)
  PROVE  /\ Reduced(j) = StackOf(operands, o[j], OnRight(text, p, j))
         /\ Reads(text, p[j] + 1, Len(text), Above(operators, j), OnRight(text, p, j))
         /\ o[j] \in Nat /\ o[j] < Len(operands)
<1>1. Done(text, operands, operators, p, o)
  BY WaitsOrDone
<1>2. operands \in Seq(S) /\ Failed \notin S /\ Layout(text, operands, operators, p, o)
  BY DEF Lies
<1>3. Reduced(j) = StackOf(operands, o[j], OnRight(text, p, j))
  BY <1>1, <1>2, ReducedIs
<1>4. Reads(text, p[Len(operators)] + 1, Len(text), 6, operands[Len(operands)])
  BY <1>1 DEF Done
<1>5. Reads(text, p[j] + 1, Len(text), Above(operators, j), OnRight(text, p, j))
  BY <1>2, <1>4, Climb
<1>6. Len(operators) \in Nat /\ \A i \in Nat : o[i] \in Nat
  BY <1>2, LayoutTypes
<1>7. /\ j \in 0..Len(operators) /\ Len(operators) \in 0..Len(operators)
      /\ j <= Len(operators) /\ j \in Nat
  BY <1>6
<1>8. o[j] <= o[Len(operators)] /\ o[j] \in Nat /\ o[Len(operators)] \in Nat
  BY <1>2, <1>6, <1>7 DEF Layout
<1>9. Len(operands) = o[Len(operators)] + 1
  BY <1>1 DEF Done
<1>10. QED
  BY <1>3, <1>5, <1>8, <1>9

(* A parenthesis goes onto the stack of operators.                          *)
LEMMA OpenReads ==
  ASSUME ReadInv, OpenParenthesis
  PROVE  ReadInv'
<1> DEFINE n == Len(operators)
           m == Len(text)
<1>1. /\ result = <<>> /\ text' = Append(text, "(") /\ text \in Seq(Token) /\ "(" \in Token
      /\ OperandNext /\ Continue(operands, Append(operators, "("))
  BY DEF OpenParenthesis, Read, ReadInv, Token
<1>2. PICK S, p, o : Lies(text, operands, operators, S, p, o)
  BY <1>1 DEF ReadInv
<1>3. /\ operands \in Seq(S) /\ Failed \notin S /\ Layout(text, operands, operators, p, o)
      /\ p[n] = m /\ Len(operands) = o[n]
  <2>1. Waiting(text, operands, operators, p, o)
    BY <1>1, <1>2, WaitsOrDone
  <2>2. QED
    BY <1>2, <2>1 DEF Lies, Waiting
<1>4. operands' = operands /\ operators' = Append(operators, "(") /\ result' = <<>>
  <2>1. operands # <<Failed>>
    <3>1. SUFFICES ASSUME operands = <<Failed>> PROVE FALSE
      OBVIOUS
    <3>2. 1 \in 1..Len(operands) /\ operands[1] = Failed
      BY <3>1
    <3>3. operands[1] \in S
      BY <1>3, <3>2, ElementOfSeq
    <3>4. QED
      BY <1>3, <3>2, <3>3
  <2>2. QED
    BY <1>1, <2>1 DEF Continue
<1>5. /\ operators \in Seq(Operators \cup {"("}) /\ p \in [Nat -> Nat] /\ o \in [Nat -> Nat]
      /\ \A i \in Nat : o[i] \in Nat /\ p[i] \in Nat
  BY <1>3, LayoutTypes
<1>n. n \in Nat /\ m \in Nat
  BY <1>3, LayoutTypes
<1>k. n \in 0..n /\ n + 1 \in Nat /\ n + 1 # n /\ (n + 1) - 1 = n
  BY <1>n
<1>l. m \in 0..m /\ m + 1 \in 1..(m + 1) /\ m + 1 \in Nat \ {0} /\ (m + 1) - 1 = m
  BY <1>n
<1>6. text' \in Seq(Token) /\ Layout(text', operands, operators, p, o)
  <2>1. SubSeq(operators, 1, n) = operators
    BY <1>5, SubSeqFull
  <2>2. SameTo(operands, operands, o[n])
    BY DEF SameTo
  <2>3. text' \in Seq(Token) /\ Layout(text', operands, SubSeq(operators, 1, n), p, o)
    BY <1>1, <1>3, <1>k, <2>2, ReadKeeps
  <2>4. QED
    BY <2>1, <2>3
<1> DEFINE q == [p EXCEPT ![n + 1] = Len(text')]
           r == [o EXCEPT ![n + 1] = o[n]]
           N == Append(operators, "(")
<1>7. Placed(text', operands, N, q, r, n + 1)
  <2>1. Len(text') = m + 1 /\ text'[m + 1] = "(" /\ Depth(text', m) = Depth(text, m)
    BY <1>1, <1>l, OneMore
  <2>3. N[n + 1] = "("
    BY <1>5, <1>n
  <2>4. q[n + 1] = m + 1 /\ r[n + 1] = o[n] /\ q[n] = p[n] /\ r[n] = o[n]
    BY <1>5, <1>n, <1>k, <2>1
  <2>5. Depth(text', m + 1) = Depth(text', m) + 1
    BY <1>l, <2>1, DepthStep
  <2>6. Depth(text, m) = n - o[n]
    BY <1>3, DepthAtEnd
  <2>7. Depth(text', m + 1) = (n + 1) - o[n]
    BY <1>5, <1>n, <2>1, <2>5, <2>6
  <2> HIDE DEF q, r, N
  <2>8. QED
    BY <1>3, <1>k, <1>l, <2>1, <2>3, <2>4, <2>7 DEF Placed
<1>8. \E T, s, t : Lies(text', operands, N, T, s, t)
  <2>1. o[n] \in Nat /\ "(" \in Operators \cup {"("} /\ o[n] <= o[n]
    BY <1>5, <1>n
  <2>2. QED
    BY <1>3, <1>6, <1>7, <2>1, OperatorLies
<1>9. QED
  BY <1>4, <1>6, <1>8 DEF ReadInv, EvaluatesAsRead
(* What an evaluation leaves whose expression is not complete.              *)
LEMMA FailedReads ==
  ASSUME ReadInv, text' \in Seq(Token), result' = Failed,
         Complete' => Meaning(text')[<<1, Len(text')>>] = Failed
  PROVE  ReadInv'
<1>1. Failed # <<>>
  BY DEF Failed
<1>2. QED
  BY <1>1 DEF ReadInv, EvaluatesAsRead

(* The value of what is applied goes back onto the stack.                   *)
LEMMA ValueBack ==
  ASSUME NEW S, NEW U \in Seq(S), Failed \notin S, NEW k \in 0..Len(U), NEW v, v # Failed
  PROVE  LET V == Append(SubSeq(U, 1, k), v)
         IN  /\ StackOf(U, k, v) = V /\ V # <<Failed>>
             /\ V \in Seq(S \cup {v}) /\ Failed \notin S \cup {v}
             /\ Len(V) = k + 1 /\ V[k + 1] = v /\ SameTo(V, U, k)
<1> DEFINE s == SubSeq(U, 1, k)
           V == Append(s, v)
<1>1. s \in Seq(S) /\ Len(s) = k /\ \A i \in 1..k : s[i] = U[i]
  BY Beginning
<1>2. StackOf(U, k, v) = V
  BY DEF StackOf
<1> HIDE DEF s
<1>3. V # <<Failed>>
  BY <1>1, NotFailed
<1>4. /\ V \in Seq(S \cup {v}) /\ Len(V) = Len(s) + 1 /\ V[Len(s) + 1] = v
      /\ \A i \in 1..Len(s) : V[i] = s[i]
  BY <1>1, Added
<1>5. SameTo(V, U, k)
  BY <1>1, <1>4 DEF SameTo
<1>6. QED
  BY <1>1, <1>2, <1>3, <1>4, <1>5 DEF s

(* An operator: what binds as strongly is applied first.                    *)
LEMMA OperatorReads ==
  ASSUME ReadInv, ReadOperator
  PROVE  ReadInv'
<1>1. PICK op \in Operators :
        /\ ~OperandNext /\ Read(op)
        /\ Continue(Reduced(Weaker(op)), Append(SubSeq(operators, 1, Weaker(op)), op))
  BY DEF ReadOperator
<1> DEFINE j == Weaker(op)
           m == Len(text)
<1>2. result = <<>> /\ text' = Append(text, op) /\ text \in Seq(Token) /\ op \in Token
  BY <1>1 DEF Read, ReadInv, Token
<1>3. PICK S, p, o : Lies(text, operands, operators, S, p, o)
  BY <1>2 DEF ReadInv
<1>4. operands \in Seq(S) /\ Failed \notin S /\ Layout(text, operands, operators, p, o)
  BY <1>3 DEF Lies
<1>5. /\ operators \in Seq(Operators \cup {"("}) /\ p \in [Nat -> Nat] /\ o \in [Nat -> Nat]
      /\ \A i \in Nat : o[i] \in Nat /\ p[i] \in Nat
  BY <1>4, LayoutTypes
<1>6. /\ j \in 0..Len(operators) /\ NoneOpen(operators, j)
      /\ precedence(op) <= Above(operators, j) /\ Above(operators, j) \in Nat
      /\ j > 0 => precedence(operators[j]) < precedence(op)
  BY <1>5, WeakerIs
<1> HIDE DEF j
<1>7. /\ Reduced(j) = StackOf(operands, o[j], OnRight(text, p, j))
      /\ Reads(text, p[j] + 1, m, Above(operators, j), OnRight(text, p, j))
      /\ o[j] \in Nat /\ o[j] < Len(operands)
  BY <1>1, <1>3, <1>6, Applied
<1>8. /\ text' \in Seq(Token) /\ Len(text') = m + 1 /\ m \in Nat /\ text'[m + 1] = op
      /\ Depth(text', m) = Depth(text, m)
  <2>1. m \in 0..m
    BY <1>2, LenProperties
  <2>2. QED
    BY <1>2, <2>1, OneMore
<1>9. CASE OnRight(text, p, j) = Failed
  <2>1. result' = Failed
    BY <1>1, <1>7, <1>9 DEF Continue, StackOf, j
  <2>2. OperandNext'
    BY <1>1, <1>8 DEF OperandNext, Last
  <2>3. QED
    BY <1>8, <2>1, <2>2, FailedReads DEF Complete
<1>10. CASE OnRight(text, p, j) # Failed
  <2> DEFINE w == OnRight(text, p, j)
             k == o[j]
             V == Append(SubSeq(operands, 1, k), w)
             N == SubSeq(operators, 1, j)
             q == [p EXCEPT ![j + 1] = Len(text')]
             r == [o EXCEPT ![j + 1] = k + 1]
  <2>1. /\ StackOf(operands, k, w) = V /\ V # <<Failed>> /\ V \in Seq(S \cup {w})
        /\ Failed \notin S \cup {w} /\ Len(V) = k + 1 /\ V[k + 1] = w /\ SameTo(V, operands, k)
    <3>1. k \in 0..Len(operands)
      BY <1>4, <1>7, LenProperties
    <3> HIDE DEF w, k
    <3>2. QED
      BY <1>4, <1>10, <3>1, ValueBack DEF w
  <2>2. operands' = V /\ operators' = Append(N, op) /\ result' = <<>>
    BY <1>1, <1>2, <1>7, <2>1 DEF Continue, j
  <2> HIDE DEF V
  <2>3. /\ Begins(text, text') /\ Layout(text', V, N, p, o) /\ Len(N) = j
    <3>1. SameTo(V, operands, o[j])
      BY <2>1
    <3>2. /\ Begins(text, text') /\ text' \in Seq(Token)
          /\ Layout(text', V, SubSeq(operators, 1, j), p, o) /\ Len(SubSeq(operators, 1, j)) = j
      <4>1. j \in 0..Len(operators) /\ Layout(text, operands, operators, p, o)
        BY <1>4, <1>6
      <4>2. op \in Token /\ text \in Seq(Token) /\ text' = Append(text, op)
        BY <1>2
      <4> HIDE DEF N
      <4>3. /\ Begins(text, Append(text, op)) /\ Append(text, op) \in Seq(Token)
            /\ Layout(Append(text, op), V, SubSeq(operators, 1, j), p, o)
            /\ Len(SubSeq(operators, 1, j)) = j
        BY <3>1, <4>1, <4>2, ReadKeeps
      <4>4. QED
        BY <4>2, <4>3
    <3>3. QED
      BY <3>2
  <2>4. j \in Nat /\ j + 1 \in Nat /\ (j + 1) - 1 = j /\ j + 1 # j /\ k \in Nat
    <3>1. Len(operators) \in Nat
      BY <1>5, LenProperties
    <3>2. j \in Nat
      BY <1>6, <3>1
    <3>3. QED
      BY <1>7, <3>2
  <2>5. N \in Seq(Operators \cup {"("}) /\ \A i \in 1..j : N[i] = operators[i]
    BY <1>5, <1>6, Beginning
  <2> HIDE DEF N
  <2>6. /\ Append(N, op)[j + 1] = op /\ (j > 0 => Append(N, op)[j] = operators[j])
    <3>1. /\ Append(N, op)[Len(N) + 1] = op
          /\ \A i \in 1..Len(N) : Append(N, op)[i] = N[i]
      BY <2>5, Added
    <3>2. j > 0 => j \in 1..j
      BY <2>4
    <3>3. QED
      BY <2>3, <2>5, <3>1, <3>2
  <2>7. Reads(text', p[j] + 1, m, precedence(op), V[k + 1])
    <3>1. precedence(op) \in Nat
      BY Precedence
    <3>2. Reads(text, p[j] + 1, m, precedence(op), w)
      BY <1>6, <1>7, <3>1, ReadsWeaker
    <3>3. QED
      BY <2>1, <2>3, <3>2, ReadsStays
  <2>8. Depth(text', m + 1) = (j + 1) - (k + 1)
    <3>1. Depth(text', m) = j - k
      <4>1. Reads(text', p[Len(N)] + 1, m, precedence(op), V[k + 1])
        BY <2>3, <2>7
      <4>2. Depth(text', m) = Depth(text', p[j])
        <5>1. (p[j] + 1) - 1 = p[j]
          BY <1>5, <2>4
        <5>2. QED
          BY <2>7, <5>1 DEF Reads
      <4>3. CASE j = 0
        <5>1. p[0] = 0 /\ o[0] = 0
          BY <1>4, LayoutTypes
        <5>2. QED
          BY <4>2, <4>3, <5>1, DepthNone
      <4>4. CASE j # 0
        <5>1. j \in 1..Len(N)
          BY <2>3, <2>4, <4>4
        <5>2. Placed(text', V, N, p, o, j)
          BY <2>3, <5>1 DEF Layout
        <5>3. QED
          BY <4>2, <5>2 DEF Placed
      <4>5. QED
        BY <4>3, <4>4
    <3>2. m + 1 \in Nat \ {0} /\ (m + 1) - 1 = m
      BY <1>8
    <3>3. op # "(" /\ op # ")"
      BY Precedence
    <3>4. Depth(text', m + 1) = Depth(text', m)
      <4>1. /\ Depth(text', m + 1) \in Int /\ Depth(text', (m + 1) - 1) \in Int
            /\ Depth(text', m + 1) = Depth(text', (m + 1) - 1) +
                 (IF text'[m + 1] = "(" THEN 1 ELSE IF text'[m + 1] = ")" THEN -1 ELSE 0)
        BY <3>2, DepthStep
      <4>2. text'[m + 1] # "(" /\ text'[m + 1] # ")"
        BY <1>8, <3>3
      <4>3. QED
        BY <3>2, <4>1, <4>2
    <3>5. QED
      BY <2>4, <3>1, <3>4
  <2>9. q[j + 1] = m + 1 /\ r[j + 1] = k + 1 /\ q[j] = p[j] /\ r[j] = k
    BY <1>5, <1>8, <2>4
  <2>10. Placed(text', V, Append(N, op), q, r, j + 1)
    <3> HIDE DEF q, r
    <3>1. m + 1 \in 1..Len(text') /\ (m + 1) - 1 = m
      BY <1>8
    <3>2. j + 1 > 1 => j > 0
      BY <2>4
    <3>3. j + 1 > 1 => precedence(Append(N, op)[j]) < precedence(Append(N, op)[j + 1])
      BY <1>6, <2>6, <3>2
    <3> HIDE DEF k
    <3>4. QED
      BY <1>8, <2>4, <2>6, <2>7, <2>8, <2>9, <3>1, <3>3 DEF Placed
  <2>11. \E T, s, t : Lies(text', V, Append(N, op), T, s, t)
    <3>1. k + 1 \in Nat /\ op \in Operators \cup {"("} /\ o[j] <= k + 1 /\ k + 1 = Len(V)
      BY <2>1, <2>4
    <3> DEFINE d == k + 1
    <3> HIDE DEF k, d
    <3>2. Placed(text', V, Append(N, op),
                 [p EXCEPT ![j + 1] = Len(text')], [o EXCEPT ![j + 1] = d], j + 1)
      BY <2>10 DEF d
    <3>3. d \in Nat /\ o[j] <= d /\ d = Len(V)
      BY <3>1 DEF d
    <3>4. QED
      BY <2>1, <2>3, <3>1, <3>2, <3>3, OperatorLies
  <2>12. QED
    BY <1>8, <2>2, <2>11 DEF ReadInv, EvaluatesAsRead
<1>11. QED
  BY <1>9, <1>10
\* Where CloseParenthesis finds the parenthesis it closes.
Opened == Max({0} \cup {k \in 1..Len(operators) : operators[k] = "("})

(* It is the last on the stack, if there is one.                            *)
LEMMA OpenedIs ==
  ASSUME operators \in Seq(Operators \cup {"("})
  PROVE  /\ Opened \in 0..Len(operators) /\ NoneOpen(operators, Opened)
         /\ Opened > 0 => operators[Opened] = "("
<1> DEFINE n == Len(operators)
           s == {0} \cup {k \in 1..n : operators[k] = "("}
           j == Opened
<1>1. n \in Nat /\ s \in SUBSET (0..n) /\ s # {}
  BY LenProperties
<1>2. j = Max(s)
  BY DEF Opened
<1>3. j \in s /\ \A x \in s : x <= j
  <2> HIDE DEF s, j
  <2> QED BY <1>1, <1>2, MaxBelow
<1> HIDE DEF j
<1>4. j \in 0..n /\ (j > 0 => operators[j] = "(")
  BY <1>1, <1>3
<1>5. ASSUME NEW k \in (j + 1)..n PROVE operators[k] \in Operators
  <2>1. k \in 1..n /\ ~(k <= j)
    BY <1>1, <1>4
  <2>2. operators[k] # "("
    BY <1>3, <2>1
  <2>3. operators[k] \in Operators \cup {"("}
    BY <2>1, ElementOfSeq
  <2>4. QED
    BY <2>2, <2>3
<1>6. QED
  BY <1>4, <1>5 DEF NoneOpen, j

(* A parenthesis never opened leaves the text incomplete for ever.          *)
LEMMA NeverOpened ==
  ASSUME NEW S, NEW p, NEW o, Lies(text, operands, operators, S, p, o), ~OperandNext,
         Opened = 0, text' = Append(text, ")")
  PROVE  ~Complete'
<1>1. Done(text, operands, operators, p, o) /\ Layout(text, operands, operators, p, o)
  BY WaitsOrDone DEF Lies
<1>2. text \in Seq(Token) /\ operators \in Seq(Operators \cup {"("}) /\ Len(text) \in Nat
  BY <1>1, LayoutTypes
<1>3. \A i \in 1..Len(operators) : operators[i] \in Operators
  <2>1. NoneOpen(operators, 0)
    BY <1>2, OpenedIs
  <2>2. QED
    BY <2>1 DEF NoneOpen
<1>4. o[Len(operators)] = Len(operators)
  BY <1>1, <1>3, Counted
<1>5. Reads(text, p[Len(operators)] + 1, Len(text), 6, operands[Len(operands)])
  BY <1>1 DEF Done
<1>6. /\ Depth(text, Len(text)) = Len(operators) - o[Len(operators)]
      /\ Len(operators) \in Nat /\ o[Len(operators)] \in Nat
  BY <1>1, <1>5, DepthAtEnd
<1>7. Depth(text, Len(text)) = 0
  BY <1>4, <1>6
<1>8. /\ Len(text') = Len(text) + 1 /\ text'[Len(text) + 1] = ")"
      /\ Depth(text', Len(text)) = 0
  <2>1. ")" \in Token /\ Len(text) \in 0..Len(text)
    BY <1>2 DEF Token
  <2>2. QED
    BY <1>2, <1>7, <2>1, OneMore
<1>9. Depth(text', Len(text')) = -1
  <2>1. Len(text) + 1 \in Nat \ {0} /\ (Len(text) + 1) - 1 = Len(text)
    BY <1>2
  <2>2. Depth(text', Len(text) + 1) = Depth(text', (Len(text) + 1) - 1) +
          (IF text'[Len(text) + 1] = "(" THEN 1 ELSE IF text'[Len(text) + 1] = ")" THEN -1 ELSE 0)
    BY <2>1, DepthStep
  <2>3. QED
    BY <1>8, <2>1, <2>2
<1>10. QED
  BY <1>9 DEF Complete

(* What is in parentheses becomes one operand.                              *)
LEMMA CloseReads ==
  ASSUME ReadInv, CloseParenthesis
  PROVE  ReadInv'
<1> DEFINE j == Opened
           m == Len(text)
<1>1. /\ result = <<>> /\ text' = Append(text, ")") /\ text \in Seq(Token) /\ ")" \in Token
      /\ ~OperandNext
      /\ IF j = 0 THEN Continue(<<Failed>>, operators)
         ELSE Continue(Reduced(j), SubSeq(operators, 1, j - 1))
  BY DEF CloseParenthesis, Read, ReadInv, Token, Opened
<1>2. PICK S, p, o : Lies(text, operands, operators, S, p, o)
  BY <1>1 DEF ReadInv
<1>3. operands \in Seq(S) /\ Failed \notin S /\ Layout(text, operands, operators, p, o)
  BY <1>2 DEF Lies
<1>4. /\ operators \in Seq(Operators \cup {"("}) /\ p \in [Nat -> Nat] /\ o \in [Nat -> Nat]
      /\ \A i \in Nat : o[i] \in Nat /\ p[i] \in Nat
  BY <1>3, LayoutTypes
<1>5. /\ j \in 0..Len(operators) /\ NoneOpen(operators, j)
      /\ j > 0 => operators[j] = "("
  BY <1>4, OpenedIs
<1>6. /\ Append(text, ")") \in Seq(Token) /\ text' \in Seq(Token) /\ Len(text') = m + 1
      /\ m \in Nat /\ text'[m + 1] = ")"
  BY <1>1, OneMore
<1>7. CASE j = 0
  <2>1. result' = Failed
    BY <1>1, <1>7 DEF Continue
  <2>2. ~Complete'
    BY <1>1, <1>2, <1>7, NeverOpened
  <2>3. QED
    BY <1>6, <2>1, <2>2, FailedReads
<1>8. CASE j # 0
  <2> HIDE DEF j
  <2> DEFINE v == OnRight(text, p, j)
             N == SubSeq(operators, 1, j - 1)
             k == o[j]
  <2>1. /\ Reduced(j) = StackOf(operands, k, v) /\ k \in Nat /\ k < Len(operands)
        /\ Reads(text, p[j] + 1, m, Above(operators, j), v)
    BY <1>1, <1>2, <1>5, Applied
  <2>2. j \in 1..Len(operators) /\ j - 1 \in 0..Len(operators) /\ j \in Nat /\ j - 1 \in Nat
    <3>1. Len(operators) \in Nat
      BY <1>4, LenProperties
    <3>2. QED
      BY <1>5, <1>8, <3>1
  <2>3. /\ p[j] = p[j - 1] + 1 /\ o[j - 1] = k /\ p[j] \in 1..m /\ text[p[j]] = "("
    <3>1. Placed(text, operands, operators, p, o, j)
      BY <1>3, <2>2 DEF Layout
    <3>2. operators[j] = "(" /\ operators[j] \notin Operators
      BY <1>5, <2>2, Precedence
    <3>3. QED
      BY <3>1, <3>2 DEF Placed
  <2>4. Reads(text', p[j - 1] + 1, m + 1, 6, v)
    <3> HIDE DEF v
    <3>1. Reads(Append(text, ")"), p[j], m + 1, 6, v)
      BY <1>1, <2>1, <2>3, ReadsParenthesis
    <3>2. QED
      BY <1>1, <2>3, <3>1
  <2>5. CASE v = Failed
    <3>1. result' = Failed
      BY <1>1, <1>8, <2>1, <2>5 DEF Continue, StackOf
    <3>2. Layout(text', operands, N, p, o) /\ Len(N) = j - 1
      <4>1. SameTo(operands, operands, o[j - 1])
        BY DEF SameTo
      <4>2. /\ Layout(Append(text, ")"), operands, SubSeq(operators, 1, j - 1), p, o)
            /\ Len(SubSeq(operators, 1, j - 1)) = j - 1
        BY <1>1, <1>3, <2>2, <4>1, ReadKeeps
      <4>3. QED
        BY <1>1, <4>2
    <3>3. Reads(text', p[Len(N)] + 1, Len(text'), 6, Failed)
      BY <1>6, <2>4, <2>5, <3>2
    <3>4. Complete' => Meaning(text')[<<1, Len(text')>>] = Failed
      <4>1. SUFFICES ASSUME Complete' PROVE Meaning(text')[<<1, Len(text')>>] = Failed
        OBVIOUS
      <4>2. Depth(text', Len(text')) = 0
        BY <4>1 DEF Complete
      <4> HIDE DEF N
      <4>3. QED
        BY <3>2, <3>3, <4>2, FailsThrough
    <3>5. QED
      BY <1>6, <3>1, <3>4, FailedReads
  <2>6. CASE v # Failed
    <3> DEFINE V == Append(SubSeq(operands, 1, k), v)
    <3>1. /\ StackOf(operands, k, v) = V /\ V # <<Failed>> /\ V \in Seq(S \cup {v})
          /\ Failed \notin S \cup {v} /\ Len(V) = k + 1 /\ V[k + 1] = v /\ SameTo(V, operands, k)
      <4>1. k \in 0..Len(operands)
        BY <1>3, <2>1, LenProperties
      <4> HIDE DEF v, k
      <4>2. QED
        BY <1>3, <2>6, <4>1, ValueBack
    <3> HIDE DEF V
    <3>2. operands' = V /\ operators' = N /\ result' = <<>>
      BY <1>1, <1>8, <2>1, <3>1 DEF Continue
    <3>3. Layout(text', V, N, p, o) /\ Len(N) = j - 1
      <4>1. SameTo(V, operands, o[j - 1])
        BY <2>3, <3>1
      <4>2. /\ Layout(Append(text, ")"), V, SubSeq(operators, 1, j - 1), p, o)
            /\ Len(SubSeq(operators, 1, j - 1)) = j - 1
        BY <1>1, <1>3, <2>2, <4>1, ReadKeeps
      <4>3. QED
        BY <1>1, <4>2
    <3>4. Done(text', V, N, p, o)
      <4>1. ")" \notin Operators \cup {"("}
        BY Precedence
      <4> HIDE DEF N
      <4>2. Len(V) = o[Len(N)] + 1 /\ V[Len(V)] = v
        BY <2>3, <3>1, <3>3
      <4>3. QED
        BY <1>6, <2>4, <3>3, <4>1, <4>2 DEF Done
    <3>5. Lies(text', V, N, S \cup {v}, p, o)
      BY <3>1, <3>3, <3>4 DEF Lies
    <3>6. QED
      BY <1>6, <3>2, <3>5 DEF ReadInv, EvaluatesAsRead
  <2>7. QED
    BY <2>5, <2>6
<1>9. QED
  BY <1>7, <1>8

(* At the end of a complete text one operand is left: its meaning.          *)
LEMMA EndReads ==
  ASSUME ReadInv, EndOfText
  PROVE  ReadInv'
<1>1. /\ result = <<>> /\ UNCHANGED <<text, operands, operators>>
      /\ result' = IF Len(Reduced(0)) = 1 THEN Reduced(0)[1] ELSE Failed
  BY DEF EndOfText, Return
<1>2. PICK S, p, o : Lies(text, operands, operators, S, p, o)
  BY <1>1 DEF ReadInv
<1>3. Layout(text, operands, operators, p, o)
  BY <1>2 DEF Lies
<1>4. Complete => result' = Meaning(text)[<<1, Len(text)>>]
  <2>1. SUFFICES ASSUME Complete PROVE result' = Meaning(text)[<<1, Len(text)>>]
    OBVIOUS
  <2>2. ~OperandNext /\ Depth(text, Len(text)) = 0
    BY <2>1 DEF Complete
  <2>3. Reads(text, p[Len(operators)] + 1, Len(text), 6, operands[Len(operands)])
    BY <1>2, <2>2, WaitsOrDone DEF Done
  <2>4. /\ Depth(text, Len(text)) = Len(operators) - o[Len(operators)]
        /\ Len(operators) \in Nat /\ o[Len(operators)] \in Nat
    BY <1>3, <2>3, DepthAtEnd
  <2>5. NoneOpen(operators, 0) /\ 0 \in 0..Len(operators)
    BY <1>3, <2>2, <2>4, Counted DEF NoneOpen
  <2>6. Reduced(0) = StackOf(operands, o[0], OnRight(text, p, 0))
    BY <1>2, <2>2, <2>5, Applied
  <2>7. p[0] = 0 /\ o[0] = 0
    BY <1>3, LayoutTypes
  <2> DEFINE v == Meaning(text)[<<1, Len(text)>>]
  <2>8. OnRight(text, p, 0) = v
    BY <2>7 DEF OnRight
  <2> HIDE DEF v
  <2>9. SubSeq(operands, 1, 0) = <<>>
    BY SubSeqEmpty
  <2>10. StackOf(operands, 0, v) = <<v>>
    <3>1. Append(<<>>, v) = <<v>>
      OBVIOUS
    <3>2. QED
      BY <2>9, <3>1 DEF StackOf
  <2>11. Len(<<v>>) = 1 /\ <<v>>[1] = v
    OBVIOUS
  <2>12. QED
    BY <1>1, <2>6, <2>7, <2>8, <2>10, <2>11 DEF v
<1>5. /\ text' = text /\ operands' = operands /\ operators' = operators
      /\ Complete' = Complete /\ Meaning(text') = Meaning(text)
  BY <1>1 DEF Complete, OperandNext
<1>6. EvaluatesAsRead'
  BY <1>4, <1>5 DEF EvaluatesAsRead
<1>7. text' \in Seq(Token) /\ \E T, q, r : Lies(text', operands', operators', T, q, r)
  BY <1>2, <1>5 DEF ReadInv
<1>8. QED
  BY <1>6, <1>7 DEF ReadInv

(* Nothing is read yet.                                                     *)
LEMMA NothingRead == \E S, p, o : Lies(<<>>, <<>>, <<>>, S, p, o)
<1> DEFINE z == [i \in Nat |-> 0]
           e == <<>>
<1>1. e \in Seq({}) /\ e \in Seq(Token) /\ e \in Seq(Operators \cup {"("}) /\ Len(e) = 0
  BY EmptySeq
<1>2. z \in [Nat -> Nat] /\ z[0] = 0
  OBVIOUS
<1> HIDE DEF e, z
<1>3. Layout(e, e, e, z, z)
  <2>1. \A i, k \in 0..Len(e) : i <= k => z[i] <= z[k]
    BY <1>1, <1>2
  <2>2. \A i \in 1..Len(e) : Placed(e, e, e, z, z, i)
    BY <1>1
  <2>3. QED
    BY <1>1, <1>2, <2>1, <2>2 DEF Layout
<1>4. Waiting(e, e, e, z, z)
  BY <1>1, <1>2 DEF Waiting
<1>5. Lies(e, e, e, {}, z, z)
  BY <1>1, <1>3, <1>4 DEF Lies
<1>6. QED
  BY <1>5 DEF e

(* The two stacks lie over the text as long as the evaluation goes on.      *)
THEOREM EvaluationInvariant == ExpressionSpec => []ReadInv
<1>1. ExpressionInit => ReadInv
  <2>1. <<>> \in Seq(Token)
    BY EmptySeq
  <2>2. QED
    BY <2>1, NothingRead DEF ExpressionInit, ReadInv, EvaluatesAsRead
<1>2. ReadInv /\ [ExpressionNext]_expressionVars => ReadInv'
  <2> SUFFICES ASSUME ReadInv, [ExpressionNext]_expressionVars PROVE ReadInv'
    OBVIOUS
  <2>1. CASE ReadOperand
    BY <2>1, OperandReads
  <2>2. CASE OpenParenthesis
    BY <2>2, OpenReads
  <2>3. CASE CloseParenthesis
    BY <2>3, CloseReads
  <2>4. CASE ReadOperator
    BY <2>4, OperatorReads
  <2>5. CASE EndOfText
    BY <2>5, EndReads
  <2>6. CASE NextText
    <3>1. text' = <<>> /\ operands' = <<>> /\ operators' = <<>> /\ result' = <<>>
      BY <2>6 DEF NextText
    <3>2. <<>> \in Seq(Token)
      BY EmptySeq
    <3>3. QED
      BY <3>1, <3>2, NothingRead DEF ReadInv, EvaluatesAsRead
  <2>7. CASE UNCHANGED expressionVars
    BY <2>7 DEF expressionVars, ReadInv, EvaluatesAsRead, Complete, OperandNext
  <2>8. QED
    BY <2>1, <2>2, <2>3, <2>4, <2>5, <2>6, <2>7 DEF ExpressionNext
<1>3. QED
  BY <1>1, <1>2, PTL DEF ExpressionSpec

(* EvaluatesAsRead (expression_parser.c:244, 195, 287), for every set of    *)
(* operators and every length: what a complete expression evaluates to is   *)
(* what the grammar says.                                                   *)
THEOREM EvaluatesAsReadCorrect == ExpressionSpec => []EvaluatesAsRead
<1>1. ReadInv => EvaluatesAsRead
  BY DEF ReadInv
<1>2. QED
  BY <1>1, EvaluationInvariant, PTL
=============================================================================
