------------------------------ MODULE IsoTpTxProps ------------------------------
(***************************************************************************)
(* Correctness properties of the ISO-TP transmitter.                       *)
(***************************************************************************)
EXTENDS IsoTpTx

Ends == {"success", "timeout", "overflow", "protocol-error", "send-error"}

\* Every variable stays in its type: the payload is never read past its end, and
\* the wait frames never pass the configured number by more than one.
IsoTypeOK ==
  /\ state \in {"idle", "wait-fc", "consecutive"}
  /\ lock \in {"free", "worker", "rx"}
  /\ fin \in {"none", "result", "busy", "deadline"}
  /\ finResult \in Ends \cup {"idle"}
  /\ busy \in BOOLEAN /\ startPending \in BOOLEAN /\ notified \in BOOLEAN
  /\ result \in Ends \cup {"idle", "in-progress"}
  /\ deadline \in {"none", "future", "due"} /\ waitFor \in {"none", "future", "due"}
  /\ transfer.token \in 0 .. 1 /\ transfer.size \in Sizes \cup {0}
  /\ transfer.offset \in 0 .. transfer.size /\ transfer.seq \in 0 .. (SeqModulus - 1)
  /\ flow.block \in BlockSizes \cup {0} /\ flow.waits \in 0 .. (MaxWait + 1)
  /\ flow.separation \in {"due", "future"}
  /\ reqLock \in Clients \cup {"free"}
  /\ \A c \in Clients : client[c] \in {"out", "copy", "result", "busy", "pending", "deadline", "wake"}
  /\ worker \in {"plan", "blocked", "tick", "start", "poll"}
  /\ rx \in FlowControl \cup {NoFrame, ToWake}

\* The far end never hears frames of two payloads, or out of order, in one message,
\* nor more frames than it granted.
FramesInOrder ==
  /\ receiver.ok
  /\ flow.block # 0 => receiver.block <= flow.block

\* Success is reported only when the far end has the whole payload.
SuccessIsDelivered ==
  ~busy /\ reqLock = "free" /\ result = "success" =>
    receiver.ok /\ receiver.token = transfer.token /\ receiver.got = transfer.size

\* Clients see one transfer at a time, each with one result: a start that is
\* copying its payload is not yet a transfer, a finish that has not cleared
\* `busy` still is one.
Unannounced == \E c \in Clients : client[c] = "busy"

AsService == INSTANCE IsoTpService WITH
             running <- busy \/ Unannounced,
             outcome <- IF fin = "busy" THEN "in-progress" ELSE result

ImplementsService == AsService!Spec

\* Every transfer ends, whatever the far end answers and however late.
EveryTransferEnds == busy ~> ~busy
=================================================================================
