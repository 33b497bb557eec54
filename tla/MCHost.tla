------------------------------- MODULE MCHost -------------------------------
(* The host side of the firmware, three machines that meet only in queues: *)
(* the socket server, the protocol adapters, the bridge.  Each behaviour   *)
(* is one of one machine; `part` says which, the other two stay put.       *)
EXTENDS CommServerProps, AdaptersProps, MCAdapters, Bridge

VARIABLE part

hostVars == <<part, commVars, adapterVars, bridgeVars>>

(* The machines that stand still have one initial state.                   *)
HostInit ==
  /\ part \in {"server", "adapters", "bridge"}
  /\ CommInit /\ AdapterInit /\ BridgeInit
  /\ part # "server" => ~udp
  /\ part # "adapters" => protocol = "SLCAN" /\ ~txMsg.rtr
  /\ part # "bridge" => bridging

HostNext ==
  \/ part = "server" /\ CommNext /\ UNCHANGED <<part, adapterVars, bridgeVars>>
  \/ part = "adapters" /\ AdapterNext /\ UNCHANGED <<part, commVars, bridgeVars>>
  \/ part = "bridge" /\ BridgeNext /\ UNCHANGED <<part, commVars, adapterVars>>

(* The liveness properties are all about the server; its fairness leaves   *)
(* the other two machines out of them.                                     *)
HostSpec == HostInit /\ [][HostNext]_hostVars /\ CommFairness
=============================================================================
