-------------------------------- MODULE MCCanBus --------------------------------
(* The CAN side: the driver wrapper, the driver of the second bus below it, and  *)
(* the pop-up, which filters what is forwarded between the buses.  They meet in  *)
(* single calls; each behaviour is one of one machine, `part` says which, the    *)
(* others stay put.                                                              *)
EXTENDS CanBusProps, Mcp2515, TrackPopupProps

VARIABLE part

canVars == <<part, vars, mcpVars, popupVars>>

Load(sends, hears, errors, faults, rounds) ==
  [sends |-> sends, hears |-> hears, errors |-> errors, faults |-> faults, rounds |-> rounds]

(* A stream of frames against one that comes in; a receiver that overflows; a    *)
(* transfer that fails; a disable amid traffic, one that fails, one after        *)
(* another, and one amid errors.                                                 *)
MixedLoads == {Load(4, 1, 0, 0, 0), Load(1, 3, 0, 1, 0), Load(3, 0, 0, 1, 0),
               Load(3, 0, 0, 0, 1), Load(1, 0, 0, 1, 1), Load(2, 0, 1, 0, 2),
               Load(1, 1, 1, 0, 1)}
ThreeSends == {Load(3, 0, 0, 0, 0)}
OneDisable == {Load(0, 0, 1, 0, 1)}

(* The machines that stand still have one initial state.                         *)
CanInit ==
  /\ part \in {"bus", "chip", "popup"}
  /\ Init /\ McpInit /\ PopupInit
  /\ part # "chip" => left = CHOOSE w \in Workloads : TRUE
  /\ part # "popup" => media = Silent

(* What stops is the chip, once its workload is over.                            *)
CanNext ==
  \/ part = "bus" /\ Next /\ UNCHANGED <<part, mcpVars, popupVars>>
  \/ /\ part = "chip" /\ (McpNext \/ UNCHANGED mcpVars)
     /\ UNCHANGED <<part, vars, popupVars>>
  \/ part = "popup" /\ PopupNext /\ UNCHANGED <<part, vars, mcpVars>>

(* A bus and a chip that stand still can do nothing of their fairness: the one   *)
(* is off and nobody asks for it, the other has no node.  The tick of the pop-up *)
(* is left out where it stands still.                                            *)
CanSpec ==
  /\ CanInit /\ [][CanNext]_canVars
  /\ Fairness /\ McpFairness
  /\ WF_popupVars(part = "popup" /\ Tick) /\ WF_popupVars(TransferEnds) /\ WF_popupVars(Time)
=================================================================================
