------------------------------- MODULE TrackPopup -------------------------------
(***************************************************************************)
(* The track pop-up of main/track_popup.c, in bridge wiring: the head      *)
(* unit's frames reach the cluster only through the forward filter.  A     *)
(* text is queued by any task; the tick, receive and forward hooks         *)
(* dispatch into the pop-up machine, one step each under its lock.  The    *)
(* ISO-TP transmitter is the one IsoTpTx implements: IsoTpService.         *)
(*                                                                         *)
(* Media types are the transport families their texts use, and Silent,     *)
(* which stands for "off" and for the types that have none.  A time-out is *)
(* a flag that time raises once the state has been entered.                *)
(***************************************************************************)
EXTENDS Naturals, Sequences

CONSTANTS
  Texts,          (* texts that fit the cluster                            *)
  HeadText,       (* any text of the head unit                             *)
  Families,       (* ISO-TP pairs the cluster shows texts of               *)
  Fallback,       (* the pair of the fallback media type                   *)
  Silent,         (* media types without a pair                            *)
  TriggerFrames,  (* TRACK_POPUP_TRIGGER_FRAME_COUNT                       *)
  QueueDepth      (* TRACK_POPUP_QUEUE_DEPTH                               *)

ASSUME FamilyAssumption == Fallback \in Families /\ Silent \notin Families
ASSUME TextAssumption == HeadText \notin Texts
ASSUME CountAssumption == TriggerFrames \in Nat \ {0} /\ QueueDepth \in Nat \ {0}

VARIABLES
  queue,      (* the requests that wait                                    *)
  leaf,       (* "idle", "trigger", "sending" or "hold"                    *)
  ctx,        (* trigger_ctx; `late` and `settled` are its two time-outs   *)
  held,       (* the display hold is over                                  *)
  transport,  (* active_transport, which is also the transmitter's config  *)
  owned,      (* media_type_owned                                          *)
  running,    (* the transmitter: a transfer runs                          *)
  outcome,    (* the transmitter: its last result                          *)
  media,      (* history: the media type the cluster heard last            *)
  triggers,   (* history: trigger frames offered to the bus per request    *)
  wire,       (* history: the pair a transfer started on, and whether the  *)
              (* cluster heard it undisturbed                              *)
  shown,      (* history: the text the cluster has for each pair           *)
  leaked      (* history: the head unit heard an answer to our transfer    *)

transmitter == <<running, outcome>>
heard == <<media, triggers, wire, shown, leaked>>
popupVars == <<queue, leaf, ctx, held, transport, owned, transmitter, heard>>

Service == INSTANCE IsoTpService

MediaTypes == Families \cup {Silent}

---------------------------------------------------------------------------
(* Requests.                                                               *)

\* track_popup_show: a text that finds the queue full is refused.
Show(text) ==
  /\ Len(queue) < QueueDepth
  /\ queue' = Append(queue, text)
  /\ UNCHANGED <<leaf, ctx, held, transport, owned, transmitter, heard>>

---------------------------------------------------------------------------
(* The tick.                                                               *)

\* idle_enter gives the media type back.
ToIdle == leaf' = "idle" /\ owned' = FALSE

\* trigger_enter, on a context the engine has cleared.
FreshTrigger(request) ==
  [request |-> request, remaining |-> TriggerFrames, selected |-> FALSE,
   late |-> FALSE, settled |-> FALSE]

IdleTick ==
  /\ leaf = "idle" /\ queue # <<>>
  /\ queue' = Tail(queue)
  /\ leaf' = "trigger" /\ ctx' = FreshTrigger(Head(queue))
  /\ triggers' = 0
  /\ UNCHANGED <<held, transport, owned, transmitter, media, wire, shown, leaked>>

MayStart == ctx.selected /\ ctx.remaining = 0 /\ ctx.settled

\* Mutant: an attempt waits for its trigger frames for ever.
TriggerTick_Patient ==
  /\ leaf = "trigger" /\ MayStart /\ ~running
  /\ Service!Accept
  /\ leaf' = "sending"
  /\ wire' = [pair |-> transport, intact |-> TRUE]
  /\ UNCHANGED <<queue, ctx, held, transport, owned, media, triggers, shown, leaked>>

TriggerTick ==
  /\ leaf = "trigger"
  /\ \/ /\ MayStart /\ ~running
        /\ Service!Accept
        /\ leaf' = "sending"
        /\ wire' = [pair |-> transport, intact |-> TRUE]
        /\ UNCHANGED owned
     \/ /\ IF MayStart THEN running ELSE ctx.late
        /\ ToIdle
        /\ UNCHANGED <<transmitter, wire>>
  /\ UNCHANGED <<queue, ctx, held, transport, media, triggers, shown, leaked>>

\* Mutant: the result is read without asking whether the transfer is over.
SendingTick_Impatient ==
  /\ leaf = "sending"
  /\ IF outcome = "success" THEN leaf' = "hold" /\ UNCHANGED owned ELSE ToIdle
  /\ held' = FALSE
  /\ UNCHANGED <<queue, ctx, transport, transmitter, heard>>

SendingTick ==
  /\ leaf = "sending" /\ ~running
  /\ IF outcome = "success" THEN leaf' = "hold" /\ UNCHANGED owned ELSE ToIdle
  /\ held' = FALSE
  /\ UNCHANGED <<queue, ctx, transport, transmitter, heard>>

HoldTick ==
  /\ leaf = "hold" /\ held
  /\ ToIdle
  /\ UNCHANGED <<queue, ctx, held, transport, transmitter, heard>>

---------------------------------------------------------------------------
(* Frames of the head unit that the receive task offers for forwarding.    *)

\* The first media frame of an attempt selects its strategy.
Selects == leaf = "trigger" /\ ~ctx.selected

\* The pair, and the ownership, that a selection on this media type gives.
PairOf(type) == IF type \in Families THEN type ELSE Fallback
OwnsFor(type) == type \notin Families

\* A media frame of an attempt that still lacks trigger frames becomes one.
IsTrigger == leaf = "trigger" /\ ctx.remaining > 0

\* A media frame: trigger_fwd marks the first ones of an attempt, and a type that
\* has no pair is replaced by the fallback until the attempt is over.  The bus may
\* refuse the frame that results.
MediaFrame(type) ==
  /\ transport' = IF Selects THEN PairOf(type) ELSE transport
  /\ owned' = IF Selects THEN OwnsFor(type) ELSE owned
  /\ ctx' = IF leaf # "trigger" THEN ctx
            ELSE [ctx EXCEPT !.selected = TRUE,
                             !.remaining = IF IsTrigger THEN @ - 1 ELSE @,
                             !.settled = @ /\ ~IsTrigger]
  /\ triggers' = IF IsTrigger THEN triggers + 1 ELSE triggers
  /\ media' \in {media, IF owned' THEN Fallback ELSE type}
  /\ UNCHANGED <<queue, leaf, held, transmitter, wire, shown, leaked>>

\* Mutant: only the transfer itself keeps the head unit out.
Blocked_UntilSent(family) ==
  /\ family = transport
  /\ leaf = "sending" \/ (leaf = "trigger" /\ ctx.selected)

\* Head-unit text for the active pair is blocked from the selection to the end of
\* the hold.
Blocked(family) ==
  /\ family = transport
  /\ leaf \in {"sending", "hold"} \/ (leaf = "trigger" /\ ctx.selected)

\* A text frame of the head unit that gets through replaces what the cluster has,
\* and spoils a message it is in the middle of.
TextFrame(family) ==
  /\ ~Blocked(family)
  /\ shown' = [shown EXCEPT ![family] = HeadText]
  /\ wire' = [wire EXCEPT !.intact = @ /\ ~(running /\ family = wire.pair)]
  /\ UNCHANGED <<queue, leaf, ctx, held, transport, owned, transmitter, media, triggers, leaked>>

---------------------------------------------------------------------------
(* The transmitter and the cluster.                                        *)

\* Flow control for the running transfer: popup_owned_fwd keeps it from the head unit.
Answer ==
  /\ running
  /\ leaked' = (leaked \/ leaf \notin {"sending", "hold"} \/ wire.pair # transport)
  /\ UNCHANGED <<queue, leaf, ctx, held, transport, owned, transmitter, media, triggers, wire, shown>>

\* The transfer ends; a text that was heard whole is what the cluster now has.
TransferEnds ==
  /\ Service!End
  /\ shown' = IF outcome' = "success" /\ wire.intact /\ wire.pair = transport
              THEN [shown EXCEPT ![transport] = ctx.request] ELSE shown
  /\ UNCHANGED <<queue, leaf, ctx, held, transport, owned, media, triggers, wire, leaked>>

\* Time: 2 s after the request, 5 ms after the last trigger frame, 5 s of display.
TriggerAges ==
  /\ leaf = "trigger" /\ ~ctx.late
  /\ ctx' = [ctx EXCEPT !.late = TRUE]
  /\ UNCHANGED <<queue, leaf, held, transport, owned, transmitter, heard>>

TriggerSettles ==
  /\ leaf = "trigger" /\ ctx.remaining = 0 /\ ~ctx.settled
  /\ ctx' = [ctx EXCEPT !.settled = TRUE]
  /\ UNCHANGED <<queue, leaf, held, transport, owned, transmitter, heard>>

HoldEnds ==
  /\ leaf = "hold" /\ ~held
  /\ held' = TRUE
  /\ UNCHANGED <<queue, leaf, ctx, transport, owned, transmitter, heard>>

---------------------------------------------------------------------------
PopupInit ==
  /\ queue = <<>> /\ leaf = "idle" /\ held = FALSE
  /\ ctx = [request |-> HeadText, remaining |-> 0, selected |-> FALSE,
            late |-> FALSE, settled |-> FALSE]
  /\ transport = Fallback /\ owned = FALSE
  /\ Service!Init
  /\ media \in MediaTypes /\ triggers = 0
  /\ wire = [pair |-> Fallback, intact |-> FALSE]
  /\ shown = [family \in Families |-> HeadText]
  /\ leaked = FALSE

Tick == IdleTick \/ TriggerTick \/ SendingTick \/ HoldTick
Time == TriggerAges \/ TriggerSettles \/ HoldEnds

PopupNext == \/ \E text \in Texts : Show(text)
        \/ Tick
        \/ \E type \in MediaTypes : MediaFrame(type)
        \/ \E family \in Families : TextFrame(family)
        \/ Answer \/ TransferEnds \/ Time

PopupSpec == PopupInit /\ [][PopupNext]_popupVars

\* The tick comes every 40 ms, time passes, and a transfer ends (IsoTpTx).
\* Nothing is assumed of the head unit.
PopupFairness ==
  WF_popupVars(Tick) /\ WF_popupVars(TransferEnds) /\ WF_popupVars(Time)
PopupFairSpec == PopupSpec /\ PopupFairness
=================================================================================
