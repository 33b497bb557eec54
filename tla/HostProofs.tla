----------------------------- MODULE HostProofs -----------------------------
(***************************************************************************)
(* What is proved about the way to the host.  The socket server: its three *)
(* tasks use one global descriptor with a mutex in two of them only; what  *)
(* keeps a descriptor open under its user is the protocol of the two event *)
(* bits, which the invariant spells out place by place.  The webhook: its  *)
(* receiver is sent differences and is in step all the same, because what  *)
(* it will know is the snapshot the next difference is taken against.      *)
(* The bridge: the receive queue never overflows, because the task waits   *)
(* for each bus at most once before the queue is empty again; the          *)
(* invariant counts the queued frames by the bus they go to.               *)
(* The SLCAN adapter: the text it writes for a received frame is a command *)
(* it reads as that frame, byte by byte, from every tx_msg.                *)
(* The adapters' commands: two readings of the same bytes agree whatever   *)
(* tx_msg held, and a parser takes up where it stopped; so a command does  *)
(* in pieces and after others what it does whole and first of all.         *)
(* The MQTT client: the loop over the filters is a fold; its run is served *)
(* to the first filter that was early, and no further.                     *)
(***************************************************************************)
EXTENDS CommServerProps, Webhook, Bridge, AdaptersProps, MqttClient, FiniteSetTheorems, TLAPS

(* The server has a newcomer in hand.                                      *)
Greeting == {"peek", "over", "await", "swap"}

(* The values the proofs need to know of: what is queued does not matter.   *)
CommTypes ==
  /\ sock \in Clients \cup {NoSock}
  /\ srv = [at |-> srv.at, new |-> srv.new] /\ srv.new \in Clients \cup {NoSock}
  /\ rx = [at |-> rx.at, fd |-> rx.fd]
  /\ tx = [at |-> tx.at, batch |-> tx.batch]
  /\ portOpen \in BOOLEAN /\ portClosed \in BOOLEAN
  /\ DOMAIN peer = Clients
  /\ unread \in [Clients -> Nat]

(* Each server stays in its own part of the program.                       *)
SrvPart ==
  IF udp THEN srv.at \notin Greeting \cup {"accept"}
         ELSE srv.at # "udp-wait" /\ (srv.at \in {"start", "dead"} => sock = NoSock)

(* The bits: PORT_CLOSED says that the receive task is parked and that no  *)
(* producer is let in; between lowering it and raising PORT_OPEN nobody    *)
(* can move it.                                                            *)
BitsAgree ==
  /\ portClosed => ~portOpen /\ rx.at = "wait"
  /\ srv.at \in {"swap", "clear"} => portClosed
  /\ srv.at = "open" => ~portClosed /\ ~portOpen /\ rx.at = "wait"
  /\ rx.at \in {"shut", "signal"} => ~portOpen

(* The descriptors: before the first session all is closed; later sock is  *)
(* open and is not the newcomer, who is open as well.                      *)
FdsAgree ==
  /\ sock = NoSock => portClosed /\ srv.at \notin {"await", "swap", "clear", "open"}
                      /\ tx.at \in {"idle", "gate"}
  /\ sock # NoSock => sock \in fds /\ peer[sock] = "met"
  /\ srv.at \in Greeting => srv.new \in Clients /\ srv.new \in fds /\ srv.new # sock
                            /\ peer[srv.new] = "met"

(* Who uses the descriptor, and by what right.                             *)
UsersHold ==
  /\ rx.at \in {"recv", "queue", "clear", "shut"} => rx.fd = sock
  /\ tx.at \in {"send", "clear", "shut"} <=> skMutex = "tx"

(* A takeover of a live session is under way only with a hello to read.    *)
HelloWaits == srv.at = "over" /\ portOpen => unread[srv.new] > 0

(* What holds of TCP; UDP has one descriptor and closes it under its users.*)
Protocol == ~udp => BitsAgree /\ FdsAgree /\ UsersHold /\ HelloWaits

CommInv == CommTypes /\ SrvPart /\ Protocol

-----------------------------------------------------------------------------
USE SocketAssumption
USE DEF SrvPlaces, RxPlaces, TxPlaces, Greeting, sessionVars, peerVars, queueVars

(* At the start everything is closed and nobody is busy.                   *)
LEMMA CommInvInit == ASSUME CommInit PROVE CommInv
<1>1. CommTypes
  BY DEF CommInit, CommTypes
<1>2. SrvPart
  BY DEF CommInit, SrvPart
<1>3. ASSUME ~udp PROVE BitsAgree /\ FdsAgree /\ UsersHold /\ HelloWaits
  BY <1>3 DEF CommInit, BitsAgree, FdsAgree, UsersHold, HelloWaits
<1>. QED BY <1>1, <1>2, <1>3 DEF CommInv, Protocol

(* The peers touch neither bits nor descriptors.                           *)
LEMMA PeersStep == ASSUME CommInv, Peers PROVE CommInv'
<1>. PICK c \in Clients : Say(c) \/ Go(c) \/ Deafen(c)
  BY DEF Peers
<1>1. CASE Say(c)
  <2>1. CommTypes' /\ SrvPart'
    BY <1>1 DEF Say, CommInv, CommTypes, SrvPart
  <2>2. Protocol'
    BY <1>1 DEF Say, CommInv, Protocol, CommTypes, SrvPart, BitsAgree, FdsAgree, UsersHold,
       HelloWaits
  <2>. QED BY <2>1, <2>2 DEF CommInv
<1>2. CASE Go(c)
  <2>1. CommTypes' /\ SrvPart'
    BY <1>2 DEF Go, CommInv, CommTypes, SrvPart
  <2>2. Protocol'
    BY <1>2 DEF Go, CommInv, Protocol, CommTypes, SrvPart, BitsAgree, FdsAgree, UsersHold,
       HelloWaits
  <2>. QED BY <2>1, <2>2 DEF CommInv
<1>3. CASE Deafen(c)
  <2>1. CommTypes' /\ SrvPart'
    BY <1>3 DEF Deafen, CommInv, CommTypes, SrvPart
  <2>2. Protocol'
    BY <1>3 DEF Deafen, CommInv, Protocol, CommTypes, SrvPart, BitsAgree, FdsAgree, UsersHold,
       HelloWaits
  <2>. QED BY <2>1, <2>2 DEF CommInv
<1>. QED BY <1>1, <1>2, <1>3

(* It reads what the session sent, never the newcomer.                     *)
LEMMA RxDataStep == ASSUME CommInv, NEW c \in Clients, RxData(c) PROVE CommInv'
<1>1. CASE RxData(c)
  <2>1. CommTypes' /\ SrvPart'
    BY <1>1 DEF RxData, CommInv, CommTypes, SrvPart
  <2>2. Protocol'
    BY <1>1 DEF RxData, CommInv, Protocol, CommTypes, SrvPart, BitsAgree, FdsAgree, UsersHold,
       HelloWaits
  <2>. QED BY <2>1, <2>2 DEF CommInv
<1>. QED BY <1>1

(* The receive task: its last act is to raise PORT_CLOSED.                 *)
LEMMA RxTaskStep == ASSUME CommInv, RxTask PROVE CommInv'
<1>1. CASE RxWake
  <2>1. CommTypes' /\ SrvPart'
    BY <1>1 DEF RxWake, CommInv, CommTypes, SrvPart
  <2>2. Protocol'
    BY <1>1 DEF RxWake, CommInv, Protocol, CommTypes, SrvPart, BitsAgree, FdsAgree, UsersHold,
       HelloWaits
  <2>. QED BY <2>1, <2>2 DEF CommInv
<1>2. CASE RxCall
  <2>1. CommTypes' /\ SrvPart'
    BY <1>2 DEF RxCall, CommInv, CommTypes, SrvPart
  <2>2. Protocol'
    BY <1>2 DEF RxCall, CommInv, Protocol, CommTypes, SrvPart, BitsAgree, FdsAgree, UsersHold,
       HelloWaits
  <2>. QED BY <2>1, <2>2 DEF CommInv
<1>3. CASE RxQueue
  <2>1. CommTypes' /\ SrvPart'
    BY <1>3 DEF RxQueue, CommInv, CommTypes, SrvPart
  <2>2. Protocol'
    BY <1>3 DEF RxQueue, CommInv, Protocol, CommTypes, SrvPart, BitsAgree, FdsAgree, UsersHold,
       HelloWaits
  <2>. QED BY <2>1, <2>2 DEF CommInv
<1>4. CASE RxEnd
  <2>1. CommTypes' /\ SrvPart'
    BY <1>4 DEF RxEnd, CommInv, CommTypes, SrvPart
  <2>2. Protocol'
    BY <1>4 DEF RxEnd, CommInv, Protocol, CommTypes, SrvPart, BitsAgree, FdsAgree, UsersHold,
       HelloWaits
  <2>. QED BY <2>1, <2>2 DEF CommInv
<1>5. CASE RxClear
  <2>1. CommTypes' /\ SrvPart'
    BY <1>5 DEF RxClear, CommInv, CommTypes, SrvPart
  <2>2. Protocol'
    BY <1>5 DEF RxClear, CommInv, Protocol, CommTypes, SrvPart, BitsAgree, FdsAgree, UsersHold,
       HelloWaits
  <2>. QED BY <2>1, <2>2 DEF CommInv
<1>6. CASE RxShut
  <2>1. CommTypes' /\ SrvPart'
    BY <1>6 DEF RxShut, CommInv, CommTypes, SrvPart
  <2>2. Protocol'
    BY <1>6 DEF RxShut, CommInv, Protocol, CommTypes, SrvPart, BitsAgree, FdsAgree, UsersHold,
       HelloWaits
  <2>. QED BY <2>1, <2>2 DEF CommInv
<1>7. CASE RxSignal
  <2>1. CommTypes' /\ SrvPart'
    BY <1>7 DEF RxSignal, CommInv, CommTypes, SrvPart
  <2>2. Protocol'
    BY <1>7 DEF RxSignal, CommInv, Protocol, CommTypes, SrvPart, BitsAgree, FdsAgree,
       UsersHold, HelloWaits
  <2>. QED BY <2>1, <2>2 DEF CommInv
<1>. QED BY RxDataStep, <1>1, <1>2, <1>3, <1>4, <1>5, <1>6, <1>7 DEF RxTask

(* The transmit task: from lock to the last use of sock it holds the mutex.*)
LEMMA TxTaskStep == ASSUME CommInv, TxTask PROVE CommInv'
<1>1. CASE TxWake
  <2>1. CommTypes' /\ SrvPart'
    BY <1>1 DEF TxWake, CommInv, CommTypes, SrvPart
  <2>2. Protocol'
    BY <1>1 DEF TxWake, CommInv, Protocol, CommTypes, SrvPart, BitsAgree, FdsAgree, UsersHold,
       HelloWaits
  <2>. QED BY <2>1, <2>2 DEF CommInv
<1>2. CASE TxTake
  <2>1. CommTypes' /\ SrvPart'
    BY <1>2 DEF TxTake, CommInv, CommTypes, SrvPart
  <2>2. Protocol'
    BY <1>2 DEF TxTake, CommInv, Protocol, CommTypes, SrvPart, BitsAgree, FdsAgree, UsersHold,
       HelloWaits
  <2>. QED BY <2>1, <2>2 DEF CommInv
<1>3. CASE TxGate
  <2>1. CommTypes' /\ SrvPart'
    BY <1>3 DEF TxGate, CommInv, CommTypes, SrvPart
  <2>2. Protocol'
    BY <1>3 DEF TxGate, CommInv, Protocol, CommTypes, SrvPart, BitsAgree, FdsAgree, UsersHold,
       HelloWaits
  <2>. QED BY <2>1, <2>2 DEF CommInv
<1>4. CASE TxDrain
  <2>1. CommTypes' /\ SrvPart'
    BY <1>4 DEF TxDrain, CommInv, CommTypes, SrvPart
  <2>2. Protocol'
    BY <1>4 DEF TxDrain, CommInv, Protocol, CommTypes, SrvPart, BitsAgree, FdsAgree, UsersHold,
       HelloWaits
  <2>. QED BY <2>1, <2>2 DEF CommInv
<1>5. CASE TxLock
  <2>1. CommTypes' /\ SrvPart'
    BY <1>5 DEF TxLock, CommInv, CommTypes, SrvPart
  <2>2. Protocol'
    BY <1>5 DEF TxLock, CommInv, Protocol, CommTypes, SrvPart, BitsAgree, FdsAgree, UsersHold,
       HelloWaits
  <2>. QED BY <2>1, <2>2 DEF CommInv
<1>6. CASE TxSend
  <2>1. CommTypes' /\ SrvPart'
    BY <1>6 DEF TxSend, CommInv, CommTypes, SrvPart
  <2>2. Protocol'
    BY <1>6 DEF TxSend, CommInv, Protocol, CommTypes, SrvPart, BitsAgree, FdsAgree, UsersHold,
       HelloWaits
  <2>. QED BY <2>1, <2>2 DEF CommInv
<1>7. CASE TxFail
  <2>1. CommTypes' /\ SrvPart'
    BY <1>7 DEF TxFail, CommInv, CommTypes, SrvPart
  <2>2. Protocol'
    BY <1>7 DEF TxFail, CommInv, Protocol, CommTypes, SrvPart, BitsAgree, FdsAgree, UsersHold,
       HelloWaits
  <2>. QED BY <2>1, <2>2 DEF CommInv
<1>8. CASE TxClear
  <2>1. CommTypes' /\ SrvPart'
    BY <1>8 DEF TxClear, CommInv, CommTypes, SrvPart
  <2>2. Protocol'
    BY <1>8 DEF TxClear, CommInv, Protocol, CommTypes, SrvPart, BitsAgree, FdsAgree, UsersHold,
       HelloWaits
  <2>. QED BY <2>1, <2>2 DEF CommInv
<1>9. CASE TxShut
  <2>1. CommTypes' /\ SrvPart'
    BY <1>9 DEF TxShut, CommInv, CommTypes, SrvPart
  <2>2. Protocol'
    BY <1>9 DEF TxShut, CommInv, Protocol, CommTypes, SrvPart, BitsAgree, FdsAgree, UsersHold,
       HelloWaits
  <2>. QED BY <2>1, <2>2 DEF CommInv
<1>. QED BY <1>1, <1>2, <1>3, <1>4, <1>5, <1>6, <1>7, <1>8, <1>9 DEF TxTask

(* The server task: it swaps sock only when nobody can be using it.        *)
LEMMA SrvTaskStep == ASSUME CommInv, SrvTask PROVE CommInv'
<1>1. CASE SrvStart
  <2>1. CommTypes' /\ SrvPart'
    BY <1>1 DEF SrvStart, SrvMove, CommInv, CommTypes, SrvPart
  <2>2. Protocol'
    BY <1>1 DEF SrvStart, SrvMove, CommInv, Protocol, CommTypes, SrvPart, BitsAgree, FdsAgree,
       UsersHold, HelloWaits
  <2>. QED BY <2>1, <2>2 DEF CommInv
<1>2. CASE SrvPeek
  <2>1. CommTypes' /\ SrvPart'
    BY <1>2 DEF SrvPeek, SrvMove, Reject, CommInv, CommTypes, SrvPart
  <2>2. Protocol'
    BY <1>2 DEF SrvPeek, SrvMove, Reject, CommInv, Protocol, CommTypes, SrvPart, BitsAgree,
       FdsAgree, UsersHold, HelloWaits
  <2>. QED BY <2>1, <2>2 DEF CommInv
<1>3. CASE SrvOver
  <2>1. CommTypes' /\ SrvPart'
    BY <1>3 DEF SrvOver, SrvMove, CommInv, CommTypes, SrvPart
  <2>2. Protocol'
    BY <1>3 DEF SrvOver, SrvMove, CommInv, Protocol, CommTypes, SrvPart, BitsAgree, FdsAgree,
       UsersHold, HelloWaits
  <2>. QED BY <2>1, <2>2 DEF CommInv
<1>4. CASE SrvAwait
  <2>1. CommTypes' /\ SrvPart'
    BY <1>4 DEF SrvAwait, SrvMove, Reject, RxStuck, CommInv, CommTypes, SrvPart
  <2>2. Protocol'
    BY <1>4 DEF SrvAwait, SrvMove, Reject, RxStuck, CommInv, Protocol, CommTypes, SrvPart,
       BitsAgree, FdsAgree, UsersHold, HelloWaits
  <2>. QED BY <2>1, <2>2 DEF CommInv
<1>5. CASE SrvSwap
  <2>1. CommTypes' /\ SrvPart'
    BY <1>5 DEF SrvSwap, SrvMove, CommInv, CommTypes, SrvPart
  <2>2. Protocol'
    BY <1>5 DEF SrvSwap, SrvMove, CommInv, Protocol, CommTypes, SrvPart, BitsAgree, FdsAgree,
       UsersHold, HelloWaits
  <2>. QED BY <2>1, <2>2 DEF CommInv
<1>6. CASE SrvClear
  <2>1. CommTypes' /\ SrvPart'
    BY <1>6 DEF SrvClear, SrvMove, CommInv, CommTypes, SrvPart
  <2>2. Protocol'
    BY <1>6 DEF SrvClear, SrvMove, CommInv, Protocol, CommTypes, SrvPart, BitsAgree, FdsAgree,
       UsersHold, HelloWaits
  <2>. QED BY <2>1, <2>2 DEF CommInv
<1>7. CASE SrvOpen
  <2>1. CommTypes' /\ SrvPart'
    BY <1>7 DEF SrvOpen, CommInv, CommTypes, SrvPart
  <2>2. Protocol'
    BY <1>7 DEF SrvOpen, CommInv, Protocol, CommTypes, SrvPart, BitsAgree, FdsAgree, UsersHold,
       HelloWaits
  <2>. QED BY <2>1, <2>2 DEF CommInv
<1>8. CASE SrvUdpEnd
  <2>1. CommTypes' /\ SrvPart'
    BY <1>8 DEF SrvUdpEnd, SrvMove, CommInv, CommTypes, SrvPart
  <2>2. Protocol'
    BY <1>8 DEF SrvUdpEnd, SrvMove, CommInv, Protocol, CommTypes, SrvPart, BitsAgree, FdsAgree,
       UsersHold, HelloWaits
  <2>. QED BY <2>1, <2>2 DEF CommInv
<1>. QED BY <1>1, <1>2, <1>3, <1>4, <1>5, <1>6, <1>7, <1>8 DEF SrvTask

(* A newcomer has a descriptor nobody else has.                            *)
LEMMA AcceptStep == ASSUME CommInv, Accept PROVE CommInv'
<1>. PICK c \in Clients : SrvAccept(c)
  BY DEF Accept
<1>1. CASE SrvAccept(c)
  <2>1. CommTypes' /\ SrvPart'
    BY <1>1 DEF SrvAccept, CommInv, CommTypes, SrvPart
  <2>2. Protocol'
    BY <1>1 DEF SrvAccept, CommInv, Protocol, CommTypes, SrvPart, BitsAgree, FdsAgree,
       UsersHold, HelloWaits
  <2>. QED BY <2>1, <2>2 DEF CommInv
<1>. QED BY <1>1

(* Producers and parser touch the queues only.                             *)
LEMMA HostStep == ASSUME CommInv, Stream \/ Execute PROVE CommInv'
<1>1. CASE Stream
  <2>1. CommTypes' /\ SrvPart'
    BY <1>1 DEF Stream, CommInv, CommTypes, SrvPart
  <2>2. Protocol'
    BY <1>1 DEF Stream, CommInv, Protocol, CommTypes, SrvPart, BitsAgree, FdsAgree, UsersHold,
       HelloWaits
  <2>. QED BY <2>1, <2>2 DEF CommInv
<1>2. CASE Execute
  <2>1. CommTypes' /\ SrvPart'
    BY <1>2 DEF Execute, CommInv, CommTypes, SrvPart
  <2>2. Protocol'
    BY <1>2 DEF Execute, CommInv, Protocol, CommTypes, SrvPart, BitsAgree, FdsAgree, UsersHold,
       HelloWaits
  <2>. QED BY <2>1, <2>2 DEF CommInv
<1>. QED BY <1>1, <1>2

(* All steps of the server.                                                 *)
LEMMA CommInvStep == ASSUME CommInv, [CommNext]_commVars PROVE CommInv'
<1>1. CASE CommNext
  BY <1>1, CommInv, PeersStep, HostStep, RxTaskStep, TxTaskStep, SrvTaskStep, AcceptStep DEF
     CommNext
<1>2. CASE UNCHANGED commVars
  BY <1>2 DEF commVars, CommInv, Protocol, CommTypes, SrvPart, BitsAgree, FdsAgree, UsersHold,
     HelloWaits
<1>. QED BY <1>1, <1>2

(* The protocol of the server's tasks, for any number of clients.          *)
THEOREM CommInvariant == CommSpec => []CommInv
<1>. QED BY CommInvInit, CommInvStep, PTL DEF CommSpec

(* No descriptor is closed or replaced under a task that uses it: closing  *)
(* comes after PORT_CLOSED, which the receive task raises as its last act, *)
(* and under the mutex, which the transmit task holds while it sends.      *)
THEOREM FdHeldCorrect == CommSpec => []FdHeld
<1>1. ASSUME CommInv PROVE FdHeld
  <2>. SUFFICES ASSUME ~udp PROVE FdHeld
    BY DEF FdHeld
  <2>1. rx.at \in {"recv", "queue", "clear", "shut"} => rx.fd = sock /\ sock # NoSock
    BY <1>1 DEF CommInv, Protocol, BitsAgree, FdsAgree, UsersHold
  <2>2. tx.at \in {"send", "clear", "shut"} => sock # NoSock
    BY <1>1 DEF CommInv, Protocol, FdsAgree
  <2>3. sock # NoSock => sock \in fds
    BY <1>1 DEF CommInv, Protocol, FdsAgree
  <2>. QED BY <2>1, <2>2, <2>3 DEF FdHeld
<1>. QED BY <1>1, CommInvariant, PTL

(* A silent connection never ends a live session: of a newcomer that waits *)
(* to take over an open port, a hello is always there to be read, since    *)
(* only the receive task reads and it reads the old session.               *)
THEOREM HelloCorrect == CommSpec => HelloBeforeTakeover
<1>1. ASSUME CommInv, [CommNext]_commVars, srv.at = "over", srv'.at = "await", portOpen
      PROVE unread[srv.new] > 0
  BY <1>1 DEF CommInv, Protocol, HelloWaits, SrvPart
<1>2. CommInv /\ [CommNext]_commVars =>
        [srv.at = "over" /\ srv'.at = "await" /\ portOpen => unread[srv.new] > 0]_commVars
  BY <1>1
<1>. QED BY <1>2, CommInvariant, PTL DEF CommSpec, HelloBeforeTakeover

-----------------------------------------------------------------------------
(* The webhook.                                                            *)

WebhookTypes ==
  /\ receiver \in [PlainUrls -> Object]
  /\ current \in Object /\ body \in Object /\ previous \in Object /\ owed \in Object
  /\ hook \in {"read", "post"} => copy.url \in PlainUrls

\* The receiver knows what was sent last.
Knows(u, k) == previous[k] # Absent => receiver[u][k] = previous[k]

\* What is about to be sent together with what the receiver knows is the values the
\* post was made from.
WillKnow(u, k) ==
  previous[k] # Absent =>
    \/ body[k] = previous[k]
    \/ body[k] = Absent /\ receiver[u][k] = previous[k]

\* In "changed" mode: as long as no post failed and the address is the same, what is
\* left out of a post the receiver has; before the first post nothing is left out.
ChangesAgree ==
  \A k \in Keys :
    /\ hook # "post" /\ only \in PlainUrls => Knows(only, k)
    /\ hook = "post" /\ only \in PlainUrls => WillKnow(only, k)
    /\ hook # "post" /\ only = NoPost => previous[k] = Absent
    /\ hook = "post" /\ only = NoPost => previous[k] \in {Absent, body[k]}

WebhookInv == WebhookTypes /\ (~full => ChangesAgree) /\ ReceiverInStep

(* Three values the URLs are compared with, none of them another.           *)
LEMMA Sentinels == NoPost \notin PlainUrls /\ Mixed \notin PlainUrls /\ NoPost # Mixed
  BY WebhookAssumption DEF NoPost, Mixed

(* What is sent for two snapshots.                                          *)
LEMMA DiffObject ==
  ASSUME NEW now \in Object, NEW before \in Object
  PROVE  /\ Diff(now, before) \in Object
         /\ \A k \in Keys : \/ now[k] # before[k] /\ Diff(now, before)[k] = now[k]
                            \/ now[k] = before[k] /\ Diff(now, before)[k] = Absent
  BY DEF Diff, Object

(* What the receiver makes of it.                                           *)
LEMMA MergedObject ==
  ASSUME NEW known \in Object, NEW news \in Object
  PROVE  /\ Merged(known, news) \in Object
         /\ \A k \in Keys : \/ news[k] # Absent /\ Merged(known, news)[k] = news[k]
                            \/ news[k] = Absent /\ Merged(known, news)[k] = known[k]
  BY DEF Merged, Object

\* The steps that neither make nor send a post.
LEMMA Elsewhere ==
  ASSUME WebhookInv, hook # "post", hook' # "post", UNCHANGED <<full, body, previous,
         receiver, owed, only>>, current' \in Object, hook' = "read" => copy'.url \in PlainUrls
  PROVE  WebhookInv'
  BY DEF WebhookInv, WebhookTypes, ChangesAgree, Knows, WillKnow, ReceiverInStep

(* A composed body is the difference the receiver lacks.                    *)
LEMMA ComposeKeeps == ASSUME WebhookInv, Compose PROVE WebhookInv'
  <1>1. /\ hook = "read" /\ hook' = "post" /\ copy' = copy /\ full' = full
        /\ current' = current /\ receiver' = receiver /\ owed' = owed /\ only' = only
    BY DEF Compose
  <1>2. ReceiverInStep'
    BY <1>1 DEF WebhookInv, ReceiverInStep
  <1>3. CASE full
    BY <1>1, <1>2, <1>3 DEF Compose, WebhookInv, WebhookTypes
  <1>4. CASE ~full
    <2>1. body' = Diff(current, previous) /\ previous' = current
      BY <1>4 DEF Compose
    <2>2. current \in Object /\ previous \in Object
      BY DEF WebhookInv, WebhookTypes
    <2>3. WebhookTypes'
      BY <1>1, <2>1, <2>2, DiffObject DEF WebhookInv, WebhookTypes
    <2>4. \A k \in Keys : \/ current[k] # previous[k] /\ body'[k] = previous'[k]
                          \/ current[k] = previous[k] /\ body'[k] = Absent
      BY <2>1, <2>2, DiffObject
    <2>5. ChangesAgree'
      <3> SUFFICES ASSUME NEW k \in Keys
                   PROVE  /\ only \in PlainUrls => WillKnow(only, k)'
                          /\ only = NoPost => previous'[k] \in {Absent, body'[k]}
        BY <1>1 DEF ChangesAgree
      <3>1. /\ only \in PlainUrls => Knows(only, k)
            /\ only = NoPost => previous[k] = Absent
        BY <1>1, <1>4 DEF WebhookInv, ChangesAgree
      <3>2. previous'[k] = current[k]
        BY <2>1
      <3>3. QED
        BY <1>1, <2>4, <3>1, <3>2 DEF Knows, WillKnow
    <2>6. QED
      BY <1>2, <2>3, <2>5 DEF WebhookInv
  <1>5. QED
    BY <1>3, <1>4

(* Only an answered post moves the snapshot.                                *)
LEMMA PostKeeps == ASSUME WebhookInv, Post PROVE WebhookInv'
  <1> DEFINE merged == Merged(receiver[copy.url], body)
  <1> DEFINE taken == [receiver EXCEPT ![copy.url] = merged]
  <1>1. /\ hook = "post" /\ body' = Empty /\ full' = full /\ previous' = previous
        /\ current' = current /\ hook' \notin {"read", "post"}
    BY DEF Post
  <1>2. /\ receiver \in [PlainUrls -> Object] /\ body \in Object /\ previous \in Object
        /\ copy.url \in PlainUrls /\ Empty \in Object
    BY <1>1 DEF WebhookInv, WebhookTypes, Empty, Object
  <1>3. merged \in Object
        /\ \A k \in Keys : \/ body[k] # Absent /\ merged[k] = body[k]
                           \/ body[k] = Absent /\ merged[k] = receiver[copy.url][k]
    BY <1>2, MergedObject
  <1>4. taken \in [PlainUrls -> Object] /\ taken[copy.url] = merged
    <2> HIDE DEF merged
    <2>1. QED
      BY <1>2, <1>3
  <1>5. CASE hook' = "failed" /\ owed' = Empty /\ only' = Mixed /\ receiver' \in {receiver, taken}
    <2> HIDE DEF taken
    <2>1. WebhookTypes'
      BY <1>1, <1>2, <1>4, <1>5 DEF WebhookInv, WebhookTypes
    <2>2. QED
      BY <1>5, <2>1, Sentinels DEF WebhookInv, ChangesAgree, ReceiverInStep
  <1>6. CASE /\ receiver' = taken /\ owed' = (IF full THEN body ELSE previous)
             /\ only' = IF only \in {NoPost, copy.url} THEN copy.url ELSE Mixed
    <2> HIDE DEF taken, merged
    <2>1. WebhookTypes'
      BY <1>1, <1>2, <1>4, <1>6 DEF WebhookInv, WebhookTypes
    <2>2. CASE only \notin {NoPost, copy.url}
      <3>1. only' = Mixed
        BY <1>6, <2>2
      <3>2. QED
        BY <2>1, <3>1, Sentinels DEF WebhookInv, ChangesAgree, ReceiverInStep
    <2>3. CASE only \in {NoPost, copy.url}
      <3>1. only' = copy.url /\ receiver'[only'] = merged
        BY <1>4, <1>6, <2>3
      <3>2. CASE full
        <4>1. \A k \in Keys : owed'[k] # Absent => merged[k] = owed'[k]
          BY <1>3, <1>6, <3>2
        <4>2. QED
          BY <1>1, <2>1, <3>1, <3>2, <4>1 DEF WebhookInv, ReceiverInStep
      <3>3. CASE ~full
        <4>1. \A k \in Keys : previous[k] # Absent =>
                \/ body[k] = previous[k]
                \/ body[k] = Absent /\ receiver[copy.url][k] = previous[k]
          BY <1>1, <1>2, <2>3, <3>3 DEF WebhookInv, ChangesAgree, WillKnow
        <4>2. \A k \in Keys : previous[k] # Absent => merged[k] = previous[k]
          BY <1>3, <4>1
        <4>3. ReceiverInStep'
          BY <1>6, <3>1, <3>3, <4>2 DEF ReceiverInStep
        <4>4. ChangesAgree'
          BY <1>1, <1>2, <3>1, <4>2, Sentinels DEF ChangesAgree, Knows
        <4>5. QED
          BY <2>1, <4>3, <4>4 DEF WebhookInv
      <3>4. QED
        BY <3>2, <3>3
    <2>4. QED
      BY <2>2, <2>3
  <1>7. QED
    BY <1>5, <1>6 DEF Post

(* All steps of the webhook.                                                *)
LEMMA WebhookStep == ASSUME WebhookInv, [WebhookNext]_webhookVars PROVE WebhookInv'
  <1>0. current \in Object
    BY DEF WebhookInv, WebhookTypes
  <1>1. CASE NoteWifi
    BY <1>0, <1>1, Elsewhere DEF NoteWifi, GetConfig, configVars, postVars
  <1>2. CASE BeginPost
    BY <1>0, <1>2, Elsewhere DEF BeginPost, GetConfig, configVars, postVars
  <1>3. CASE Compose
    BY <1>3, ComposeKeeps
  <1>4. CASE Post
    BY <1>4, PostKeeps
  <1>5. CASE WriteBack
    BY <1>0, <1>5, Elsewhere DEF WriteBack, postVars
  <1>6. CASE UNCHANGED <<hook, copy, full, postVars>>
    BY <1>6 DEF postVars, WebhookInv, WebhookTypes, ChangesAgree, Knows, WillKnow,
                ReceiverInStep
  <1>7. CASE SetWebhook \/ DeleteWebhook
    BY <1>6, <1>7 DEF SetWebhook, DeleteWebhook, Submit
  <1>8. CASE SaveFile \/ RefreshCache \/ WifiChanges \/ UNCHANGED webhookVars
    BY <1>6, <1>8 DEF SaveFile, RefreshCache, WifiChanges, webhookVars
  <1>9. CASE ValueChanges
    <2>1. current' \in Object
      BY <1>0, <1>9 DEF ValueChanges, Object
    <2>2. UNCHANGED <<hook, copy, full, body, previous, receiver, owed, only>>
      BY <1>9 DEF ValueChanges
    <2>3. QED
      BY <2>1, <2>2 DEF WebhookInv, WebhookTypes, ChangesAgree, Knows, WillKnow,
                        ReceiverInStep
  <1>10. CASE Restart
    <2>1. Empty \in Object /\ \A k \in Keys : Empty[k] = Absent
      BY DEF Empty, Object
    <2>2. /\ hook' = "idle" /\ receiver' = receiver /\ only' = NoPost
          /\ current' = Empty /\ body' = Empty /\ previous' = Empty /\ owed' = Empty
      BY <1>10 DEF Restart
    <2>3. QED
      BY <2>1, <2>2, Sentinels
      DEF WebhookInv, WebhookTypes, ChangesAgree, Knows, WillKnow, ReceiverInStep
  <1>11. QED
    BY <1>1, <1>2, <1>3, <1>4, <1>5, <1>7, <1>8, <1>9, <1>10 DEF WebhookNext

\* While no post failed and the address is the same, the receiver has every value the
\* last accepted post was made from, though a post holds the changes only
\* (autopid.c:2405, 2447).
THEOREM ReceiverInStepCorrect == WebhookSpec => []ReceiverInStep
  <1>1. WebhookInit => WebhookInv
    <2>1. Empty \in Object /\ \A k \in Keys : Empty[k] = Absent
      BY DEF Empty, Object
    <2>2. QED
      BY <2>1, Sentinels
      DEF WebhookInit, WebhookInv, WebhookTypes, ChangesAgree, Knows, WillKnow, ReceiverInStep
  <1>2. WebhookInv /\ [WebhookNext]_webhookVars => WebhookInv'
    BY WebhookStep
  <1>3. WebhookInv => ReceiverInStep
    BY DEF WebhookInv
  <1>4. QED
    BY <1>1, <1>2, <1>3, PTL DEF WebhookSpec
-----------------------------------------------------------------------------
(* The bridge.                                                             *)

(* Across the bridge a frame goes to the other bus.                         *)
Other(b) == 1 - b

(* The frames of a queue that go to bus b across the bridge: those that     *)
(* came from the other one.                                                 *)
PlacesFor(s, b) == {i \in DOMAIN s : s[i] = Other(b)}
CountFor(s, b) == Cardinality(PlacesFor(s, b))

(* The frames for a bus can be counted.                                     *)
LEMMA PlacesFinite ==
  ASSUME NEW s \in Seq(Buses), NEW b \in Buses
  PROVE  /\ IsFiniteSet(PlacesFor(s, b))
         /\ CountFor(s, b) \in Nat
         /\ s = <<>> => CountFor(s, b) = 0
<1>1. DOMAIN s = 1..Len(s) /\ Len(s) \in Nat
  OBVIOUS
<1>2. IsFiniteSet(1..Len(s))
  BY <1>1, FS_Interval
<1>3. PlacesFor(s, b) \in SUBSET (1..Len(s))
  BY <1>1 DEF PlacesFor
<1>4. IsFiniteSet(PlacesFor(s, b))
  BY <1>2, <1>3, FS_Subset
<1>5. CountFor(s, b) \in Nat
  BY <1>4, FS_CardinalityType DEF CountFor
<1>6. ASSUME s = <<>> PROVE CountFor(s, b) = 0
  <2>1. PlacesFor(s, b) = {}
    BY <1>6, <1>1, <1>3
  <2>2. QED
    BY <2>1, FS_EmptySet DEF CountFor
<1>7. QED
  BY <1>4, <1>5, <1>6

(* A frame more is a place more for the bus it goes to.                     *)
LEMMA CountAppend ==
  ASSUME NEW s \in Seq(Buses), NEW x \in Buses, NEW b \in Buses
  PROVE  CountFor(Append(s, x), b) = IF x = Other(b) THEN CountFor(s, b) + 1 ELSE CountFor(s, b)
<1> DEFINE t == Append(s, x)
           n == Len(s) + 1
<1>1. /\ DOMAIN s = 1..Len(s) /\ Len(s) \in Nat
      /\ DOMAIN t = 1..n /\ t[n] = x
      /\ \A i \in 1..Len(s) : t[i] = s[i]
  OBVIOUS
<1>2. IsFiniteSet(PlacesFor(s, b)) /\ n \notin PlacesFor(s, b)
  <2>1. IsFiniteSet(PlacesFor(s, b))
    BY PlacesFinite
  <2>2. n \notin PlacesFor(s, b)
    BY <1>1 DEF PlacesFor
  <2>3. QED
    BY <2>1, <2>2
<1>3. CASE x = Other(b)
  <2>1. PlacesFor(t, b) = PlacesFor(s, b) \cup {n}
    BY <1>1, <1>3 DEF PlacesFor
  <2>2. Cardinality(PlacesFor(s, b) \cup {n}) = Cardinality(PlacesFor(s, b)) + 1
    BY <1>2, FS_AddElement
  <2>3. QED
    BY <2>1, <2>2, <1>3 DEF CountFor
<1>4. CASE x # Other(b)
  <2>1. PlacesFor(t, b) = PlacesFor(s, b)
    BY <1>1, <1>4 DEF PlacesFor
  <2>2. QED
    BY <2>1, <1>4 DEF CountFor
<1>5. QED
  BY <1>3, <1>4

(* The head taken is a place less for the bus it goes to; the others move   *)
(* up by one.                                                               *)
LEMMA CountTail ==
  ASSUME NEW s \in Seq(Buses), s # <<>>, NEW b \in Buses
  PROVE  CountFor(Tail(s), b) = IF Head(s) = Other(b) THEN CountFor(s, b) - 1 ELSE CountFor(s, b)
<1> DEFINE t == Tail(s)
           behind == PlacesFor(s, b) \ {1}
           up == [i \in PlacesFor(t, b) |-> i + 1]
<1>1. /\ DOMAIN s = 1..Len(s) /\ Len(s) \in Nat \ {0}
      /\ t \in Seq(Buses) /\ DOMAIN t = 1..(Len(s) - 1)
      /\ \A i \in 1..(Len(s) - 1) : t[i] = s[i + 1]
      /\ Head(s) = s[1]
  OBVIOUS
<1>2. /\ IsFiniteSet(PlacesFor(s, b)) /\ IsFiniteSet(PlacesFor(t, b))
      /\ CountFor(s, b) \in Nat /\ CountFor(t, b) \in Nat
  BY <1>1, PlacesFinite
<1>3. up \in Bijection(PlacesFor(t, b), behind)
  <2>1. up \in [PlacesFor(t, b) -> behind]
    BY <1>1 DEF PlacesFor
  <2>2. \A i, j \in PlacesFor(t, b) : up[i] = up[j] => i = j
    BY <1>1 DEF PlacesFor
  <2>3. \A j \in behind : \E i \in PlacesFor(t, b) : up[i] = j
    <3>1. TAKE j \in behind
    <3>2. j \in 2..Len(s) /\ s[j] = Other(b)
      BY <1>1 DEF PlacesFor
    <3>3. j - 1 \in 1..(Len(s) - 1) /\ (j - 1) + 1 = j
      BY <3>2, <1>1
    <3>4. j - 1 \in PlacesFor(t, b)
      BY <3>2, <3>3, <1>1 DEF PlacesFor
    <3>5. QED
      BY <3>3, <3>4
  <2>4. QED
    BY <2>1, <2>2, <2>3 DEF Bijection, Injection, Surjection, IsInjective
<1>4. CountFor(t, b) = Cardinality(behind)
  <2>1. ExistsBijection(PlacesFor(t, b), behind)
    BY <1>3 DEF ExistsBijection
  <2>2. QED
    BY <2>1, <1>2, FS_Bijection DEF CountFor
<1>5. Cardinality(behind) = IF 1 \in PlacesFor(s, b) THEN CountFor(s, b) - 1 ELSE CountFor(s, b)
  BY <1>2, FS_RemoveElement DEF CountFor
<1>6. 1 \in PlacesFor(s, b) <=> Head(s) = Other(b)
  BY <1>1 DEF PlacesFor
<1>7. QED
  BY <1>4, <1>5, <1>6

(* Frames for bus b in the queue, and in the task's hand.                   *)
Queued(b) == CountFor(canq, b)
InHand(b) == IF task.at = "send" /\ task.frame = Other(b) THEN 1 ELSE 0

(* What is known of the values, and of the frame in hand: the task waits    *)
(* only for a bus that has no fast-drop window.                             *)
BridgeTypes ==
  /\ bridging \in BOOLEAN /\ awake \in BOOLEAN /\ lost \in BOOLEAN
  /\ busUp \in [Buses -> BOOLEAN] /\ drains \in [Buses -> BOOLEAN]
  /\ canq \in Seq(Buses)
  /\ used \in [Buses -> 0..TxSlots] /\ fast \in [Buses -> 0..FastDrop]
  /\ task \in [at : {"gate", "batch", "send", "host"}, frame : Buses, left : 0..SendWait]

WaitsOpenly ==
  bridging /\ task.at = "send" /\ task.left > 0 => fast[Other(task.frame)] = 0

(* Between two batches, or in a batch that has not had to wait: at most a   *)
(* frame from each bus, and a live bus has the slots for its share.         *)
Settled ==
  /\ task.at # "send"
  /\ Len(canq) <= 2
  /\ \A b \in Buses : Queued(b) <= 1 /\ (drains[b] => used[b] + Queued(b) <= TxSlots)

(* The first wait of a batch.                                               *)
Waited == IF fast[Other(task.frame)] > 0 THEN 0 ELSE SendWait - task.left

FirstWait ==
  LET d == Other(task.frame)
      o == task.frame
  IN  /\ task.at = "send"
      /\ Len(canq) <= 1 + 2 * Waited
      /\ Queued(d) <= Waited /\ Queued(o) <= 1 + Waited
      /\ used[d] < TxSlots => Len(canq) <= 2 /\ Queued(d) <= 1 /\ Queued(o) <= 1
      /\ drains[d] => used[d] + 1 + Queued(d) <= TxSlots \/ canq = <<>>
      /\ drains[o] => used[o] + Queued(o) <= TxSlots \/ used[o] = 0

(* Bus d was waited for in vain and has its window since; the other one     *)
(* works off its share of what came in meanwhile, or is dead too and waited *)
(* for in its turn.  Every tick is one of the window's.                     *)
Spent(d) == FastDrop - fast[d]

WaitingFor(b) == task.at = "send" /\ task.frame = Other(b) /\ fast[b] = 0 /\ used[b] = TxSlots

OneWindow(d) ==
  LET o == Other(d)
  IN  /\ task.at # "gate" /\ fast[d] > 0
      /\ Len(canq) + InHand(0) + InHand(1) <= 1 + 2 * SendWait + 2 * Spent(d)
      /\ Spent(d) <= (SendWait - 1) + IF WaitingFor(o) THEN SendWait - task.left ELSE 0
      /\ drains[o] => \/ used[o] + Queued(o) + InHand(o) <= TxSlots
                      \/ used[o] + Queued(o) + InHand(o) + Spent(d) <= SendWait + 1

(* Both have one: nothing blocks before the queue is empty.                 *)
TwoWindows == task.at # "gate" /\ fast[0] > 0 /\ fast[1] > 0

BatchFits == Settled \/ FirstWait \/ OneWindow(0) \/ OneWindow(1) \/ TwoWindows

BridgeInv == BridgeTypes /\ WaitsOpenly /\ (bridging => ~lost /\ BatchFits)

-----------------------------------------------------------------------------
\* There are two buses, and each is the other's destination.
LEMMA TwoBuses ==
  /\ Buses = {0, 1}
  /\ \A b \in Buses : Other(b) \in Buses /\ Other(Other(b)) = b /\ Other(b) # b
  /\ Other(0) = 1 /\ Other(1) = 0
  /\ \A b \in Buses : bridging => Dest(b) = Other(b)
BY DEF Buses, Other, Dest

(* What BridgeSizes says, as the steps use it.                              *)
LEMMA SizesFit ==
  /\ RxSlots \in Nat /\ TxSlots \in Nat /\ SendWait \in Nat /\ FastDrop \in Nat
  /\ SendWait >= 1 /\ TxSlots >= 2
  /\ FastDrop >= 2 * SendWait /\ RxSlots >= 4 /\ RxSlots + 2 >= 6 * SendWait
BY BridgeAssumption, BridgeSizes

(* How long the queue is, and how many of it are for a bus.                 *)
LEMMA QueueFacts ==
  ASSUME BridgeTypes
  PROVE  /\ Len(canq) \in Nat /\ (canq = <<>> <=> Len(canq) = 0)
         /\ \A b \in Buses : Queued(b) \in Nat /\ (canq = <<>> => Queued(b) = 0)
<1>1. canq \in Seq(Buses)
  BY DEF BridgeTypes
<1>2. Len(canq) \in Nat /\ (canq = <<>> <=> Len(canq) = 0)
  BY <1>1
<1>3. \A b \in Buses : Queued(b) \in Nat /\ (canq = <<>> => Queued(b) = 0)
  BY <1>1, PlacesFinite DEF Queued
<1>4. QED
  BY <1>2, <1>3

(* What arrives in a tick is two frames at most.                            *)
LEMMA FrameBatches ==
  ASSUME NEW frames \in {<<>>, << 0 >>, << 1 >>, << 0, 1 >>}
  PROVE  frames \in Seq(Buses) /\ Len(frames) \in 0..2
<1>1. 0 \in Buses /\ 1 \in Buses
  BY DEF Buses
<1>2. CASE frames = <<>>
  BY <1>2
<1>3. CASE frames = << 0 >>
  BY <1>1, <1>3
<1>4. CASE frames = << 1 >>
  BY <1>1, <1>4
<1>5. CASE frames = << 0, 1 >>
  BY <1>1, <1>5
<1>6. QED
  BY <1>2, <1>3, <1>4, <1>5

(* Two frames a tick, one for each bus, and none if there is no room.       *)
LEMMA ArrivalsFit ==
  ASSUME BridgeTypes,
         NEW frames \in {<<>>, << 0 >>, << 1 >>, << 0, 1 >>}, Arrivals(frames),
         Len(canq) + Len(frames) <= RxSlots
  PROVE  /\ canq' \in Seq(Buses) /\ lost' = lost
         /\ Len(canq') = Len(canq) + Len(frames) /\ Len(canq') <= Len(canq) + 2
         /\ \A b \in Buses : CountFor(canq', b) <= CountFor(canq, b) + 1
         /\ frames = <<>> => canq' = canq
<1>1. canq \in Seq(Buses) /\ lost \in BOOLEAN /\ Len(canq) \in Nat
  BY DEF BridgeTypes
<1>2. frames \in Seq(Buses) /\ Len(frames) \in 0..2
  BY FrameBatches
<1>3. /\ ~(Len(frames) > RxSlots - Len(canq))
      /\ (IF Len(frames) < RxSlots - Len(canq) THEN Len(frames) ELSE RxSlots - Len(canq)) = Len(frames)
  BY <1>1, <1>2, SizesFit
<1>4. canq' = canq \o SubSeq(frames, 1, Len(frames)) /\ lost' = lost
  BY <1>1, <1>3 DEF Arrivals
<1>5. SubSeq(frames, 1, Len(frames)) = frames
  BY <1>2
<1>6. canq' = canq \o frames /\ canq' \in Seq(Buses) /\ Len(canq') = Len(canq) + Len(frames)
  BY <1>1, <1>2, <1>4, <1>5
<1>7. frames = <<>> => canq' = canq
  BY <1>1, <1>6
<1>8. ASSUME NEW b \in Buses PROVE CountFor(canq', b) <= CountFor(canq, b) + 1
  <2>0. CountFor(canq, b) \in Nat
    BY <1>1, PlacesFinite
  <2>1. CASE frames = <<>>
    BY <2>0, <2>1, <1>7
  <2>2. ASSUME NEW x \in Buses, frames = <<x>> PROVE CountFor(canq', b) <= CountFor(canq, b) + 1
    <3>1. canq' = Append(canq, x)
      BY <1>1, <1>6, <2>2
    <3>2. QED
      BY <3>1, <2>0, <1>1, CountAppend
  <2>3. CASE frames = <<0, 1>>
    <3> DEFINE mid == Append(canq, 0)
    <3>1. canq' = Append(mid, 1) /\ mid \in Seq(Buses)
      BY <1>1, <1>6, <2>3 DEF Buses
    <3>2. CountFor(mid, b) = IF 0 = Other(b) THEN CountFor(canq, b) + 1 ELSE CountFor(canq, b)
      BY <1>1, CountAppend DEF Buses
    <3>3. CountFor(canq', b) = IF 1 = Other(b) THEN CountFor(mid, b) + 1 ELSE CountFor(mid, b)
      BY <3>1, CountAppend DEF Buses
    <3>4. QED
      BY <3>2, <3>3, <2>0
  <2>4. QED
    BY <2>1, <2>2, <2>3 DEF Buses
<1>9. QED
  BY <1>2, <1>4, <1>6, <1>7, <1>8

(* What a frame taken leaves.                                               *)
LEMMA TakeLeaves ==
  ASSUME BridgeTypes, canq # <<>>, canq' = Tail(canq)
  PROVE  /\ canq' \in Seq(Buses) /\ Head(canq) \in Buses
         /\ Len(canq') = Len(canq) - 1
         /\ \A b \in Buses : CountFor(canq', b) = IF Head(canq) = Other(b) THEN CountFor(canq, b) - 1
                                                                          ELSE CountFor(canq, b)
<1>1. canq \in Seq(Buses)
  BY DEF BridgeTypes
<1>2. canq' \in Seq(Buses) /\ Head(canq) \in Buses /\ Len(canq') = Len(canq) - 1
  BY <1>1
<1>3. QED
  BY <1>1, <1>2, CountTail

-----------------------------------------------------------------------------
(* The types are kept.                                                      *)
LEMMA TickTypes ==
  ASSUME BridgeTypes, TickOfBridge PROVE BridgeTypes'
<1>1. canq' \in Seq(Buses) /\ lost' \in BOOLEAN
  <2>1. PICK frames \in {<<>>, <<0>>, <<1>>, <<0, 1>>} : Arrivals(frames)
    BY DEF TickOfBridge
  <2>2. canq \in Seq(Buses) /\ lost \in BOOLEAN /\ Len(canq) \in Nat
    BY DEF BridgeTypes
  <2>3. frames \in Seq(Buses)
    BY <2>1, FrameBatches
  <2>4. SubSeq(frames, 1, IF Len(frames) < RxSlots - Len(canq) THEN Len(frames) ELSE RxSlots - Len(canq))
          \in Seq(Buses)
    BY <2>2, <2>3, SizesFit
  <2>5. QED
    BY <2>1, <2>2, <2>3, <2>4 DEF Arrivals
<1>2. used' \in [Buses -> 0..TxSlots]
  BY SizesFit DEF BridgeTypes, TickOfBridge
<1>3. fast' \in [Buses -> 0..FastDrop]
  <2>1. fast' = [b \in Buses |-> Down(fast[b])] /\ fast \in [Buses -> 0..FastDrop]
    BY DEF BridgeTypes, TickOfBridge
  <2>2. \A n \in 0..FastDrop : Down(n) \in 0..FastDrop
    BY SizesFit DEF Down
  <2>3. QED
    BY <2>1, <2>2
<1>4. task' \in [at : {"gate", "batch", "send", "host"}, frame : Buses, left : 0..SendWait]
  <2>1. task \in [at : {"gate", "batch", "send", "host"}, frame : Buses, left : 0..SendWait]
    BY DEF BridgeTypes
  <2>2. CASE task.at = "send"
    <3>1. task' = [task EXCEPT !.left = @ - 1] /\ task.left > 0
      BY <2>2 DEF TickOfBridge
    <3>2. QED
      BY <2>1, <3>1, SizesFit
  <2>3. CASE task.at # "send"
    <3>1. task' = task
      BY <2>3 DEF TickOfBridge
    <3>2. QED
      BY <2>1, <3>1
  <2>4. QED
    BY <2>2, <2>3
<1>5. QED
  BY <1>1, <1>2, <1>3, <1>4 DEF BridgeTypes, TickOfBridge

(* A frame sent or given up is copied for the hosts next.                   *)
LEMMA HandDone ==
  ASSUME BridgeTypes, SendFrame \/ DropFrame
  PROVE  /\ task' \in [at : {"gate", "batch", "send", "host"}, frame : Buses, left : 0..SendWait]
         /\ task'.at = "host"
<1>1. task \in [at : {"gate", "batch", "send", "host"}, frame : Buses, left : 0..SendWait]
  BY DEF BridgeTypes
<1>2. task' = [task EXCEPT !.at = "host", !.left = 0]
  BY DEF SendFrame, DropFrame
<1>3. task' = [at |-> "host", frame |-> task.frame, left |-> 0] /\ task.frame \in Buses
  BY <1>1, <1>2
<1>4. QED
  BY <1>3, SizesFit

(* The steps of the task keep the types.                                    *)
LEMMA TaskTypes ==
  ASSUME BridgeTypes, WorldOfBridge \/ BridgeTask PROVE BridgeTypes'
<1>1. CASE WorldOfBridge
  BY <1>1 DEF BridgeTypes, WorldOfBridge
<1>2. CASE TakeFrame
  <2>1. canq' \in Seq(Buses) /\ Head(canq) \in Buses
    BY <1>2, TakeLeaves DEF TakeFrame
  <2>2. FwdWait(Dest(Head(canq))) \in 0..SendWait
    BY SizesFit DEF FwdWait
  <2>3. task' \in [at : {"gate", "batch", "send", "host"}, frame : Buses, left : 0..SendWait]
    <3>1. PICK wanted \in Wanted(Head(canq)) :
            task' = IF wanted
                    THEN [at |-> "send", frame |-> Head(canq), left |-> FwdWait(Dest(Head(canq)))]
                    ELSE [at |-> "host", frame |-> Head(canq), left |-> 0]
      BY <1>2 DEF TakeFrame
    <3>2. QED
      BY <2>1, <2>2, <3>1, SizesFit
  <2>4. QED
    BY <1>2, <2>1, <2>3 DEF BridgeTypes, TakeFrame
<1>3. CASE BatchEnds
  BY <1>3 DEF BridgeTypes, BatchEnds
<1>4. CASE SendFrame
  <2>1. used' \in [Buses -> 0..TxSlots]
    <3>1. used \in [Buses -> 0..TxSlots]
      BY DEF BridgeTypes
    <3>2. used' = [used EXCEPT ![Dest(task.frame)] = @ + 1] /\ used[Dest(task.frame)] < TxSlots
      BY <1>4 DEF SendFrame
    <3>3. \A n \in 0..TxSlots : n < TxSlots => n + 1 \in 0..TxSlots
      BY SizesFit
    <3>4. \A b \in Buses : used[b] \in 0..TxSlots
      BY <3>1
    <3>5. CASE Dest(task.frame) \in Buses
      <4>1. used[Dest(task.frame)] + 1 \in 0..TxSlots
        BY <3>2, <3>3, <3>4, <3>5
      <4>2. QED
        BY <3>1, <3>2, <4>1
    <3>6. CASE Dest(task.frame) \notin Buses
      BY <3>1, <3>2, <3>6
    <3>7. QED
      BY <3>5, <3>6
  <2>2. task' \in [at : {"gate", "batch", "send", "host"}, frame : Buses, left : 0..SendWait]
    BY <1>4, HandDone
  <2>3. QED
    BY <1>4, <2>1, <2>2 DEF BridgeTypes, SendFrame
<1>5. CASE DropFrame
  <2>1. fast' \in [Buses -> 0..FastDrop]
    <3>1. fast \in [Buses -> 0..FastDrop]
      BY DEF BridgeTypes
    <3>2. fast' = fast \/ fast' = [fast EXCEPT ![Dest(task.frame)] = FastDrop]
      BY <1>5 DEF DropFrame
    <3>3. QED
      BY <3>1, <3>2, SizesFit
  <2>2. task' \in [at : {"gate", "batch", "send", "host"}, frame : Buses, left : 0..SendWait]
    BY <1>5, HandDone
  <2>3. QED
    BY <1>5, <2>1, <2>2 DEF BridgeTypes, DropFrame
<1>6. CASE StreamFrame
  BY <1>6 DEF BridgeTypes, StreamFrame
<1>7. QED
  BY <1>1, <1>2, <1>3, <1>4, <1>5, <1>6 DEF BridgeTask

(* A frame is held back only for a bus without a window.                    *)
LEMMA WaitsKept ==
  ASSUME BridgeTypes, WaitsOpenly, BridgeNext PROVE WaitsOpenly'
<1>0. /\ task.frame \in Buses /\ Other(task.frame) \in Buses
      /\ task = [at |-> task.at, frame |-> task.frame, left |-> task.left]
      /\ task.left \in 0..SendWait
      /\ \A b \in Buses : fast[b] \in 0..FastDrop
      /\ DOMAIN fast = Buses
  BY TwoBuses DEF BridgeTypes
<1>1. CASE TickOfBridge
  <2>1. bridging' = bridging /\ task'.at = task.at /\ task'.frame = task.frame
    BY <1>0, <1>1 DEF TickOfBridge
  <2>2. task'.left > 0 /\ task'.at = "send" => task.left > 0
    BY <1>0, <1>1, SizesFit DEF TickOfBridge
  <2>3. \A b \in Buses : fast[b] = 0 => fast'[b] = 0
    BY <1>1 DEF TickOfBridge, Down
  <2>4. QED
    BY <1>0, <2>1, <2>2, <2>3 DEF WaitsOpenly
<1>2. CASE WorldOfBridge
  BY <1>2 DEF WorldOfBridge, WaitsOpenly
<1>3. CASE TakeFrame
  <2>1. PICK wanted \in Wanted(Head(canq)) :
          task' = IF wanted
                  THEN [at |-> "send", frame |-> Head(canq), left |-> FwdWait(Dest(Head(canq)))]
                  ELSE [at |-> "host", frame |-> Head(canq), left |-> 0]
    BY <1>3 DEF TakeFrame
  <2>2. Head(canq) \in Buses
    BY <1>3, TakeLeaves DEF TakeFrame
  <2>3. bridging => Dest(Head(canq)) = Other(Head(canq)) /\ Other(Head(canq)) \in Buses
    BY <2>2, TwoBuses
  <2>4. bridging' = bridging /\ fast' = fast
    BY <1>3 DEF TakeFrame
  <2>5. bridging /\ task'.at = "send" /\ task'.left > 0 => fast[Other(task'.frame)] = 0
    <3>1. fast[Other(Head(canq))] \in Nat \/ ~bridging
      BY <1>0, <2>3, SizesFit
    <3>2. QED
      BY <2>1, <2>3, <3>1 DEF FwdWait
  <2>6. QED
    BY <2>4, <2>5 DEF WaitsOpenly
<1>4. CASE BatchEnds \/ SendFrame \/ DropFrame \/ StreamFrame
  <2>1. task'.at # "send"
    <3>1. CASE SendFrame \/ DropFrame
      BY <3>1, HandDone
    <3>2. CASE BatchEnds \/ StreamFrame
      <4>1. task' = [task EXCEPT !.at = "gate"] \/ task' = [task EXCEPT !.at = "batch"]
        BY <3>2 DEF BatchEnds, StreamFrame
      <4>2. QED
        BY <4>1, <1>0
    <3>3. QED
      BY <3>1, <3>2, <1>4
  <2>2. QED
    BY <2>1 DEF WaitsOpenly
<1>5. QED
  BY <1>1, <1>2, <1>3, <1>4 DEF BridgeNext, BridgeTask

-----------------------------------------------------------------------------
(* The queue is empty: whatever held before, nothing is owed.               *)
LEMMA EmptyQueueFits ==
  ASSUME BridgeTypes', canq' = <<>>
  PROVE  BatchFits'
<1>1. Len(canq') = 0 /\ CountFor(canq', 0) = 0 /\ CountFor(canq', 1) = 0
  BY PlacesFinite, TwoBuses DEF BridgeTypes
<1>2. CASE task'.at # "send"
  <2>1. \A b \in Buses : used'[b] \in Nat /\ used'[b] <= TxSlots
    BY SizesFit DEF BridgeTypes
  <2>2. QED
    BY <1>1, <1>2, <2>1, TwoBuses, SizesFit DEF Settled, Queued, BatchFits
<1>3. CASE task'.at = "send"
  <2>1. task'.frame \in Buses /\ task'.left \in 0..SendWait
    BY DEF BridgeTypes
  <2>2. Waited' \in Nat
    BY <2>1, SizesFit DEF Waited
  <2>3. Other(task'.frame) \in Buses
    BY <2>1, TwoBuses
  <2>4. CountFor(canq', task'.frame) = 0 /\ CountFor(canq', Other(task'.frame)) = 0
    BY <1>1, <2>1, <2>3, TwoBuses
  <2>5. /\ used'[task'.frame] \in Nat /\ used'[task'.frame] <= TxSlots
    BY <2>1, SizesFit DEF BridgeTypes
  <2>6. FirstWait'
    <3>1. \A w \in Nat : 0 <= 1 + 2 * w /\ 0 <= w /\ 0 <= 1 + w
      OBVIOUS
    <3>2. 0 <= 1 + 2 * Waited' /\ 0 <= Waited' /\ 0 <= 1 + Waited'
      BY <2>2, <3>1
    <3>3. used'[task'.frame] + 0 <= TxSlots
      BY <2>5, SizesFit
    <3>4. QED
      BY <1>1, <1>3, <2>4, <3>2, <3>3 DEF FirstWait, Queued
  <2>7. QED
    BY <2>6 DEF BatchFits
<1>4. QED
  BY <1>2, <1>3

(* The values of a state, as the steps below need them.                     *)
LEMMA ValuesOf ==
  ASSUME BridgeTypes
  PROVE  /\ Len(canq) \in Nat /\ (canq = <<>> <=> Len(canq) = 0)
         /\ task.frame \in Buses /\ task.left \in Nat /\ task.left <= SendWait
         /\ Other(task.frame) \in Buses
         /\ \A b \in Buses : /\ Queued(b) \in Nat /\ (canq = <<>> => Queued(b) = 0)
                             /\ used[b] \in Nat /\ used[b] <= TxSlots
                             /\ fast[b] \in Nat /\ fast[b] <= FastDrop
                             /\ drains[b] \in BOOLEAN
BY QueueFacts, TwoBuses, SizesFit DEF BridgeTypes

(* A bus dies or comes back; it comes back only when nothing waits for it.  *)
LEMMA WorldFits ==
  ASSUME BridgeTypes, BridgeTypes', BatchFits, WorldOfBridge
  PROVE  BatchFits' /\ lost' = lost
<1>1. /\ canq' = canq /\ used' = used /\ fast' = fast /\ task' = task /\ lost' = lost
      /\ canq # <<>> => \A b \in Buses : drains'[b] => drains[b]
  BY DEF WorldOfBridge, BridgeTypes
<1>2. CASE canq = <<>>
  BY <1>1, <1>2, EmptyQueueFits
<1>3. CASE canq # <<>>
  <2>1. \A b \in Buses : drains'[b] => drains[b]
    BY <1>1, <1>3
  <2>2. ASSUME Settled PROVE Settled'
    BY <1>1, <2>1, <2>2 DEF Settled, Queued
  <2>3. ASSUME FirstWait PROVE FirstWait'
    BY <1>1, <2>1, <2>3, ValuesOf DEF FirstWait, Queued, Waited
  <2>4. ASSUME NEW d \in Buses, OneWindow(d) PROVE OneWindow(d)'
    <3>1. Other(d) \in Buses
      BY TwoBuses
    <3>2. QED
      BY <1>1, <2>1, <2>4, <3>1 DEF OneWindow, Queued, InHand, Spent, WaitingFor
  <2>5. ASSUME TwoWindows PROVE TwoWindows'
    BY <1>1, <2>5 DEF TwoWindows
  <2>6. QED
    BY <2>2, <2>3, <2>4, <2>5, <1>1, TwoBuses DEF BatchFits
<1>4. QED
  BY <1>1, <1>2, <1>3

(* The batch is over when the queue is empty.                               *)
LEMMA EndFits ==
  ASSUME BridgeTypes, BridgeTypes', BatchEnds
  PROVE  BatchFits' /\ lost' = lost
<1>1. canq' = <<>> /\ lost' = lost
  BY DEF BatchEnds
<1>2. QED
  BY <1>1, EmptyQueueFits

(* The copies for the hosts move nothing.                                   *)
LEMMA StreamFits ==
  ASSUME BridgeTypes, BridgeTypes', BatchFits, StreamFrame
  PROVE  BatchFits' /\ lost' = lost
<1>1. /\ canq' = canq /\ used' = used /\ fast' = fast /\ drains' = drains /\ lost' = lost
      /\ task.at = "host" /\ task'.at = "batch"
  BY DEF StreamFrame, BridgeTypes
<1>2. ASSUME Settled PROVE Settled'
  BY <1>1, <1>2 DEF Settled, Queued
<1>3. ~FirstWait
  BY <1>1 DEF FirstWait
<1>4. ASSUME NEW d \in Buses, OneWindow(d) PROVE OneWindow(d)'
  BY <1>1, <1>4 DEF OneWindow, Queued, InHand, Spent, WaitingFor
<1>5. ASSUME TwoWindows PROVE TwoWindows'
  BY <1>1, <1>5 DEF TwoWindows
<1>6. QED
  BY <1>1, <1>2, <1>3, <1>4, <1>5, TwoBuses DEF BatchFits

(* A frame is taken: it moves from the queue to the hand, or is done with.  *)
LEMMA TakeFits ==
  ASSUME BridgeTypes, BridgeTypes', bridging, BatchFits, TakeFrame
  PROVE  BatchFits' /\ lost' = lost
<1> DEFINE f == Head(canq)
           d == Other(f)
<1>1. /\ canq # <<>> /\ canq' = Tail(canq) /\ task.at \in {"gate", "batch"}
      /\ bridging' = bridging /\ used' = used /\ fast' = fast /\ drains' = drains /\ lost' = lost
  BY DEF TakeFrame
<1>2. /\ f \in Buses /\ d \in Buses /\ d # f /\ Dest(f) = d
      /\ Len(canq') = Len(canq) - 1 /\ Len(canq) \in Nat
  BY <1>1, TakeLeaves, TwoBuses, ValuesOf
<1>3. \A b \in Buses : /\ CountFor(canq', b) \in Nat /\ Queued(b) \in Nat
                       /\ CountFor(canq', b) = IF b = d THEN Queued(b) - 1 ELSE Queued(b)
  <2>1. TAKE b \in Buses
  <2>2. CountFor(canq', b) \in Nat /\ Queued(b) \in Nat
    BY PlacesFinite DEF BridgeTypes, Queued
  <2>3. CountFor(canq', b) = IF f = Other(b) THEN Queued(b) - 1 ELSE Queued(b)
    BY <1>1, TakeLeaves DEF Queued
  <2>4. f = Other(b) <=> b = d
    BY <1>2, TwoBuses
  <2>5. QED
    BY <2>2, <2>3, <2>4
<1>4. \/ task' = [at |-> "send", frame |-> f, left |-> FwdWait(d)]
      \/ task' = [at |-> "host", frame |-> f, left |-> 0]
  BY <1>2 DEF TakeFrame
<1>5. FwdWait(d) = IF fast[d] > 0 THEN 0 ELSE SendWait
  BY DEF FwdWait
<1>6. \A b \in Buses : /\ used[b] \in Nat /\ fast[b] \in Nat /\ used[b] <= TxSlots
                       /\ fast[b] <= FastDrop
  BY ValuesOf
<1> HIDE DEF f, d
<1>7. CASE task' = [at |-> "send", frame |-> f, left |-> FwdWait(d)]
  <2>1. task'.at = "send" /\ task'.frame = f /\ task'.left = FwdWait(d) /\ Other(task'.frame) = d
    BY <1>7 DEF d
  <2>2. Waited' = 0
    BY <2>1, <1>1, <1>2, <1>5, <1>6, SizesFit DEF Waited
  <2>3. ASSUME Settled PROVE FirstWait'
    <3>1. Len(canq) <= 2 /\ Queued(d) <= 1 /\ Queued(f) <= 1
      BY <1>2, <2>3 DEF Settled
    <3>2. Len(canq') <= 1 /\ CountFor(canq', d) = 0 /\ CountFor(canq', f) <= 1
          /\ CountFor(canq', f) = Queued(f) /\ Queued(d) = 1
      BY <1>2, <1>3, <3>1
    <3>3. drains[d] => used[d] + 1 + CountFor(canq', d) <= TxSlots
      BY <1>2, <1>6, <2>3, <3>2, SizesFit DEF Settled
    <3>4. drains[f] => used[f] + CountFor(canq', f) <= TxSlots
      BY <1>2, <2>3, <3>2 DEF Settled
    <3>5. Len(canq') <= 1 + 2 * 0 /\ 1 <= 1 + 0 /\ 0 <= 0 /\ Len(canq') <= 2
      BY <1>2, <3>2
    <3>6. QED
      BY <1>1, <2>1, <2>2, <3>2, <3>3, <3>4, <3>5 DEF FirstWait, Queued
  <2>4. ASSUME NEW w \in Buses, OneWindow(w) PROVE OneWindow(w)'
    <3> DEFINE o == Other(w)
    <3>1. o \in Buses /\ o # w /\ (d = w \/ d = o)
      BY <1>2, TwoBuses
    <3>2. InHand(0) = 0 /\ InHand(1) = 0 /\ InHand(o) = 0 /\ ~WaitingFor(o)
      BY <1>1 DEF InHand, WaitingFor
    <3>3. /\ fast[w] > 0 /\ Spent(w)' = Spent(w) /\ Spent(w) \in Nat
          /\ Len(canq) + 0 + 0 <= 1 + 2 * SendWait + 2 * Spent(w)
          /\ Spent(w) <= SendWait - 1
          /\ drains[o] => \/ used[o] + Queued(o) + 0 <= TxSlots
                          \/ used[o] + Queued(o) + 0 + Spent(w) <= SendWait + 1
      BY <1>1, <1>6, <2>4, <3>1, <3>2, SizesFit DEF OneWindow, Spent
    <3>4. /\ InHand(0)' + InHand(1)' = 1
          /\ InHand(o)' = IF d = o THEN 1 ELSE 0
      BY <1>2, <2>1, <3>1, TwoBuses DEF InHand
    <3>5. CountFor(canq', o) + InHand(o)' = Queued(o)
      BY <1>3, <3>1, <3>4
    <3>6. Len(canq') + InHand(0)' + InHand(1)' <= 1 + 2 * SendWait + 2 * Spent(w)
      <4>1. InHand(0)' \in Nat /\ InHand(1)' \in Nat
        BY <2>1 DEF InHand
      <4>2. QED
        BY <1>2, <3>3, <3>4, <4>1, SizesFit
    <3>7. Spent(w) <= (SendWait - 1) + IF WaitingFor(o)' THEN SendWait - task'.left ELSE 0
      BY <2>1, <1>5, <3>3, SizesFit
    <3>8. drains'[o] => \/ used'[o] + CountFor(canq', o) + InHand(o)' <= TxSlots
                        \/ used'[o] + CountFor(canq', o) + InHand(o)' + Spent(w) <= SendWait + 1
      <4>1. CountFor(canq', o) \in Nat /\ InHand(o)' \in Nat /\ used[o] \in Nat /\ Queued(o) \in Nat
        BY <1>3, <1>6, <3>1 DEF InHand
      <4>2. used[o] + CountFor(canq', o) + InHand(o)' = used[o] + Queued(o)
        BY <3>5, <4>1
      <4>3. QED
        BY <1>1, <3>3, <4>1, <4>2
    <3> HIDE DEF o
    <3>9. QED
      BY <1>1, <2>1, <3>3, <3>6, <3>7, <3>8 DEF OneWindow, Queued, o
  <2>5. ASSUME TwoWindows PROVE TwoWindows'
    BY <1>1, <2>1, <2>5 DEF TwoWindows
  <2>6. ~FirstWait
    BY <1>1 DEF FirstWait
  <2>7. QED
    BY <1>1, <2>3, <2>4, <2>5, <2>6, TwoBuses DEF BatchFits
<1>8. CASE task' = [at |-> "host", frame |-> f, left |-> 0]
  <2>1. task'.at = "host"
    BY <1>8
  <2>2. \A b \in Buses : CountFor(canq', b) <= Queued(b)
    BY <1>3
  <2>3. ASSUME Settled PROVE Settled'
    <3>1. Len(canq') <= 2
      BY <1>2, <2>3 DEF Settled
    <3>2. \A b \in Buses : CountFor(canq', b) <= 1 /\ (drains[b] => used[b] + CountFor(canq', b) <= TxSlots)
      BY <1>3, <1>6, <2>2, <2>3, SizesFit DEF Settled
    <3>3. QED
      BY <1>1, <2>1, <3>1, <3>2 DEF Settled, Queued
  <2>4. ASSUME NEW w \in Buses, OneWindow(w) PROVE OneWindow(w)'
    <3> DEFINE o == Other(w)
    <3>1. o \in Buses
      BY TwoBuses
    <3>2. InHand(0) = 0 /\ InHand(1) = 0 /\ InHand(o) = 0 /\ ~WaitingFor(o)
      BY <1>1 DEF InHand, WaitingFor
    <3>3. InHand(0)' = 0 /\ InHand(1)' = 0 /\ InHand(o)' = 0 /\ ~WaitingFor(o)'
      BY <2>1 DEF InHand, WaitingFor
    <3>4. /\ fast[w] > 0 /\ Spent(w)' = Spent(w) /\ Spent(w) \in Nat
          /\ Len(canq) + 0 + 0 <= 1 + 2 * SendWait + 2 * Spent(w)
          /\ Spent(w) <= (SendWait - 1) + 0
          /\ drains[o] => \/ used[o] + Queued(o) + 0 <= TxSlots
                          \/ used[o] + Queued(o) + 0 + Spent(w) <= SendWait + 1
      BY <1>1, <1>6, <2>4, <3>1, <3>2, SizesFit DEF OneWindow, Spent
    <3>5. Len(canq') + 0 + 0 <= 1 + 2 * SendWait + 2 * Spent(w)
      BY <1>2, <3>4, SizesFit
    <3>6. drains[o] => \/ used[o] + CountFor(canq', o) + 0 <= TxSlots
                       \/ used[o] + CountFor(canq', o) + 0 + Spent(w) <= SendWait + 1
      <4>1. /\ CountFor(canq', o) \in Nat /\ used[o] \in Nat /\ Queued(o) \in Nat
            /\ CountFor(canq', o) <= Queued(o)
        BY <1>3, <1>6, <2>2, <3>1
      <4>2. ASSUME used[o] + Queued(o) + 0 <= TxSlots
            PROVE  used[o] + CountFor(canq', o) + 0 <= TxSlots
        BY <4>1, <4>2, SizesFit
      <4>3. ASSUME used[o] + Queued(o) + 0 + Spent(w) <= SendWait + 1
            PROVE  used[o] + CountFor(canq', o) + 0 + Spent(w) <= SendWait + 1
        <5>1. Spent(w) \in Nat
          BY <3>4
        <5>2. QED
          BY <4>1, <4>3, <5>1, SizesFit
      <4>4. QED
        BY <3>4, <4>2, <4>3
    <3> HIDE DEF o
    <3>7. QED
      BY <1>1, <2>1, <3>3, <3>4, <3>5, <3>6 DEF OneWindow, Queued, o
  <2>5. ASSUME TwoWindows PROVE TwoWindows'
    BY <1>1, <2>1, <2>5 DEF TwoWindows
  <2>6. ~FirstWait
    BY <1>1 DEF FirstWait
  <2>7. QED
    BY <1>1, <2>3, <2>4, <2>5, <2>6, TwoBuses DEF BatchFits
<1>9. QED
  BY <1>4, <1>7, <1>8

(* A slot was got: the frame moves from the hand to a slot.                 *)
LEMMA SendFits ==
  ASSUME BridgeTypes, BridgeTypes', WaitsOpenly, bridging, BatchFits, SendFrame
  PROVE  BatchFits' /\ lost' = lost
<1> DEFINE f == task.frame
           d == Other(f)
<1>1. /\ f \in Buses /\ d \in Buses /\ d # f /\ Dest(f) = d /\ Other(d) = f
  BY ValuesOf, TwoBuses
<1>2. /\ task.at = "send" /\ used[d] < TxSlots /\ task'.at = "host"
      /\ canq' = canq /\ fast' = fast /\ drains' = drains /\ lost' = lost
      /\ used' = [used EXCEPT ![d] = @ + 1]
  BY <1>1, HandDone DEF SendFrame
<1>3. \A b \in Buses : /\ used[b] \in Nat /\ fast[b] \in Nat /\ used[b] <= TxSlots
                       /\ fast[b] <= FastDrop /\ Queued(b) \in Nat
                       /\ CountFor(canq', b) = Queued(b)
                       /\ used'[b] = IF b = d THEN used[b] + 1 ELSE used[b]
  <2>1. TAKE b \in Buses
  <2>2. used \in [Buses -> 0..TxSlots]
    BY DEF BridgeTypes
  <2>3. used'[b] = IF b = d THEN used[b] + 1 ELSE used[b]
    BY <1>1, <1>2, <2>2
  <2>4. CountFor(canq', b) = Queued(b)
    BY <1>2 DEF Queued
  <2>5. QED
    BY <2>3, <2>4, ValuesOf
<1>4. Waited \in Nat /\ Len(canq) \in Nat
  BY ValuesOf, SizesFit DEF Waited
<1>5. \A b \in Buses : InHand(b)' = 0 /\ ~WaitingFor(b)' /\ ~WaitingFor(d) /\ ~WaitingFor(f)
                       /\ InHand(b) = IF b = d THEN 1 ELSE 0
  <2>1. TAKE b \in Buses
  <2>2. InHand(b)' = 0 /\ ~WaitingFor(b)'
    BY <1>2 DEF InHand, WaitingFor
  <2>3. task.frame = Other(b) <=> b = d
    BY <1>1, TwoBuses
  <2>4. used[d] # TxSlots
    BY <1>1, <1>2, <1>3, SizesFit
  <2>5. ~WaitingFor(d) /\ ~WaitingFor(f)
    BY <1>1, <2>4, TwoBuses DEF WaitingFor
  <2>6. QED
    BY <1>2, <2>2, <2>3, <2>5 DEF InHand
<1> HIDE DEF f, d
<1>6. ~Settled
  BY <1>2 DEF Settled
<1>7. ASSUME FirstWait PROVE Settled'
  <2>1. /\ Len(canq) <= 2 /\ Queued(d) <= 1 /\ Queued(f) <= 1
        /\ drains[d] => used[d] + 1 + Queued(d) <= TxSlots \/ canq = <<>>
        /\ drains[f] => used[f] + Queued(f) <= TxSlots \/ used[f] = 0
    BY <1>2, <1>7 DEF FirstWait, d, f
  <2>2. drains[d] => used[d] + 1 + Queued(d) <= TxSlots
    <3>1. canq = <<>> => Queued(d) = 0
      BY <1>1, ValuesOf
    <3>2. used[d] + 1 + 0 <= TxSlots
      BY <1>1, <1>2, <1>3, SizesFit
    <3>3. QED
      BY <2>1, <3>1, <3>2
  <2>3. drains[f] => used[f] + Queued(f) <= TxSlots
    <3>1. used[f] = 0 => used[f] + Queued(f) <= TxSlots
      BY <1>1, <1>3, <2>1, SizesFit
    <3>2. QED
      BY <2>1, <3>1
  <2>4. \A b \in Buses : b = d \/ b = f
    BY <1>1, TwoBuses
  <2>5. \A b \in Buses : CountFor(canq', b) <= 1 /\ (drains[b] => used'[b] + CountFor(canq', b) <= TxSlots)
    BY <1>1, <1>3, <2>1, <2>2, <2>3, <2>4
  <2>6. QED
    BY <1>2, <2>1, <2>5 DEF Settled, Queued
<1>8. ASSUME NEW w \in Buses, OneWindow(w) PROVE OneWindow(w)'
  <2> DEFINE o == Other(w)
  <2>1. o \in Buses /\ (o = d \/ o = f)
    BY <1>1, TwoBuses
  <2>2. /\ fast[w] > 0 /\ Spent(w)' = Spent(w) /\ Spent(w) \in Nat
        /\ Len(canq) + InHand(0) + InHand(1) <= 1 + 2 * SendWait + 2 * Spent(w)
        /\ Spent(w) <= (SendWait - 1) + 0
        /\ drains[o] => \/ used[o] + Queued(o) + InHand(o) <= TxSlots
                        \/ used[o] + Queued(o) + InHand(o) + Spent(w) <= SendWait + 1
    <3>1. ~WaitingFor(o)
      BY <1>1, <1>5, <2>1
    <3>2. fast[w] \in Nat /\ fast[w] <= FastDrop
      BY <1>3
    <3>3. Spent(w)' = Spent(w) /\ Spent(w) \in Nat
      BY <1>2, <3>2, SizesFit DEF Spent
    <3>4. QED
      BY <1>8, <3>1, <3>3 DEF OneWindow
  <2>3. Len(canq') + 0 + 0 <= 1 + 2 * SendWait + 2 * Spent(w)
    <3>1. InHand(0) \in Nat /\ InHand(1) \in Nat
      BY DEF InHand
    <3>2. QED
      BY <1>2, <1>4, <2>2, <3>1, SizesFit
  <2>4. used'[o] + CountFor(canq', o) + 0 = used[o] + Queued(o) + InHand(o)
    BY <1>1, <1>3, <1>5, <2>1
  <2> HIDE DEF o
  <2>5. InHand(0)' = 0 /\ InHand(1)' = 0 /\ InHand(o)' = 0 /\ ~WaitingFor(o)'
    BY <1>5, <2>1, TwoBuses
  <2>6. QED
    BY <1>2, <2>2, <2>3, <2>4, <2>5 DEF OneWindow, Queued, o
<1>9. ASSUME TwoWindows PROVE TwoWindows'
  BY <1>2, <1>9 DEF TwoWindows
<1>10. QED
  BY <1>2, <1>6, <1>7, <1>8, <1>9, TwoBuses DEF BatchFits

(* No slot: if the task had been willing to wait, the bus gets a window.    *)
LEMMA DropFits ==
  ASSUME BridgeTypes, BridgeTypes', bridging, BatchFits, DropFrame
  PROVE  BatchFits' /\ lost' = lost
<1>0. PICK f \in Buses, d \in Buses : f = task.frame /\ d = Other(f)
  BY ValuesOf
<1>1. /\ f \in Buses /\ d \in Buses /\ d # f /\ Dest(f) = d /\ Other(d) = f
  BY <1>0, TwoBuses
<1>2. /\ task.at = "send" /\ task'.at = "host"
      /\ canq' = canq /\ used' = used /\ drains' = drains /\ lost' = lost
  BY HandDone DEF DropFrame
<1>3. \A b \in Buses : /\ used[b] \in Nat /\ fast[b] \in Nat /\ used[b] <= TxSlots
                       /\ fast[b] <= FastDrop /\ Queued(b) \in Nat
                       /\ CountFor(canq', b) = Queued(b)
  BY <1>2, ValuesOf DEF Queued
<1>4. \A b \in Buses : fast'[b] = IF b = d /\ fast[d] = 0 THEN FastDrop ELSE fast[b]
  <2>1. fast \in [Buses -> 0..FastDrop]
    BY DEF BridgeTypes
  <2>2. FwdWait(d) = IF fast[d] > 0 THEN 0 ELSE SendWait
    BY DEF FwdWait
  <2>3. FwdWait(d) # 0 <=> fast[d] = 0
    BY <1>1, <1>3, <2>2, SizesFit
  <2>4. fast' = IF bridging /\ FwdWait(d) # 0 THEN [fast EXCEPT ![d] = FastDrop] ELSE fast
    BY <1>0, <1>1 DEF DropFrame
  <2>5. QED
    BY <1>1, <2>1, <2>3, <2>4
<1>5. /\ Waited \in Nat /\ Waited <= SendWait /\ Len(canq) \in Nat
      /\ Waited = IF fast[d] > 0 THEN 0 ELSE SendWait - task.left
  BY <1>0, ValuesOf, SizesFit DEF Waited
<1>6. \A b \in Buses : /\ InHand(b)' = 0 /\ ~WaitingFor(b)'
                       /\ InHand(b) = IF b = d THEN 1 ELSE 0
  <2>1. TAKE b \in Buses
  <2>2. InHand(b)' = 0 /\ ~WaitingFor(b)'
    BY <1>2 DEF InHand, WaitingFor
  <2>3. task.frame = Other(b) <=> b = d
    BY <1>0, <1>1, TwoBuses
  <2>4. QED
    BY <1>2, <2>2, <2>3 DEF InHand
<1>7. ~Settled
  BY <1>2 DEF Settled
<1>8. \A b \in Buses : b = d \/ b = f
  BY <1>1, TwoBuses
<1>9. ASSUME FirstWait PROVE BatchFits'
  <2>1. /\ Len(canq) <= 1 + 2 * Waited /\ Queued(d) <= Waited /\ Queued(f) <= 1 + Waited
        /\ drains[d] => used[d] + 1 + Queued(d) <= TxSlots \/ canq = <<>>
        /\ drains[f] => used[f] + Queued(f) <= TxSlots \/ used[f] = 0
    BY <1>0, <1>9 DEF FirstWait
  <2>2. CASE fast[d] > 0
    <3>1. Len(canq) <= 1 /\ Queued(d) = 0 /\ Queued(f) <= 1
      BY <1>1, <1>3, <1>5, <2>1, <2>2
    <3>2. used[d] + 0 <= TxSlots
      BY <1>1, <1>3, SizesFit
    <3>3. drains[f] => used[f] + Queued(f) <= TxSlots
      <4>1. used[f] = 0 => used[f] + Queued(f) <= TxSlots
        BY <1>1, <1>3, <3>1, SizesFit
      <4>2. QED
        BY <2>1, <4>1
    <3>4. Len(canq) <= 2 /\ 0 <= 1
      BY <1>5, <3>1
    <3>5. \A b \in Buses : CountFor(canq', b) <= 1 /\ (drains[b] => used[b] + CountFor(canq', b) <= TxSlots)
      BY <1>3, <1>8, <3>1, <3>2, <3>3, <3>4
    <3>6. Settled'
      BY <1>2, <3>4, <3>5 DEF Settled, Queued
    <3>7. QED
      BY <3>6 DEF BatchFits
  <2>3. CASE fast[d] = 0
    <3>1. fast'[d] = FastDrop /\ FastDrop > 0 /\ Spent(d)' = 0
      BY <1>1, <1>4, <2>3, SizesFit DEF Spent
    <3>2. Len(canq') + 0 + 0 <= 1 + 2 * SendWait + 2 * 0
      BY <1>2, <1>5, <2>1, SizesFit
    <3>3. 0 <= (SendWait - 1) + 0
      BY SizesFit
    <3>4. drains[f] => \/ used[f] + CountFor(canq', f) + 0 <= TxSlots
                       \/ used[f] + CountFor(canq', f) + 0 + 0 <= SendWait + 1
      <4>1. used[f] = 0 => used[f] + Queued(f) + 0 + 0 <= SendWait + 1
        <5>1. used[f] \in Nat /\ Queued(f) \in Nat /\ Queued(f) <= 1 + SendWait
          <6>1. \A n, m \in Nat : n <= 1 + m /\ m <= SendWait => n <= 1 + SendWait
            BY SizesFit
          <6>2. QED
            BY <1>1, <1>3, <1>5, <2>1, <6>1
        <5>2. QED
          BY <5>1, SizesFit
      <4>2. used[f] + Queued(f) + 0 + 0 = used[f] + Queued(f) /\ used[f] + Queued(f) + 0 = used[f] + Queued(f)
        BY <1>1, <1>3
      <4>3. QED
        BY <1>1, <1>3, <2>1, <4>1, <4>2
    <3>5. InHand(0)' = 0 /\ InHand(1)' = 0 /\ InHand(f)' = 0 /\ ~WaitingFor(f)'
      BY <1>1, <1>6, TwoBuses
    <3>6. OneWindow(d)'
      BY <1>1, <1>2, <3>1, <3>2, <3>3, <3>4, <3>5 DEF OneWindow, Queued
    <3>7. QED
      BY <1>1, <3>6, TwoBuses DEF BatchFits
  <2>4. QED
    BY <1>1, <1>3, <2>2, <2>3
<1>10. ASSUME NEW w \in Buses, OneWindow(w) PROVE BatchFits'
  <2> DEFINE o == Other(w)
  <2>1. /\ o \in Buses /\ o # w /\ (o = d \/ o = f) /\ (o = d => w = f) /\ (o = f => w = d)
    BY <1>1, TwoBuses
  <2>2. fast[w] > 0
    BY <1>10 DEF OneWindow
  <2>3. CASE o = d /\ fast[o] = 0
    <3>1. fast'[o] = FastDrop /\ fast'[w] = fast[w] /\ FastDrop > 0
      BY <1>4, <2>1, <2>3, SizesFit
    <3>2. TwoWindows'
      BY <1>2, <2>1, <2>2, <3>1, TwoBuses DEF TwoWindows
    <3>3. QED
      BY <3>2 DEF BatchFits
  <2>4. CASE ~(o = d /\ fast[o] = 0)
    <3>1. fast'[w] = fast[w]
      BY <1>4, <2>1, <2>2
    <3>2. ~WaitingFor(o)
      BY <1>0, <1>1, <2>1, <2>4, TwoBuses DEF WaitingFor
    <3>3. Spent(w)' = Spent(w) /\ Spent(w) \in Nat
      BY <1>3, <3>1, SizesFit DEF Spent
    <3>4. /\ Len(canq) + InHand(0) + InHand(1) <= 1 + 2 * SendWait + 2 * Spent(w)
          /\ Spent(w) <= (SendWait - 1) + 0
          /\ drains[o] => \/ used[o] + Queued(o) + InHand(o) <= TxSlots
                          \/ used[o] + Queued(o) + InHand(o) + Spent(w) <= SendWait + 1
      BY <1>10, <3>2 DEF OneWindow
    <3>5. Len(canq') + 0 + 0 <= 1 + 2 * SendWait + 2 * Spent(w)
      <4>1. InHand(0) \in Nat /\ InHand(1) \in Nat
        BY DEF InHand
      <4>2. QED
        BY <1>2, <1>5, <3>3, <3>4, <4>1, SizesFit
    <3>6. drains[o] => \/ used[o] + CountFor(canq', o) + 0 <= TxSlots
                       \/ used[o] + CountFor(canq', o) + 0 + Spent(w) <= SendWait + 1
      <4>1. /\ used[o] \in Nat /\ Queued(o) \in Nat /\ CountFor(canq', o) = Queued(o)
            /\ InHand(o) \in Nat
        BY <1>3, <2>1 DEF InHand
      <4>2. ASSUME used[o] + Queued(o) + InHand(o) <= TxSlots
            PROVE  used[o] + CountFor(canq', o) + 0 <= TxSlots
        BY <4>1, <4>2, SizesFit
      <4>3. ASSUME used[o] + Queued(o) + InHand(o) + Spent(w) <= SendWait + 1
            PROVE  used[o] + CountFor(canq', o) + 0 + Spent(w) <= SendWait + 1
        BY <3>3, <4>1, <4>3, SizesFit
      <4>4. QED
        BY <3>4, <4>2, <4>3
    <3>7. InHand(0)' = 0 /\ InHand(1)' = 0 /\ InHand(o)' = 0 /\ ~WaitingFor(o)'
      BY <1>6, <2>1, TwoBuses
    <3> HIDE DEF o
    <3>8. OneWindow(w)'
      BY <1>2, <2>2, <3>1, <3>3, <3>4, <3>5, <3>6, <3>7 DEF OneWindow, Queued, o
    <3>9. QED
      BY <3>8, TwoBuses DEF BatchFits
  <2>5. QED
    BY <2>3, <2>4
<1>11. ASSUME TwoWindows PROVE BatchFits'
  <2>1. fast'[0] = fast[0] /\ fast'[1] = fast[1]
    BY <1>4, <1>11, <1>1, TwoBuses DEF TwoWindows
  <2>2. TwoWindows'
    BY <1>2, <1>11, <2>1 DEF TwoWindows
  <2>3. QED
    BY <2>2 DEF BatchFits
<1>12. QED
  BY <1>2, <1>7, <1>9, <1>10, <1>11, TwoBuses DEF BatchFits

-----------------------------------------------------------------------------
(* A tick passes with the task at the gate: a batch begins.                 *)
LEMMA GateTickFits ==
  ASSUME BridgeTypes, BridgeTypes', bridging, BatchFits, TickOfBridge, task.at = "gate"
  PROVE  BatchFits' /\ lost' = lost
<1>1. Settled
  BY DEF BatchFits, FirstWait, OneWindow, TwoWindows
<1>2. /\ task' = task /\ drains' = drains
      /\ ~awake \/ canq = <<>>
      /\ used' = [b \in Buses |-> IF drains[b] THEN 0 ELSE used[b]]
  BY DEF TickOfBridge
<1>3. PICK frames \in {<<>>, <<0>>, <<1>>, <<0, 1>>} : Arrivals(frames) /\ (~awake => frames = <<>>)
  BY DEF TickOfBridge
<1>4. /\ Len(canq) \in Nat /\ Len(canq) <= 2 /\ Len(frames) \in 0..2 /\ (canq = <<>> => Len(canq) = 0)
  BY <1>1, FrameBatches, ValuesOf DEF Settled
<1>5. frames = <<>> => Len(frames) = 0
  OBVIOUS
<1>6. Len(canq) + Len(frames) <= 2
  <2>1. Len(canq) = 0 \/ Len(frames) = 0
    BY <1>2, <1>3, <1>4, <1>5
  <2>2. \A n \in Nat, m \in 0..2 : n <= 2 /\ (n = 0 \/ m = 0) => n + m <= 2
    OBVIOUS
  <2>3. QED
    BY <1>4, <2>1, <2>2
<1>7. Len(canq) + Len(frames) <= RxSlots
  BY <1>4, <1>6, SizesFit
<1>8. /\ lost' = lost /\ Len(canq') <= 2
      /\ \A b \in Buses : CountFor(canq', b) <= Queued(b) + 1
      /\ frames = <<>> => canq' = canq
  BY <1>3, <1>4, <1>6, <1>7, ArrivalsFit DEF Queued
<1>9. ASSUME NEW b \in Buses
      PROVE  CountFor(canq', b) <= 1 /\ (drains'[b] => used'[b] + CountFor(canq', b) <= TxSlots)
  <2>1. /\ Queued(b) \in Nat /\ CountFor(canq', b) \in Nat /\ Queued(b) <= 1
        /\ (canq = <<>> => Queued(b) = 0)
    <3>1. CountFor(canq', b) \in Nat
      BY PlacesFinite DEF BridgeTypes
    <3>2. QED
      BY <1>1, <3>1, ValuesOf DEF Settled
  <2>2. CountFor(canq', b) <= 1
    <3>1. CASE canq = <<>>
      BY <1>8, <2>1, <3>1
    <3>2. CASE frames = <<>>
      <4>1. CountFor(canq', b) = Queued(b)
        BY <1>8, <3>2 DEF Queued
      <4>2. QED
        BY <2>1, <4>1
    <3>3. QED
      BY <1>2, <1>3, <3>1, <3>2
  <2>3. drains'[b] => used'[b] = 0
    BY <1>2
  <2>4. 0 + CountFor(canq', b) <= TxSlots
    BY <2>1, <2>2, SizesFit
  <2>5. QED
    BY <2>2, <2>3, <2>4
<1>10. Settled'
  BY <1>1, <1>2, <1>8, <1>9 DEF Settled, Queued
<1>11. QED
  BY <1>8, <1>10 DEF BatchFits

(* A tick passes with the task in can_send: the bus had all slots taken.    *)
LEMMA SendTickFits ==
  ASSUME BridgeTypes, BridgeTypes', WaitsOpenly, bridging, BatchFits, TickOfBridge, task.at = "send"
  PROVE  BatchFits' /\ lost' = lost
<1>0. PICK f \in Buses, d \in Buses : f = task.frame /\ d = Other(f)
  BY ValuesOf
<1>1. /\ d # f /\ Dest(f) = d /\ Other(d) = f /\ (\A b \in Buses : b = d \/ b = f)
      /\ \A b \in Buses : Other(b) \in Buses /\ (task.frame = Other(b) <=> b = d)
  BY <1>0, TwoBuses
<1>2. /\ drains' = drains /\ task.left > 0 /\ used[d] = TxSlots
      /\ used' = [b \in Buses |-> IF drains[b] THEN 0 ELSE used[b]]
      /\ fast' = [b \in Buses |-> Down(fast[b])]
      /\ task' = [task EXCEPT !.left = @ - 1]
  BY <1>0, <1>1 DEF TickOfBridge
<1>3. /\ task.left \in Nat /\ task.left <= SendWait /\ task.left >= 1
      /\ task'.at = "send" /\ task'.frame = f /\ task'.left = task.left - 1
  <2>1. task \in [at : {"gate", "batch", "send", "host"}, frame : Buses, left : 0..SendWait]
    BY DEF BridgeTypes
  <2>2. QED
    BY <1>0, <1>2, <2>1, SizesFit
<1>4. fast[d] = 0 /\ fast'[d] = 0
  BY <1>0, <1>2 DEF WaitsOpenly, Down
<1>5. \A b \in Buses : /\ used[b] \in Nat /\ fast[b] \in Nat /\ used[b] <= TxSlots
                       /\ fast[b] <= FastDrop /\ Queued(b) \in Nat
                       /\ used'[b] = IF drains[b] THEN 0 ELSE used[b]
                       /\ fast'[b] = IF fast[b] = 0 THEN 0 ELSE fast[b] - 1
  BY <1>2, ValuesOf DEF Down
<1>6. PICK frames \in {<<>>, <<0>>, <<1>>, <<0, 1>>} : Arrivals(frames)
  BY DEF TickOfBridge
<1>7. Len(canq) \in Nat /\ (canq = <<>> <=> Len(canq) = 0) /\ Len(frames) \in 0..2
  BY FrameBatches, ValuesOf
<1>8. ASSUME Len(canq) + 2 <= RxSlots
      PROVE  /\ lost' = lost /\ Len(canq') \in Nat /\ Len(canq') <= Len(canq) + 2
             /\ \A b \in Buses : CountFor(canq', b) \in Nat /\ CountFor(canq', b) <= Queued(b) + 1
  <2>1. Len(canq) + Len(frames) <= RxSlots
    <3>1. \A n \in Nat, m \in 0..2 : n + 2 <= RxSlots => n + m <= RxSlots
      BY SizesFit
    <3>2. QED
      BY <1>7, <1>8, <3>1
  <2>2. canq' \in Seq(Buses) /\ Len(canq') \in Nat
    BY DEF BridgeTypes
  <2>3. \A b \in Buses : CountFor(canq', b) \in Nat
    BY <2>2, PlacesFinite
  <2>4. /\ lost' = lost /\ Len(canq') <= Len(canq) + 2
        /\ \A b \in Buses : CountFor(canq', b) <= CountFor(canq, b) + 1
    BY <1>6, <2>1, ArrivalsFit
  <2>5. QED
    BY <2>2, <2>3, <2>4 DEF Queued
<1>9. ~Settled
  BY DEF Settled
<1>10. ~TwoWindows
  BY <1>4, TwoBuses DEF TwoWindows
<1>11. ASSUME FirstWait PROVE BatchFits' /\ lost' = lost
  <2> DEFINE w == SendWait - task.left
  <2>1. /\ w \in Nat /\ w + 1 <= SendWait
        /\ Waited = w /\ Waited' = w + 1
    BY <1>0, <1>3, <1>4, SizesFit DEF Waited
  <2>2. /\ Len(canq) <= 1 + 2 * w /\ Queued(d) <= w /\ Queued(f) <= 1 + w
        /\ drains[d] => used[d] + 1 + Queued(d) <= TxSlots \/ canq = <<>>
    BY <1>0, <1>11, <2>1 DEF FirstWait
  <2> HIDE DEF w
  <2>3. Len(canq) + 2 <= RxSlots
    BY <1>7, <2>1, <2>2, SizesFit
  <2>4. /\ lost' = lost /\ Len(canq') \in Nat /\ Len(canq') <= Len(canq) + 2
        /\ CountFor(canq', d) \in Nat /\ CountFor(canq', d) <= Queued(d) + 1
        /\ CountFor(canq', f) \in Nat /\ CountFor(canq', f) <= Queued(f) + 1
    BY <1>8, <2>3
  <2>5. /\ Len(canq') <= 1 + 2 * (w + 1)
        /\ CountFor(canq', d) <= w + 1 /\ CountFor(canq', f) <= 1 + (w + 1)
    <3>1. \A l, m, v \in Nat : l <= 1 + 2 * v /\ m <= l + 2 => m <= 1 + 2 * (v + 1)
      OBVIOUS
    <3>2. \A q, p, v \in Nat : /\ q <= v /\ p <= q + 1 => p <= v + 1
                              /\ q <= 1 + v /\ p <= q + 1 => p <= 1 + (v + 1)
      OBVIOUS
    <3>3. Queued(d) \in Nat /\ Queued(f) \in Nat
      BY <1>5
    <3>4. QED
      BY <1>7, <2>1, <2>2, <2>4, <3>1, <3>2, <3>3
  <2>6. drains[d] => canq = <<>>
    <3>1. ~(used[d] + 1 + Queued(d) <= TxSlots)
      BY <1>2, <1>5, SizesFit
    <3>2. QED
      BY <2>2, <3>1
  <2>7. canq = <<>> => Len(canq') <= 2 /\ CountFor(canq', d) <= 1 /\ CountFor(canq', f) <= 1
    BY <1>7, <2>4, ValuesOf
  <2>8. used'[d] < TxSlots => drains[d]
    BY <1>2, <1>5, SizesFit
  <2>9. drains'[d] => used'[d] + 1 + CountFor(canq', d) <= TxSlots
    <3>1. ASSUME drains[d] PROVE used'[d] = 0 /\ CountFor(canq', d) <= 1
      BY <1>5, <2>6, <2>7, <3>1
    <3>2. CountFor(canq', d) <= 1 => 0 + 1 + CountFor(canq', d) <= TxSlots
      BY <2>4, SizesFit
    <3>3. QED
      BY <1>2, <3>1, <3>2
  <2>10. drains'[f] => used'[f] = 0
    BY <1>2, <1>5
  <2>11. FirstWait'
    BY <1>0, <1>3, <2>1, <2>5, <2>6, <2>7, <2>8, <2>9, <2>10 DEF FirstWait, Queued
  <2>12. QED
    BY <2>4, <2>11 DEF BatchFits
<1>12. ASSUME NEW w \in Buses, OneWindow(w) PROVE BatchFits' /\ lost' = lost
  <2>1. /\ w = f /\ Other(w) = d /\ fast[f] > 0
    BY <1>0, <1>1, <1>4, <1>12, SizesFit DEF OneWindow
  <2>2. WaitingFor(d) /\ InHand(d) = 1 /\ InHand(0) + InHand(1) = 1
        /\ InHand(d)' = 1 /\ InHand(0)' + InHand(1)' = 1
        /\ InHand(0) \in Nat /\ InHand(1) \in Nat /\ InHand(0)' \in Nat /\ InHand(1)' \in Nat
    BY <1>0, <1>1, <1>2, <1>3, <1>4, TwoBuses DEF WaitingFor, InHand
  <2> DEFINE s == FastDrop - fast[f]
  <2>3. /\ s \in Nat /\ Spent(f) = s /\ fast[f] = FastDrop - s
    BY <1>5, SizesFit DEF Spent
  <2>4. /\ Len(canq) + InHand(0) + InHand(1) <= 1 + 2 * SendWait + 2 * s
        /\ s <= (SendWait - 1) + (SendWait - task.left)
        /\ drains[d] => \/ used[d] + Queued(d) + 1 <= TxSlots
                        \/ used[d] + Queued(d) + 1 + s <= SendWait + 1
    BY <1>12, <2>1, <2>2, <2>3 DEF OneWindow
  <2>5. Spent(f)' = s + 1
    BY <1>5, <2>1, SizesFit DEF Spent
  <2> HIDE DEF s
  <2>6. s + 2 <= 2 * SendWait
    <3>1. \A n, l, v \in Nat : l >= 1 /\ l <= n /\ v <= (n - 1) + (n - l) => v + 2 <= 2 * n
      OBVIOUS
    <3>2. QED
      BY <1>3, <2>3, <2>4, <3>1, SizesFit
  <2>7. fast'[f] > 0
    BY <1>5, <2>1, <2>3, <2>6, SizesFit
  <2>8. Len(canq) + 1 <= 1 + 2 * SendWait + 2 * s
    BY <1>7, <2>2, <2>3, <2>4, SizesFit
  <2>9. Len(canq) + 2 <= RxSlots
    BY <1>7, <2>3, <2>6, <2>8, SizesFit
  <2>10. /\ lost' = lost /\ Len(canq') \in Nat /\ Len(canq') <= Len(canq) + 2
         /\ CountFor(canq', d) \in Nat /\ CountFor(canq', d) <= Queued(d) + 1
    BY <1>8, <2>9
  <2>11. Len(canq') + InHand(0)' + InHand(1)' <= 1 + 2 * SendWait + 2 * (s + 1)
    <3>1. Len(canq') + 1 <= 1 + 2 * SendWait + 2 * (s + 1)
      BY <1>7, <2>3, <2>8, <2>10, SizesFit
    <3>2. Len(canq') + InHand(0)' + InHand(1)' = Len(canq') + 1
      BY <2>2, <2>10
    <3>3. QED
      BY <3>1, <3>2
  <2>12. drains[d] => TxSlots + Queued(d) + 1 + s <= SendWait + 1
    <3>1. ~(used[d] + Queued(d) + 1 <= TxSlots)
      BY <1>2, <1>5, SizesFit
    <3>2. QED
      BY <1>2, <2>4, <3>1
  <2>13. s + 1 <= (SendWait - 1) + IF WaitingFor(d)' THEN SendWait - task'.left ELSE 0
    <3>1. CASE drains[d]
      <4>1. s + 1 <= SendWait - 1
        <5>1. Queued(d) \in Nat /\ TxSlots + Queued(d) + 1 + s <= SendWait + 1
          BY <1>5, <2>12, <3>1
        <5>2. QED
          BY <2>3, <5>1, SizesFit
      <4>2. ~WaitingFor(d)'
        <5>1. used'[d] # TxSlots
          BY <1>5, <3>1, SizesFit
        <5>2. QED
          BY <5>1 DEF WaitingFor
      <4>3. QED
        BY <2>3, <4>1, <4>2, SizesFit
    <3>2. CASE ~drains[d]
      <4>1. WaitingFor(d)'
        <5>1. used'[d] = TxSlots
          BY <1>2, <1>5, <3>2
        <5>2. QED
          BY <1>0, <1>1, <1>3, <1>4, <5>1 DEF WaitingFor
      <4>2. s + 1 <= (SendWait - 1) + (SendWait - (task.left - 1))
        <5>1. \A n, l, v \in Nat : v <= (n - 1) + (n - l) => v + 1 <= (n - 1) + (n - (l - 1))
          OBVIOUS
        <5>2. QED
          BY <1>3, <2>3, <2>4, <5>1, SizesFit
      <4>3. QED
        BY <1>3, <4>1, <4>2
    <3>3. QED
      BY <3>1, <3>2
  <2>14. drains'[d] => used'[d] + CountFor(canq', d) + InHand(d)' + (s + 1) <= SendWait + 1
    <3>1. ASSUME drains[d] PROVE 0 + CountFor(canq', d) + 1 + (s + 1) <= SendWait + 1
      <4>1. Queued(d) \in Nat /\ TxSlots + Queued(d) + 1 + s <= SendWait + 1
        BY <1>5, <2>12, <3>1
      <4>2. QED
        BY <2>3, <2>10, <4>1, SizesFit
    <3>2. drains[d] => used'[d] = 0
      BY <1>5
    <3>3. QED
      BY <1>2, <2>2, <3>1, <3>2
  <2>15. OneWindow(f)'
    BY <1>1, <1>3, <2>1, <2>5, <2>7, <2>11, <2>13, <2>14 DEF OneWindow, Queued
  <2>16. QED
    BY <2>10, <2>15, TwoBuses DEF BatchFits
<1>13. QED
  BY <1>9, <1>10, <1>11, <1>12, TwoBuses DEF BatchFits

-----------------------------------------------------------------------------
(* The types, and the batch that fits, are an inductive invariant.          *)
LEMMA BridgeInvInit == BridgeInit => BridgeInv
<1> SUFFICES ASSUME BridgeInit PROVE BridgeInv
  OBVIOUS
<1>1. BridgeTypes
  BY SizesFit DEF BridgeInit, BridgeTypes, Buses
<1>2. WaitsOpenly
  BY DEF BridgeInit, WaitsOpenly
<1>3. Settled
  <2>1. Len(canq) = 0 /\ \A b \in Buses : Queued(b) = 0
    BY <1>1, QueueFacts DEF BridgeInit
  <2>2. \A b \in Buses : used[b] = 0
    BY DEF BridgeInit
  <2>3. task.at = "gate"
    BY DEF BridgeInit
  <2>4. QED
    BY <2>1, <2>2, <2>3, SizesFit DEF Settled
<1>4. QED
  BY <1>1, <1>2, <1>3 DEF BridgeInv, BatchFits, BridgeInit

(* All steps of the bridge.                                                 *)
LEMMA BridgeInvNext == BridgeInv /\ [BridgeNext]_bridgeVars => BridgeInv'
<1> SUFFICES ASSUME BridgeInv, [BridgeNext]_bridgeVars PROVE BridgeInv'
  OBVIOUS
<1>1. CASE BridgeNext
  <2>1. BridgeTypes /\ WaitsOpenly
    BY DEF BridgeInv
  <2>2. BridgeTypes'
    BY <1>1, <2>1, TickTypes, TaskTypes DEF BridgeNext
  <2>3. WaitsOpenly'
    BY <1>1, <2>1, WaitsKept
  <2>4. bridging' = bridging
    BY <1>1 DEF BridgeNext, BridgeTask, TickOfBridge, WorldOfBridge, TakeFrame, BatchEnds,
                SendFrame, DropFrame, StreamFrame
  <2>5. ASSUME bridging PROVE BatchFits' /\ lost' = lost
    <3>1. BatchFits
      BY <2>5 DEF BridgeInv
    <3>2. CASE TickOfBridge
      <4>1. task.at = "gate" \/ task.at = "send"
        BY <3>2 DEF TickOfBridge
      <4>2. QED
        BY <2>1, <2>2, <2>5, <3>1, <3>2, <4>1, GateTickFits, SendTickFits
    <3>3. CASE WorldOfBridge
      BY <2>1, <2>2, <3>1, <3>3, WorldFits
    <3>4. CASE TakeFrame
      BY <2>1, <2>2, <2>5, <3>1, <3>4, TakeFits
    <3>5. CASE BatchEnds
      BY <2>1, <2>2, <3>5, EndFits
    <3>6. CASE SendFrame
      BY <2>1, <2>2, <2>5, <3>1, <3>6, SendFits
    <3>7. CASE DropFrame
      BY <2>1, <2>2, <2>5, <3>1, <3>7, DropFits
    <3>8. CASE StreamFrame
      BY <2>1, <2>2, <3>1, <3>8, StreamFits
    <3>9. QED
      BY <1>1, <3>2, <3>3, <3>4, <3>5, <3>6, <3>7, <3>8 DEF BridgeNext, BridgeTask
  <2>6. bridging' => ~lost' /\ BatchFits'
    BY <2>4, <2>5 DEF BridgeInv
  <2>7. QED
    BY <2>2, <2>3, <2>6 DEF BridgeInv
<1>2. CASE UNCHANGED bridgeVars
  BY <1>2 DEF bridgeVars, BridgeInv, BridgeTypes, WaitsOpenly, BatchFits, Settled, FirstWait,
              OneWindow, TwoWindows, Queued, InHand, Waited, Spent, WaitingFor
<1>3. QED
  BY <1>1, <1>2

(* Whatever arrives and however long a bus stays dead, the waits of the     *)
(* task and the frames in the queue fit together as BridgeInv says.         *)
THEOREM BridgeInvariant == BridgeSpec => []BridgeInv
<1>1. QED
  BY BridgeInvInit, BridgeInvNext, PTL DEF BridgeSpec

(* Whatever the buses do, no frame finds the receive queue full while the   *)
(* bridge is on, for every size of the queue and the pools and all waits    *)
(* that fit each other as BridgeSizes says.                                 *)
THEOREM BridgeLosesNothing == BridgeSpec => []NothingLost
<1>1. BridgeInv => NothingLost
  BY DEF BridgeInv, NothingLost
<1>2. QED
  BY <1>1, BridgeInvariant, PTL

-----------------------------------------------------------------------------
(* The SLCAN adapter reads its own text. What a recursive fold computes is *)
(* followed through the values it passes: induction with a set in the      *)
(* place of a predicate gives the run of a fold, and from there each       *)
(* character of the text is one lemma about SlByte.                        *)

(* A non-empty set of numbers has a least one.                             *)
LEMMA LeastNat ==
  ASSUME NEW T \in SUBSET Nat, T # {}
  PROVE  \E x \in T : \A y \in T : ~(y < x)
<1> DEFINE R == OpToRel(<, Nat)
<1>1. IsWellFoundedOn(R, Nat)
  BY NatLessThanWellFounded
<1>2. \E x \in T : \A y \in T : ~(<<y, x>> \in R)
  <2> HIDE DEF R
  <2> QED BY <1>1, WFMin
<1>3. \A x, y \in Nat : <<y, x>> \in R <=> y < x
  BY DEF OpToRel
<1>4. QED
  BY <1>2, <1>3

(* Induction, with a set in the place of a predicate.                       *)
LEMMA SetInduction ==
  ASSUME NEW T, 0 \in T, \A n \in Nat : n \in T => n + 1 \in T
  PROVE  \A n \in Nat : n \in T
<1> DEFINE U == {n \in Nat : n \notin T}
<1> SUFFICES ASSUME U # {} PROVE FALSE
  OBVIOUS
<1>1. PICK x \in U : \A y \in U : ~(y < x)
  <2>1. U \in SUBSET Nat
    OBVIOUS
  <2> HIDE DEF U
  <2> QED BY <2>1, LeastNat
<1>2. x \in Nat /\ x # 0 /\ x \notin T
  BY <1>1
<1>3. x - 1 \in Nat /\ x - 1 < x /\ (x - 1) + 1 = x
  BY <1>2
<1>4. x - 1 \in T
  BY <1>1, <1>3
<1>5. QED
  BY <1>2, <1>3, <1>4

(* What a fold is: the last of the values the parser goes through.          *)
RunOf(f, r, s) ==
  /\ DOMAIN f = 0..Len(s) /\ f[0] = r
  /\ \A k \in 1..Len(s) : f[k] = SlByte(f[k - 1], s[k])

(* The upper end of a range is its largest number.                          *)
LEMMA MaxOf ==
  ASSUME NEW n \in Nat, NEW s \in SUBSET (1..n), n \in s
  PROVE  Max(s) = n
<1>1. \A x \in s : n >= x
  OBVIOUS
<1>2. \A m \in s : (\A x \in s : m >= x) => m = n
  OBVIOUS
<1>3. QED
  BY <1>1, <1>2 DEF Max

(* Every parse has a run.                                                  *)
LEMMA FoldHasRun ==
  ASSUME NEW S, NEW s \in Seq(S), NEW r
  PROVE  \E f : RunOf(f, r, s) /\ FoldLeft(SlByte, r, s) = f[Len(s)]
<1> DEFINE n == Len(s)
           Eq(g, k) == g = [t \in SUBSET (1..k) |-> IF t = {} THEN r ELSE SlByte(g[t \ {Max(t)}], s[Max(t)])]
           Good == {k \in Nat : \E g : Eq(g, k)}
<1>1. 0 \in Good
  <2> DEFINE g == [t \in SUBSET (1..0) |-> r]
  <2>1. \A t \in SUBSET (1..0) : t = {}
    OBVIOUS
  <2>2. g = [t \in SUBSET (1..0) |-> IF t = {} THEN r ELSE SlByte(g[t \ {Max(t)}], s[Max(t)])]
    BY <2>1
  <2>3. QED
    BY <2>2
<1>2. ASSUME NEW k \in Nat, k \in Good PROVE k + 1 \in Good
  <2>1. PICK g : Eq(g, k)
    BY <1>2
  <2> DEFINE h == [t \in SUBSET (1..(k+1)) |-> IF (k+1) \in t THEN SlByte(g[t \ {k+1}], s[k+1]) ELSE g[t]]
  <2>2. ASSUME NEW t \in SUBSET (1..(k+1)), (k+1) \notin t
        PROVE  h[t] = IF t = {} THEN r ELSE SlByte(h[t \ {Max(t)}], s[Max(t)])
    <3>1. t \in SUBSET (1..k) /\ t \ {Max(t)} \in SUBSET (1..k)
      <4>1. \A x \in 1..(k + 1) : x # k + 1 => x \in 1..k
        OBVIOUS
      <4> HIDE DEF h
      <4>2. t \subseteq 1..k
        BY <2>2, <4>1
      <4>3. QED
        BY <4>2
    <3>2. h[t] = g[t]
      BY <2>2
    <3>3. h[t \ {Max(t)}] = g[t \ {Max(t)}]
      BY <2>2, <3>1
    <3>4. g[t] = IF t = {} THEN r ELSE SlByte(g[t \ {Max(t)}], s[Max(t)])
      BY <2>1, <3>1
    <3> QED
      BY <3>2, <3>3, <3>4
  <2>3. ASSUME NEW t \in SUBSET (1..(k+1)), (k+1) \in t
        PROVE  h[t] = IF t = {} THEN r ELSE SlByte(h[t \ {Max(t)}], s[Max(t)])
    <3>1. Max(t) = k + 1
      BY <2>3, MaxOf
    <3>2. t \ {k+1} \in SUBSET (1..(k+1)) /\ (k+1) \notin t \ {k+1}
      OBVIOUS
    <3>3. h[t \ {k+1}] = g[t \ {k+1}]
      BY <3>2
    <3> QED
      BY <2>3, <3>1, <3>3
  <2>4. Eq(h, k + 1)
    BY <2>2, <2>3
  <2> HIDE DEF h, Eq
  <2>5. QED
    BY <2>4
<1>3. \A k \in Nat : k \in Good
  <2> HIDE DEF Good
  <2> QED BY <1>1, <1>2, SetInduction
<1>4. n \in Nat /\ DOMAIN s = 1..n
  OBVIOUS
<1> DEFINE it == CHOOSE g : Eq(g, n)
<1>5. Eq(it, n)
  <2>1. \E g : Eq(g, n)
    BY <1>3, <1>4
  <2> HIDE DEF Eq
  <2>2. QED
    BY <2>1
<1>6. FoldLeft(SlByte, r, s) = it[1..n]
  BY <1>4 DEF FoldLeft, MapThenFoldSet
<1> HIDE DEF it
<1> DEFINE f == [k \in 0..n |-> it[1..k]]
<1>7. f[0] = r
  BY <1>4, <1>5
<1>8. ASSUME NEW k \in 1..n PROVE f[k] = SlByte(f[k - 1], s[k])
  <2>1. 1..k \in SUBSET (1..n) /\ 1..k # {} /\ k \in 1..k /\ 1..k \in SUBSET (1..k) /\ k \in Nat
    <3>1. k \in Nat /\ k <= n /\ 1 <= k
      BY <1>4
    <3>2. 1..k \subseteq 1..n /\ k \in 1..k
      BY <3>1, <1>4
    <3>3. QED
      BY <3>1, <3>2
  <2>2. Max(1..k) = k
    BY <2>1, MaxOf
  <2>3. (1..k) \ {k} = 1..(k - 1)
    OBVIOUS
  <2>4. it[1..k] = SlByte(it[1..(k - 1)], s[k])
    BY <1>5, <2>1, <2>2, <2>3
  <2>5. QED
    BY <2>4
<1>9. n \in 0..n /\ f[n] = it[1..n] /\ DOMAIN f = 0..n
  BY <1>4
<1> HIDE DEF f
<1>10. RunOf(f, r, s)
  BY <1>7, <1>8, <1>9 DEF RunOf
<1>11. QED
  BY <1>6, <1>9, <1>10

(* The fields of a frame; which values they hold does not matter.          *)
HasShape(m) == m = [id |-> m.id, extd |-> m.extd, rtr |-> m.rtr, dlc |-> m.dlc, data |-> m.data]

(* What is streamed: a frame with data whose length fits.                   *)
Streamed(m) ==
  /\ HasShape(m) /\ m.extd \in BOOLEAN /\ m.rtr \in BOOLEAN
  /\ m.id \in Seq(0..8) /\ Len(m.id) = (IF m.extd THEN ExtIdLen ELSE StdIdLen)
  /\ m.dlc \in 1..8 /\ m.data \in Seq(0..8) /\ Len(m.data) = 2 * m.dlc

(* The parser inside a frame command, and at its end.                      *)
Collecting(cmd, col, got) ==
  [state |-> "BODY", cmd |-> cmd, msg |-> <<>>, col |-> col, got |-> got]
Ended(cmd) == [state |-> "END", cmd |-> cmd, msg |-> <<>>, col |-> "ID", got |-> <<>>]

(* Sequences are their elements.                                            *)
LEMMA SameSeq ==
  ASSUME NEW S, NEW s \in Seq(S), NEW t \in Seq(S), Len(s) = Len(t),
         \A i \in 1..Len(s) : s[i] = t[i]
  PROVE  s = t
OBVIOUS

(* Two characters, joined one after the other.                              *)
LEMMA PairJoined ==
  ASSUME NEW x, NEW y
  PROVE  <<>> \o <<x>> \o <<y>> = <<x, y>>
<1> DEFINE s == <<x>> \o <<y>>
           t == <<x, y>>
<1>1. <<x>> \in Seq({x, y}) /\ <<y>> \in Seq({x, y})
  OBVIOUS
<1>2. s \in Seq({x, y}) /\ Len(s) = 2 /\ s[1] = x /\ s[2] = y
  BY <1>1
<1>3. t \in Seq({x, y}) /\ Len(t) = 2 /\ t[1] = x /\ t[2] = y
  OBVIOUS
<1>4. <<>> \o <<x>> = <<x>>
  BY <1>1
<1> HIDE DEF s, t
<1>5. \A i \in 1..2 : s[i] = t[i]
  <2>1. \A i \in 1..2 : i = 1 \/ i = 2
    OBVIOUS
  <2>2. QED
    BY <1>2, <1>3, <2>1
<1>6. s = t
  BY <1>2, <1>3, <1>5, SameSeq
<1>7. QED
  BY <1>4, <1>6 DEF s, t

(* A digit of the text is read as the nibble it was written for.           *)
LEMMA DigitsRead ==
  ASSUME NEW d \in 0..8
  PROVE  /\ Digits[d + 1] \in ToSet(Digits) /\ Digits[d + 1] # "CR" /\ IsDigit(Digits[d + 1])
         /\ Digit(Digits[d + 1]) = d
         /\ d # 0 => Digits[d + 1] # "0"
<1>1. DOMAIN Digits = 1..9 /\ d + 1 \in 1..9
  BY DEF Digits
<1>2. \A i, j \in 1..9 : Digits[i] = Digits[j] => i = j
  BY DEF Digits
<1>3. Digits[d + 1] # "CR"
  <2>1. d + 1 \in {1, 2, 3, 4, 5, 6, 7, 8, 9}
    OBVIOUS
  <2>2. \A i \in {1, 2, 3, 4, 5, 6, 7, 8, 9} : Digits[i] # "CR"
    BY DEF Digits
  <2>3. QED
    BY <2>1, <2>2
<1>4. IsDigit(Digits[d + 1])
  BY <1>1 DEF IsDigit, ToSet
<1>5. Digit(Digits[d + 1]) = d
  BY <1>1, <1>2 DEF Digit
<1>6. d # 0 => Digits[d + 1] # "0"
  BY DEF Digits
<1>7. QED
  BY <1>3, <1>4, <1>5, <1>6 DEF IsDigit

(* The letter says what kind of frame follows.                             *)
LEMMA LetterKinds ==
  ASSUME NEW m, m.extd \in BOOLEAN, m.rtr \in BOOLEAN
  PROVE  /\ Letter(m) \in {"t", "T", "r", "R"}
         /\ IsFrameCmd(Letter(m)) /\ IsRemote(Letter(m)) = m.rtr /\ IsExt(Letter(m)) = m.extd
<1> DEFINE c == Letter(m)
<1>1. /\ c \in {"t", "T", "r", "R"}
      /\ c \in {"r", "R"} <=> m.rtr
      /\ c \in {"T", "R"} <=> m.extd
  BY DEF Letter
<1>2. IsFrameCmd(c) /\ IsRemote(c) \in BOOLEAN /\ IsExt(c) \in BOOLEAN
      /\ (IsRemote(c) <=> m.rtr) /\ (IsExt(c) <=> m.extd)
  <2> HIDE DEF c
  <2> QED
    BY <1>1 DEF IsFrameCmd, IsRemote, IsExt
<1> HIDE DEF c
<1>3. IsRemote(c) = m.rtr
  BY <1>2
<1>4. IsExt(c) = m.extd
  BY <1>2
<1>5. QED
  BY <1>1, <1>2, <1>3, <1>4 DEF c

(* The collector at its last characters, one field at a time.              *)
LEMMA LengthEnds ==
  ASSUME NEW c, NEW got
  PROVE  [Collecting(c, "DLC", got) EXCEPT !.state = "END", !.col = "ID", !.got = <<>>] = Ended(c)
<1> DEFINE over == [state |-> "END", cmd |-> c, msg |-> <<>>, col |-> "DLC", got |-> got]
           id == [state |-> "END", cmd |-> c, msg |-> <<>>, col |-> "ID", got |-> got]
<1>1. [Collecting(c, "DLC", got) EXCEPT !.state = "END"] = over
  BY DEF Collecting
<1>2. [over EXCEPT !.col = "ID"] = id
  OBVIOUS
<1>3. [id EXCEPT !.got = <<>>] = Ended(c)
  BY DEF Ended
<1> HIDE DEF over, id
<1>4. QED
  BY <1>1, <1>2, <1>3

(* The last nibble of the data ends the frame.                              *)
LEMMA DataEnds ==
  ASSUME NEW c, NEW got
  PROVE  [Collecting(c, "DATA", got) EXCEPT !.state = "END", !.col = "ID", !.got = <<>>] = Ended(c)
<1> DEFINE over == [state |-> "END", cmd |-> c, msg |-> <<>>, col |-> "DATA", got |-> got]
           id == [state |-> "END", cmd |-> c, msg |-> <<>>, col |-> "ID", got |-> got]
<1>1. [Collecting(c, "DATA", got) EXCEPT !.state = "END"] = over
  BY DEF Collecting
<1>2. [over EXCEPT !.col = "ID"] = id
  OBVIOUS
<1>3. [id EXCEPT !.got = <<>>] = Ended(c)
  BY DEF Ended
<1> HIDE DEF over, id
<1>4. QED
  BY <1>1, <1>2, <1>3

(* The carriage return leaves the parser clean.                             *)
LEMMA EndClears ==
  ASSUME NEW c
  PROVE  [Ended(c) EXCEPT !.state = "HEADER", !.cmd = "none", !.msg = <<>>] = SlClean
<1> DEFINE head == [state |-> "HEADER", cmd |-> c, msg |-> <<>>, col |-> "ID", got |-> <<>>]
<1>1. [Ended(c) EXCEPT !.state = "HEADER"] = head
  BY DEF Ended
<1>2. [head EXCEPT !.cmd = "none"] = SlClean
  BY DEF SlClean
<1>3. [SlClean EXCEPT !.msg = <<>>] = SlClean
  BY DEF SlClean
<1> HIDE DEF head
<1>4. QED
  BY <1>1, <1>2, <1>3

(* A clean parser starts to collect at the letter.                         *)
LEMMA LetterOpens ==
  ASSUME NEW m, m.extd \in BOOLEAN, m.rtr \in BOOLEAN, NEW old
  PROVE  SlByte(Res(SlClean, old, <<>>), Letter(m)) = Res(Collecting(Letter(m), "ID", <<>>), old, <<>>)
<1>1. Letter(m) \in {"t", "T", "r", "R"}
  BY LetterKinds
<1> DEFINE b == Letter(m)
<1> HIDE DEF b
<1>2. ASSUME b \in {"t", "T", "r", "R"}
      PROVE  SlByte(Res(SlClean, old, <<>>), b) = Res(Collecting(b, "ID", <<>>), old, <<>>)
  BY <1>2 DEF SlByte, SlHeader, Res, SlClean, Collecting
<1>3. QED
  BY <1>1, <1>2 DEF b

(* One nibble of the identifier.                                            *)
LEMMA NibbleOfId ==
  ASSUME NEW m, Streamed(m), NEW old, NEW k \in 1..Len(m.id)
  PROVE  SlByte(Res(Collecting(Letter(m), "ID", SubSeq(m.id, 1, k - 1)), old, <<>>), Digits[m.id[k] + 1])
           = IF k = Len(m.id)
               THEN Res(Collecting(Letter(m), "DLC", <<>>), [old EXCEPT !.id = m.id], <<>>)
               ELSE Res(Collecting(Letter(m), "ID", SubSeq(m.id, 1, k)), old, <<>>)
<1> DEFINE c == Letter(m)
           b == Digits[m.id[k] + 1]
           pre == SubSeq(m.id, 1, k - 1)
           len == IF m.extd THEN ExtIdLen ELSE StdIdLen
<1>1. m.id[k] \in 0..8
  BY DEF Streamed
<1>2. IsDigit(b) /\ Digit(b) = m.id[k]
  BY <1>1, DigitsRead
<1>3. c \in {"t", "T", "r", "R"} /\ IsExt(c) = m.extd
  BY LetterKinds DEF Streamed
<1>4. Append(pre, m.id[k]) = SubSeq(m.id, 1, k)
  BY DEF Streamed
<1>5. Len(SubSeq(m.id, 1, k)) = k /\ len = Len(m.id) /\ ~(k > ExtIdLen)
  BY AdapterAssumption DEF Streamed
<1>6. k = Len(m.id) => SubSeq(m.id, 1, k) = m.id
  BY DEF Streamed
<1> HIDE DEF c, b, pre, len
<1> DEFINE r == Res(Collecting(c, "ID", pre), old, <<>>)
<1>7. SlByte(r, b) = Collect(r, b)
  BY <1>3 DEF SlByte, SlBody, Res, Collecting
<1>8. r.p.col = "ID" /\ r.p.cmd = c /\ r.p.got = pre /\ r.msg = old /\ r.did = <<>>
      /\ r.p = Collecting(c, "ID", pre)
  BY DEF Res, Collecting
<1>9. (IF IsExt(c) THEN ExtIdLen ELSE StdIdLen) = len
  BY <1>3 DEF len
<1>10. Append(r.p.got, IF IsDigit(b) THEN Digit(b) ELSE 0) = SubSeq(m.id, 1, k)
  BY <1>2, <1>4, <1>8
<1> HIDE DEF r
<1>11. CASE k = Len(m.id)
  <2>1. Collect(r, b) = Res([r.p EXCEPT !.col = "DLC", !.got = <<>>], [r.msg EXCEPT !.id = SubSeq(m.id, 1, k)], r.did)
    BY <1>5, <1>8, <1>9, <1>10, <1>11 DEF Collect
  <2>2. [r.p EXCEPT !.col = "DLC", !.got = <<>>] = Collecting(c, "DLC", <<>>)
    <3>1. [Collecting(c, "ID", pre) EXCEPT !.col = "DLC"] = Collecting(c, "DLC", pre)
      BY DEF Collecting
    <3>2. [Collecting(c, "DLC", pre) EXCEPT !.got = <<>>] = Collecting(c, "DLC", <<>>)
      BY DEF Collecting
    <3>3. QED
      BY <1>8, <3>1, <3>2
  <2>3. QED
    BY <1>6, <1>7, <1>8, <1>11, <2>1, <2>2 DEF r, c, b, pre
<1>12. CASE k # Len(m.id)
  <2>1. Collect(r, b) = Res([r.p EXCEPT !.got = SubSeq(m.id, 1, k), !.col = "ID"], r.msg, r.did)
    BY <1>5, <1>8, <1>9, <1>10, <1>12 DEF Collect
  <2>2. [r.p EXCEPT !.got = SubSeq(m.id, 1, k), !.col = "ID"] = Collecting(c, "ID", SubSeq(m.id, 1, k))
    <3>1. \A now : [Collecting(c, "ID", pre) EXCEPT !.got = now] = Collecting(c, "ID", now)
      BY DEF Collecting
    <3>2. \A now : [Collecting(c, "ID", now) EXCEPT !.col = "ID"] = Collecting(c, "ID", now)
      BY DEF Collecting
    <3>3. QED
      BY <1>8, <3>1, <3>2
  <2>3. QED
    BY <1>7, <1>8, <1>12, <2>1, <2>2 DEF r, c, b, pre
<1>13. QED
  BY <1>11, <1>12

(* The length ends a remote frame and opens the data of any other.          *)
LEMMA LengthRead ==
  ASSUME NEW m, Streamed(m), NEW old
  PROVE  SlByte(Res(Collecting(Letter(m), "DLC", <<>>), old, <<>>), Digits[m.dlc + 1])
           = IF m.rtr
               THEN Res(Ended(Letter(m)), [old EXCEPT !.rtr = m.rtr, !.extd = m.extd, !.dlc = m.dlc], <<>>)
               ELSE Res(Collecting(Letter(m), "DATA", <<>>), [old EXCEPT !.dlc = m.dlc], <<>>)
<1> DEFINE c == Letter(m)
           b == Digits[m.dlc + 1]
<1>1. m.dlc \in 0..8 /\ m.dlc # 0
  BY DEF Streamed
<1>2. IsDigit(b) /\ Digit(b) = m.dlc /\ b # "0"
  BY <1>1, DigitsRead
<1>3. c \in {"t", "T", "r", "R"} /\ IsExt(c) = m.extd /\ IsRemote(c) = m.rtr
  BY LetterKinds DEF Streamed
<1> HIDE DEF c, b
<1> DEFINE r == Res(Collecting(c, "DLC", <<>>), old, <<>>)
<1>4. SlByte(r, b) = Collect(r, b)
  BY <1>3 DEF SlByte, SlBody, Res, Collecting
<1>5. r.p.col = "DLC" /\ r.p.cmd = c /\ r.msg = old /\ r.did = <<>>
      /\ r.p = Collecting(c, "DLC", <<>>)
  BY DEF Res, Collecting
<1> HIDE DEF r
<1>6. CASE m.rtr
  <2>1. Collect(r, b) = Res([r.p EXCEPT !.state = "END", !.col = "ID", !.got = <<>>],
                            [[r.msg EXCEPT !.rtr = IsRemote(r.p.cmd), !.extd = IsExt(r.p.cmd)] EXCEPT !.dlc = m.dlc], r.did)
    BY <1>2, <1>3, <1>5, <1>6 DEF Collect
  <2>2. [r.p EXCEPT !.state = "END", !.col = "ID", !.got = <<>>] = Ended(c)
    <3>1. [Collecting(c, "DLC", <<>>) EXCEPT !.state = "END", !.col = "ID", !.got = <<>>] = Ended(c)
      BY LengthEnds
    <3>2. QED
      BY <1>5, <3>1
  <2>3. QED
    BY <1>3, <1>4, <1>5, <1>6, <2>1, <2>2 DEF r, c, b
<1>7. CASE ~m.rtr
  <2>1. Collect(r, b) = Res([r.p EXCEPT !.col = "DATA"], [r.msg EXCEPT !.dlc = m.dlc], r.did)
    BY <1>2, <1>3, <1>5, <1>7 DEF Collect
  <2>2. [r.p EXCEPT !.col = "DATA"] = Collecting(c, "DATA", <<>>)
    <3>1. [Collecting(c, "DLC", <<>>) EXCEPT !.col = "DATA"] = Collecting(c, "DATA", <<>>)
      BY DEF Collecting
    <3>2. QED
      BY <1>5, <3>1
  <2>3. QED
    BY <1>4, <1>5, <1>7, <2>1, <2>2 DEF r, c, b
<1>8. QED
  BY <1>6, <1>7 DEF Streamed

(* One nibble of the data.                                                  *)
LEMMA NibbleOfData ==
  ASSUME NEW m, Streamed(m), ~m.rtr, NEW old, old.dlc = m.dlc, NEW j \in 1..Len(m.data)
  PROVE  SlByte(Res(Collecting(Letter(m), "DATA", SubSeq(m.data, 1, j - 1)), old, <<>>), Digits[m.data[j] + 1])
           = IF j = Len(m.data)
               THEN Res(Ended(Letter(m)), [old EXCEPT !.rtr = m.rtr, !.extd = m.extd, !.data = m.data], <<>>)
               ELSE Res(Collecting(Letter(m), "DATA", SubSeq(m.data, 1, j)), old, <<>>)
<1> DEFINE c == Letter(m)
           b == Digits[m.data[j] + 1]
           pre == SubSeq(m.data, 1, j - 1)
<1>1. m.data[j] \in 0..8
  BY DEF Streamed
<1>2. IsDigit(b) /\ Digit(b) = m.data[j]
  BY <1>1, DigitsRead
<1>3. c \in {"t", "T", "r", "R"} /\ IsExt(c) = m.extd /\ IsRemote(c) = m.rtr
  BY LetterKinds DEF Streamed
<1>4. Append(pre, m.data[j]) = SubSeq(m.data, 1, j)
  BY DEF Streamed
<1>5. Len(SubSeq(m.data, 1, j)) = j /\ 2 * old.dlc = Len(m.data)
  BY DEF Streamed
<1>6. j = Len(m.data) => SubSeq(m.data, 1, j) = m.data
  BY DEF Streamed
<1> HIDE DEF c, b, pre
<1> DEFINE r == Res(Collecting(c, "DATA", pre), old, <<>>)
<1>7. SlByte(r, b) = Collect(r, b)
  BY <1>3 DEF SlByte, SlBody, Res, Collecting
<1>8. r.p.col = "DATA" /\ r.p.cmd = c /\ r.p.got = pre /\ r.msg = old /\ r.did = <<>>
      /\ r.p = Collecting(c, "DATA", pre)
  BY DEF Res, Collecting
<1>9. Append(r.p.got, IF IsDigit(b) THEN Digit(b) ELSE 0) = SubSeq(m.data, 1, j)
  BY <1>2, <1>4, <1>8
<1> HIDE DEF r
<1>10. CASE j = Len(m.data)
  <2>1. Collect(r, b) = Res([r.p EXCEPT !.state = "END", !.col = "ID", !.got = <<>>],
                            [[r.msg EXCEPT !.rtr = IsRemote(r.p.cmd), !.extd = IsExt(r.p.cmd)] EXCEPT !.data = SubSeq(m.data, 1, j)], r.did)
    BY <1>5, <1>8, <1>9, <1>10 DEF Collect
  <2>2. [r.p EXCEPT !.state = "END", !.col = "ID", !.got = <<>>] = Ended(c)
    <3>1. [Collecting(c, "DATA", pre) EXCEPT !.state = "END", !.col = "ID", !.got = <<>>] = Ended(c)
      BY DataEnds
    <3>2. QED
      BY <1>8, <3>1
  <2>3. QED
    BY <1>3, <1>6, <1>7, <1>8, <1>10, <2>1, <2>2 DEF r, c, b, pre
<1>11. CASE j # Len(m.data)
  <2>1. Collect(r, b) = Res([r.p EXCEPT !.got = SubSeq(m.data, 1, j)], r.msg, r.did)
    BY <1>5, <1>8, <1>9, <1>11 DEF Collect
  <2>2. [r.p EXCEPT !.got = SubSeq(m.data, 1, j)] = Collecting(c, "DATA", SubSeq(m.data, 1, j))
    <3>1. \A now : [Collecting(c, "DATA", pre) EXCEPT !.got = now] = Collecting(c, "DATA", now)
      BY DEF Collecting
    <3>2. QED
      BY <1>8, <3>1
  <2>3. QED
    BY <1>7, <1>8, <1>11, <2>1, <2>2 DEF r, c, b, pre
<1>12. QED
  BY <1>10, <1>11

(* Up to the carriage return everything is skipped; it sends the frame.     *)
LEMMA EndSkips ==
  ASSUME NEW cmd, NEW m, NEW calls, NEW b, b # "CR"
  PROVE  SlByte(Res(Ended(cmd), m, calls), b) = Res(Ended(cmd), m, calls)
BY DEF SlByte, SlEnd, Res, Ended

(* And that is when the frame is sent.                                      *)
LEMMA ReturnSends ==
  ASSUME NEW m, m.extd \in BOOLEAN, m.rtr \in BOOLEAN, NEW msg
  PROVE  SlByte(Res(Ended(Letter(m)), msg, <<>>), "CR")
           = Res(SlClean, msg, << <<"send", 0, OnBus(msg)>>, <<"reply", "ack">> >>)
<1> DEFINE c == Letter(m)
           r == Res(Ended(c), msg, <<>>)
<1>1. IsFrameCmd(c) /\ Reply(c) = "ack"
  BY LetterKinds DEF Reply
<1> HIDE DEF c
<1>2. SlByte(r, "CR") = SlEnd(r, "CR")
  BY DEF SlByte, Res, Ended
<1>3. [r.p EXCEPT !.state = "HEADER", !.cmd = "none", !.msg = <<>>] = SlClean /\ r.p.cmd = c
      /\ r.msg = msg /\ r.did = <<>>
  <2>1. r.p = Ended(c) /\ r.msg = msg /\ r.did = <<>> /\ Ended(c).cmd = c
    BY DEF Res, Ended
  <2>2. QED
    BY <2>1, EndClears
<1> HIDE DEF r
<1>4. SlEnd(r, "CR") = Res(SlClean, msg, <<>> \o << <<"send", 0, OnBus(msg)>> >> \o << <<"reply", "ack">> >>)
  BY <1>1, <1>3 DEF SlEnd
<1>5. <<>> \o << <<"send", 0, OnBus(msg)>> >> \o << <<"reply", "ack">> >> = << <<"send", 0, OnBus(msg)>>, <<"reply", "ack">> >>
  <2>1. \A x, y : <<>> \o <<x>> \o <<y>> = <<x, y>>
    BY PairJoined
  <2>2. QED
    BY <2>1
<1>6. QED
  BY <1>2, <1>4, <1>5 DEF r, c

(* The digits a text is made of.                                            *)
LEMMA TextRead ==
  ASSUME NEW x \in Seq(0..8), NEW S, ToSet(Digits) \subseteq S
  PROVE  /\ Text(x) \in Seq(S) /\ Len(Text(x)) = Len(x)
         /\ \A k \in 1..Len(x) : Text(x)[k] = Digits[x[k] + 1]
<1>1. DOMAIN x = 1..Len(x) /\ \A k \in 1..Len(x) : x[k] \in 0..8
  OBVIOUS
<1>2. \A k \in 1..Len(x) : Digits[x[k] + 1] \in S
  BY <1>1, DigitsRead
<1>3. Text(x) = [k \in 1..Len(x) |-> Digits[x[k] + 1]]
  BY <1>1 DEF Text
<1>4. QED
  BY <1>2, <1>3

(* The text of a frame, byte by byte.                                       *)
TextIs(bytes, m, stamp) ==
  LET n == Len(m.id)
      d == Len(m.data)
      t == Len(stamp)
  IN  /\ Len(bytes) = n + d + t + 3
      /\ bytes[1] = Letter(m)
      /\ \A k \in 1..n : bytes[k + 1] = Digits[m.id[k] + 1]
      /\ bytes[n + 2] = Digits[m.dlc + 1]
      /\ \A k \in 1..d : bytes[n + 2 + k] = Digits[m.data[k] + 1]
      /\ \A k \in 1..t : bytes[n + d + 2 + k] = stamp[k]
      /\ bytes[n + d + t + 3] = "CR"

(* What slcan_parse_frame writes is that text.                             *)
LEMMA TextOfFrame ==
  ASSUME NEW m, Streamed(m), NEW T, NEW stamp \in Seq(T)
  PROVE  TextIs(SlEmit(m, stamp), m, stamp) /\ \E S : SlEmit(m, stamp) \in Seq(S)
<1> DEFINE S == {Letter(m), "CR"} \cup ToSet(Digits) \cup T
           n == Len(m.id)
           d == Len(m.data)
           t == Len(stamp)
           x1 == Text(m.id)
           x2 == Text(<<m.dlc>>)
           x3 == Text(m.data)
           a0 == <<Letter(m)>>
           a1 == a0 \o x1
           a2 == a1 \o x2
           a3 == a2 \o x3
           a4 == a3 \o stamp
           a5 == a4 \o <<"CR">>
<1>0. /\ n \in Nat /\ d \in Nat /\ t \in Nat
      /\ m.id \in Seq(0..8) /\ m.data \in Seq(0..8) /\ <<m.dlc>> \in Seq(0..8)
      /\ stamp \in Seq(S) /\ <<"CR">> \in Seq(S) /\ ToSet(Digits) \subseteq S
  BY DEF Streamed
<1>s. Len(stamp) = t
  OBVIOUS
<1>1. a0 \in Seq(S) /\ Len(a0) = 1 /\ a0[1] = Letter(m)
  OBVIOUS
<1>t. /\ x1 \in Seq(S) /\ Len(x1) = n
      /\ \A k \in 1..n : x1[k] = Digits[m.id[k] + 1]
      /\ x2 \in Seq(S) /\ Len(x2) = 1
      /\ x2[1] = Digits[m.dlc + 1]
      /\ x3 \in Seq(S) /\ Len(x3) = d
      /\ \A k \in 1..d : x3[k] = Digits[m.data[k] + 1]
  <2>1. Len(<<m.dlc>>) = 1 /\ <<m.dlc>>[1] = m.dlc /\ 1 \in 1..1
    OBVIOUS
  <2> HIDE DEF S
  <2>2. QED
    BY <1>0, <2>1, TextRead
<1>c. Len(<<"CR">>) = 1 /\ <<"CR">>[1] = "CR"
  OBVIOUS
<1> HIDE DEF S, a0, x1, x2, x3, n, d, t
<1>2. /\ a1 \in Seq(S) /\ Len(a1) = n + 1 /\ a1[1] = Letter(m)
      /\ \A k \in 1..n : a1[k + 1] = Digits[m.id[k] + 1]
  <2>1. /\ a1 \in Seq(S) /\ Len(a1) = Len(a0) + Len(x1)
        /\ \A k \in 1..Len(a0) : a1[k] = a0[k]
        /\ \A k \in 1..Len(x1) : a1[Len(a0) + k] = x1[k]
    <3>1. a0 \in Seq(S) /\ x1 \in Seq(S)
      BY <1>1, <1>t
    <3>2. a1 \in Seq(S) /\ Len(a1) = Len(a0) + Len(x1)
      BY <3>1
    <3>3. \A k \in 1..Len(a0) : a1[k] = a0[k]
      BY <3>1
    <3>4. \A k \in 1..Len(x1) : a1[Len(a0) + k] = x1[k]
      BY <3>1
    <3>5. QED
      BY <3>2, <3>3, <3>4
  <2> HIDE DEF a1
  <2>2. 1 + n = n + 1 /\ 1 \in 1..1 /\ \A k \in 1..n : 1 + k = k + 1
    BY <1>0
  <2>3. QED
    BY <1>1, <1>t, <2>1, <2>2
<1> HIDE DEF a1
<1>3. /\ a2 \in Seq(S) /\ Len(a2) = n + 2 /\ a2[1] = Letter(m)
      /\ \A k \in 1..n : a2[k + 1] = Digits[m.id[k] + 1]
      /\ a2[n + 2] = Digits[m.dlc + 1]
  <2>1. /\ a2 \in Seq(S) /\ Len(a2) = Len(a1) + Len(x2)
        /\ \A k \in 1..Len(a1) : a2[k] = a1[k]
        /\ \A k \in 1..Len(x2) : a2[Len(a1) + k] = x2[k]
    <3>1. a1 \in Seq(S) /\ x2 \in Seq(S)
      BY <1>2, <1>t
    <3>2. a2 \in Seq(S) /\ Len(a2) = Len(a1) + Len(x2)
      BY <3>1
    <3>3. \A k \in 1..Len(a1) : a2[k] = a1[k]
      BY <3>1
    <3>4. \A k \in 1..Len(x2) : a2[Len(a1) + k] = x2[k]
      BY <3>1
    <3>5. QED
      BY <3>2, <3>3, <3>4
  <2> HIDE DEF a2
  <2>2. n + 1 + 1 = n + 2 /\ 1 \in 1..1 /\ 1 \in 1..n+1 /\ \A k \in 1..n : k + 1 \in 1..n+1
    BY <1>0
  <2>3. QED
    BY <1>2, <1>t, <2>1, <2>2
<1> HIDE DEF a2
<1>4. /\ a3 \in Seq(S) /\ Len(a3) = n + d + 2 /\ a3[1] = Letter(m)
      /\ \A k \in 1..n : a3[k + 1] = Digits[m.id[k] + 1]
      /\ a3[n + 2] = Digits[m.dlc + 1]
      /\ \A k \in 1..d : a3[n + 2 + k] = Digits[m.data[k] + 1]
  <2>1. /\ a3 \in Seq(S) /\ Len(a3) = Len(a2) + Len(x3)
        /\ \A k \in 1..Len(a2) : a3[k] = a2[k]
        /\ \A k \in 1..Len(x3) : a3[Len(a2) + k] = x3[k]
    <3>1. a2 \in Seq(S) /\ x3 \in Seq(S)
      BY <1>3, <1>t
    <3>2. a3 \in Seq(S) /\ Len(a3) = Len(a2) + Len(x3)
      BY <3>1
    <3>3. \A k \in 1..Len(a2) : a3[k] = a2[k]
      BY <3>1
    <3>4. \A k \in 1..Len(x3) : a3[Len(a2) + k] = x3[k]
      BY <3>1
    <3>5. QED
      BY <3>2, <3>3, <3>4
  <2> HIDE DEF a3
  <2>2. n + 2 + d = n + d + 2 /\ 1 \in 1..n+2 /\ n + 2 \in 1..n+2 /\ \A k \in 1..n : k + 1 \in 1..n+2
    BY <1>0
  <2>3. QED
    BY <1>3, <1>t, <2>1, <2>2
<1> HIDE DEF a3
<1>5. /\ a4 \in Seq(S) /\ Len(a4) = n + d + 2 + t
      /\ \A k \in 1..n+d+2 : a4[k] = a3[k]
      /\ \A k \in 1..t : a4[n + d + 2 + k] = stamp[k]
  <2>1. /\ a4 \in Seq(S) /\ Len(a4) = Len(a3) + Len(stamp)
        /\ \A k \in 1..Len(a3) : a4[k] = a3[k]
        /\ \A k \in 1..Len(stamp) : a4[Len(a3) + k] = stamp[k]
    <3>1. a3 \in Seq(S) /\ stamp \in Seq(S)
      BY <1>0, <1>4
    <3>2. a4 \in Seq(S) /\ Len(a4) = Len(a3) + Len(stamp)
      BY <3>1
    <3>3. \A k \in 1..Len(a3) : a4[k] = a3[k]
      BY <3>1
    <3>4. \A k \in 1..Len(stamp) : a4[Len(a3) + k] = stamp[k]
      BY <3>1
    <3>5. QED
      BY <3>2, <3>3, <3>4
  <2>2. QED
    BY <1>4, <1>s, <2>1
<1> HIDE DEF a4
<1>6. /\ a5 \in Seq(S) /\ Len(a5) = n + d + 2 + t + 1
      /\ \A k \in 1..n+d+2+t : a5[k] = a4[k]
      /\ \A k \in 1..1 : a5[n + d + 2 + t + k] = <<"CR">>[k]
  <2>1. /\ a5 \in Seq(S) /\ Len(a5) = Len(a4) + Len(<<"CR">>)
        /\ \A k \in 1..Len(a4) : a5[k] = a4[k]
        /\ \A k \in 1..Len(<<"CR">>) : a5[Len(a4) + k] = <<"CR">>[k]
    <3>1. a4 \in Seq(S) /\ <<"CR">> \in Seq(S)
      BY <1>0, <1>5
    <3>2. a5 \in Seq(S) /\ Len(a5) = Len(a4) + Len(<<"CR">>)
      BY <3>1
    <3>3. \A k \in 1..Len(a4) : a5[k] = a4[k]
      BY <3>1
    <3>4. \A k \in 1..Len(<<"CR">>) : a5[Len(a4) + k] = <<"CR">>[k]
      BY <3>1
    <3>5. QED
      BY <3>2, <3>3, <3>4
  <2>2. QED
    BY <1>5, <1>c, <2>1
<1>7. SlEmit(m, stamp) = a5
  BY DEF SlEmit, a0, a1, a2, a3, a4, x1, x2, x3
<1> HIDE DEF a5
<1>8. /\ n + d + 2 + t + 1 = n + d + t + 3
      /\ \A k \in 1..n+d+2 : k \in 1..n+d+2+t
      /\ \A k \in 1..t : n + d + 2 + k \in 1..n+d+2+t
      /\ 1 \in 1..n+d+2 /\ n + 2 \in 1..n+d+2
      /\ \A k \in 1..n : k + 1 \in 1..n+d+2
      /\ \A k \in 1..d : n + 2 + k \in 1..n+d+2
      /\ 1 \in 1..1
  BY <1>0
<1>9. \A k \in 1..n+d+2 : a5[k] = a3[k]
  BY <1>5, <1>6, <1>8
<1>10. a5[1] = Letter(m) /\ a5[n + 2] = Digits[m.dlc + 1]
  BY <1>4, <1>8, <1>9
<1>11. \A k \in 1..n : a5[k + 1] = Digits[m.id[k] + 1]
  BY <1>4, <1>8, <1>9
<1>12. \A k \in 1..d : a5[n + 2 + k] = Digits[m.data[k] + 1]
  BY <1>4, <1>8, <1>9
<1>13. \A k \in 1..t : a5[n + d + 2 + k] = stamp[k]
  BY <1>5, <1>6, <1>8
<1>14. a5[n + d + t + 3] = "CR"
  BY <1>6, <1>8, <1>c
<1>15. QED
  <2>1. TextIs(a5, m, stamp)
    BY <1>6, <1>8, <1>10, <1>11, <1>12, <1>13, <1>14 DEF TextIs, n, d, t
  <2>2. QED
    BY <1>6, <1>7, <2>1

(* The frame the parser has when it meets the end of the text.              *)
Read(m, old) ==
  IF m.rtr
    THEN [[old EXCEPT !.id = m.id] EXCEPT !.rtr = m.rtr, !.extd = m.extd, !.dlc = m.dlc]
    ELSE [[[old EXCEPT !.id = m.id] EXCEPT !.dlc = m.dlc]
            EXCEPT !.rtr = m.rtr, !.extd = m.extd, !.data = m.data]

(* It is what was sent: the old contents of tx_msg do not show.            *)
LEMMA ReadIsWhatWasSent ==
  ASSUME NEW m, Streamed(m), NEW old, HasShape(old)
  PROVE  OnBus(Read(m, old)) = OnBus(m)
<1> DEFINE i == old.id
           e == old.extd
           r == old.rtr
           l == old.dlc
           x == old.data
<1>1. old = [id |-> i, extd |-> e, rtr |-> r, dlc |-> l, data |-> x]
  BY DEF HasShape
<1> HIDE DEF i, e, r, l, x
<1>2. m = [id |-> m.id, extd |-> m.extd, rtr |-> m.rtr, dlc |-> m.dlc, data |-> m.data]
  BY DEF Streamed, HasShape
<1> DEFINE a == [old EXCEPT !.id = m.id]
<1>3. a = [id |-> m.id, extd |-> e, rtr |-> r, dlc |-> l, data |-> x]
  BY <1>1
<1> HIDE DEF a
<1>4. CASE m.rtr
  <2> DEFINE b == [id |-> m.id, extd |-> e, rtr |-> m.rtr, dlc |-> l, data |-> x]
             c == [id |-> m.id, extd |-> m.extd, rtr |-> m.rtr, dlc |-> l, data |-> x]
             d == [id |-> m.id, extd |-> m.extd, rtr |-> m.rtr, dlc |-> m.dlc, data |-> x]
  <2>1. [a EXCEPT !.rtr = m.rtr] = b
    BY <1>3
  <2>2. [b EXCEPT !.extd = m.extd] = c
    OBVIOUS
  <2>3. [c EXCEPT !.dlc = m.dlc] = d
    OBVIOUS
  <2> HIDE DEF b, c
  <2>4. Read(m, old) = d
    BY <1>4, <2>1, <2>2, <2>3 DEF Read, a
  <2>5. d.rtr = m.rtr /\ [d EXCEPT !.data = <<>>] = [id |-> m.id, extd |-> m.extd, rtr |-> m.rtr, dlc |-> m.dlc, data |-> <<>>]
    OBVIOUS
  <2>6. [m EXCEPT !.data = <<>>] = [id |-> m.id, extd |-> m.extd, rtr |-> m.rtr, dlc |-> m.dlc, data |-> <<>>]
    BY <1>2
  <2> HIDE DEF d
  <2>7. OnBus(d) = [d EXCEPT !.data = <<>>] /\ OnBus(m) = [m EXCEPT !.data = <<>>]
    BY <1>4, <2>5 DEF OnBus
  <2>8. QED
    BY <2>4, <2>5, <2>6, <2>7
<1>5. CASE ~m.rtr
  <2> DEFINE b == [id |-> m.id, extd |-> e, rtr |-> r, dlc |-> m.dlc, data |-> x]
             c == [id |-> m.id, extd |-> e, rtr |-> m.rtr, dlc |-> m.dlc, data |-> x]
             d == [id |-> m.id, extd |-> m.extd, rtr |-> m.rtr, dlc |-> m.dlc, data |-> x]
  <2>1. [a EXCEPT !.dlc = m.dlc] = b
    BY <1>3
  <2>2. [b EXCEPT !.rtr = m.rtr] = c
    OBVIOUS
  <2>3. [c EXCEPT !.extd = m.extd] = d
    OBVIOUS
  <2>4. [d EXCEPT !.data = m.data] = m
    BY <1>2
  <2> HIDE DEF b, c, d
  <2>5. Read(m, old) = m
    BY <1>5, <2>1, <2>2, <2>3, <2>4 DEF Read, a
  <2>6. QED
    BY <2>5
<1>6. QED
  BY <1>4, <1>5 DEF Streamed

(* Whatever tx_msg holds, a parser that is clean reads the text of a frame  *)
(* as that frame, sends it once, answers once and is clean again.           *)
LEMMA ReadsBack ==
  ASSUME NEW m, Streamed(m), NEW T, NEW stamp \in Seq(T), "CR" \notin T,
         NEW old, HasShape(old)
  PROVE  SlParse(SlClean, old, SlEmit(m, stamp))
           = Res(SlClean, Read(m, old), << <<"send", 0, OnBus(m)>>, <<"reply", "ack">> >>)
<1> DEFINE c == Letter(m)
           bytes == SlEmit(m, stamp)
           n == Len(m.id)
           d == Len(m.data)
           t == Len(stamp)
           wid == [old EXCEPT !.id = m.id]
           wlen == [wid EXCEPT !.dlc = m.dlc]
<1>1. /\ n \in Nat \ {0} /\ d \in Nat \ {0} /\ t \in Nat
      /\ m.id \in Seq(0..8) /\ m.data \in Seq(0..8)
      /\ m.extd \in BOOLEAN /\ m.rtr \in BOOLEAN
  BY AdapterAssumption DEF Streamed
<1>2. /\ Len(bytes) = n + d + t + 3
      /\ bytes[1] = c
      /\ \A k \in 1..n : bytes[k + 1] = Digits[m.id[k] + 1]
      /\ bytes[n + 2] = Digits[m.dlc + 1]
      /\ \A k \in 1..d : bytes[n + 2 + k] = Digits[m.data[k] + 1]
      /\ \A k \in 1..t : bytes[n + d + 2 + k] = stamp[k]
      /\ bytes[n + d + t + 3] = "CR"
  <2>1. TextIs(bytes, m, stamp)
    BY TextOfFrame
  <2> HIDE DEF bytes
  <2>2. QED
    BY <2>1 DEF TextIs
<1>3. PICK S : bytes \in Seq(S)
  BY TextOfFrame
<1>4. PICK f : RunOf(f, Res(SlClean, old, <<>>), bytes)
               /\ FoldLeft(SlByte, Res(SlClean, old, <<>>), bytes) = f[Len(bytes)]
  BY <1>3, FoldHasRun
<1> HIDE DEF c, bytes, n, d, t, wid, wlen
<1>5. f[0] = Res(SlClean, old, <<>>)
      /\ \A k \in Nat : k < n + d + t + 3 => f[k + 1] = SlByte(f[k], bytes[k + 1])
  <2>1. \A k \in Nat : k < n + d + t + 3 => k + 1 \in 1..(n + d + t + 3) /\ (k + 1) - 1 = k
    BY <1>1
  <2>2. QED
    BY <1>2, <1>4, <2>1 DEF RunOf
<1>6. ASSUME NEW k \in Nat, k < n PROVE f[k + 1] = Res(Collecting(c, "ID", SubSeq(m.id, 1, k)), old, <<>>)
  <2> DEFINE Done == {q \in Nat : q < n => f[q + 1] = Res(Collecting(c, "ID", SubSeq(m.id, 1, q)), old, <<>>)}
  <2>1. 0 \in Done
    <3>1. SubSeq(m.id, 1, 0) = <<>>
      BY <1>1
    <3>2. f[0 + 1] = SlByte(f[0], bytes[0 + 1])
      BY <1>1, <1>5
    <3>3. 0 + 1 = 1
      OBVIOUS
    <3>4. f[0 + 1] = Res(Collecting(c, "ID", <<>>), old, <<>>)
      BY <1>1, <1>2, <1>5, <3>2, <3>3, LetterOpens DEF c
    <3>5. QED
      BY <3>1, <3>4
  <2>2. ASSUME NEW q \in Nat, q \in Done PROVE q + 1 \in Done
    <3> SUFFICES ASSUME q + 1 < n
                 PROVE  f[q + 2] = Res(Collecting(c, "ID", SubSeq(m.id, 1, q + 1)), old, <<>>)
      BY <1>1
    <3>1. q + 1 \in 1..n /\ q + 1 # n /\ q + 1 < n + d + t + 3 /\ q < n
          /\ (q + 1) - 1 = q /\ q + 1 + 1 = q + 2 /\ q + 1 \in Nat
      BY <1>1
    <3>2. f[q + 1] = Res(Collecting(c, "ID", SubSeq(m.id, 1, q)), old, <<>>)
      BY <2>2, <3>1
    <3>3. f[q + 2] = SlByte(f[q + 1], bytes[q + 2])
      BY <1>5, <3>1
    <3>4. bytes[q + 2] = Digits[m.id[q + 1] + 1]
      BY <1>2, <3>1
    <3>5. SlByte(Res(Collecting(c, "ID", SubSeq(m.id, 1, (q + 1) - 1)), old, <<>>), Digits[m.id[q + 1] + 1])
            = Res(Collecting(c, "ID", SubSeq(m.id, 1, q + 1)), old, <<>>)
      BY <3>1, NibbleOfId DEF c, n
    <3>6. QED
      BY <3>1, <3>2, <3>3, <3>4, <3>5
  <2>3. \A q \in Nat : q \in Done
    <3> HIDE DEF Done
    <3> QED
      BY <2>1, <2>2, SetInduction
  <2>4. QED
    BY <1>6, <2>3
<1>7. f[n + 1] = Res(Collecting(c, "DLC", <<>>), wid, <<>>)
  <2>1. n - 1 \in Nat /\ n - 1 < n /\ (n - 1) + 1 = n /\ n \in 1..n /\ n < n + d + t + 3
    BY <1>1
  <2>2. f[n] = Res(Collecting(c, "ID", SubSeq(m.id, 1, n - 1)), old, <<>>)
    <3>1. f[(n - 1) + 1] = Res(Collecting(c, "ID", SubSeq(m.id, 1, n - 1)), old, <<>>)
      BY <1>6, <2>1
    <3>2. QED
      BY <2>1, <3>1
  <2>3. f[n + 1] = SlByte(f[n], bytes[n + 1])
    BY <1>1, <1>5, <2>1
  <2>4. bytes[n + 1] = Digits[m.id[n] + 1]
    BY <1>2, <2>1
  <2>5. SlByte(Res(Collecting(c, "ID", SubSeq(m.id, 1, n - 1)), old, <<>>), Digits[m.id[n] + 1])
          = Res(Collecting(c, "DLC", <<>>), wid, <<>>)
    BY <2>1, NibbleOfId DEF c, n, wid
  <2>6. QED
    BY <2>2, <2>3, <2>4, <2>5
<1>8. f[n + 2] = IF m.rtr THEN Res(Ended(c), Read(m, old), <<>>)
                          ELSE Res(Collecting(c, "DATA", <<>>), wlen, <<>>)
  <2>1. n + 1 \in Nat /\ n + 1 < n + d + t + 3 /\ n + 1 + 1 = n + 2
    BY <1>1
  <2>2. f[n + 2] = SlByte(f[n + 1], bytes[n + 2])
    BY <1>5, <2>1
  <2>3. SlByte(Res(Collecting(c, "DLC", <<>>), wid, <<>>), Digits[m.dlc + 1])
          = IF m.rtr THEN Res(Ended(c), [wid EXCEPT !.rtr = m.rtr, !.extd = m.extd, !.dlc = m.dlc], <<>>)
                     ELSE Res(Collecting(c, "DATA", <<>>), wlen, <<>>)
    BY LengthRead DEF c, wlen
  <2>4. m.rtr => Read(m, old) = [wid EXCEPT !.rtr = m.rtr, !.extd = m.extd, !.dlc = m.dlc]
    BY DEF Read, wid
  <2>5. QED
    BY <1>1, <1>2, <1>7, <2>2, <2>3, <2>4
<1>9. ~m.rtr => f[n + d + 2] = Res(Ended(c), Read(m, old), <<>>)
  <2> SUFFICES ASSUME ~m.rtr PROVE f[n + d + 2] = Res(Ended(c), Read(m, old), <<>>)
    OBVIOUS
  <2>0. wlen.dlc = m.dlc
    <3>1. wid = [id |-> m.id, extd |-> old.extd, rtr |-> old.rtr, dlc |-> old.dlc, data |-> old.data]
      BY DEF wid, HasShape
    <3>2. QED
      BY <3>1 DEF wlen
  <2> DEFINE Done == {q \in Nat : q < d => f[n + 2 + q] = Res(Collecting(c, "DATA", SubSeq(m.data, 1, q)), wlen, <<>>)}
  <2>1. 0 \in Done
    <3>1. SubSeq(m.data, 1, 0) = <<>> /\ n + 2 + 0 = n + 2
      BY <1>1
    <3>2. QED
      BY <1>8, <3>1
  <2>2. ASSUME NEW q \in Nat, q \in Done PROVE q + 1 \in Done
    <3> SUFFICES ASSUME q + 1 < d
                 PROVE  f[n + 2 + (q + 1)] = Res(Collecting(c, "DATA", SubSeq(m.data, 1, q + 1)), wlen, <<>>)
      OBVIOUS
    <3>1. q + 1 \in 1..d /\ q + 1 # d /\ n + 2 + q < n + d + t + 3 /\ n + 2 + q \in Nat
          /\ (q + 1) - 1 = q /\ n + 2 + q + 1 = n + 2 + (q + 1) /\ q < d
      BY <1>1
    <3>2. f[n + 2 + q] = Res(Collecting(c, "DATA", SubSeq(m.data, 1, q)), wlen, <<>>)
      BY <2>2, <3>1
    <3>3. f[n + 2 + (q + 1)] = SlByte(f[n + 2 + q], bytes[n + 2 + (q + 1)])
      <4>1. f[n + 2 + q + 1] = SlByte(f[n + 2 + q], bytes[n + 2 + q + 1])
        BY <1>5, <3>1
      <4>2. QED
        BY <3>1, <4>1
    <3>4. bytes[n + 2 + (q + 1)] = Digits[m.data[q + 1] + 1]
      BY <1>2, <3>1
    <3>5. SlByte(Res(Collecting(c, "DATA", SubSeq(m.data, 1, (q + 1) - 1)), wlen, <<>>), Digits[m.data[q + 1] + 1])
            = Res(Collecting(c, "DATA", SubSeq(m.data, 1, q + 1)), wlen, <<>>)
      BY <2>0, <3>1, NibbleOfData DEF c, d
    <3>6. QED
      BY <3>1, <3>2, <3>3, <3>4, <3>5
  <2>3. \A q \in Nat : q \in Done
    <3> HIDE DEF Done
    <3> QED
      BY <2>1, <2>2, SetInduction
  <2>4. d - 1 \in Nat /\ d - 1 < d /\ n + 2 + (d - 1) = n + d + 1 /\ d \in 1..d
        /\ n + d + 1 < n + d + t + 3 /\ n + d + 1 + 1 = n + d + 2 /\ n + 2 + d = n + d + 2
        /\ n + d + 1 \in Nat
    BY <1>1
  <2>5. f[n + d + 1] = Res(Collecting(c, "DATA", SubSeq(m.data, 1, d - 1)), wlen, <<>>)
    <3>1. f[n + 2 + (d - 1)] = Res(Collecting(c, "DATA", SubSeq(m.data, 1, d - 1)), wlen, <<>>)
      BY <2>3, <2>4
    <3>2. QED
      BY <2>4, <3>1
  <2>6. f[n + d + 2] = SlByte(f[n + d + 1], bytes[n + d + 2])
    BY <1>5, <2>4
  <2>7. bytes[n + d + 2] = Digits[m.data[d] + 1]
    BY <1>2, <2>4
  <2>8. SlByte(Res(Collecting(c, "DATA", SubSeq(m.data, 1, d - 1)), wlen, <<>>), Digits[m.data[d] + 1])
          = Res(Ended(c), [wlen EXCEPT !.rtr = m.rtr, !.extd = m.extd, !.data = m.data], <<>>)
    BY <2>0, <2>4, NibbleOfData DEF c, d
  <2>9. Read(m, old) = [wlen EXCEPT !.rtr = m.rtr, !.extd = m.extd, !.data = m.data]
    BY DEF Read, wlen, wid
  <2>10. QED
    BY <2>5, <2>6, <2>7, <2>8, <2>9
<1>10. ASSUME NEW k \in Nat, k < t + 1 PROVE f[n + d + 2 + k] = Res(Ended(c), Read(m, old), <<>>)
  <2>1. ASSUME NEW k0 \in Nat, k0 + 1 < n + d + t + 3, k0 + 1 > n + 2,
               f[k0] = Res(Ended(c), Read(m, old), <<>>), bytes[k0 + 1] # "CR"
        PROVE  f[k0 + 1] = Res(Ended(c), Read(m, old), <<>>)
    <3>1. k0 < n + d + t + 3
      BY <1>1, <2>1
    <3>2. f[k0 + 1] = SlByte(f[k0], bytes[k0 + 1])
      BY <1>5, <3>1
    <3>3. QED
      BY <2>1, <3>2, EndSkips
  <2>2. f[n + d + 2] = Res(Ended(c), Read(m, old), <<>>)
    <3>1. CASE ~m.rtr
      BY <1>9, <3>1
    <3>2. CASE m.rtr
      <4> DEFINE Done == {q \in Nat : q <= d => f[n + 2 + q] = Res(Ended(c), Read(m, old), <<>>)}
      <4>1. 0 \in Done
        <5>1. n + 2 + 0 = n + 2
          BY <1>1
        <5>2. QED
          BY <1>8, <3>2, <5>1
      <4>2. ASSUME NEW q \in Nat, q \in Done PROVE q + 1 \in Done
        <5> SUFFICES ASSUME q + 1 <= d PROVE f[n + 2 + (q + 1)] = Res(Ended(c), Read(m, old), <<>>)
          OBVIOUS
        <5>1. /\ n + 2 + q \in Nat /\ n + 2 + q + 1 < n + d + t + 3 /\ n + 2 + q + 1 > n + 2
              /\ q + 1 \in 1..d /\ n + 2 + q + 1 = n + 2 + (q + 1) /\ q <= d
          BY <1>1
        <5>2. f[n + 2 + q] = Res(Ended(c), Read(m, old), <<>>)
          BY <4>2, <5>1
        <5>3. bytes[n + 2 + (q + 1)] # "CR"
          <6>1. m.data[q + 1] \in 0..8
            BY <1>1, <5>1 DEF d
          <6>2. QED
            BY <1>2, <5>1, <6>1, DigitsRead
        <5>4. bytes[n + 2 + q + 1] # "CR"
          BY <5>1, <5>3
        <5>5. f[n + 2 + q + 1] = Res(Ended(c), Read(m, old), <<>>)
          BY <2>1, <5>1, <5>2, <5>4
        <5>6. QED
          BY <5>1, <5>5
      <4>3. \A q \in Nat : q \in Done
        <5> HIDE DEF Done
        <5> QED
          BY <4>1, <4>2, SetInduction
      <4>4. d \in Nat /\ d <= d /\ n + 2 + d = n + d + 2
        BY <1>1
      <4>5. f[n + 2 + d] = Res(Ended(c), Read(m, old), <<>>)
        BY <4>3, <4>4
      <4>6. QED
        BY <4>4, <4>5
    <3>3. QED
      BY <1>1, <3>1, <3>2
  <2> DEFINE Done == {q \in Nat : q < t + 1 => f[n + d + 2 + q] = Res(Ended(c), Read(m, old), <<>>)}
  <2>3. 0 \in Done
    <3>1. n + d + 2 + 0 = n + d + 2
      BY <1>1
    <3>2. QED
      BY <2>2, <3>1
  <2>4. ASSUME NEW q \in Nat, q \in Done PROVE q + 1 \in Done
    <3> SUFFICES ASSUME q + 1 < t + 1 PROVE f[n + d + 2 + (q + 1)] = Res(Ended(c), Read(m, old), <<>>)
      OBVIOUS
    <3>1. /\ n + d + 2 + q \in Nat /\ n + d + 2 + q + 1 < n + d + t + 3 /\ n + d + 2 + q + 1 > n + 2
          /\ q + 1 \in 1..t /\ n + d + 2 + q + 1 = n + d + 2 + (q + 1) /\ q < t + 1
      BY <1>1
    <3>2. f[n + d + 2 + q] = Res(Ended(c), Read(m, old), <<>>)
      BY <2>4, <3>1
    <3>3. bytes[n + d + 2 + (q + 1)] # "CR"
      <4>1. stamp[q + 1] \in T
        BY <3>1 DEF t
      <4>2. QED
        BY <1>2, <3>1, <4>1
    <3>4. bytes[n + d + 2 + q + 1] # "CR"
      BY <3>1, <3>3
    <3>5. f[n + d + 2 + q + 1] = Res(Ended(c), Read(m, old), <<>>)
      BY <2>1, <3>1, <3>2, <3>4
    <3>6. QED
      BY <3>1, <3>5
  <2>5. \A q \in Nat : q \in Done
    <3> HIDE DEF Done
    <3> QED
      BY <2>3, <2>4, SetInduction
  <2>6. QED
    BY <1>10, <2>5
<1>11. f[n + d + t + 3] = Res(SlClean, Read(m, old), << <<"send", 0, OnBus(m)>>, <<"reply", "ack">> >>)
  <2>1. t \in Nat /\ t < t + 1 /\ n + d + 2 + t = n + d + t + 2 /\ n + d + t + 2 \in Nat
        /\ n + d + t + 2 < n + d + t + 3 /\ n + d + t + 2 + 1 = n + d + t + 3
    BY <1>1
  <2>2. f[n + d + t + 2] = Res(Ended(c), Read(m, old), <<>>)
    <3>1. f[n + d + 2 + t] = Res(Ended(c), Read(m, old), <<>>)
      BY <1>10, <2>1
    <3>2. QED
      BY <2>1, <3>1
  <2>3. f[n + d + t + 3] = SlByte(f[n + d + t + 2], bytes[n + d + t + 3])
    BY <1>5, <2>1
  <2>4. SlByte(Res(Ended(c), Read(m, old), <<>>), "CR")
          = Res(SlClean, Read(m, old), << <<"send", 0, OnBus(Read(m, old))>>, <<"reply", "ack">> >>)
    BY <1>1, ReturnSends DEF c
  <2>5. OnBus(Read(m, old)) = OnBus(m)
    BY ReadIsWhatWasSent
  <2>6. QED
    BY <1>2, <2>2, <2>3, <2>4, <2>5
<1>12. QED
  BY <1>2, <1>4, <1>11 DEF SlParse, bytes
(* What a fold is: the last of the values the parser goes through.          *)
GvRunOf(f, r, s) ==
  /\ DOMAIN f = 0..Len(s) /\ f[0] = r
  /\ \A k \in 1..Len(s) : f[k] = GvByte(f[k - 1], s[k])

(* Every GVRET parse has a run.                                             *)
LEMMA GvFoldHasRun ==
  ASSUME NEW S, NEW s \in Seq(S), NEW r
  PROVE  \E f : GvRunOf(f, r, s) /\ FoldLeft(GvByte, r, s) = f[Len(s)]
<1> DEFINE n == Len(s)
           Eq(g, k) == g = [t \in SUBSET (1..k) |-> IF t = {} THEN r ELSE GvByte(g[t \ {Max(t)}], s[Max(t)])]
           Good == {k \in Nat : \E g : Eq(g, k)}
<1>1. 0 \in Good
  <2> DEFINE g == [t \in SUBSET (1..0) |-> r]
  <2>1. \A t \in SUBSET (1..0) : t = {}
    OBVIOUS
  <2>2. g = [t \in SUBSET (1..0) |-> IF t = {} THEN r ELSE GvByte(g[t \ {Max(t)}], s[Max(t)])]
    BY <2>1
  <2>3. QED
    BY <2>2
<1>2. ASSUME NEW k \in Nat, k \in Good PROVE k + 1 \in Good
  <2>1. PICK g : Eq(g, k)
    BY <1>2
  <2> DEFINE h == [t \in SUBSET (1..(k+1)) |-> IF (k+1) \in t THEN GvByte(g[t \ {k+1}], s[k+1]) ELSE g[t]]
  <2>2. ASSUME NEW t \in SUBSET (1..(k+1)), (k+1) \notin t
        PROVE  h[t] = IF t = {} THEN r ELSE GvByte(h[t \ {Max(t)}], s[Max(t)])
    <3>1. t \in SUBSET (1..k) /\ t \ {Max(t)} \in SUBSET (1..k)
      <4>1. \A x \in 1..(k + 1) : x # k + 1 => x \in 1..k
        OBVIOUS
      <4> HIDE DEF h
      <4>2. t \subseteq 1..k
        BY <2>2, <4>1
      <4>3. QED
        BY <4>2
    <3>2. h[t] = g[t]
      BY <2>2
    <3>3. h[t \ {Max(t)}] = g[t \ {Max(t)}]
      BY <2>2, <3>1
    <3>4. g[t] = IF t = {} THEN r ELSE GvByte(g[t \ {Max(t)}], s[Max(t)])
      BY <2>1, <3>1
    <3> QED
      BY <3>2, <3>3, <3>4
  <2>3. ASSUME NEW t \in SUBSET (1..(k+1)), (k+1) \in t
        PROVE  h[t] = IF t = {} THEN r ELSE GvByte(h[t \ {Max(t)}], s[Max(t)])
    <3>1. Max(t) = k + 1
      BY <2>3, MaxOf
    <3>2. t \ {k+1} \in SUBSET (1..(k+1)) /\ (k+1) \notin t \ {k+1}
      OBVIOUS
    <3>3. h[t \ {k+1}] = g[t \ {k+1}]
      BY <3>2
    <3> QED
      BY <2>3, <3>1, <3>3
  <2>4. Eq(h, k + 1)
    BY <2>2, <2>3
  <2> HIDE DEF h, Eq
  <2>5. QED
    BY <2>4
<1>3. \A k \in Nat : k \in Good
  <2> HIDE DEF Good
  <2> QED BY <1>1, <1>2, SetInduction
<1>4. n \in Nat /\ DOMAIN s = 1..n
  OBVIOUS
<1> DEFINE it == CHOOSE g : Eq(g, n)
<1>5. Eq(it, n)
  <2>1. \E g : Eq(g, n)
    BY <1>3, <1>4
  <2> HIDE DEF Eq
  <2>2. QED
    BY <2>1
<1>6. FoldLeft(GvByte, r, s) = it[1..n]
  BY <1>4 DEF FoldLeft, MapThenFoldSet
<1> HIDE DEF it
<1> DEFINE f == [k \in 0..n |-> it[1..k]]
<1>7. f[0] = r
  BY <1>4, <1>5
<1>8. ASSUME NEW k \in 1..n PROVE f[k] = GvByte(f[k - 1], s[k])
  <2>1. 1..k \in SUBSET (1..n) /\ 1..k # {} /\ k \in 1..k /\ 1..k \in SUBSET (1..k) /\ k \in Nat
    <3>1. k \in Nat /\ k <= n /\ 1 <= k
      BY <1>4
    <3>2. 1..k \subseteq 1..n /\ k \in 1..k
      BY <3>1, <1>4
    <3>3. QED
      BY <3>1, <3>2
  <2>2. Max(1..k) = k
    BY <2>1, MaxOf
  <2>3. (1..k) \ {k} = 1..(k - 1)
    OBVIOUS
  <2>4. it[1..k] = GvByte(it[1..(k - 1)], s[k])
    BY <1>5, <2>1, <2>2, <2>3
  <2>5. QED
    BY <2>4
<1>9. n \in 0..n /\ f[n] = it[1..n] /\ DOMAIN f = 0..n
  BY <1>4
<1> HIDE DEF f
<1>10. GvRunOf(f, r, s)
  BY <1>7, <1>8, <1>9 DEF GvRunOf
<1>11. QED
  BY <1>6, <1>9, <1>10

(* tx_msg keeps its fields whatever bytes come: no adapter adds or drops   *)
(* one.                                                                    *)
LEMMA ShapeKept ==
  ASSUME NEW m, HasShape(m)
  PROVE  /\ \A v : HasShape([m EXCEPT !.id = v])
         /\ \A v : HasShape([m EXCEPT !.extd = v])
         /\ \A v : HasShape([m EXCEPT !.rtr = v])
         /\ \A v : HasShape([m EXCEPT !.dlc = v])
         /\ \A v : HasShape([m EXCEPT !.data = v])
<1> DEFINE i == m.id
           e == m.extd
           r == m.rtr
           l == m.dlc
           x == m.data
<1>1. m = [id |-> i, extd |-> e, rtr |-> r, dlc |-> l, data |-> x]
  BY DEF HasShape
<1> HIDE DEF i, e, r, l, x
<1>2. ASSUME NEW v PROVE HasShape([m EXCEPT !.id = v])
  <2>1. [m EXCEPT !.id = v] = [id |-> v, extd |-> e, rtr |-> r, dlc |-> l, data |-> x]
    BY <1>1
  <2>2. QED
    BY <2>1 DEF HasShape
<1>3. ASSUME NEW v PROVE HasShape([m EXCEPT !.extd = v])
  <2>1. [m EXCEPT !.extd = v] = [id |-> i, extd |-> v, rtr |-> r, dlc |-> l, data |-> x]
    BY <1>1
  <2>2. QED
    BY <2>1 DEF HasShape
<1>4. ASSUME NEW v PROVE HasShape([m EXCEPT !.rtr = v])
  <2>1. [m EXCEPT !.rtr = v] = [id |-> i, extd |-> e, rtr |-> v, dlc |-> l, data |-> x]
    BY <1>1
  <2>2. QED
    BY <2>1 DEF HasShape
<1>5. ASSUME NEW v PROVE HasShape([m EXCEPT !.dlc = v])
  <2>1. [m EXCEPT !.dlc = v] = [id |-> i, extd |-> e, rtr |-> r, dlc |-> v, data |-> x]
    BY <1>1
  <2>2. QED
    BY <2>1 DEF HasShape
<1>6. ASSUME NEW v PROVE HasShape([m EXCEPT !.data = v])
  <2>1. [m EXCEPT !.data = v] = [id |-> i, extd |-> e, rtr |-> r, dlc |-> l, data |-> v]
    BY <1>1
  <2>2. QED
    BY <2>1 DEF HasShape
<1>7. QED
  BY <1>2, <1>3, <1>4, <1>5, <1>6

(* A character leaves tx_msg a frame.                                       *)
LEMMA SlKeepsShape ==
  ASSUME NEW r, HasShape(r.msg), NEW b
  PROVE  HasShape(SlByte(r, b).msg)
<1>1. \A p, msg, effects : Res(p, msg, effects).msg = msg
  BY DEF Res
<1>2. SlHeader(r, b).msg = r.msg
  BY <1>1 DEF SlHeader
<1>3. HasShape(Collect(r, b).msg)
  <2> DEFINE flags == [r.msg EXCEPT !.rtr = IsRemote(r.p.cmd), !.extd = IsExt(r.p.cmd)]
  <2>1. HasShape(flags)
    <3> DEFINE half == [r.msg EXCEPT !.rtr = IsRemote(r.p.cmd)]
    <3>1. HasShape(half)
      BY ShapeKept
    <3>2. flags = [half EXCEPT !.extd = IsExt(r.p.cmd)]
      OBVIOUS
    <3> HIDE DEF half, flags
    <3>3. QED
      BY <3>1, <3>2, ShapeKept
  <2>2. (\A v : HasShape([flags EXCEPT !.dlc = v])) /\ (\A v : HasShape([flags EXCEPT !.data = v]))
    <3> HIDE DEF flags
    <3> QED
      BY <2>1, ShapeKept
  <2>3. (\A v : HasShape([r.msg EXCEPT !.id = v])) /\ (\A v : HasShape([r.msg EXCEPT !.dlc = v]))
    BY ShapeKept
  <2> DEFINE got == Append(r.p.got, IF IsDigit(b) THEN Digit(b) ELSE 0)
             one == IF IsDigit(b) THEN Digit(b) ELSE 0
  <2>4. CASE r.p.col = "ID"
    <3>1. Collect(r, b).msg = [r.msg EXCEPT !.id = got] \/ Collect(r, b).msg = r.msg
      BY <1>1, <2>4 DEF Collect
    <3>2. QED
      BY <2>3, <3>1
  <2>5. CASE r.p.col = "DLC"
    <3>1. \/ Collect(r, b).msg = [flags EXCEPT !.dlc = one]
          \/ Collect(r, b).msg = [r.msg EXCEPT !.dlc = one]
          \/ Collect(r, b).msg = r.msg
      BY <1>1, <2>5 DEF Collect
    <3> HIDE DEF flags, one
    <3>2. QED
      BY <2>2, <2>3, <3>1
  <2>6. CASE r.p.col = "DATA"
    <3>1. \/ Collect(r, b).msg = [flags EXCEPT !.data = got]
          \/ Collect(r, b).msg = r.msg
      BY <1>1, <2>6 DEF Collect
    <3> HIDE DEF flags, got
    <3>2. QED
      BY <2>2, <3>1
  <2>7. CASE r.p.col \notin {"ID", "DLC", "DATA"}
    BY <2>7 DEF Collect
  <2>8. QED
    BY <2>4, <2>5, <2>6, <2>7
<1>4. HasShape(SlBody(r, b).msg)
  BY <1>1, <1>3 DEF SlBody
<1>5. SlEnd(r, b).msg = r.msg
  BY <1>1 DEF SlEnd
<1>6. QED
  BY <1>2, <1>4, <1>5 DEF SlByte

(* So does a byte of GVRET.                                                 *)
LEMMA GvKeepsShape ==
  ASSUME NEW r, HasShape(r.msg), NEW b
  PROVE  HasShape(GvByte(r, b).msg)
<1>1. \A p, msg, effects : Res(p, msg, effects).msg = msg
  BY DEF Res
<1>2. GvCommand(r, b).msg = r.msg
  BY <1>1 DEF GvCommand
<1>3. HasShape(GvBuild(r, b).msg)
  <2>1. /\ \A v : HasShape([r.msg EXCEPT !.id = v])
        /\ \A v : HasShape([r.msg EXCEPT !.data = v])
        /\ \A v : HasShape([r.msg EXCEPT !.rtr = v])
    BY ShapeKept
  <2>2. \A v, w : HasShape([r.msg EXCEPT !.id = v, !.extd = w])
    <3> SUFFICES ASSUME NEW v, NEW w PROVE HasShape([r.msg EXCEPT !.id = v, !.extd = w])
      OBVIOUS
    <3> DEFINE half == [r.msg EXCEPT !.id = v]
    <3>1. HasShape(half)
      BY ShapeKept
    <3>2. [r.msg EXCEPT !.id = v, !.extd = w] = [half EXCEPT !.extd = w]
      OBVIOUS
    <3> HIDE DEF half
    <3>3. QED
      BY <3>1, <3>2, ShapeKept
  <2>3. \A v, w : HasShape([r.msg EXCEPT !.dlc = v, !.data = w])
    <3> SUFFICES ASSUME NEW v, NEW w PROVE HasShape([r.msg EXCEPT !.dlc = v, !.data = w])
      OBVIOUS
    <3> DEFINE half == [r.msg EXCEPT !.dlc = v]
    <3>1. HasShape(half)
      BY ShapeKept
    <3>2. [r.msg EXCEPT !.dlc = v, !.data = w] = [half EXCEPT !.data = w]
      OBVIOUS
    <3> HIDE DEF half
    <3>3. QED
      BY <3>1, <3>2, ShapeKept
  <2> DEFINE m == r.msg
             p == [r.p EXCEPT !.step = @ + 1, !.acc = Append(@, b)]
             step == r.p.step
             msg == CASE step < 3 -> [m EXCEPT !.id = p.acc]
                      [] step = 3 -> [m EXCEPT !.id = p.acc, !.extd = b >= 128]
                      [] step = 5 -> [m EXCEPT !.dlc = IF b % 16 > 8 THEN 8 ELSE b % 16, !.data = <<>>]
                      [] step > 5 /\ step < m.dlc + 6 -> [m EXCEPT !.data = Append(@, b)]
                      [] OTHER -> m
  <2>4. GvBuild(r, b).msg = msg \/ GvBuild(r, b).msg = [m EXCEPT !.rtr = FALSE]
    BY <1>1 DEF GvBuild
  <2>5. HasShape(msg)
    <3> DEFINE id == p.acc
               long == b >= 128
               size == IF b % 16 > 8 THEN 8 ELSE b % 16
               more == Append(m.data, b)
    <3>1. \/ msg = m \/ msg = [m EXCEPT !.id = id] \/ msg = [m EXCEPT !.id = id, !.extd = long]
          \/ msg = [m EXCEPT !.dlc = size, !.data = <<>>] \/ msg = [m EXCEPT !.data = more]
      OBVIOUS
    <3> HIDE DEF msg, id, long, size, more
    <3>2. HasShape(m) /\ HasShape([m EXCEPT !.id = id]) /\ HasShape([m EXCEPT !.data = more])
      BY <2>1
    <3>3. HasShape([m EXCEPT !.id = id, !.extd = long])
      BY <2>2
    <3>4. HasShape([m EXCEPT !.dlc = size, !.data = <<>>])
      BY <2>3
    <3> HIDE DEF m
    <3>5. QED
      BY <3>1, <3>2, <3>3, <3>4, Zenon
  <2> HIDE DEF msg
  <2>6. QED
    BY <2>1, <2>4, <2>5
<1>4. GvSetup(r, b).msg = r.msg /\ GvSkip(r, b).msg = r.msg
  BY <1>1 DEF GvSetup, GvSkip
<1>5. QED
  BY <1>1, <1>2, <1>3, <1>4 DEF GvByte

(* So do all characters of a chunk.                                         *)
LEMMA SlParseShape ==
  ASSUME NEW S, NEW bytes \in Seq(S), NEW p, NEW msg, HasShape(msg)
  PROVE  HasShape(SlParse(p, msg, bytes).msg)
<1>1. PICK f : RunOf(f, Res(p, msg, <<>>), bytes)
               /\ FoldLeft(SlByte, Res(p, msg, <<>>), bytes) = f[Len(bytes)]
  BY FoldHasRun
<1> DEFINE Kept == {k \in Nat : k <= Len(bytes) => HasShape(f[k].msg)}
<1>2. 0 \in Kept
  BY <1>1 DEF RunOf, Res
<1>3. ASSUME NEW k \in Nat, k \in Kept PROVE k + 1 \in Kept
  <2> SUFFICES ASSUME k + 1 <= Len(bytes) PROVE HasShape(f[k + 1].msg)
    OBVIOUS
  <2>1. k + 1 \in 1..Len(bytes) /\ (k + 1) - 1 = k /\ k <= Len(bytes)
    OBVIOUS
  <2>2. f[k + 1] = SlByte(f[k], bytes[k + 1])
    BY <1>1, <2>1 DEF RunOf
  <2>3. HasShape(f[k].msg)
    BY <1>3, <2>1
  <2>4. QED
    BY <2>2, <2>3, SlKeepsShape
<1>4. \A k \in Nat : k \in Kept
  <2> HIDE DEF Kept
  <2> QED
    BY <1>2, <1>3, SetInduction
<1>5. HasShape(f[Len(bytes)].msg)
  BY <1>4
<1>6. QED
  BY <1>1, <1>5 DEF SlParse

(* All bytes of a chunk.                                                    *)
LEMMA GvParseShape ==
  ASSUME NEW S, NEW bytes \in Seq(S), NEW p, NEW msg, HasShape(msg)
  PROVE  HasShape(GvParse(p, msg, bytes).msg)
<1>1. PICK f : GvRunOf(f, Res(p, msg, <<>>), bytes)
               /\ FoldLeft(GvByte, Res(p, msg, <<>>), bytes) = f[Len(bytes)]
  BY GvFoldHasRun
<1> DEFINE Kept == {k \in Nat : k <= Len(bytes) => HasShape(f[k].msg)}
<1>2. 0 \in Kept
  BY <1>1 DEF GvRunOf, Res
<1>3. ASSUME NEW k \in Nat, k \in Kept PROVE k + 1 \in Kept
  <2> SUFFICES ASSUME k + 1 <= Len(bytes) PROVE HasShape(f[k + 1].msg)
    OBVIOUS
  <2>1. k + 1 \in 1..Len(bytes) /\ (k + 1) - 1 = k /\ k <= Len(bytes)
    OBVIOUS
  <2>2. f[k + 1] = GvByte(f[k], bytes[k + 1])
    BY <1>1, <2>1 DEF GvRunOf
  <2>3. HasShape(f[k].msg)
    BY <1>3, <2>1
  <2>4. QED
    BY <2>2, <2>3, GvKeepsShape
<1>4. \A k \in Nat : k \in Kept
  <2> HIDE DEF Kept
  <2> QED
    BY <1>2, <1>3, SetInduction
<1>5. HasShape(f[Len(bytes)].msg)
  BY <1>4
<1>6. QED
  BY <1>1, <1>5 DEF GvParse

(* A packet, or none.                                                       *)
LEMMA RdParseShape ==
  ASSUME NEW bytes, NEW p, NEW msg, HasShape(msg)
  PROVE  HasShape(RdParse(p, msg, bytes).msg)
<1>1. \A v : HasShape([msg EXCEPT !.data = v])
  BY ShapeKept
<1>2. ASSUME NEW v, NEW w, NEW y, NEW z
      PROVE  HasShape([msg EXCEPT !.id = v, !.dlc = w, !.data = y, !.extd = z])
  <2> DEFINE a == [msg EXCEPT !.id = v]
             b == [a EXCEPT !.dlc = w]
             c == [b EXCEPT !.data = y]
  <2>1. HasShape(a)
    BY ShapeKept
  <2>2. HasShape(b)
    <3> HIDE DEF a
    <3> QED
      BY <2>1, ShapeKept
  <2>3. HasShape(c)
    <3> HIDE DEF b
    <3> QED
      BY <2>2, ShapeKept
  <2>4. [msg EXCEPT !.id = v, !.dlc = w, !.data = y, !.extd = z] = [c EXCEPT !.extd = z]
    OBVIOUS
  <2> HIDE DEF c
  <2>5. QED
    BY <2>3, <2>4, ShapeKept
<1>3. QED
  BY <1>1, <1>2 DEF RdParse, Res

(* What the two theorems need of every state: tx_msg is a frame, and what  *)
(* is left of a command is a sequence of bytes.                            *)
ShapeInv == HasShape(txMsg) /\ todo \in [Channels -> Seq(STRING) \cup Seq(Nat)]

(* What is left of a command is a sequence.                                 *)
LEMMA ChunkCut ==
  ASSUME NEW S, NEW s \in Seq(S), NEW k \in 1..Len(s)
  PROVE  SubSeq(s, 1, k) \in Seq(S) /\ SubSeq(s, k + 1, Len(s)) \in Seq(S)
OBVIOUS

(* One turn of can_tx_task.                                                 *)
LEMMA FeedShape ==
  ASSUME NEW ch, NEW S, NEW bytes \in Seq(S), HasShape(txMsg)
  PROVE  HasShape(Feed(ch, bytes).msg)
<1> DEFINE sl0 == IF quiet THEN SlReset(sl) ELSE sl
           r1 == IF ToSlcan(ch) THEN SlParse(sl0, txMsg, bytes) ELSE Res(sl, txMsg, <<>>)
           rest == IF ch = "ws" THEN [i \in DOMAIN bytes |-> 79] ELSE bytes
           r2 == IF ToGvret THEN GvParse(gv, r1.msg, rest)
                 ELSE IF ToRealDash THEN RdParse(gv, r1.msg, rest)
                 ELSE Res(gv, r1.msg, <<>>)
<1>1. HasShape(r1.msg)
  <2>1. HasShape(SlParse(sl0, txMsg, bytes).msg)
    BY SlParseShape
  <2>2. Res(sl, txMsg, <<>>).msg = txMsg
    BY DEF Res
  <2>3. QED
    BY <2>1, <2>2
<1>2. rest \in Seq(S) \/ rest \in Seq(Nat)
  BY DOMAIN bytes = 1..Len(bytes), Len(bytes) \in Nat
<1> HIDE DEF r1, rest
<1>3. HasShape(r2.msg)
  <2>1. HasShape(GvParse(gv, r1.msg, rest).msg)
    BY <1>1, <1>2, GvParseShape
  <2>2. HasShape(RdParse(gv, r1.msg, rest).msg)
    BY <1>1, RdParseShape
  <2>3. Res(gv, r1.msg, <<>>).msg = r1.msg
    BY DEF Res
  <2>4. QED
    BY <1>1, <2>1, <2>2, <2>3
<1>4. Feed(ch, bytes).msg = r2.msg
  BY DEF Feed, r1, rest
<1>5. QED
  BY <1>3, <1>4

(* Every step keeps the shape.                                              *)
LEMMA ShapeInvNext == ShapeInv /\ [AdapterNext]_adapterVars => ShapeInv'
<1> SUFFICES ASSUME ShapeInv, [AdapterNext]_adapterVars PROVE ShapeInv'
  OBVIOUS
<1>1. CASE TimePasses \/ UNCHANGED adapterVars
  BY <1>1 DEF TimePasses, adapterVars, ShapeInv
<1>2. CASE WsToggles
  BY <1>2 DEF WsToggles, ShapeInv
<1>3. ASSUME NEW ch \in Channels, Chunk(ch) PROVE ShapeInv'
  <2>1. PICK c \in IF todo[ch] = <<>> THEN Sayable(ch) ELSE {[bytes |-> todo[ch], effect |-> asked[ch]]} :
        \E k \in 1..Len(c.bytes) :
          /\ txMsg' = Feed(ch, SubSeq(c.bytes, 1, k)).msg
          /\ todo' = [todo EXCEPT ![ch] = SubSeq(c.bytes, k + 1, Len(c.bytes))]
    BY <1>3 DEF Chunk
  <2>2. PICK k \in 1..Len(c.bytes) :
          /\ txMsg' = Feed(ch, SubSeq(c.bytes, 1, k)).msg
          /\ todo' = [todo EXCEPT ![ch] = SubSeq(c.bytes, k + 1, Len(c.bytes))]
    BY <2>1
  <2>3. c.bytes \in Seq(STRING) \/ c.bytes \in Seq(Nat)
    <3>1. CASE todo[ch] = <<>>
      BY <2>1, <3>1, CommandAssumption DEF Sayable
    <3>2. CASE todo[ch] # <<>>
      BY <2>1, <3>2 DEF ShapeInv
    <3>3. QED
      BY <3>1, <3>2
  <2>4. HasShape(txMsg)' /\ SubSeq(c.bytes, k + 1, Len(c.bytes)) \in Seq(STRING) \cup Seq(Nat)
    <3>1. ASSUME NEW S, c.bytes \in Seq(S)
          PROVE  HasShape(txMsg)' /\ SubSeq(c.bytes, k + 1, Len(c.bytes)) \in Seq(S)
      <4>1. SubSeq(c.bytes, 1, k) \in Seq(S) /\ SubSeq(c.bytes, k + 1, Len(c.bytes)) \in Seq(S)
        BY <3>1, ChunkCut
      <4>2. HasShape(Feed(ch, SubSeq(c.bytes, 1, k)).msg)
        BY <4>1, FeedShape DEF ShapeInv
      <4>3. HasShape(txMsg')
        BY <2>2, <4>2
      <4>4. QED
        BY <4>1, <4>3 DEF HasShape
    <3>2. QED
      BY <2>3, <3>1
  <2>5. QED
    BY <2>2, <2>4 DEF ShapeInv
<1>4. QED
  BY <1>1, <1>2, <1>3 DEF AdapterNext

(* It is there from the start.                                              *)
LEMMA ShapeInvInit == AdapterInit => ShapeInv
<1> SUFFICES ASSUME AdapterInit PROVE ShapeInv
  OBVIOUS
<1>1. PICK set \in BOOLEAN : txMsg = [id |-> <<>>, extd |-> set, rtr |-> set, dlc |-> 0, data |-> <<>>]
  BY DEF AdapterInit, NoFrames
<1>2. HasShape(txMsg)
  BY <1>1 DEF HasShape
<1>3. QED
  BY <1>2 DEF AdapterInit, ShapeInv

(* Whatever the hosts send, tx_msg stays a frame (can_tx_task of main.c    *)
(* keeps its storage from turn to turn).                                   *)
THEOREM ShapeInvariant == AdapterSpec => []ShapeInv
<1>1. QED
  BY ShapeInvInit, ShapeInvNext, PTL DEF AdapterSpec

(* StreamReadsBack without its bounds: every frame of one to eight data    *)
(* bytes, with identifiers of every value the nibbles can have, and every  *)
(* time stamp made of digits.                                              *)
AnyFrameReadsBack ==
  sl = SlClean =>
    \A m : Streamed(m) => \A stamp \in Seq(ToSet(Digits)) :
      LET read == SlParse(sl, txMsg, SlEmit(m, stamp))
      IN  read.p = SlClean /\ read.did = << <<"send", 0, OnBus(m)>>, <<"reply", "ack">> >>

(* Whatever the commands before have left in tx_msg, every frame that      *)
(* slcan_parse_frame streams is read by slcan_parse_str as that frame, is  *)
(* sent once and is acknowledged once (slcan.c:65, 153).                   *)
THEOREM AnyFrameReadsBackCorrect == AdapterSpec => []AnyFrameReadsBack
<1>1. ShapeInv => AnyFrameReadsBack
  <2> SUFFICES ASSUME ShapeInv, sl = SlClean, NEW m, Streamed(m), NEW stamp \in Seq(ToSet(Digits))
               PROVE  LET read == SlParse(sl, txMsg, SlEmit(m, stamp))
                      IN  /\ read.p = SlClean
                          /\ read.did = << <<"send", 0, OnBus(m)>>, <<"reply", "ack">> >>
    BY DEF AnyFrameReadsBack
  <2>1. "CR" \notin ToSet(Digits)
    BY DEF ToSet, Digits
  <2>2. SlParse(sl, txMsg, SlEmit(m, stamp))
          = Res(SlClean, Read(m, txMsg), << <<"send", 0, OnBus(m)>>, <<"reply", "ack">> >>)
    BY <2>1, ReadsBack DEF ShapeInv
  <2>3. QED
    BY <2>2 DEF Res
<1>2. QED
  BY <1>1, ShapeInvariant, PTL

(* The frames of the run are some of them: what SLCAN streams to a host    *)
(* can be sent back (slcan.c:65, 153).                                     *)
THEOREM StreamReadsBackCorrect == AdapterSpec => []StreamReadsBack
<1>1. AnyFrameReadsBack => StreamReadsBack
  <2> SUFFICES ASSUME AnyFrameReadsBack, sl = SlClean,
                      NEW ext \in BOOLEAN, NEW rtr \in BOOLEAN, NEW size \in 1..2, NEW b \in 0..1
               PROVE  Echoes([id |-> [i \in 1..(IF ext THEN ExtIdLen ELSE StdIdLen) |-> (i + b) % 2],
                              extd |-> ext, rtr |-> rtr, dlc |-> size,
                              data |-> [i \in 1..2*size |-> (i * b) % 2]])
    BY DEF StreamReadsBack
  <2> DEFINE n == IF ext THEN ExtIdLen ELSE StdIdLen
             id == [i \in 1..n |-> (i + b) % 2]
             data == [i \in 1..2*size |-> (i * b) % 2]
             m == [id |-> id, extd |-> ext, rtr |-> rtr, dlc |-> size, data |-> data]
  <2>1. n \in Nat /\ 2 * size \in Nat
    BY AdapterAssumption
  <2>2. id \in Seq(0..8) /\ Len(id) = n
    <3> HIDE DEF n
    <3>1. \A i \in 1..n : (i + b) % 2 \in 0..8
      OBVIOUS
    <3>2. QED
      BY <2>1, <3>1
  <2>3. data \in Seq(0..8) /\ Len(data) = 2 * size
    <3>1. \A i \in 1..2*size : (i * b) % 2 \in 0..8
      OBVIOUS
    <3>2. QED
      BY <2>1, <3>1
  <2>4. Streamed(m)
    <3> HIDE DEF id, data
    <3>1. m.id = id /\ m.extd = ext /\ m.rtr = rtr /\ m.dlc = size /\ m.data = data /\ HasShape(m)
      BY DEF HasShape
    <3>2. size \in 1..8
      OBVIOUS
    <3> HIDE DEF m
    <3>3. QED
      BY <2>2, <2>3, <3>1, <3>2 DEF Streamed, n
  <2>5. <<>> \in Seq(ToSet(Digits)) /\ <<"0", "1", "2", "1">> \in Seq(ToSet(Digits))
    <3>1. "0" \in ToSet(Digits) /\ "1" \in ToSet(Digits) /\ "2" \in ToSet(Digits)
      BY Digits[1] = "0", Digits[2] = "1", Digits[3] = "2", DOMAIN Digits = 1..9 DEF ToSet,
         Digits
    <3>2. QED
      BY <3>1
  <2> HIDE DEF m
  <2>6. Echoes(m)
    BY <2>4, <2>5 DEF AnyFrameReadsBack, Echoes
  <2>7. QED
    BY <2>6 DEF m
<1>2. QED
  BY <1>1, AnyFrameReadsBackCorrect, PTL

-----------------------------------------------------------------------------
(* Commands have their exact effect. Two readings of the same bytes that   *)
(* began with different frames in tx_msg are compared byte by byte: the    *)
(* parsers are in one place, the calls are the same and so is what of the  *)
(* frame the command has set. So what a command does, in whatever pieces   *)
(* it comes, is what it does when it comes whole and first of all.         *)

(* A sequence, of whatever.                                                *)
IsASeq(s) == \E S : s \in Seq(S)

(* Sequences of anything can be joined.                                     *)
LEMMA SeqsJoin ==
  ASSUME NEW s, NEW t, IsASeq(s), IsASeq(t)
  PROVE  IsASeq(s \o t)
<1>1. PICK S : s \in Seq(S)
  BY DEF IsASeq
<1>2. PICK T : t \in Seq(T)
  BY DEF IsASeq
<1>3. s \in Seq(S \cup T) /\ t \in Seq(S \cup T)
  BY <1>1, <1>2
<1>4. s \o t \in Seq(S \cup T)
  BY <1>3
<1>5. QED
  BY <1>4 DEF IsASeq

(* In any order.                                                            *)
LEMMA SeqsAssociate ==
  ASSUME NEW s, NEW t, NEW u, IsASeq(s), IsASeq(t), IsASeq(u)
  PROVE  (s \o t) \o u = s \o (t \o u)
<1>1. PICK S : s \in Seq(S)
  BY DEF IsASeq
<1>2. PICK T : t \in Seq(T)
  BY DEF IsASeq
<1>3. PICK U : u \in Seq(U)
  BY DEF IsASeq
<1> DEFINE V == S \cup T \cup U
<1>4. s \in Seq(V) /\ t \in Seq(V) /\ u \in Seq(V)
  BY <1>1, <1>2, <1>3
<1> HIDE DEF V
<1> DEFINE l == (s \o t) \o u
           r == s \o (t \o u)
<1>5. l \in Seq(V) /\ r \in Seq(V) /\ Len(l) = Len(r)
  BY <1>4
<1>6. \A i \in 1..Len(l) : l[i] = r[i]
  BY <1>4
<1> HIDE DEF l, r
<1>7. l = r
  BY <1>5, <1>6, SameSeq
<1>8. QED
  BY <1>7 DEF l, r

(* The sequences the steps append.                                          *)
LEMMA SmallSeqs ==
  /\ IsASeq(<<>>)
  /\ \A x : IsASeq(<<x>>)
  /\ \A z : IsASeq(z) => z \o <<>> = z /\ <<>> \o z = z
  /\ \A z, x : IsASeq(z) => Append(z, x) = z \o <<x>>
<1>1. IsASeq(<<>>)
  BY <<>> \in Seq({}) DEF IsASeq
<1>2. ASSUME NEW x PROVE IsASeq(<<x>>)
  BY <<x>> \in Seq({x}) DEF IsASeq
<1>3. ASSUME NEW z, IsASeq(z) PROVE z \o <<>> = z /\ <<>> \o z = z
  <2>1. PICK S : z \in Seq(S)
    BY <1>3 DEF IsASeq
  <2>2. QED
    BY <2>1
<1>4. ASSUME NEW z, NEW x, IsASeq(z) PROVE Append(z, x) = z \o <<x>>
  <2>1. PICK S : z \in Seq(S)
    BY <1>4 DEF IsASeq
  <2>2. z \in Seq(S \cup {x}) /\ x \in S \cup {x} /\ <<x>> \in Seq(S \cup {x})
    BY <2>1
  <2>3. QED
    BY <2>2
<1>5. QED
  BY <1>1, <1>2, <1>3, <1>4

SlShape(p) == p = [state |-> p.state, cmd |-> p.cmd, msg |-> p.msg, col |-> p.col, got |-> p.got]

(* Setting one field of the SLCAN parser leaves the others.                 *)
LEMMA SlSet_state ==
  ASSUME NEW p, SlShape(p), NEW v, NEW q, q = [p EXCEPT !.state = v]
  PROVE  SlShape(q) /\ q.cmd = p.cmd /\ q.col = p.col /\ q.state = v
<1> DEFINE a == p.state
           c == p.cmd
           w == p.msg
           l == p.col
           g == p.got
<1>1. p = [state |-> a, cmd |-> c, msg |-> w, col |-> l, got |-> g]
  BY DEF SlShape
<1> HIDE DEF a, c, w, l, g
<1>2. p.state = a /\ p.cmd = c /\ p.col = l
  BY <1>1
<1>3. q = [state |-> v, cmd |-> c, msg |-> w, col |-> l, got |-> g]
  BY <1>1
<1>4. QED
  BY <1>2, <1>3 DEF SlShape

(* The same of the command.                                                 *)
LEMMA SlSet_cmd ==
  ASSUME NEW p, SlShape(p), NEW v, NEW q, q = [p EXCEPT !.cmd = v]
  PROVE  SlShape(q) /\ q.state = p.state /\ q.col = p.col /\ q.cmd = v
<1> DEFINE a == p.state
           c == p.cmd
           w == p.msg
           l == p.col
           g == p.got
<1>1. p = [state |-> a, cmd |-> c, msg |-> w, col |-> l, got |-> g]
  BY DEF SlShape
<1> HIDE DEF a, c, w, l, g
<1>2. p.state = a /\ p.cmd = c /\ p.col = l
  BY <1>1
<1>3. q = [state |-> a, cmd |-> v, msg |-> w, col |-> l, got |-> g]
  BY <1>1
<1>4. QED
  BY <1>2, <1>3 DEF SlShape

(* The same of the word.                                                    *)
LEMMA SlSet_msg ==
  ASSUME NEW p, SlShape(p), NEW v, NEW q, q = [p EXCEPT !.msg = v]
  PROVE  SlShape(q) /\ q.state = p.state /\ q.cmd = p.cmd /\ q.col = p.col
<1> DEFINE a == p.state
           c == p.cmd
           w == p.msg
           l == p.col
           g == p.got
<1>1. p = [state |-> a, cmd |-> c, msg |-> w, col |-> l, got |-> g]
  BY DEF SlShape
<1> HIDE DEF a, c, w, l, g
<1>2. p.state = a /\ p.cmd = c /\ p.col = l
  BY <1>1
<1>3. q = [state |-> a, cmd |-> c, msg |-> v, col |-> l, got |-> g]
  BY <1>1
<1>4. QED
  BY <1>2, <1>3 DEF SlShape

(* The same of the place in the frame.                                      *)
LEMMA SlSet_col ==
  ASSUME NEW p, SlShape(p), NEW v, NEW q, q = [p EXCEPT !.col = v]
  PROVE  SlShape(q) /\ q.state = p.state /\ q.cmd = p.cmd /\ q.col = v
<1> DEFINE a == p.state
           c == p.cmd
           w == p.msg
           l == p.col
           g == p.got
<1>1. p = [state |-> a, cmd |-> c, msg |-> w, col |-> l, got |-> g]
  BY DEF SlShape
<1> HIDE DEF a, c, w, l, g
<1>2. p.state = a /\ p.cmd = c /\ p.col = l
  BY <1>1
<1>3. q = [state |-> a, cmd |-> c, msg |-> w, col |-> v, got |-> g]
  BY <1>1
<1>4. QED
  BY <1>2, <1>3 DEF SlShape

(* The same of the nibbles.                                                 *)
LEMMA SlSet_got ==
  ASSUME NEW p, SlShape(p), NEW v, NEW q, q = [p EXCEPT !.got = v]
  PROVE  SlShape(q) /\ q.state = p.state /\ q.cmd = p.cmd /\ q.col = p.col
<1> DEFINE a == p.state
           c == p.cmd
           w == p.msg
           l == p.col
           g == p.got
<1>1. p = [state |-> a, cmd |-> c, msg |-> w, col |-> l, got |-> g]
  BY DEF SlShape
<1> HIDE DEF a, c, w, l, g
<1>2. p.state = a /\ p.cmd = c /\ p.col = l
  BY <1>1
<1>3. q = [state |-> a, cmd |-> c, msg |-> w, col |-> l, got |-> v]
  BY <1>1
<1>4. QED
  BY <1>2, <1>3 DEF SlShape

Flags(m, R, E) == [m EXCEPT !.rtr = R, !.extd = E]
WithLength(m, v) == [m EXCEPT !.dlc = v]
WithData(m, v) == [m EXCEPT !.data = v]

(* Setting the flags of a frame leaves the rest.                            *)
LEMMA Flagged ==
  ASSUME NEW m, HasShape(m), NEW R, NEW E, NEW v
  PROVE  /\ WithLength(Flags(m, R, E), v) = [id |-> m.id, extd |-> E, rtr |-> R, dlc |-> v, data |-> m.data]
         /\ WithData(Flags(m, R, E), v) = [id |-> m.id, extd |-> E, rtr |-> R, dlc |-> m.dlc, data |-> v]
<1> DEFINE i == m.id
           e == m.extd
           r == m.rtr
           l == m.dlc
           x == m.data
           half == [m EXCEPT !.rtr = R]
           flags == [half EXCEPT !.extd = E]
<1>1. m = [id |-> i, extd |-> e, rtr |-> r, dlc |-> l, data |-> x]
  BY DEF HasShape
<1> HIDE DEF i, e, r, l, x
<1>2. half = [id |-> i, extd |-> e, rtr |-> R, dlc |-> l, data |-> x]
  BY <1>1
<1> HIDE DEF half
<1>3. flags = [id |-> i, extd |-> E, rtr |-> R, dlc |-> l, data |-> x]
  BY <1>2
<1> HIDE DEF flags
<1>4. WithLength(flags, v) = [id |-> i, extd |-> E, rtr |-> R, dlc |-> v, data |-> x]
  BY <1>3 DEF WithLength
<1>5. WithData(flags, v) = [id |-> i, extd |-> E, rtr |-> R, dlc |-> l, data |-> v]
  BY <1>3 DEF WithData
<1>6. flags = Flags(m, R, E)
  BY DEF flags, half, Flags
<1>7. QED
  BY <1>4, <1>5, <1>6 DEF i, l, x

(* What a frame's end sets and what is already known make it one frame.     *)
LEMMA FlagsAlike ==
  ASSUME NEW m, NEW n, HasShape(m), HasShape(n), m.id = n.id, NEW R, NEW E, NEW v
  PROVE  /\ HasShape(WithLength(Flags(m, R, E), v)) /\ HasShape(WithLength(Flags(n, R, E), v))
         /\ HasShape(WithData(Flags(m, R, E), v)) /\ HasShape(WithData(Flags(n, R, E), v))
         /\ R => OnBus(WithLength(Flags(m, R, E), v)) = OnBus(WithLength(Flags(n, R, E), v))
         /\ m.dlc = n.dlc => WithData(Flags(m, R, E), v) = WithData(Flags(n, R, E), v)
<1> DEFINE i == m.id
           al == [id |-> i, extd |-> E, rtr |-> R, dlc |-> v, data |-> m.data]
           bl == [id |-> i, extd |-> E, rtr |-> R, dlc |-> v, data |-> n.data]
           ad == [id |-> i, extd |-> E, rtr |-> R, dlc |-> m.dlc, data |-> v]
           bd == [id |-> i, extd |-> E, rtr |-> R, dlc |-> n.dlc, data |-> v]
<1>1. WithLength(Flags(m, R, E), v) = al /\ WithData(Flags(m, R, E), v) = ad
  BY Flagged
<1>2. WithLength(Flags(n, R, E), v) = bl /\ WithData(Flags(n, R, E), v) = bd
  BY Flagged
<1>3. HasShape(al) /\ HasShape(bl) /\ HasShape(ad) /\ HasShape(bd)
  BY DEF HasShape
<1>4. ASSUME R PROVE OnBus(al) = OnBus(bl)
  <2>1. [al EXCEPT !.data = <<>>] = [id |-> i, extd |-> E, rtr |-> R, dlc |-> v, data |-> <<>>]
    OBVIOUS
  <2>2. [bl EXCEPT !.data = <<>>] = [id |-> i, extd |-> E, rtr |-> R, dlc |-> v, data |-> <<>>]
    OBVIOUS
  <2>3. al.rtr /\ bl.rtr
    BY <1>4
  <2> HIDE DEF al, bl
  <2>4. QED
    BY <2>1, <2>2, <2>3 DEF OnBus
<1>5. m.dlc = n.dlc => ad = bd
  OBVIOUS
<1> HIDE DEF al, bl, ad, bd
<1>6. QED
  BY <1>1, <1>2, <1>3, <1>4, <1>5

(* What the end of a frame command makes of the frame.                      *)
Ending(m, cmd) == Flags(m, IsRemote(cmd), IsExt(cmd))

(* The end of a frame command makes the two frames one.                     *)
LEMMA EndingAlike ==
  ASSUME NEW m, NEW n, HasShape(m), HasShape(n), m.id = n.id, NEW cmd, NEW v
  PROVE  /\ HasShape(WithLength(Ending(m, cmd), v)) /\ HasShape(WithLength(Ending(n, cmd), v))
         /\ HasShape(WithData(Ending(m, cmd), v)) /\ HasShape(WithData(Ending(n, cmd), v))
         /\ IsRemote(cmd) => OnBus(WithLength(Ending(m, cmd), v)) = OnBus(WithLength(Ending(n, cmd), v))
         /\ m.dlc = n.dlc => WithData(Ending(m, cmd), v) = WithData(Ending(n, cmd), v)
<1> DEFINE R == IsRemote(cmd)
           E == IsExt(cmd)
           al == WithLength(Flags(m, R, E), v)
           bl == WithLength(Flags(n, R, E), v)
           ad == WithData(Flags(m, R, E), v)
           bd == WithData(Flags(n, R, E), v)
<1>1. /\ HasShape(al) /\ HasShape(bl) /\ HasShape(ad) /\ HasShape(bd)
      /\ R => OnBus(al) = OnBus(bl)
      /\ m.dlc = n.dlc => ad = bd
  <2> HIDE DEF R, E
  <2>1. QED
    BY FlagsAlike
<1>2. QED
  BY <1>1 DEF Ending

(* It touches the flags only.                                               *)
LEMMA EndingIs ==
  ASSUME NEW y, NEW cmd
  PROVE  [y EXCEPT !.rtr = IsRemote(cmd), !.extd = IsExt(cmd)] = Ending(y, cmd)
<1> DEFINE R == IsRemote(cmd)
           E == IsExt(cmd)
<1>1. [y EXCEPT !.rtr = R, !.extd = E] = Flags(y, R, E)
  BY DEF Flags
<1>2. QED
  BY <1>1 DEF Ending

Words == {"S", "Z", "A", "D", "M", "m"}

(* Two readings of the same bytes that began with different frames in       *)
(* tx_msg: the parser is in one place, and what it has taken is the same.   *)
SlAlike(p, m, n) ==
  /\ SlShape(p) /\ HasShape(m) /\ HasShape(n)
  /\ p.state \in {"HEADER", "BODY", "END"}
  /\ p.col \in {"DLC", "DATA"} => p.state = "BODY" /\ p.cmd \notin Words /\ m.id = n.id
  /\ p.col = "DATA" => m.dlc = n.dlc
  /\ p.state = "END" /\ IsFrameCmd(p.cmd) => OnBus(m) = OnBus(n)

SlMove(p, m, n, b, p2, m2, n2, x) ==
  /\ SlAlike(p2, m2, n2) /\ IsASeq(x)
  /\ \A z : IsASeq(z) => /\ SlByte(Res(p, m, z), b) = Res(p2, m2, z \o x)
                         /\ SlByte(Res(p, n, z), b) = Res(p2, n2, z \o x)

SlMoves(p, m, n, b) == \E p2, m2, n2, x : SlMove(p, m, n, b, p2, m2, n2, x)

(* How a move is shown.                                                     *)
LEMMA SlMovesBy ==
  ASSUME NEW p, NEW m, NEW n, NEW b, NEW p2, NEW m2, NEW n2, NEW x,
         SlMove(p, m, n, b, p2, m2, n2, x)
  PROVE  SlMoves(p, m, n, b)
BY DEF SlMoves

(* The parts of a result.                                                   *)
LEMMA ResParts ==
  ASSUME NEW p, NEW m, NEW z
  PROVE  Res(p, m, z).p = p /\ Res(p, m, z).msg = m /\ Res(p, m, z).did = z
BY DEF Res

(* A byte without effect.                                                   *)
LEMMA SlIdle ==
  ASSUME NEW p, NEW m, NEW n, NEW b, SlAlike(p, m, n),
         \A z, y : SlByte(Res(p, y, z), b) = Res(p, y, z)
  PROVE  SlMoves(p, m, n, b)
<1>1. SlMove(p, m, n, b, p, m, n, <<>>)
  BY SmallSeqs DEF SlMove
<1>2. QED
  BY <1>1, SlMovesBy

(* Opening the channel is a sequence of calls.                              *)
LEMMA OpensSeq == \A silent, loop : IsASeq(Opens(silent, loop))
<1> SUFFICES ASSUME NEW silent, NEW loop PROVE IsASeq(Opens(silent, loop))
  OBVIOUS
<1> DEFINE a == <<"silent", 0, silent>>
           b == <<"loopback", 0, loop>>
           c == <<"enable", 0>>
<1>1. Opens(silent, loop) = <<a, b, c>>
  BY DEF Opens
<1> HIDE DEF a, b, c
<1>2. <<a, b, c>> \in Seq({a, b, c})
  OBVIOUS
<1>3. QED
  BY <1>1, <1>2 DEF IsASeq

(* The first character of a command.                                        *)
LEMMA SlHeaderMoves ==
  ASSUME NEW p, NEW m, NEW n, NEW b, SlAlike(p, m, n), p.state = "HEADER"
  PROVE  SlMoves(p, m, n, b)
<1> DEFINE half(state) == [p EXCEPT !.state = state]
           at(state) == [half(state) EXCEPT !.cmd = b]
<1>1. \A z, y : SlByte(Res(p, y, z), b) = SlHeader(Res(p, y, z), b)
  BY ResParts DEF SlByte
<1>2. \A state : at(state) = [p EXCEPT !.state = state, !.cmd = b]
  OBVIOUS
<1>3. \A state : SlShape(at(state)) /\ at(state).state = state /\ at(state).cmd = b /\ at(state).col = p.col
  <2> SUFFICES ASSUME NEW state
               PROVE  SlShape(at(state)) /\ at(state).state = state /\ at(state).cmd = b /\ at(state).col = p.col
    OBVIOUS
  <2> DEFINE h == [p EXCEPT !.state = state]
  <2>1. SlShape(h) /\ h.state = state /\ h.col = p.col
    BY SlSet_state DEF SlAlike
  <2>2. at(state) = [h EXCEPT !.cmd = b]
    OBVIOUS
  <2> HIDE DEF h, at
  <2>3. QED
    BY <2>1, <2>2, SlSet_cmd
<1> HIDE DEF at
<1>4. p.col \notin {"DLC", "DATA"} /\ HasShape(m) /\ HasShape(n)
  BY DEF SlAlike
<1>5. SlAlike(at("BODY"), m, n)
  BY <1>3, <1>4 DEF SlAlike
<1>6. ASSUME ~IsFrameCmd(b) PROVE SlAlike(at("END"), m, n)
  BY <1>3, <1>4, <1>6 DEF SlAlike
<1>7. ASSUME NEW to \in {"BODY", "END"}, NEW x, IsASeq(x), to = "END" => ~IsFrameCmd(b),
             \A z, y : IsASeq(z) => SlHeader(Res(p, y, z), b) = Res(at(to), y, z \o x)
      PROVE  SlMoves(p, m, n, b)
  <2>1. SlAlike(at(to), m, n)
    BY <1>5, <1>6, <1>7
  <2>2. SlMove(p, m, n, b, at(to), m, n, x)
    BY <1>1, <1>7, <2>1 DEF SlMove
  <2>3. QED
    BY <2>2, SlMovesBy
<1>8. CASE b \in {"O", "Y", "L"}
  <2> DEFINE x == Opens(b = "L", b = "Y")
  <2>1. IsASeq(x) /\ ~IsFrameCmd(b)
    BY <1>8, OpensSeq DEF IsFrameCmd
  <2>2. \A z, y : SlHeader(Res(p, y, z), b) = Res(at("END"), y, z \o x)
    <3>1. CASE b = "O"
      BY <1>2, <3>1, ResParts DEF SlHeader, Res
    <3>2. CASE b = "Y"
      BY <1>2, <3>2, ResParts DEF SlHeader, Res
    <3>3. CASE b = "L"
      BY <1>2, <3>3, ResParts DEF SlHeader, Res
    <3>4. QED
      BY <1>8, <3>1, <3>2, <3>3
  <2>3. QED
    BY <1>7, <2>1, <2>2
<1>9. CASE b = "C"
  <2> DEFINE x == << <<"disable", 0>> >>
  <2>1. IsASeq(x) /\ ~IsFrameCmd(b)
    BY <1>9, SmallSeqs DEF IsFrameCmd
  <2>2. \A z, y : IsASeq(z) => SlHeader(Res(p, y, z), b) = Res(at("END"), y, z \o x)
    BY <1>2, <1>9, SmallSeqs DEF SlHeader, Res
  <2>3. QED
    BY <1>7, <2>1, <2>2
<1>10. CASE b \in {"V", "N", "F"}
  <2>1. ~IsFrameCmd(b)
    BY <1>10 DEF IsFrameCmd
  <2>2. b # "O" /\ b # "Y" /\ b # "L" /\ b # "C"
    BY <1>10
  <2>3. \A z, y : SlHeader(Res(p, y, z), b) = Res(at("END"), y, z)
    <3>1. CASE b = "V"
      BY <1>2, <2>2, <3>1 DEF SlHeader, Res
    <3>2. CASE b = "N"
      BY <1>2, <2>2, <3>2 DEF SlHeader, Res
    <3>3. CASE b = "F"
      BY <1>2, <2>2, <3>3 DEF SlHeader, Res
    <3>4. QED
      BY <1>10, <3>1, <3>2, <3>3
  <2>4. \A z, y : IsASeq(z) => SlHeader(Res(p, y, z), b) = Res(at("END"), y, z \o <<>>)
    BY <2>3, SmallSeqs
  <2>5. QED
    BY <1>7, <2>1, <2>4, SmallSeqs
<1>11. CASE b \in {"S", "s", "A", "D", "Z", "m", "M", "t", "T", "r", "R"}
  <2>1. b # "O" /\ b # "Y" /\ b # "L" /\ b # "C" /\ b \notin {"V", "N", "F"}
    BY <1>11
  <2>2. \A z, y : SlHeader(Res(p, y, z), b) = Res(at("BODY"), y, z)
    BY <1>2, <1>11, <2>1 DEF SlHeader, Res
  <2>3. \A z, y : IsASeq(z) => SlHeader(Res(p, y, z), b) = Res(at("BODY"), y, z \o <<>>)
    BY <2>2, SmallSeqs
  <2>4. QED
    BY <1>7, <2>3, SmallSeqs
<1>12. CASE b \notin {"O", "Y", "L", "C", "V", "N", "F", "S", "s", "A", "D", "Z", "m", "M", "t", "T", "r", "R"}
  <2>1. \A z, y : SlHeader(Res(p, y, z), b) = Res(p, y, z)
    BY <1>12 DEF SlHeader
  <2>2. QED
    BY <1>1, <2>1, SlIdle
<1>13. QED
  BY <1>8, <1>9, <1>10, <1>11, <1>12

(* The characters of a word.                                                *)
LEMMA SlWordMoves ==
  ASSUME NEW p, NEW m, NEW n, NEW b, SlAlike(p, m, n), p.state = "BODY", p.cmd \in Words
  PROVE  SlMoves(p, m, n, b)
<1>1. \A z, y : SlByte(Res(p, y, z), b) = SlBody(Res(p, y, z), b)
  BY DEF SlByte, Res
<1>2. ASSUME NEW q, SlShape(q), q.state \in {"BODY", "END"}, q.cmd = p.cmd, q.col = p.col,
             NEW x, IsASeq(x),
             \A z, y : IsASeq(z) => SlBody(Res(p, y, z), b) = Res(q, y, z \o x)
      PROVE  SlMoves(p, m, n, b)
  <2>1. p.col \notin {"DLC", "DATA"} /\ HasShape(m) /\ HasShape(n) /\ ~IsFrameCmd(p.cmd)
    BY DEF SlAlike, Words, IsFrameCmd
  <2>2. SlAlike(q, m, n)
    BY <1>2, <2>1 DEF SlAlike
  <2>3. SlMove(p, m, n, b, q, m, n, x)
    BY <1>1, <1>2, <2>2 DEF SlMove
  <2>4. QED
    BY <2>3, SlMovesBy
<1> DEFINE end == [p EXCEPT !.state = "END"]
           msg == Append(p.msg, b)
<1>3. SlShape(end) /\ end.state = "END" /\ end.cmd = p.cmd /\ end.col = p.col
  BY SlSet_state DEF SlAlike
<1>4. CASE p.cmd \in {"S", "Z", "A", "D"}
  <2>1. PICK x : IsASeq(x) /\ \A z, y : IsASeq(z) => SlBody(Res(p, y, z), b) = Res(end, y, z \o x)
    <3> DEFINE call == IF p.cmd = "S" THEN <<"bitrate", 0, b>> ELSE <<"stamp", 0, b>>
               acts == \/ p.cmd = "S" /\ IsDigit(b)
                       \/ p.cmd = "Z" /\ b \in {"0", "1"}
               x == IF acts THEN <<call>> ELSE <<>>
    <3>1. \A z, y : SlBody(Res(p, y, z), b) = Res(end, y, IF acts THEN Append(z, call) ELSE z)
      <4>1. CASE p.cmd = "S"
        <5>1. (acts <=> IsDigit(b)) /\ call = <<"bitrate", 0, b>>
          BY <4>1
        <5>2. \A z, y : SlBody(Res(p, y, z), b)
                         = Res(end, y, IF IsDigit(b) THEN Append(z, <<"bitrate", 0, b>>) ELSE z)
          BY <4>1 DEF SlBody, Res
        <5> HIDE DEF acts, call, end
        <5>3. CASE acts
          BY <5>1, <5>2, <5>3
        <5>4. CASE ~acts
          BY <5>1, <5>2, <5>4
        <5>5. QED
          BY <5>3, <5>4
      <4>2. CASE p.cmd = "Z"
        BY <4>2 DEF SlBody, Res
      <4>3. CASE p.cmd \in {"A", "D"}
        <5>1. ~acts
          BY <4>3
        <5>2. \A z, y : SlBody(Res(p, y, z), b) = Res(end, y, z)
          <6>1. CASE p.cmd = "A"
            BY <6>1 DEF SlBody, Res
          <6>2. CASE p.cmd = "D"
            BY <6>2 DEF SlBody, Res
          <6>3. QED
            BY <4>3, <6>1, <6>2
        <5> HIDE DEF acts, call, end
        <5>3. QED
          BY <5>1, <5>2
      <4>4. QED
        BY <1>4, <4>1, <4>2, <4>3
    <3> HIDE DEF end, call, acts
    <3>2. IsASeq(x) /\ \A z : IsASeq(z) => z \o x = IF acts THEN Append(z, call) ELSE z
      BY SmallSeqs
    <3>3. QED
      BY <3>1, <3>2
  <2> HIDE DEF end
  <2>2. QED
    BY <1>2, <1>3, <2>1
<1>5. CASE p.cmd \in {"M", "m"}
  <2> DEFINE call == IF p.cmd = "M" THEN "filter" ELSE "mask"
             none == <<>>
             done == [end EXCEPT !.msg = none]
             more == [p EXCEPT !.msg = msg]
             set == <<call, 0, msg>>
  <2>1. \A z, y : SlBody(Res(p, y, z), b) = IF Len(msg) = MaskLen THEN Res(done, y, Append(z, <<call, 0, msg>>))
                                            ELSE Res(more, y, z)
    <3>1. CASE p.cmd = "M"
      BY <3>1 DEF SlBody, Res
    <3>2. CASE p.cmd = "m"
      BY <3>2 DEF SlBody, Res
    <3>3. QED
      BY <1>5, <3>1, <3>2
  <2>2. SlShape(more) /\ more.state = "BODY" /\ more.cmd = p.cmd /\ more.col = p.col
    <3> HIDE DEF msg
    <3> QED
      BY SlSet_msg DEF SlAlike
  <2>3. SlShape(done) /\ done.state = "END" /\ done.cmd = p.cmd /\ done.col = p.col
    <3> HIDE DEF end, none
    <3> QED
      BY <1>3, SlSet_msg
  <2> HIDE DEF done, more, call, msg, end
  <2>4. CASE Len(msg) = MaskLen
    <3> DEFINE x == <<set>>
    <3>1. IsASeq(x) /\ \A z, y : IsASeq(z) => SlBody(Res(p, y, z), b) = Res(done, y, z \o x)
      <4>1. \A z, y : SlBody(Res(p, y, z), b) = Res(done, y, Append(z, set))
        BY <2>1, <2>4
      <4> HIDE DEF set
      <4>2. IsASeq(x) /\ \A z : IsASeq(z) => Append(z, set) = z \o x
        BY SmallSeqs
      <4>3. QED
        BY <4>1, <4>2
    <3> HIDE DEF x
    <3>2. QED
      BY <1>2, <2>3, <3>1
  <2>5. CASE Len(msg) # MaskLen
    <3>1. IsASeq(<<>>) /\ \A z, y : IsASeq(z) => SlBody(Res(p, y, z), b) = Res(more, y, z \o <<>>)
      BY <2>1, <2>5, SmallSeqs
    <3>2. QED
      BY <1>2, <2>2, <3>1
  <2>6. QED
    BY <2>4, <2>5
<1>6. QED
  BY <1>4, <1>5 DEF Words

(* The characters of a frame.                                               *)
LEMMA SlCollectMoves ==
  ASSUME NEW p, NEW m, NEW n, NEW b, SlAlike(p, m, n), p.state = "BODY", p.cmd \notin Words
  PROVE  SlMoves(p, m, n, b)
<1> DEFINE len == IF IsExt(p.cmd) THEN ExtIdLen ELSE StdIdLen
           one == IF IsDigit(b) THEN Digit(b) ELSE 0
           got == Append(p.got, one)
           ended == [p EXCEPT !.state = "END"]
           ended2 == [ended EXCEPT !.col = "ID"]
           none == <<>>
           end == [ended2 EXCEPT !.got = none]
<1>1. \A z, y : SlByte(Res(p, y, z), b) = Collect(Res(p, y, z), b)
  <2>1. \A z, y : SlByte(Res(p, y, z), b) = SlBody(Res(p, y, z), b)
    BY DEF SlByte, Res
  <2>2. \A z, y : SlBody(Res(p, y, z), b) = Collect(Res(p, y, z), b)
    BY DEF SlBody, Res, Words
  <2>3. QED
    BY <2>1, <2>2
<1>2. SlShape(p) /\ HasShape(m) /\ HasShape(n)
  BY DEF SlAlike
<1>3. SlShape(end) /\ end.state = "END" /\ end.cmd = p.cmd /\ end.col = "ID"
  <2>1. SlShape(ended) /\ ended.state = "END" /\ ended.cmd = p.cmd
    BY <1>2, SlSet_state
  <2>2. SlShape(ended2) /\ ended2.state = "END" /\ ended2.cmd = p.cmd /\ ended2.col = "ID"
    <3> HIDE DEF ended
    <3> QED
      BY <2>1, SlSet_col
  <2> HIDE DEF ended2, none
  <2>3. QED
    BY <2>2, SlSet_got
<1>4. end = [p EXCEPT !.state = "END", !.col = "ID", !.got = <<>>]
  OBVIOUS
<1> HIDE DEF end, ended, ended2, len, one, got
<1>5. ASSUME NEW p2, NEW m2, NEW n2, SlAlike(p2, m2, n2),
             \A z : IsASeq(z) => /\ Collect(Res(p, m, z), b) = Res(p2, m2, z)
                                 /\ Collect(Res(p, n, z), b) = Res(p2, n2, z)
      PROVE  SlMoves(p, m, n, b)
  <2>1. SlMove(p, m, n, b, p2, m2, n2, <<>>)
    BY <1>1, <1>5, SmallSeqs DEF SlMove
  <2>2. QED
    BY <2>1, SlMovesBy
<1>6. CASE p.col = "ID"
  <2>1. CASE Len(got) = len
    <3> DEFINE half == [p EXCEPT !.col = "DLC"]
               q == [half EXCEPT !.got = none]
               m2 == [m EXCEPT !.id = got]
               n2 == [n EXCEPT !.id = got]
    <3>1. \A z, y : Collect(Res(p, y, z), b) = Res(q, [y EXCEPT !.id = got], z)
      BY <1>6, <2>1 DEF Collect, Res, len, got, one
    <3>2. SlShape(q) /\ q.state = "BODY" /\ q.cmd = p.cmd /\ q.col = "DLC"
      <4>1. SlShape(half) /\ half.state = "BODY" /\ half.cmd = p.cmd /\ half.col = "DLC"
        BY <1>2, SlSet_col
      <4> HIDE DEF half, none
      <4>2. QED
        BY <4>1, SlSet_got
    <3>3. HasShape(m2) /\ HasShape(n2)
      BY <1>2, ShapeKept
    <3>4. m2.id = n2.id
      BY <1>2 DEF HasShape
    <3> HIDE DEF q, m2, n2
    <3>5. SlAlike(q, m2, n2)
      BY <3>2, <3>3, <3>4 DEF SlAlike
    <3>6. QED
      BY <1>5, <3>1, <3>5 DEF m2, n2
  <2>2. CASE Len(got) # len
    <3> DEFINE to == IF Len(got) > ExtIdLen THEN "wild" ELSE "ID"
               half == [p EXCEPT !.got = got]
               q == [half EXCEPT !.col = to]
    <3>1. \A z, y : Collect(Res(p, y, z), b) = Res(q, y, z)
      BY <1>6, <2>2 DEF Collect, Res, len, got, one
    <3>2. to \in {"wild", "ID"}
      OBVIOUS
    <3>3. SlShape(q) /\ q.state = "BODY" /\ q.cmd = p.cmd /\ q.col = to
      <4>1. SlShape(half) /\ half.state = "BODY" /\ half.cmd = p.cmd
        BY <1>2, SlSet_got
      <4> HIDE DEF half, to
      <4>2. QED
        BY <4>1, SlSet_col
    <3> HIDE DEF q, to
    <3>4. SlAlike(q, m, n)
      BY <1>2, <3>2, <3>3 DEF SlAlike
    <3>5. QED
      BY <1>5, <3>1, <3>4
  <2>3. QED
    BY <2>1, <2>2
<1>7. CASE p.col = "DLC"
  <2>1. m.id = n.id
    BY <1>7 DEF SlAlike
  <2>2. CASE IsRemote(p.cmd)
    <3> DEFINE m2 == WithLength(Ending(m, p.cmd), one)
               n2 == WithLength(Ending(n, p.cmd), one)
    <3>1. \A z, y : Collect(Res(p, y, z), b) = Res(end, WithLength(Ending(y, p.cmd), one), z)
      <4> SUFFICES ASSUME NEW z, NEW y
                   PROVE  Collect(Res(p, y, z), b) = Res(end, WithLength(Ending(y, p.cmd), one), z)
        OBVIOUS
      <4> DEFINE r == Res(p, y, z)
                 flags == [y EXCEPT !.rtr = IsRemote(p.cmd), !.extd = IsExt(p.cmd)]
      <4>1. r.p = p /\ r.msg = y /\ r.did = z
        BY ResParts
      <4>2. flags = Ending(y, p.cmd)
        BY EndingIs
      <4>3. Collect(r, b) = Res([p EXCEPT !.state = "END", !.col = "ID", !.got = <<>>],
                                [[r.msg EXCEPT !.rtr = IsRemote(r.p.cmd), !.extd = IsExt(r.p.cmd)]
                                    EXCEPT !.dlc = one], z)
        <5> HIDE DEF r
        <5> QED
          BY <1>7, <2>2, <4>1 DEF Collect, one
      <4> HIDE DEF r
      <4>4. Collect(r, b) = Res(end, [flags EXCEPT !.dlc = one], z)
        BY <1>4, <4>1, <4>3
      <4> HIDE DEF flags
      <4>5. [flags EXCEPT !.dlc = one] = WithLength(flags, one)
        BY DEF WithLength
      <4>6. QED
        BY <4>2, <4>4, <4>5 DEF r
    <3>2. HasShape(m2) /\ HasShape(n2) /\ OnBus(m2) = OnBus(n2)
      BY <1>2, <2>1, <2>2, EndingAlike
    <3> HIDE DEF m2, n2
    <3>3. SlAlike(end, m2, n2)
      BY <1>3, <3>2 DEF SlAlike
    <3>4. QED
      BY <1>5, <3>1, <3>3 DEF m2, n2
  <2>3. CASE ~IsRemote(p.cmd) /\ IsDigit(b) /\ b # "0"
    <3> DEFINE q == [p EXCEPT !.col = "DATA"]
               m2 == [m EXCEPT !.dlc = Digit(b)]
               n2 == [n EXCEPT !.dlc = Digit(b)]
    <3>1. \A z, y : Collect(Res(p, y, z), b) = Res(q, [y EXCEPT !.dlc = Digit(b)], z)
      BY <1>7, <2>3 DEF Collect, Res
    <3>2. SlShape(q) /\ q.state = "BODY" /\ q.cmd = p.cmd /\ q.col = "DATA"
      BY <1>2, SlSet_col
    <3>3. HasShape(m2) /\ HasShape(n2)
      BY <1>2, ShapeKept
    <3>4. m2.id = m.id /\ n2.id = n.id /\ m2.dlc = n2.dlc
      BY <1>2 DEF HasShape
    <3> HIDE DEF q, m2, n2
    <3>5. SlAlike(q, m2, n2)
      BY <2>1, <3>2, <3>3, <3>4 DEF SlAlike
    <3>6. QED
      BY <1>5, <3>1, <3>5 DEF m2, n2
  <2>4. CASE ~IsRemote(p.cmd) /\ ~(IsDigit(b) /\ b # "0")
    <3> DEFINE q == [p EXCEPT !.col = "wild"]
    <3>1. \A z, y : Collect(Res(p, y, z), b) = Res(q, y, z)
      BY <1>7, <2>4 DEF Collect, Res
    <3>2. SlShape(q) /\ q.state = "BODY" /\ q.cmd = p.cmd /\ q.col = "wild"
      BY <1>2, SlSet_col
    <3> HIDE DEF q
    <3>3. SlAlike(q, m, n)
      BY <1>2, <3>2 DEF SlAlike
    <3>4. QED
      BY <1>5, <3>1, <3>3
  <2>5. QED
    BY <2>2, <2>3, <2>4
<1>8. CASE p.col = "DATA"
  <2>1. m.id = n.id /\ m.dlc = n.dlc
    BY <1>8 DEF SlAlike
  <2>2. CASE Len(got) = 2 * m.dlc
    <3> DEFINE m2 == WithData(Ending(m, p.cmd), got)
               n2 == WithData(Ending(n, p.cmd), got)
    <3>1. ASSUME NEW z, NEW y, Len(got) = 2 * y.dlc
          PROVE  Collect(Res(p, y, z), b) = Res(end, WithData(Ending(y, p.cmd), got), z)
      <4> DEFINE r == Res(p, y, z)
                 flags == [y EXCEPT !.rtr = IsRemote(p.cmd), !.extd = IsExt(p.cmd)]
      <4>1. r.p = p /\ r.msg = y /\ r.did = z
        BY ResParts
      <4>2. flags = Ending(y, p.cmd)
        BY EndingIs
      <4>3. Collect(r, b) = Res([p EXCEPT !.state = "END", !.col = "ID", !.got = <<>>],
                                [[r.msg EXCEPT !.rtr = IsRemote(r.p.cmd), !.extd = IsExt(r.p.cmd)]
                                    EXCEPT !.data = got], z)
        <5> HIDE DEF r
        <5> QED
          BY <1>8, <3>1, <4>1 DEF Collect, got, one
      <4> HIDE DEF r
      <4>4. Collect(r, b) = Res(end, [flags EXCEPT !.data = got], z)
        BY <1>4, <4>1, <4>3
      <4> HIDE DEF flags
      <4>5. [flags EXCEPT !.data = got] = WithData(flags, got)
        BY DEF WithData
      <4>6. QED
        BY <4>2, <4>4, <4>5 DEF r
    <3>2. HasShape(m2) /\ HasShape(n2) /\ m2 = n2
      BY <1>2, <2>1, EndingAlike
    <3> HIDE DEF m2, n2
    <3>3. SlAlike(end, m2, n2)
      BY <1>3, <3>2 DEF SlAlike
    <3>4. QED
      BY <1>5, <2>1, <2>2, <3>1, <3>3 DEF m2, n2
  <2>3. CASE Len(got) # 2 * m.dlc
    <3> DEFINE q == [p EXCEPT !.got = got]
    <3>1. \A z, y : Len(got) # 2 * y.dlc => Collect(Res(p, y, z), b) = Res(q, y, z)
      BY <1>8 DEF Collect, Res, got, one
    <3>2. SlShape(q) /\ q.state = "BODY" /\ q.cmd = p.cmd /\ q.col = "DATA"
      BY <1>2, <1>8, SlSet_got
    <3> HIDE DEF q
    <3>3. SlAlike(q, m, n)
      BY <1>2, <2>1, <3>2 DEF SlAlike
    <3>4. QED
      BY <1>5, <2>1, <2>3, <3>1, <3>3
  <2>4. QED
    BY <2>2, <2>3
<1>9. CASE p.col \notin {"ID", "DLC", "DATA"}
  <2>1. \A z, y : Collect(Res(p, y, z), b) = Res(p, y, z)
    BY <1>9 DEF Collect, Res
  <2>2. QED
    BY <1>1, <2>1, SlIdle
<1>10. QED
  BY <1>6, <1>7, <1>8, <1>9

(* The characters up to the carriage return.                                *)
LEMMA SlEndMoves ==
  ASSUME NEW p, NEW m, NEW n, NEW b, SlAlike(p, m, n), p.state = "END"
  PROVE  SlMoves(p, m, n, b)
<1>1. \A z, y : SlByte(Res(p, y, z), b) = SlEnd(Res(p, y, z), b)
  BY DEF SlByte, Res
<1>2. CASE b # "CR"
  <2>1. \A z, y : SlEnd(Res(p, y, z), b) = Res(p, y, z)
    BY <1>2 DEF SlEnd
  <2>2. QED
    BY <1>1, <2>1, SlIdle
<1>3. CASE b = "CR"
  <2> DEFINE q1 == [p EXCEPT !.state = "HEADER"]
             q2 == [q1 EXCEPT !.cmd = "none"]
             none == <<>>
             q == [q2 EXCEPT !.msg = none]
             sent(y) == IF IsFrameCmd(p.cmd) THEN << <<"send", 0, OnBus(y)>> >> ELSE <<>>
             answer == << <<"reply", Reply(p.cmd)>> >>
             x == sent(m) \o answer
  <2>1. SlShape(q) /\ q.state = "HEADER" /\ q.cmd = "none" /\ q.col = p.col
    <3>1. SlShape(q1) /\ q1.state = "HEADER" /\ q1.col = p.col
      BY SlSet_state DEF SlAlike
    <3>2. SlShape(q2) /\ q2.state = "HEADER" /\ q2.cmd = "none" /\ q2.col = p.col
      <4> HIDE DEF q1
      <4> QED
        BY <3>1, SlSet_cmd
    <3> HIDE DEF q2, none
    <3>3. QED
      BY <3>2, SlSet_msg
  <2>2. \A z, y : SlEnd(Res(p, y, z), b) = Res(q, y, (z \o sent(y)) \o answer)
    BY <1>3 DEF SlEnd, Res
  <2>3. IsASeq(sent(m)) /\ IsASeq(answer) /\ sent(m) = sent(n)
    BY SmallSeqs DEF SlAlike
  <2>4. p.col \notin {"DLC", "DATA"} /\ HasShape(m) /\ HasShape(n)
    BY DEF SlAlike
  <2> HIDE DEF q, sent, answer
  <2>5. SlAlike(q, m, n)
    BY <2>1, <2>4 DEF SlAlike
  <2>6. IsASeq(x) /\ \A z : IsASeq(z) => (z \o sent(m)) \o answer = z \o x
    BY <2>3, SeqsAssociate, SeqsJoin
  <2>7. SlMove(p, m, n, b, q, m, n, x)
    <3> HIDE DEF x
    <3>1. \A z : IsASeq(z) => SlByte(Res(p, m, z), b) = Res(q, m, z \o x)
      BY <1>1, <2>2, <2>6
    <3>2. \A z : SlByte(Res(p, n, z), b) = Res(q, n, (z \o sent(m)) \o answer)
      BY <1>1, <2>2, <2>3
    <3>3. \A z : IsASeq(z) => SlByte(Res(p, n, z), b) = Res(q, n, z \o x)
      BY <2>6, <3>2
    <3>4. QED
      BY <2>5, <2>6, <3>1, <3>3 DEF SlMove
  <2>8. QED
    BY <2>7, SlMovesBy
<1>4. QED
  BY <1>2, <1>3

(* Every character.                                                         *)
LEMMA SlByteMoves ==
  ASSUME NEW p, NEW m, NEW n, NEW b, SlAlike(p, m, n)
  PROVE  SlMoves(p, m, n, b)
<1>1. p.state \in {"HEADER", "BODY", "END"}
  BY DEF SlAlike
<1>2. QED
  BY <1>1, SlHeaderMoves, SlWordMoves, SlCollectMoves, SlEndMoves

GvShape(p) == p = [state |-> p.state, step |-> p.step, acc |-> p.acc, pend |-> p.pend]

-----------------------------------------------------------------------------
(* The same of GVRET: from the fourth byte of a frame on the identifier is  *)
(* the same, from the sixth on all of it.                                   *)
GvAlike(p, m, n) ==
  /\ GvShape(p) /\ HasShape(m) /\ HasShape(n)
  /\ p.state = "BUILD" =>
       /\ p.step \in Nat
       /\ p.step >= 4 => m.id = n.id /\ m.extd = n.extd
       /\ p.step >= 6 => m.dlc = n.dlc /\ m.data = n.data

GvMove(p, m, n, b, p2, m2, n2, x) ==
  /\ GvAlike(p2, m2, n2) /\ IsASeq(x)
  /\ \A z : IsASeq(z) => /\ GvByte(Res(p, m, z), b) = Res(p2, m2, z \o x)
                         /\ GvByte(Res(p, n, z), b) = Res(p2, n2, z \o x)

GvMoves(p, m, n, b) == \E p2, m2, n2, x : GvMove(p, m, n, b, p2, m2, n2, x)

(* How a move is shown.                                                     *)
LEMMA GvMovesBy ==
  ASSUME NEW p, NEW m, NEW n, NEW b, NEW p2, NEW m2, NEW n2, NEW x,
         GvMove(p, m, n, b, p2, m2, n2, x)
  PROVE  GvMoves(p, m, n, b)
BY DEF GvMoves

(* A byte that leaves tx_msg alone.                                         *)
LEMMA GvQuiet ==
  ASSUME NEW p, NEW m, NEW n, NEW b, HasShape(m), HasShape(n),
         NEW q, GvShape(q), q.state # "BUILD" \/ q.step = 0, NEW x, IsASeq(x),
         \A z, y : IsASeq(z) => GvByte(Res(p, y, z), b) = Res(q, y, z \o x)
  PROVE  GvMoves(p, m, n, b)
<1>1. GvAlike(q, m, n)
  BY DEF GvAlike
<1>2. GvMove(p, m, n, b, q, m, n, x)
  BY <1>1 DEF GvMove
<1>3. QED
  BY <1>2, GvMovesBy

(* A byte that leaves tx_msg alone and calls nothing.                       *)
LEMMA GvSilent ==
  ASSUME NEW p, NEW m, NEW n, NEW b, HasShape(m), HasShape(n),
         NEW q, GvShape(q), q.state # "BUILD" \/ q.step = 0,
         \A z, y : GvByte(Res(p, y, z), b) = Res(q, y, z)
  PROVE  GvMoves(p, m, n, b)
<1>1. IsASeq(<<>>) /\ \A z, y : IsASeq(z) => GvByte(Res(p, y, z), b) = Res(q, y, z \o <<>>)
  BY SmallSeqs
<1>2. QED
  BY <1>1, GvQuiet

(* The clean parser.                                                        *)
LEMMA GvCleanIs == GvShape(GvClean) /\ GvClean.state = "IDLE"
BY DEF GvShape, GvClean

(* One byte further in a command.                                           *)
GvOn(p, b) == [p EXCEPT !.step = @ + 1, !.acc = Append(@, b)]

(* It touches the step and the bytes only.                                  *)
LEMMA GvOnIs ==
  ASSUME NEW p, GvShape(p), NEW b
  PROVE  /\ GvShape(GvOn(p, b)) /\ GvOn(p, b).state = p.state
         /\ GvOn(p, b).step = p.step + 1 /\ GvOn(p, b).acc = Append(p.acc, b)
<1> DEFINE s == p.state
           t == p.step
           a == p.acc
           d == p.pend
           q == [state |-> s, step |-> t + 1, acc |-> Append(a, b), pend |-> d]
<1>1. p = [state |-> s, step |-> t, acc |-> a, pend |-> d]
  BY DEF GvShape
<1> HIDE DEF s, t, a, d
<1>2. GvOn(p, b) = q
  <2> DEFINE half == [p EXCEPT !.step = t + 1]
  <2>1. half = [state |-> s, step |-> t + 1, acc |-> a, pend |-> d]
    BY <1>1
  <2>2. p.step = t /\ p.acc = a
    BY <1>1
  <2>3. GvOn(p, b) = [half EXCEPT !.acc = Append(a, b)]
    BY <2>2 DEF GvOn
  <2> HIDE DEF half
  <2>4. QED
    BY <2>1, <2>3
<1>3. GvShape(q) /\ q.state = s /\ q.step = t + 1 /\ q.acc = Append(a, b)
  BY DEF GvShape
<1> HIDE DEF q
<1>4. QED
  BY <1>2, <1>3 DEF s, t, a

(* Setting the state leaves the other fields.                               *)
LEMMA GvSet_state ==
  ASSUME NEW p, GvShape(p), NEW v, NEW q, q = [p EXCEPT !.state = v]
  PROVE  GvShape(q) /\ q.state = v
<1> DEFINE s == p.state
           t == p.step
           a == p.acc
           d == p.pend
<1>1. p = [state |-> s, step |-> t, acc |-> a, pend |-> d]
  BY DEF GvShape
<1> HIDE DEF s, t, a, d
<1>2. q = [state |-> v, step |-> t, acc |-> a, pend |-> d]
  BY <1>1
<1>3. QED
  BY <1>2 DEF GvShape

(* A command begins.                                                        *)
GvGo(p, v) == [p EXCEPT !.state = v, !.step = 0, !.acc = <<>>]
GvSync(p) == [p EXCEPT !.state = "SYNC", !.step = 0, !.pend = <<1>>]

(* What the beginning of a command sets.                                    *)
LEMMA GvGoIs ==
  ASSUME NEW p, GvShape(p), NEW v
  PROVE  /\ GvShape(GvGo(p, v)) /\ GvGo(p, v).state = v /\ GvGo(p, v).step = 0
         /\ GvShape(GvSync(p)) /\ GvSync(p).state = "SYNC"
<1> DEFINE s == p.state
           t == p.step
           a == p.acc
           d == p.pend
           q == [state |-> v, step |-> 0, acc |-> <<>>, pend |-> d]
           y == [state |-> "SYNC", step |-> 0, acc |-> a, pend |-> <<1>>]
<1>1. p = [state |-> s, step |-> t, acc |-> a, pend |-> d]
  BY DEF GvShape
<1> HIDE DEF s, t, a, d
<1>2. GvGo(p, v) = q
  <2> DEFINE h1 == [p EXCEPT !.state = v]
             h2 == [h1 EXCEPT !.step = 0]
  <2>1. GvGo(p, v) = [h2 EXCEPT !.acc = <<>>]
    BY DEF GvGo
  <2>2. h1 = [state |-> v, step |-> t, acc |-> a, pend |-> d]
    BY <1>1
  <2> HIDE DEF h1
  <2>3. h2 = [state |-> v, step |-> 0, acc |-> a, pend |-> d]
    BY <2>2
  <2> HIDE DEF h2
  <2>4. QED
    BY <2>1, <2>3
<1>3. GvSync(p) = y
  <2> DEFINE h1 == [p EXCEPT !.state = "SYNC"]
             h2 == [h1 EXCEPT !.step = 0]
  <2>1. GvSync(p) = [h2 EXCEPT !.pend = <<1>>]
    BY DEF GvSync
  <2>2. h1 = [state |-> "SYNC", step |-> t, acc |-> a, pend |-> d]
    BY <1>1
  <2> HIDE DEF h1
  <2>3. h2 = [state |-> "SYNC", step |-> 0, acc |-> a, pend |-> d]
    BY <2>2
  <2> HIDE DEF h2
  <2>4. QED
    BY <2>1, <2>3
<1>4. GvShape(q) /\ q.state = v /\ q.step = 0 /\ GvShape(y) /\ y.state = "SYNC"
  BY DEF GvShape
<1> HIDE DEF q, y
<1>5. QED
  BY <1>2, <1>3, <1>4

(* The byte that names the command.                                         *)
LEMMA GvCommandMoves ==
  ASSUME NEW p, NEW m, NEW n, NEW b, GvAlike(p, m, n), p.state = "COMMAND"
  PROVE  GvMoves(p, m, n, b)
<1>1. \A z, y : GvByte(Res(p, y, z), b) = GvCommand(Res(p, y, z), b)
  BY DEF GvByte, Res
<1>2. GvShape(p) /\ HasShape(m) /\ HasShape(n)
  BY DEF GvAlike
<1>3. ASSUME NEW v, v # "BUILD" \/ b = 0, \A z, y : GvCommand(Res(p, y, z), b) = Res(GvGo(p, v), y, z)
      PROVE  GvMoves(p, m, n, b)
  <2>1. GvShape(GvGo(p, v)) /\ GvGo(p, v).step = 0
    BY <1>2, GvGoIs
  <2>2. QED
    BY <1>1, <1>2, <1>3, <2>1, GvSilent
<1>4. CASE b = 0
  <2>1. \A z, y : GvCommand(Res(p, y, z), b) = Res(GvGo(p, "BUILD"), y, z)
    <3>1. \A r : GvCommand(r, b) = Res(GvGo(r.p, "BUILD"), r.msg, r.did)
      <4>1. b # 1 /\ b \notin AnsweredAtOnce /\ b \notin OneByte
        BY <1>4 DEF AnsweredAtOnce, OneByte
      <4>2. QED
        BY <1>4, <4>1 DEF GvCommand, GvGo
    <3>2. QED
      BY <3>1, ResParts
  <2>2. QED
    BY <1>3, <1>4, <2>1
<1>5. CASE b = 1
  <2>1. \A z, y : GvCommand(Res(p, y, z), b) = Res(GvSync(p), y, z)
    <3>1. \A r : GvCommand(r, b) = Res(GvSync(r.p), r.msg, r.did)
      <4>1. b # 0 /\ b \notin AnsweredAtOnce /\ b \notin OneByte
        BY <1>5 DEF AnsweredAtOnce, OneByte
      <4>2. QED
        BY <1>5, <4>1 DEF GvCommand, GvSync
    <3>2. QED
      BY <3>1, ResParts
  <2>2. GvShape(GvSync(p)) /\ GvSync(p).state # "BUILD"
    BY <1>2, GvGoIs
  <2>3. QED
    BY <1>1, <1>2, <2>1, <2>2, GvSilent
<1>6. CASE b \in AnsweredAtOnce
  <2> DEFINE call == <<"reply", Append(p.pend, b)>>
  <2>1. b # 0 /\ b # 1 /\ b # 5 /\ b # 11 /\ b # 14 /\ b \notin OneByte
    BY <1>6 DEF AnsweredAtOnce, OneByte
  <2>2. \A z, y : GvCommand(Res(p, y, z), b) = Res(GvClean, y, Append(z, call))
    <3>1. \A r : GvCommand(r, b) = Res(GvClean, r.msg, Append(r.did, <<"reply", Append(r.p.pend, b)>>))
      BY <1>6, <2>1 DEF GvCommand
    <3>2. QED
      BY <3>1, ResParts
  <2> HIDE DEF call
  <2> DEFINE x == <<call>>
  <2>3. IsASeq(x) /\ \A z : IsASeq(z) => Append(z, call) = z \o x
    BY SmallSeqs
  <2> HIDE DEF x
  <2>4. \A z, y : IsASeq(z) => GvByte(Res(p, y, z), b) = Res(GvClean, y, z \o x)
    BY <1>1, <2>2, <2>3
  <2>5. QED
    BY <1>2, <2>3, <2>4, GvCleanIs, GvQuiet
<1>7. CASE b \in OneByte
  <2>1. b # 0 /\ b # 1 /\ b # 5 /\ b # 11 /\ b # 14 /\ b \notin AnsweredAtOnce
    BY <1>7 DEF AnsweredAtOnce, OneByte
  <2>2. \A z, y : GvCommand(Res(p, y, z), b) = Res(GvGo(p, "ONE"), y, z)
    <3>1. \A r : GvCommand(r, b) = Res(GvGo(r.p, "ONE"), r.msg, r.did)
      BY <1>7, <2>1 DEF GvCommand, GvGo
    <3>2. QED
      BY <3>1, ResParts
  <2>3. QED
    BY <1>3, <2>2
<1>8. CASE b \notin {0, 1} \cup AnsweredAtOnce \cup OneByte
  <2>1. CASE b = 5
    <3>1. \A z, y : GvCommand(Res(p, y, z), b) = Res(GvGo(p, "SETUP"), y, z)
      BY <1>8, <2>1 DEF GvCommand, GvGo, Res
    <3>2. QED
      BY <1>3, <3>1
  <2>2. CASE b = 11
    <3>1. \A z, y : GvCommand(Res(p, y, z), b) = Res(GvGo(p, "ECHO"), y, z)
      BY <1>8, <2>2 DEF GvCommand, GvGo, Res
    <3>2. QED
      BY <1>3, <3>1
  <2>3. CASE b = 14
    <3>1. \A z, y : GvCommand(Res(p, y, z), b) = Res(GvGo(p, "EXT"), y, z)
      BY <1>8, <2>3 DEF GvCommand, GvGo, Res
    <3>2. QED
      BY <1>3, <3>1
  <2>4. CASE b \notin {5, 11, 14}
    <3>1. \A z, y : GvCommand(Res(p, y, z), b) = Res(p, y, z)
      BY <1>8, <2>4 DEF GvCommand
    <3>2. p.state # "BUILD"
      OBVIOUS
    <3>3. QED
      BY <1>1, <1>2, <3>1, <3>2, GvSilent
  <2>5. QED
    BY <2>1, <2>2, <2>3, <2>4
<1>9. QED
  BY <1>4, <1>5, <1>6, <1>7, <1>8

(* Configuring a bus is a sequence of calls.                                *)
LEMMA SetupSeq ==
  ASSUME NEW bus, NEW word
  PROVE  IsASeq(SetupBus(bus, word))
<1> DEFINE flags == word[4] \div 32
           extended == flags >= 4
           on == IF extended THEN flags \in {6, 7} ELSE word # <<0, 0, 0, 0>>
           a == <<"disable", bus>>
           b == <<"bitrate", bus, SubSeq(word, 1, 3)>>
           c == <<"silent", bus, IF extended THEN flags \in {5, 7} ELSE "kept">>
           d == <<"enable", bus>>
           s == <<a, b, c>>
           t == IF on THEN <<d>> ELSE <<>>
<1>1. SetupBus(bus, word) = s \o t
  BY DEF SetupBus
<1>2. IsASeq(s)
  <2> HIDE DEF a, b, c
  <2>1. <<a, b, c>> \in Seq({a, b, c})
    OBVIOUS
  <2>2. QED
    BY <2>1 DEF IsASeq
<1>3. IsASeq(t)
  <2> HIDE DEF d, on
  <2>1. QED
    BY SmallSeqs
<1> HIDE DEF s, t
<1>4. QED
  BY <1>1, <1>2, <1>3, SeqsJoin

LastWord(p) == IF p.step < 4 THEN <<>> ELSE SubSeq(p.acc, p.step - 3, p.step)

(* The bytes of SETUP_CANBUS.                                               *)
LEMMA GvSetupMoves ==
  ASSUME NEW p, NEW m, NEW n, NEW b, GvAlike(p, m, n), p.state = "SETUP"
  PROVE  GvMoves(p, m, n, b)
<1> DEFINE q == GvOn(p, b)
           word == LastWord(q)
<1>1. \A z, y : GvByte(Res(p, y, z), b) = GvSetup(Res(p, y, z), b)
  BY DEF GvByte, Res
<1>2. GvShape(p) /\ HasShape(m) /\ HasShape(n)
  BY DEF GvAlike
<1>3. GvShape(q) /\ q.state # "BUILD"
  BY <1>2, GvOnIs
<1>4. CASE p.step = 3
  <2> DEFINE x == SetupBus(0, word)
  <2>1. \A z, y : GvSetup(Res(p, y, z), b) = Res(q, y, z \o x)
    <3>1. \A r : r.p.step = 3 => GvSetup(r, b) = Res(GvOn(r.p, b), r.msg, r.did \o SetupBus(0, LastWord(GvOn(r.p, b))))
      BY DEF GvSetup, GvOn, LastWord
    <3>2. QED
      BY <1>4, <3>1, ResParts
  <2>2. IsASeq(x)
    BY SetupSeq
  <2> HIDE DEF q, x
  <2>3. QED
    BY <1>1, <1>2, <1>3, <2>1, <2>2, GvQuiet
<1>5. CASE p.step = 7
  <2> DEFINE x == IF BusCount > 1 THEN SetupBus(1, word) ELSE <<>>
  <2>1. \A z, y : GvSetup(Res(p, y, z), b) = Res(GvClean, y, z \o x)
    <3>1. \A r : r.p.step = 7 =>
                    GvSetup(r, b) = Res(GvClean, r.msg, r.did \o (IF BusCount > 1 THEN SetupBus(1, LastWord(GvOn(r.p, b))) ELSE <<>>))
      BY DEF GvSetup, GvOn, LastWord
    <3>2. QED
      BY <1>5, <3>1, ResParts
  <2>2. IsASeq(x)
    BY SetupSeq, SmallSeqs
  <2> HIDE DEF q, x
  <2>3. QED
    BY <1>1, <1>2, GvCleanIs, <2>1, <2>2, GvQuiet
<1>6. CASE p.step # 3 /\ p.step # 7
  <2>1. \A z, y : GvSetup(Res(p, y, z), b) = Res(q, y, z)
    BY <1>6 DEF GvSetup, GvOn, Res
  <2> HIDE DEF q
  <2>2. QED
    BY <1>1, <1>2, <1>3, <2>1, GvSilent
<1>7. QED
  BY <1>4, <1>5, <1>6

(* The bytes that are read without effect.                                  *)
LEMMA GvSkipMoves ==
  ASSUME NEW p, NEW m, NEW n, NEW b, GvAlike(p, m, n),
         p.state \notin {"IDLE", "COMMAND", "BUILD", "SYNC", "ONE", "SETUP"}
  PROVE  GvMoves(p, m, n, b)
<1> DEFINE q == GvOn(p, b)
           len == IF q.acc[6] % 16 > 8 THEN 8 ELSE q.acc[6] % 16
           over == IF p.state = "EXT" THEN p.step = 11
                                      ELSE p.step >= 6 /\ p.step >= len + 6
           to == IF over THEN GvClean ELSE q
<1>1. \A z, y : GvByte(Res(p, y, z), b) = GvSkip(Res(p, y, z), b)
  BY DEF GvByte, Res
<1>2. GvShape(p) /\ HasShape(m) /\ HasShape(n)
  BY DEF GvAlike
<1>3. GvShape(q) /\ q.state # "BUILD"
  BY <1>2, GvOnIs
<1>4. \A z, y : GvSkip(Res(p, y, z), b) = Res(to, y, z)
  BY DEF GvSkip, GvOn, Res
<1>5. GvShape(to) /\ to.state # "BUILD"
  <2> HIDE DEF q, over
  <2>1. QED
    BY <1>3, GvCleanIs
<1> HIDE DEF to
<1>6. QED
  BY <1>1, <1>2, <1>4, <1>5, GvSilent

(* What one byte makes of the frame.                                        *)
Built(m, step, acc, b) ==
  CASE step < 3 -> [m EXCEPT !.id = acc]
    [] step = 3 -> [m EXCEPT !.id = acc, !.extd = b >= 128]
    [] step = 5 -> [m EXCEPT !.dlc = IF b % 16 > 8 THEN 8 ELSE b % 16, !.data = <<>>]
    [] step > 5 /\ step < m.dlc + 6 -> [m EXCEPT !.data = Append(@, b)]
    [] OTHER -> m

(* One field or two of a frame are set.                                     *)
Identified(m, v, w) == [m EXCEPT !.id = v, !.extd = w]
Filled(m, v, w) == [m EXCEPT !.dlc = v, !.data = w]

(* Setting some fields of a frame leaves the others.                        *)
LEMMA IdSet ==
  ASSUME NEW m, HasShape(m), NEW v, NEW c, c = [m EXCEPT !.id = v]
  PROVE  HasShape(c)
<1> DEFINE i == m.id
           e == m.extd
           r == m.rtr
           l == m.dlc
           x == m.data
<1>1. m = [id |-> i, extd |-> e, rtr |-> r, dlc |-> l, data |-> x]
  BY DEF HasShape
<1>2. m.id = i /\ m.extd = e /\ m.dlc = l /\ m.data = x
  OBVIOUS
<1> HIDE DEF i, e, r, l, x
<1>3. c = [id |-> v, extd |-> e, rtr |-> r, dlc |-> l, data |-> x]
  BY <1>1
<1>4. QED
  BY <1>2, <1>3 DEF HasShape

(* The identifier and its kind.                                             *)
LEMMA IdExtdSet ==
  ASSUME NEW m, HasShape(m), NEW v, NEW w, NEW c, c = Identified(m, v, w)
  PROVE  HasShape(c) /\ c.id = v /\ c.extd = w
<1> DEFINE i == m.id
           e == m.extd
           r == m.rtr
           l == m.dlc
           x == m.data
<1>1. m = [id |-> i, extd |-> e, rtr |-> r, dlc |-> l, data |-> x]
  BY DEF HasShape
<1>2. m.id = i /\ m.extd = e /\ m.dlc = l /\ m.data = x
  OBVIOUS
<1> HIDE DEF i, e, r, l, x
<1>3. c = [id |-> v, extd |-> w, rtr |-> r, dlc |-> l, data |-> x]
  <2> DEFINE h == [m EXCEPT !.id = v]
  <2>1. c = [h EXCEPT !.extd = w]
    BY DEF Identified
  <2>2. h = [id |-> v, extd |-> e, rtr |-> r, dlc |-> l, data |-> x]
    BY <1>1
  <2> HIDE DEF h
  <2>3. QED
    BY <2>1, <2>2
<1>4. QED
  BY <1>2, <1>3 DEF HasShape

(* The length and the data.                                                 *)
LEMMA LengthDataSet ==
  ASSUME NEW m, HasShape(m), NEW v, NEW w, NEW c, c = Filled(m, v, w)
  PROVE  HasShape(c) /\ c.id = m.id /\ c.extd = m.extd /\ c.dlc = v /\ c.data = w
<1> DEFINE i == m.id
           e == m.extd
           r == m.rtr
           l == m.dlc
           x == m.data
<1>1. m = [id |-> i, extd |-> e, rtr |-> r, dlc |-> l, data |-> x]
  BY DEF HasShape
<1>2. m.id = i /\ m.extd = e /\ m.dlc = l /\ m.data = x
  OBVIOUS
<1> HIDE DEF i, e, r, l, x
<1>3. c = [id |-> i, extd |-> e, rtr |-> r, dlc |-> v, data |-> w]
  <2> DEFINE h == [m EXCEPT !.dlc = v]
  <2>1. c = [h EXCEPT !.data = w]
    BY DEF Filled
  <2>2. h = [id |-> i, extd |-> e, rtr |-> r, dlc |-> v, data |-> x]
    BY <1>1
  <2> HIDE DEF h
  <2>3. QED
    BY <2>1, <2>2
<1>4. QED
  BY <1>2, <1>3 DEF HasShape

(* The data.                                                                *)
LEMMA DataSet ==
  ASSUME NEW m, HasShape(m), NEW v, NEW c, c = [m EXCEPT !.data = v]
  PROVE  HasShape(c) /\ c.id = m.id /\ c.extd = m.extd /\ c.dlc = m.dlc /\ c.data = v
<1> DEFINE i == m.id
           e == m.extd
           r == m.rtr
           l == m.dlc
           x == m.data
<1>1. m = [id |-> i, extd |-> e, rtr |-> r, dlc |-> l, data |-> x]
  BY DEF HasShape
<1>2. m.id = i /\ m.extd = e /\ m.dlc = l /\ m.data = x
  OBVIOUS
<1> HIDE DEF i, e, r, l, x
<1>3. c = [id |-> i, extd |-> e, rtr |-> r, dlc |-> l, data |-> v]
  BY <1>1
<1>4. QED
  BY <1>2, <1>3 DEF HasShape

(* The remote flag.                                                         *)
LEMMA RtrSet ==
  ASSUME NEW m, HasShape(m), NEW v, NEW c, c = [m EXCEPT !.rtr = v]
  PROVE  c = [id |-> m.id, extd |-> m.extd, rtr |-> v, dlc |-> m.dlc, data |-> m.data]
<1> DEFINE i == m.id
           e == m.extd
           r == m.rtr
           l == m.dlc
           x == m.data
<1>1. m = [id |-> i, extd |-> e, rtr |-> r, dlc |-> l, data |-> x]
  BY DEF HasShape
<1>2. m.id = i /\ m.extd = e /\ m.dlc = l /\ m.data = x
  OBVIOUS
<1> HIDE DEF i, e, r, l, x
<1>3. c = [id |-> i, extd |-> e, rtr |-> v, dlc |-> l, data |-> x]
  BY <1>1
<1>4. QED
  BY <1>2, <1>3 DEF HasShape

(* Two frames that are built from the same bytes.                           *)
LEMMA BuiltAlike ==
  ASSUME NEW m, NEW n, HasShape(m), HasShape(n), NEW step \in Nat, NEW acc, NEW b,
         step >= 4 => m.id = n.id /\ m.extd = n.extd,
         step >= 6 => m.dlc = n.dlc /\ m.data = n.data
  PROVE  /\ HasShape(Built(m, step, acc, b)) /\ HasShape(Built(n, step, acc, b))
         /\ step >= 3 => /\ Built(m, step, acc, b).id = Built(n, step, acc, b).id
                         /\ Built(m, step, acc, b).extd = Built(n, step, acc, b).extd
         /\ step >= 5 => /\ Built(m, step, acc, b).dlc = Built(n, step, acc, b).dlc
                         /\ Built(m, step, acc, b).data = Built(n, step, acc, b).data
<1> DEFINE a == Built(m, step, acc, b)
           c == Built(n, step, acc, b)
<1>1. CASE step < 3
  <2>1. a = [m EXCEPT !.id = acc] /\ c = [n EXCEPT !.id = acc]
    BY <1>1 DEF Built
  <2> HIDE DEF a, c
  <2>2. HasShape(a) /\ HasShape(c)
    BY <2>1, IdSet
  <2>3. QED
    BY <1>1, <2>2 DEF a, c
<1>2. CASE step = 3
  <2> DEFINE w == b >= 128
  <2>1. a = [m EXCEPT !.id = acc, !.extd = w] /\ c = [n EXCEPT !.id = acc, !.extd = w]
    BY <1>2 DEF Built
  <2> HIDE DEF a, c, w
  <2>2. a = Identified(m, acc, w) /\ c = Identified(n, acc, w)
    BY <2>1 DEF Identified
  <2>3. HasShape(a) /\ HasShape(c) /\ a.id = acc /\ c.id = acc /\ a.extd = w /\ c.extd = w
    BY <2>2, IdExtdSet
  <2>4. QED
    BY <1>2, <2>3 DEF a, c
<1>3. CASE step = 4
  <2>1. a = m /\ c = n
    BY <1>3 DEF Built
  <2>2. QED
    BY <1>3, <2>1
<1>4. CASE step = 5
  <2> DEFINE v == IF b % 16 > 8 THEN 8 ELSE b % 16
             w == <<>>
  <2>1. a = [m EXCEPT !.dlc = v, !.data = w] /\ c = [n EXCEPT !.dlc = v, !.data = w]
    BY <1>4 DEF Built
  <2> HIDE DEF a, c, v, w
  <2>2. a = Filled(m, v, w) /\ c = Filled(n, v, w)
    BY <2>1 DEF Filled
  <2>3. /\ HasShape(a) /\ a.id = m.id /\ a.extd = m.extd /\ a.dlc = v /\ a.data = w
        /\ HasShape(c) /\ c.id = n.id /\ c.extd = n.extd /\ c.dlc = v /\ c.data = w
    BY <2>2, LengthDataSet
  <2>4. QED
    BY <1>4, <2>3 DEF a, c
<1>5. CASE step > 5 /\ step < m.dlc + 6
  <2> DEFINE v == Append(m.data, b)
  <2>1. m.dlc = n.dlc /\ m.data = n.data /\ m.id = n.id /\ m.extd = n.extd
    BY <1>5
  <2>2. a = [m EXCEPT !.data = v] /\ c = [n EXCEPT !.data = v]
    BY <1>5, <2>1 DEF Built
  <2> HIDE DEF a, c, v
  <2>3. /\ HasShape(a) /\ a.id = m.id /\ a.extd = m.extd /\ a.dlc = m.dlc /\ a.data = v
        /\ HasShape(c) /\ c.id = n.id /\ c.extd = n.extd /\ c.dlc = n.dlc /\ c.data = v
    BY <2>2, DataSet
  <2>4. QED
    BY <2>1, <2>3 DEF a, c
<1>6. CASE step > 5 /\ ~(step < m.dlc + 6)
  <2>1. m.dlc = n.dlc /\ m.data = n.data /\ m.id = n.id /\ m.extd = n.extd
    BY <1>6
  <2>2. a = m /\ c = n
    BY <1>6, <2>1 DEF Built
  <2>3. QED
    BY <2>1, <2>2
<1>7. QED
  BY <1>1, <1>2, <1>3, <1>4, <1>5, <1>6

(* The bytes of BUILD_CAN_FRAME.                                            *)
LEMMA GvBuildMoves ==
  ASSUME NEW p, NEW m, NEW n, NEW b, GvAlike(p, m, n), p.state = "BUILD"
  PROVE  GvMoves(p, m, n, b)
<1> DEFINE q == GvOn(p, b)
           a == Built(m, p.step, q.acc, b)
           c == Built(n, p.step, q.acc, b)
           Over(y) == ~(p.step < 6 \/ p.step < y.dlc + 6)
           sentA == [m EXCEPT !.rtr = FALSE]
           sentC == [n EXCEPT !.rtr = FALSE]
           bus == q.acc[5] % 4
           call == <<"send", bus, sentA>>
           x == IF bus < BusCount THEN <<call>> ELSE <<>>
<1>1. \A z, y : GvByte(Res(p, y, z), b) = GvBuild(Res(p, y, z), b)
  BY DEF GvByte, Res
<1>2. GvShape(p) /\ HasShape(m) /\ HasShape(n) /\ p.step \in Nat
      /\ (p.step >= 4 => m.id = n.id /\ m.extd = n.extd)
      /\ (p.step >= 6 => m.dlc = n.dlc /\ m.data = n.data)
  BY DEF GvAlike
<1>3. GvShape(q) /\ q.state = "BUILD" /\ q.step = p.step + 1
  BY <1>2, GvOnIs
<1>4. /\ HasShape(a) /\ HasShape(c)
      /\ p.step >= 3 => a.id = c.id /\ a.extd = c.extd
      /\ p.step >= 5 => a.dlc = c.dlc /\ a.data = c.data
  BY <1>2, BuiltAlike
<1>5. \A r : r.p.step < 6 \/ r.p.step < r.msg.dlc + 6 =>
        GvBuild(r, b) = Res(GvOn(r.p, b), Built(r.msg, r.p.step, GvOn(r.p, b).acc, b), r.did)
  BY DEF GvBuild, GvOn, Built
<1>6. \A r : r.p.step \in Nat /\ ~(r.p.step < 6 \/ r.p.step < r.msg.dlc + 6) =>
        GvBuild(r, b) = Res(GvClean, [r.msg EXCEPT !.rtr = FALSE],
                            IF GvOn(r.p, b).acc[5] % 4 < BusCount
                              THEN Append(r.did, <<"send", GvOn(r.p, b).acc[5] % 4, [r.msg EXCEPT !.rtr = FALSE]>>)
                              ELSE r.did)
  BY DEF GvBuild, GvOn
<1>7. CASE ~Over(m)
  <2>1. ~Over(n)
    BY <1>2, <1>7
  <2>2. \A z : GvBuild(Res(p, m, z), b) = Res(q, a, z) /\ GvBuild(Res(p, n, z), b) = Res(q, c, z)
    BY <1>5, <1>7, <2>1, ResParts
  <2> HIDE DEF q, a, c
  <2>3. GvAlike(q, a, c)
    BY <1>2, <1>3, <1>4 DEF GvAlike
  <2>4. GvMove(p, m, n, b, q, a, c, <<>>)
    BY <1>1, <2>2, <2>3, SmallSeqs DEF GvMove
  <2>5. QED
    BY <2>4, GvMovesBy
<1>8. CASE Over(m)
  <2>1. Over(n) /\ p.step >= 6
    BY <1>2, <1>8
  <2>2. sentA = sentC /\ HasShape(sentA)
    <3>1. m.id = n.id /\ m.extd = n.extd /\ m.dlc = n.dlc /\ m.data = n.data
      BY <1>2, <2>1
    <3> DEFINE no == FALSE
    <3> HIDE DEF no
    <3>2. /\ [m EXCEPT !.rtr = no] = [id |-> m.id, extd |-> m.extd, rtr |-> no, dlc |-> m.dlc, data |-> m.data]
          /\ [n EXCEPT !.rtr = no] = [id |-> n.id, extd |-> n.extd, rtr |-> no, dlc |-> n.dlc, data |-> n.data]
      BY <1>2, RtrSet
    <3>3. [m EXCEPT !.rtr = no] = [n EXCEPT !.rtr = no] /\ HasShape([m EXCEPT !.rtr = no])
      BY <3>1, <3>2 DEF HasShape
    <3>4. QED
      BY <3>3 DEF no
  <2>3. \A z : /\ GvBuild(Res(p, m, z), b) = Res(GvClean, sentA, IF bus < BusCount THEN Append(z, call) ELSE z)
               /\ GvBuild(Res(p, n, z), b) = Res(GvClean, sentA, IF bus < BusCount THEN Append(z, call) ELSE z)
    <3>1. \A z : GvBuild(Res(p, m, z), b) = Res(GvClean, sentA, IF bus < BusCount THEN Append(z, call) ELSE z)
      BY <1>2, <1>6, <1>8, ResParts
    <3>2. \A z : GvBuild(Res(p, n, z), b)
                   = Res(GvClean, sentC, IF bus < BusCount THEN Append(z, <<"send", bus, sentC>>) ELSE z)
      BY <1>2, <1>6, <2>1, ResParts
    <3> HIDE DEF sentA, sentC, bus
    <3>3. QED
      BY <2>2, <3>1, <3>2
  <2> HIDE DEF call, sentA, sentC, bus
  <2>4. IsASeq(x) /\ \A z : IsASeq(z) => (IF bus < BusCount THEN Append(z, call) ELSE z) = z \o x
    BY SmallSeqs
  <2> HIDE DEF x
  <2>5. GvAlike(GvClean, sentA, sentA)
    BY <2>2, GvCleanIs DEF GvAlike
  <2>6. GvMove(p, m, n, b, GvClean, sentA, sentA, x)
    <3>1. \A z : IsASeq(z) => GvByte(Res(p, m, z), b) = Res(GvClean, sentA, z \o x)
      BY <1>1, <2>3, <2>4
    <3>2. \A z : IsASeq(z) => GvByte(Res(p, n, z), b) = Res(GvClean, sentA, z \o x)
      BY <1>1, <2>3, <2>4
    <3>3. QED
      BY <2>4, <2>5, <3>1, <3>2 DEF GvMove
  <2>7. QED
    BY <2>6, GvMovesBy
<1>9. QED
  BY <1>7, <1>8

(* Every byte.                                                              *)
LEMMA GvByteMoves ==
  ASSUME NEW p, NEW m, NEW n, NEW b, GvAlike(p, m, n)
  PROVE  GvMoves(p, m, n, b)
<1>1. GvShape(p) /\ HasShape(m) /\ HasShape(n)
  BY DEF GvAlike
<1>2. CASE p.state = "IDLE"
  <2> DEFINE next == [p EXCEPT !.state = "COMMAND"]
             q == IF b = 241 THEN next ELSE p
  <2>1. \A z, y : GvByte(Res(p, y, z), b) = Res(q, y, z)
    BY <1>2 DEF GvByte, Res
  <2>2. GvShape(next) /\ next.state = "COMMAND"
    BY <1>1, GvSet_state
  <2> HIDE DEF next
  <2>3. GvShape(q) /\ q.state # "BUILD"
    BY <1>1, <1>2, <2>2
  <2> HIDE DEF q
  <2>4. QED
    BY <1>1, <2>1, <2>3, GvSilent
<1>3. CASE p.state = "SYNC"
  <2> DEFINE call == <<"reply", p.pend>>
             x == <<call>>
  <2>1. \A z, y : GvByte(Res(p, y, z), b) = Res(GvClean, y, Append(z, call))
    BY <1>3 DEF GvByte, Res
  <2> HIDE DEF call
  <2>2. IsASeq(x) /\ \A z : IsASeq(z) => Append(z, call) = z \o x
    BY SmallSeqs
  <2> HIDE DEF x
  <2>3. \A z, y : IsASeq(z) => GvByte(Res(p, y, z), b) = Res(GvClean, y, z \o x)
    BY <2>1, <2>2
  <2>4. QED
    BY <1>1, <2>2, <2>3, GvCleanIs, GvQuiet
<1>4. CASE p.state = "ONE"
  <2>1. \A z, y : GvByte(Res(p, y, z), b) = Res(GvClean, y, z)
    BY <1>4 DEF GvByte, Res
  <2>2. QED
    BY <1>1, <2>1, GvCleanIs, GvSilent
<1>5. QED
  BY <1>2, <1>3, <1>4, GvCommandMoves, GvBuildMoves, GvSetupMoves, GvSkipMoves

-----------------------------------------------------------------------------
(* Every run ends in what the fold computes.                                *)
LEMMA SlRunFolds ==
  ASSUME NEW S, NEW s \in Seq(S), NEW r, NEW f, RunOf(f, r, s)
  PROVE  FoldLeft(SlByte, r, s) = f[Len(s)]
<1>1. PICK g : RunOf(g, r, s) /\ FoldLeft(SlByte, r, s) = g[Len(s)]
  BY FoldHasRun
<1> DEFINE Same == {k \in Nat : k <= Len(s) => f[k] = g[k]}
<1>2. 0 \in Same
  BY <1>1 DEF RunOf
<1>3. ASSUME NEW k \in Nat, k \in Same PROVE k + 1 \in Same
  <2> SUFFICES ASSUME k + 1 <= Len(s) PROVE f[k + 1] = g[k + 1]
    OBVIOUS
  <2>1. Len(s) \in Nat
    OBVIOUS
  <2>2. f[k] = g[k] /\ k + 1 \in 1..Len(s) /\ (k + 1) - 1 = k
    BY <1>3, <2>1
  <2>3. f[k + 1] = SlByte(f[(k + 1) - 1], s[k + 1]) /\ g[k + 1] = SlByte(g[(k + 1) - 1], s[k + 1])
    BY <1>1, <2>2 DEF RunOf
  <2>4. QED
    BY <2>2, <2>3
<1> HIDE DEF Same
<1>4. \A k \in Nat : k \in Same
  BY <1>2, <1>3, SetInduction
<1>5. Len(s) \in Nat /\ Len(s) <= Len(s)
  OBVIOUS
<1>6. QED
  BY <1>1, <1>4, <1>5 DEF Same

(* A parser takes up where it stopped.                                      *)
LEMMA SlFoldJoins ==
  ASSUME NEW S, NEW s \in Seq(S), NEW t \in Seq(S), NEW r
  PROVE  FoldLeft(SlByte, r, s \o t) = FoldLeft(SlByte, FoldLeft(SlByte, r, s), t)
<1> DEFINE u == s \o t
           n == Len(s)
           d == Len(t)
<1>1. /\ u \in Seq(S) /\ Len(u) = n + d /\ n \in Nat /\ d \in Nat
      /\ \A k \in 1..n : u[k] = s[k]
      /\ \A k \in 1..d : u[n + k] = t[k]
  OBVIOUS
<1> HIDE DEF u
<1>2. PICK f : RunOf(f, r, u) /\ FoldLeft(SlByte, r, u) = f[Len(u)]
  BY <1>1, FoldHasRun
<1> DEFINE g == [k \in 0..n |-> f[k]]
           h == [k \in 0..d |-> f[n + k]]
<1>3. /\ f[0] = r
      /\ \A k \in 1..(n + d) : f[k] = SlByte(f[k - 1], u[k])
  BY <1>1, <1>2 DEF RunOf
<1> HIDE DEF n, d
<1>4. RunOf(g, r, s)
  <2>1. DOMAIN g = 0..Len(s) /\ g[0] = r
    BY <1>1, <1>3 DEF n
  <2>2. ASSUME NEW k \in 1..n PROVE g[k] = SlByte(g[k - 1], s[k])
    <3>1. k \in 1..(n + d) /\ k \in 0..n /\ k - 1 \in 0..n
      BY <1>1
    <3>2. f[k] = SlByte(f[k - 1], u[k]) /\ u[k] = s[k]
      BY <1>1, <1>3, <3>1
    <3>3. QED
      BY <3>1, <3>2
  <2> HIDE DEF g
  <2>3. QED
    BY <2>1, <2>2 DEF RunOf, n
<1>5. RunOf(h, f[n], t)
  <2>1. DOMAIN h = 0..Len(t) /\ h[0] = f[n]
    BY <1>1 DEF d
  <2>2. ASSUME NEW k \in 1..d PROVE h[k] = SlByte(h[k - 1], t[k])
    <3>1. n + k \in 1..(n + d) /\ k \in 0..d /\ k - 1 \in 0..d /\ (n + k) - 1 = n + (k - 1)
      BY <1>1
    <3>2. f[n + k] = SlByte(f[(n + k) - 1], u[n + k]) /\ u[n + k] = t[k]
      BY <1>1, <1>3, <3>1
    <3>3. QED
      BY <3>1, <3>2
  <2> HIDE DEF h
  <2>3. QED
    BY <2>1, <2>2 DEF RunOf, d
<1>6. g[n] = f[n] /\ h[d] = f[n + d]
  BY <1>1
<1> HIDE DEF g, h
<1>7. FoldLeft(SlByte, r, s) = f[n]
  BY <1>4, <1>6, SlRunFolds DEF n
<1>8. FoldLeft(SlByte, f[n], t) = f[n + d]
  BY <1>5, <1>6, SlRunFolds DEF d
<1>9. QED
  BY <1>1, <1>2, <1>7, <1>8 DEF u

(* k bytes on, whatever had been called before.                             *)
SlReads(p, m, s, k, p2, m2, x) ==
  \A z, f : IsASeq(z) /\ RunOf(f, Res(p, m, z), s) => f[k] = Res(p2, m2, z \o x)

(* The parser and the calls do not depend on what tx_msg held.              *)
LEMMA SlParseAlike ==
  ASSUME NEW S, NEW s \in Seq(S), NEW p, NEW m, NEW n, SlAlike(p, m, n)
  PROVE  \E p2, m2, n2, x :
           /\ SlAlike(p2, m2, n2) /\ IsASeq(x)
           /\ \A z : IsASeq(z) => /\ FoldLeft(SlByte, Res(p, m, z), s) = Res(p2, m2, z \o x)
                                  /\ FoldLeft(SlByte, Res(p, n, z), s) = Res(p2, n2, z \o x)
<1> DEFINE Reached(k) == \E p2, m2, n2, x :
                           /\ SlAlike(p2, m2, n2) /\ IsASeq(x)
                           /\ SlReads(p, m, s, k, p2, m2, x) /\ SlReads(p, n, s, k, p2, n2, x)
           Done == {k \in Nat : k <= Len(s) => Reached(k)}
<1>1. 0 \in Done
  <2>1. SlReads(p, m, s, 0, p, m, <<>>) /\ SlReads(p, n, s, 0, p, n, <<>>)
    BY SmallSeqs DEF SlReads, RunOf
  <2>2. IsASeq(<<>>)
    BY SmallSeqs
  <2>3. Reached(0)
    BY <2>1, <2>2
  <2>4. QED
    BY <2>3
<1>2. ASSUME NEW k \in Nat, k \in Done PROVE k + 1 \in Done
  <2> SUFFICES ASSUME k + 1 <= Len(s) PROVE Reached(k + 1)
    OBVIOUS
  <2>1. Len(s) \in Nat
    OBVIOUS
  <2>2. k <= Len(s) /\ k + 1 \in 1..Len(s) /\ (k + 1) - 1 = k
    BY <2>1
  <2>3. Reached(k)
    BY <1>2, <2>2
  <2>4. PICK p2, m2, n2, x : /\ SlAlike(p2, m2, n2) /\ IsASeq(x)
                             /\ SlReads(p, m, s, k, p2, m2, x) /\ SlReads(p, n, s, k, p2, n2, x)
    BY <2>3
  <2> DEFINE b == s[k + 1]
  <2>5. PICK p3, m3, n3, y : SlMove(p2, m2, n2, b, p3, m3, n3, y)
    BY <2>4, SlByteMoves DEF SlMoves
  <2>6. /\ SlAlike(p3, m3, n3) /\ IsASeq(y)
        /\ \A z : IsASeq(z) => /\ SlByte(Res(p2, m2, z), b) = Res(p3, m3, z \o y)
                               /\ SlByte(Res(p2, n2, z), b) = Res(p3, n3, z \o y)
    BY <2>5 DEF SlMove
  <2>7. ASSUME NEW m0, NEW ma, NEW mb, SlReads(p, m0, s, k, p2, ma, x),
               \A z : IsASeq(z) => SlByte(Res(p2, ma, z), b) = Res(p3, mb, z \o y)
        PROVE  SlReads(p, m0, s, k + 1, p3, mb, x \o y)
    <3> SUFFICES ASSUME NEW z, NEW f, IsASeq(z), RunOf(f, Res(p, m0, z), s)
                 PROVE  f[k + 1] = Res(p3, mb, z \o (x \o y))
      BY DEF SlReads
    <3>1. f[k] = Res(p2, ma, z \o x)
      BY <2>7 DEF SlReads
    <3>2. f[k + 1] = SlByte(f[(k + 1) - 1], b)
      BY <2>2 DEF RunOf
    <3>3. IsASeq(z \o x)
      BY <2>4, SeqsJoin
    <3>4. f[k + 1] = Res(p3, mb, (z \o x) \o y)
      BY <2>2, <2>7, <3>1, <3>2, <3>3
    <3>5. (z \o x) \o y = z \o (x \o y)
      BY <2>4, <2>6, SeqsAssociate
    <3>6. QED
      BY <3>4, <3>5
  <2> HIDE DEF b
  <2>8. SlReads(p, m, s, k + 1, p3, m3, x \o y) /\ SlReads(p, n, s, k + 1, p3, n3, x \o y)
    BY <2>4, <2>6, <2>7
  <2>9. IsASeq(x \o y)
    BY <2>4, <2>6, SeqsJoin
  <2>10. QED
    BY <2>6, <2>8, <2>9
<1> HIDE DEF Done
<1>3. \A k \in Nat : k \in Done
  BY <1>1, <1>2, SetInduction
<1>4. Len(s) \in Nat /\ Len(s) <= Len(s)
  OBVIOUS
<1>5. Reached(Len(s))
  BY <1>3, <1>4 DEF Done
<1>6. PICK p2, m2, n2, x :
        /\ SlAlike(p2, m2, n2) /\ IsASeq(x)
        /\ SlReads(p, m, s, Len(s), p2, m2, x) /\ SlReads(p, n, s, Len(s), p2, n2, x)
  BY <1>5
<1>7. ASSUME NEW z, IsASeq(z), NEW m0, NEW mb, SlReads(p, m0, s, Len(s), p2, mb, x)
      PROVE  FoldLeft(SlByte, Res(p, m0, z), s) = Res(p2, mb, z \o x)
  <2>1. PICK f : RunOf(f, Res(p, m0, z), s) /\ FoldLeft(SlByte, Res(p, m0, z), s) = f[Len(s)]
    BY FoldHasRun
  <2>2. QED
    BY <1>7, <2>1 DEF SlReads
<1>8. QED
  BY <1>6, <1>7

(* Every run ends in what the fold computes.                                *)
LEMMA GvRunFolds ==
  ASSUME NEW S, NEW s \in Seq(S), NEW r, NEW f, GvRunOf(f, r, s)
  PROVE  FoldLeft(GvByte, r, s) = f[Len(s)]
<1>1. PICK g : GvRunOf(g, r, s) /\ FoldLeft(GvByte, r, s) = g[Len(s)]
  BY GvFoldHasRun
<1> DEFINE Same == {k \in Nat : k <= Len(s) => f[k] = g[k]}
<1>2. 0 \in Same
  BY <1>1 DEF GvRunOf
<1>3. ASSUME NEW k \in Nat, k \in Same PROVE k + 1 \in Same
  <2> SUFFICES ASSUME k + 1 <= Len(s) PROVE f[k + 1] = g[k + 1]
    OBVIOUS
  <2>1. Len(s) \in Nat
    OBVIOUS
  <2>2. f[k] = g[k] /\ k + 1 \in 1..Len(s) /\ (k + 1) - 1 = k
    BY <1>3, <2>1
  <2>3. f[k + 1] = GvByte(f[(k + 1) - 1], s[k + 1]) /\ g[k + 1] = GvByte(g[(k + 1) - 1], s[k + 1])
    BY <1>1, <2>2 DEF GvRunOf
  <2>4. QED
    BY <2>2, <2>3
<1> HIDE DEF Same
<1>4. \A k \in Nat : k \in Same
  BY <1>2, <1>3, SetInduction
<1>5. Len(s) \in Nat /\ Len(s) <= Len(s)
  OBVIOUS
<1>6. QED
  BY <1>1, <1>4, <1>5 DEF Same

(* A parser takes up where it stopped.                                      *)
LEMMA GvFoldJoins ==
  ASSUME NEW S, NEW s \in Seq(S), NEW t \in Seq(S), NEW r
  PROVE  FoldLeft(GvByte, r, s \o t) = FoldLeft(GvByte, FoldLeft(GvByte, r, s), t)
<1> DEFINE u == s \o t
           n == Len(s)
           d == Len(t)
<1>1. /\ u \in Seq(S) /\ Len(u) = n + d /\ n \in Nat /\ d \in Nat
      /\ \A k \in 1..n : u[k] = s[k]
      /\ \A k \in 1..d : u[n + k] = t[k]
  OBVIOUS
<1> HIDE DEF u
<1>2. PICK f : GvRunOf(f, r, u) /\ FoldLeft(GvByte, r, u) = f[Len(u)]
  BY <1>1, GvFoldHasRun
<1> DEFINE g == [k \in 0..n |-> f[k]]
           h == [k \in 0..d |-> f[n + k]]
<1>3. /\ f[0] = r
      /\ \A k \in 1..(n + d) : f[k] = GvByte(f[k - 1], u[k])
  BY <1>1, <1>2 DEF GvRunOf
<1> HIDE DEF n, d
<1>4. GvRunOf(g, r, s)
  <2>1. DOMAIN g = 0..Len(s) /\ g[0] = r
    BY <1>1, <1>3 DEF n
  <2>2. ASSUME NEW k \in 1..n PROVE g[k] = GvByte(g[k - 1], s[k])
    <3>1. k \in 1..(n + d) /\ k \in 0..n /\ k - 1 \in 0..n
      BY <1>1
    <3>2. f[k] = GvByte(f[k - 1], u[k]) /\ u[k] = s[k]
      BY <1>1, <1>3, <3>1
    <3>3. QED
      BY <3>1, <3>2
  <2> HIDE DEF g
  <2>3. QED
    BY <2>1, <2>2 DEF GvRunOf, n
<1>5. GvRunOf(h, f[n], t)
  <2>1. DOMAIN h = 0..Len(t) /\ h[0] = f[n]
    BY <1>1 DEF d
  <2>2. ASSUME NEW k \in 1..d PROVE h[k] = GvByte(h[k - 1], t[k])
    <3>1. n + k \in 1..(n + d) /\ k \in 0..d /\ k - 1 \in 0..d /\ (n + k) - 1 = n + (k - 1)
      BY <1>1
    <3>2. f[n + k] = GvByte(f[(n + k) - 1], u[n + k]) /\ u[n + k] = t[k]
      BY <1>1, <1>3, <3>1
    <3>3. QED
      BY <3>1, <3>2
  <2> HIDE DEF h
  <2>3. QED
    BY <2>1, <2>2 DEF GvRunOf, d
<1>6. g[n] = f[n] /\ h[d] = f[n + d]
  BY <1>1
<1> HIDE DEF g, h
<1>7. FoldLeft(GvByte, r, s) = f[n]
  BY <1>4, <1>6, GvRunFolds DEF n
<1>8. FoldLeft(GvByte, f[n], t) = f[n + d]
  BY <1>5, <1>6, GvRunFolds DEF d
<1>9. QED
  BY <1>1, <1>2, <1>7, <1>8 DEF u

(* k bytes on, whatever had been called before.                             *)
GvReads(p, m, s, k, p2, m2, x) ==
  \A z, f : IsASeq(z) /\ GvRunOf(f, Res(p, m, z), s) => f[k] = Res(p2, m2, z \o x)

(* The parser and the calls do not depend on what tx_msg held.              *)
LEMMA GvParseAlike ==
  ASSUME NEW S, NEW s \in Seq(S), NEW p, NEW m, NEW n, GvAlike(p, m, n)
  PROVE  \E p2, m2, n2, x :
           /\ GvAlike(p2, m2, n2) /\ IsASeq(x)
           /\ \A z : IsASeq(z) => /\ FoldLeft(GvByte, Res(p, m, z), s) = Res(p2, m2, z \o x)
                                  /\ FoldLeft(GvByte, Res(p, n, z), s) = Res(p2, n2, z \o x)
<1> DEFINE Reached(k) == \E p2, m2, n2, x :
                           /\ GvAlike(p2, m2, n2) /\ IsASeq(x)
                           /\ GvReads(p, m, s, k, p2, m2, x) /\ GvReads(p, n, s, k, p2, n2, x)
           Done == {k \in Nat : k <= Len(s) => Reached(k)}
<1>1. 0 \in Done
  <2>1. GvReads(p, m, s, 0, p, m, <<>>) /\ GvReads(p, n, s, 0, p, n, <<>>)
    BY SmallSeqs DEF GvReads, GvRunOf
  <2>2. IsASeq(<<>>)
    BY SmallSeqs
  <2>3. Reached(0)
    BY <2>1, <2>2
  <2>4. QED
    BY <2>3
<1>2. ASSUME NEW k \in Nat, k \in Done PROVE k + 1 \in Done
  <2> SUFFICES ASSUME k + 1 <= Len(s) PROVE Reached(k + 1)
    OBVIOUS
  <2>1. Len(s) \in Nat
    OBVIOUS
  <2>2. k <= Len(s) /\ k + 1 \in 1..Len(s) /\ (k + 1) - 1 = k
    BY <2>1
  <2>3. Reached(k)
    BY <1>2, <2>2
  <2>4. PICK p2, m2, n2, x : /\ GvAlike(p2, m2, n2) /\ IsASeq(x)
                             /\ GvReads(p, m, s, k, p2, m2, x) /\ GvReads(p, n, s, k, p2, n2, x)
    BY <2>3
  <2> DEFINE b == s[k + 1]
  <2>5. PICK p3, m3, n3, y : GvMove(p2, m2, n2, b, p3, m3, n3, y)
    BY <2>4, GvByteMoves DEF GvMoves
  <2>6. /\ GvAlike(p3, m3, n3) /\ IsASeq(y)
        /\ \A z : IsASeq(z) => /\ GvByte(Res(p2, m2, z), b) = Res(p3, m3, z \o y)
                               /\ GvByte(Res(p2, n2, z), b) = Res(p3, n3, z \o y)
    BY <2>5 DEF GvMove
  <2>7. ASSUME NEW m0, NEW ma, NEW mb, GvReads(p, m0, s, k, p2, ma, x),
               \A z : IsASeq(z) => GvByte(Res(p2, ma, z), b) = Res(p3, mb, z \o y)
        PROVE  GvReads(p, m0, s, k + 1, p3, mb, x \o y)
    <3> SUFFICES ASSUME NEW z, NEW f, IsASeq(z), GvRunOf(f, Res(p, m0, z), s)
                 PROVE  f[k + 1] = Res(p3, mb, z \o (x \o y))
      BY DEF GvReads
    <3>1. f[k] = Res(p2, ma, z \o x)
      BY <2>7 DEF GvReads
    <3>2. f[k + 1] = GvByte(f[(k + 1) - 1], b)
      BY <2>2 DEF GvRunOf
    <3>3. IsASeq(z \o x)
      BY <2>4, SeqsJoin
    <3>4. f[k + 1] = Res(p3, mb, (z \o x) \o y)
      BY <2>2, <2>7, <3>1, <3>2, <3>3
    <3>5. (z \o x) \o y = z \o (x \o y)
      BY <2>4, <2>6, SeqsAssociate
    <3>6. QED
      BY <3>4, <3>5
  <2> HIDE DEF b
  <2>8. GvReads(p, m, s, k + 1, p3, m3, x \o y) /\ GvReads(p, n, s, k + 1, p3, n3, x \o y)
    BY <2>4, <2>6, <2>7
  <2>9. IsASeq(x \o y)
    BY <2>4, <2>6, SeqsJoin
  <2>10. QED
    BY <2>6, <2>8, <2>9
<1> HIDE DEF Done
<1>3. \A k \in Nat : k \in Done
  BY <1>1, <1>2, SetInduction
<1>4. Len(s) \in Nat /\ Len(s) <= Len(s)
  OBVIOUS
<1>5. Reached(Len(s))
  BY <1>3, <1>4 DEF Done
<1>6. PICK p2, m2, n2, x :
        /\ GvAlike(p2, m2, n2) /\ IsASeq(x)
        /\ GvReads(p, m, s, Len(s), p2, m2, x) /\ GvReads(p, n, s, Len(s), p2, n2, x)
  BY <1>5
<1>7. ASSUME NEW z, IsASeq(z), NEW m0, NEW mb, GvReads(p, m0, s, Len(s), p2, mb, x)
      PROVE  FoldLeft(GvByte, Res(p, m0, z), s) = Res(p2, mb, z \o x)
  <2>1. PICK f : GvRunOf(f, Res(p, m0, z), s) /\ FoldLeft(GvByte, Res(p, m0, z), s) = f[Len(s)]
    BY GvFoldHasRun
  <2>2. QED
    BY <1>7, <2>1 DEF GvReads
<1>8. QED
  BY <1>6, <1>7

(* The frame of CommandsDefined is a frame.                                 *)
LEMMA FreshIs == HasShape(FreshFrame)
BY DEF HasShape, FreshFrame

(* Two cuts of a sequence, one after the other.                             *)
LEMMA Cuts ==
  ASSUME NEW S, NEW s \in Seq(S), NEW k \in 1..Len(s), NEW j \in 1..Len(s), k + j <= Len(s)
  PROVE  /\ SubSeq(s, 1, k) \in Seq(S)
         /\ SubSeq(SubSeq(s, k + 1, Len(s)), 1, j) \in Seq(S)
         /\ SubSeq(s, 1, k) \o SubSeq(SubSeq(s, k + 1, Len(s)), 1, j) = SubSeq(s, 1, k + j)
         /\ SubSeq(SubSeq(s, k + 1, Len(s)), j + 1, Len(SubSeq(s, k + 1, Len(s)))) = SubSeq(s, k + j + 1, Len(s))
         /\ Len(SubSeq(s, k + 1, Len(s))) = Len(s) - k
<1> DEFINE n == Len(s)
           a == SubSeq(s, 1, k)
           t == SubSeq(s, k + 1, n)
<1>1. n \in Nat /\ k \in Nat /\ j \in Nat /\ k >= 1 /\ k <= n /\ k + j <= n
  OBVIOUS
<1>2. a \in Seq(S) /\ Len(a) = k /\ \A i \in 1..k : a[i] = s[i]
  OBVIOUS
<1>3. t \in Seq(S) /\ Len(t) = n - k /\ \A i \in 1..(n - k) : t[i] = s[k + i]
  BY <1>1
<1> HIDE DEF a, t
<1> DEFINE b == SubSeq(t, 1, j)
           d == SubSeq(t, j + 1, Len(t))
           u == SubSeq(s, 1, k + j)
           v == SubSeq(s, k + j + 1, n)
<1>4. b \in Seq(S) /\ Len(b) = j /\ \A i \in 1..j : b[i] = t[i]
  BY <1>1, <1>3
<1>5. d \in Seq(S) /\ Len(d) = n - k - j /\ \A i \in 1..(n - k - j) : d[i] = t[j + i]
  <2> DEFINE l == Len(t)
  <2>1. l \in Nat /\ l = n - k /\ j \in Nat /\ j <= l /\ t \in Seq(S)
    BY <1>1, <1>3
  <2>2. d \in Seq(S) /\ Len(d) = l - j /\ \A i \in 1..(l - j) : d[i] = t[j + i]
    <3>1. d \in Seq(S)
      BY <2>1
    <3>2. Len(d) = l - j
      BY <2>1
    <3>3. \A i \in 1..(l - j) : d[i] = t[j + i]
      BY <2>1
    <3>4. QED
      BY <3>1, <3>2, <3>3
  <2> HIDE DEF l, d
  <2>3. QED
    BY <2>1, <2>2
<1>6. u \in Seq(S) /\ Len(u) = k + j /\ \A i \in 1..(k + j) : u[i] = s[i]
  BY <1>1
<1>7. v \in Seq(S) /\ Len(v) = n - k - j /\ \A i \in 1..(n - k - j) : v[i] = s[k + j + i]
  BY <1>1
<1> HIDE DEF b, d, u, v, n
<1>8. a \o b = u
  <2> DEFINE w == a \o b
  <2>1. w \in Seq(S) /\ Len(w) = k + j /\ (\A i \in 1..k : w[i] = a[i]) /\ (\A i \in 1..j : w[k + i] = b[i])
    BY <1>1, <1>2, <1>4
  <2> HIDE DEF w
  <2>2. ASSUME NEW i \in 1..(k + j) PROVE w[i] = u[i]
    <3>1. CASE i <= k
      <4>1. i \in 1..k
        BY <1>1, <3>1
      <4>2. w[i] = a[i] /\ a[i] = s[i] /\ u[i] = s[i]
        BY <1>2, <1>6, <2>1, <4>1
      <4>3. QED
        BY <4>2
    <3>2. CASE i > k
      <4>1. i - k \in 1..j /\ k + (i - k) = i /\ i - k \in 1..(n - k)
        BY <1>1, <3>2
      <4>2. w[k + (i - k)] = b[i - k] /\ b[i - k] = t[i - k] /\ t[i - k] = s[k + (i - k)]
        BY <1>3, <1>4, <2>1, <4>1
      <4>3. QED
        BY <1>6, <4>1, <4>2
    <3>3. QED
      BY <1>1, <3>1, <3>2
  <2>3. w = u
    BY <1>6, <2>1, <2>2, SameSeq
  <2>4. QED
    BY <2>3 DEF w
<1>9. d = v
  <2>1. ASSUME NEW i \in 1..(n - k - j) PROVE d[i] = v[i]
    <3>1. j + i \in 1..(n - k) /\ k + (j + i) = k + j + i
      BY <1>1
    <3>2. d[i] = t[j + i] /\ t[j + i] = s[k + (j + i)]
      BY <1>3, <1>5, <3>1
    <3>3. QED
      BY <1>7, <3>1, <3>2
  <2>2. QED
    BY <1>5, <1>7, <2>1, SameSeq
<1>10. QED
  BY <1>2, <1>3, <1>4, <1>8, <1>9 DEF a, b, d, t, u, v, n

-----------------------------------------------------------------------------
(* The parser has read k bytes of the command, from a clean start.          *)
SlSays(s, p, m, calls) ==
  LET r == SlParse(SlClean, FreshFrame, s)
  IN  r.p = p /\ r.did = calls /\ SlAlike(p, m, r.msg)

(* At the beginning of a command two readings agree, whatever tx_msg.       *)
LEMMA SlCleanAlike == ASSUME NEW m, NEW n, HasShape(m), HasShape(n) PROVE SlAlike(SlClean, m, n)
BY DEF SlAlike, SlClean, SlShape, IsFrameCmd

(* What has been called is a sequence.                                      *)
LEMMA SlSaysSeq ==
  ASSUME NEW S, NEW s \in Seq(S), NEW p, NEW m, NEW calls,
         SlSays(s, p, m, calls)
  PROVE  /\ IsASeq(calls)
         /\ \E n : /\ SlAlike(p, m, n)
                   /\ SlParse(SlClean, FreshFrame, s) = Res(p, n, calls)
<1> DEFINE r == FoldLeft(SlByte, Res(SlClean, FreshFrame, <<>>), s)
<1>1. SlAlike(SlClean, FreshFrame, FreshFrame)
  BY FreshIs, SlCleanAlike
<1>2. PICK p2, m2, n2, x :
        /\ SlAlike(p2, m2, n2) /\ IsASeq(x)
        /\ \A z : IsASeq(z) => FoldLeft(SlByte, Res(SlClean, FreshFrame, z), s) = Res(p2, m2, z \o x)
  BY <1>1, SlParseAlike
<1>3. r = Res(p2, m2, x)
  <2>1. r = Res(p2, m2, <<>> \o x)
    BY <1>2, SmallSeqs
  <2>2. QED
    BY <1>2, <2>1, SmallSeqs
<1>4. r.p = p /\ r.did = calls /\ SlAlike(p, m, r.msg)
  BY DEF SlSays, SlParse
<1> HIDE DEF r
<1>5. p = p2 /\ calls = x /\ r.msg = m2
  BY <1>3, <1>4, ResParts
<1>6. QED
  BY <1>2, <1>3, <1>4, <1>5 DEF r, SlParse

(* The first chunk of a command.                                            *)
LEMMA SlSaysFirst ==
  ASSUME NEW S, NEW s \in Seq(S), NEW m, HasShape(m),
         NEW e, e = SlParse(SlClean, m, s)
  PROVE  SlSays(s, e.p, e.msg, e.did)
<1> DEFINE r == SlParse(SlClean, FreshFrame, s)
<1>1. SlAlike(SlClean, m, FreshFrame)
  BY FreshIs, SlCleanAlike
<1>2. PICK p2, m2, n2, x :
        /\ SlAlike(p2, m2, n2) /\ IsASeq(x)
        /\ \A z : IsASeq(z) => /\ FoldLeft(SlByte, Res(SlClean, m, z), s) = Res(p2, m2, z \o x)
                               /\ FoldLeft(SlByte, Res(SlClean, FreshFrame, z), s) = Res(p2, n2, z \o x)
  BY <1>1, SlParseAlike
<1>3. e = Res(p2, m2, <<>> \o x) /\ r = Res(p2, n2, <<>> \o x)
  BY <1>2, SmallSeqs DEF SlParse
<1> HIDE DEF r
<1>4. /\ e.p = p2 /\ e.msg = m2 /\ e.did = <<>> \o x
      /\ r.p = p2 /\ r.msg = n2 /\ r.did = <<>> \o x
  BY <1>3, ResParts
<1>5. r.p = e.p /\ r.did = e.did /\ SlAlike(e.p, e.msg, r.msg)
  BY <1>2, <1>4
<1>6. QED
  BY <1>5 DEF SlSays, r

(* Another chunk of it.                                                     *)
LEMMA SlSaysMore ==
  ASSUME NEW S, NEW s \in Seq(S), NEW t \in Seq(S), NEW p, NEW m, NEW calls, SlSays(s, p, m, calls),
         NEW e, e = SlParse(p, m, t)
  PROVE  SlSays(s \o t, e.p, e.msg, calls \o e.did) /\ IsASeq(e.did)
<1> DEFINE start == Res(SlClean, FreshFrame, <<>>)
<1>2. PICK n : /\ SlAlike(p, m, n)
               /\ FoldLeft(SlByte, start, s) = Res(p, n, calls)
  <2>1. PICK n : /\ SlAlike(p, m, n)
                 /\ SlParse(SlClean, FreshFrame, s) = Res(p, n, calls)
    BY SlSaysSeq
  <2>2. FoldLeft(SlByte, start, s) = Res(p, n, calls)
    BY <2>1 DEF SlParse
  <2>3. QED
    BY <2>1, <2>2
<1>3. IsASeq(calls)
  BY SlSaysSeq
<1>4. e = FoldLeft(SlByte, Res(p, m, <<>>), t)
  BY DEF SlParse
<1> DEFINE r == SlParse(SlClean, FreshFrame, s \o t)
<1>5. r = FoldLeft(SlByte, FoldLeft(SlByte, start, s), t)
  <2>1. r = FoldLeft(SlByte, start, s \o t)
    BY DEF SlParse
  <2> HIDE DEF r, start
  <2>2. QED
    BY <2>1, SlFoldJoins
<1> HIDE DEF start
<1>6. PICK p2, m2, n2, x :
        /\ SlAlike(p2, m2, n2) /\ IsASeq(x)
        /\ \A z : IsASeq(z) => /\ FoldLeft(SlByte, Res(p, m, z), t) = Res(p2, m2, z \o x)
                               /\ FoldLeft(SlByte, Res(p, n, z), t) = Res(p2, n2, z \o x)
  BY <1>2, SlParseAlike
<1> HIDE DEF r
<1>7. e = Res(p2, m2, <<>> \o x) /\ <<>> \o x = x
  BY <1>4, <1>6, SmallSeqs
<1>8. r = Res(p2, n2, calls \o x)
  BY <1>2, <1>3, <1>5, <1>6
<1>9. e.p = p2 /\ e.msg = m2 /\ e.did = x /\ r.p = p2 /\ r.msg = n2 /\ r.did = calls \o x
  BY <1>7, <1>8 DEF Res
<1>10. r.p = e.p /\ r.did = calls \o e.did /\ SlAlike(e.p, e.msg, r.msg)
  BY <1>6, <1>9
<1>11. QED
  BY <1>6, <1>9, <1>10 DEF SlSays, r

(* The parser has read k bytes of the command, from a clean start.          *)
GvSays(s, p, m, calls) ==
  LET r == GvParse(GvClean, FreshFrame, s)
  IN  r.p = p /\ r.did = calls /\ GvAlike(p, m, r.msg)

(* The same of GVRET: the beginning of a command.                           *)
LEMMA GvCleanAlike == ASSUME NEW m, NEW n, HasShape(m), HasShape(n) PROVE GvAlike(GvClean, m, n)
BY GvCleanIs DEF GvAlike

(* What has been called is a sequence.                                      *)
LEMMA GvSaysSeq ==
  ASSUME NEW S, NEW s \in Seq(S), NEW p, NEW m, NEW calls,
         GvSays(s, p, m, calls)
  PROVE  /\ IsASeq(calls)
         /\ \E n : /\ GvAlike(p, m, n)
                   /\ GvParse(GvClean, FreshFrame, s) = Res(p, n, calls)
<1> DEFINE r == FoldLeft(GvByte, Res(GvClean, FreshFrame, <<>>), s)
<1>1. GvAlike(GvClean, FreshFrame, FreshFrame)
  BY FreshIs, GvCleanAlike
<1>2. PICK p2, m2, n2, x :
        /\ GvAlike(p2, m2, n2) /\ IsASeq(x)
        /\ \A z : IsASeq(z) => FoldLeft(GvByte, Res(GvClean, FreshFrame, z), s) = Res(p2, m2, z \o x)
  BY <1>1, GvParseAlike
<1>3. r = Res(p2, m2, x)
  <2>1. r = Res(p2, m2, <<>> \o x)
    BY <1>2, SmallSeqs
  <2>2. QED
    BY <1>2, <2>1, SmallSeqs
<1>4. r.p = p /\ r.did = calls /\ GvAlike(p, m, r.msg)
  BY DEF GvSays, GvParse
<1> HIDE DEF r
<1>5. p = p2 /\ calls = x /\ r.msg = m2
  BY <1>3, <1>4, ResParts
<1>6. QED
  BY <1>2, <1>3, <1>4, <1>5 DEF r, GvParse

(* The first chunk of a command.                                            *)
LEMMA GvSaysFirst ==
  ASSUME NEW S, NEW s \in Seq(S), NEW m, HasShape(m),
         NEW e, e = GvParse(GvClean, m, s)
  PROVE  GvSays(s, e.p, e.msg, e.did)
<1> DEFINE r == GvParse(GvClean, FreshFrame, s)
<1>1. GvAlike(GvClean, m, FreshFrame)
  BY FreshIs, GvCleanAlike
<1>2. PICK p2, m2, n2, x :
        /\ GvAlike(p2, m2, n2) /\ IsASeq(x)
        /\ \A z : IsASeq(z) => /\ FoldLeft(GvByte, Res(GvClean, m, z), s) = Res(p2, m2, z \o x)
                               /\ FoldLeft(GvByte, Res(GvClean, FreshFrame, z), s) = Res(p2, n2, z \o x)
  BY <1>1, GvParseAlike
<1>3. e = Res(p2, m2, <<>> \o x) /\ r = Res(p2, n2, <<>> \o x)
  BY <1>2, SmallSeqs DEF GvParse
<1> HIDE DEF r
<1>4. /\ e.p = p2 /\ e.msg = m2 /\ e.did = <<>> \o x
      /\ r.p = p2 /\ r.msg = n2 /\ r.did = <<>> \o x
  BY <1>3, ResParts
<1>5. r.p = e.p /\ r.did = e.did /\ GvAlike(e.p, e.msg, r.msg)
  BY <1>2, <1>4
<1>6. QED
  BY <1>5 DEF GvSays, r

(* Another chunk of it.                                                     *)
LEMMA GvSaysMore ==
  ASSUME NEW S, NEW s \in Seq(S), NEW t \in Seq(S), NEW p, NEW m, NEW calls, GvSays(s, p, m, calls),
         NEW e, e = GvParse(p, m, t)
  PROVE  GvSays(s \o t, e.p, e.msg, calls \o e.did) /\ IsASeq(e.did)
<1> DEFINE start == Res(GvClean, FreshFrame, <<>>)
<1>2. PICK n : /\ GvAlike(p, m, n)
               /\ FoldLeft(GvByte, start, s) = Res(p, n, calls)
  <2>1. PICK n : /\ GvAlike(p, m, n)
                 /\ GvParse(GvClean, FreshFrame, s) = Res(p, n, calls)
    BY GvSaysSeq
  <2>2. FoldLeft(GvByte, start, s) = Res(p, n, calls)
    BY <2>1 DEF GvParse
  <2>3. QED
    BY <2>1, <2>2
<1>3. IsASeq(calls)
  BY GvSaysSeq
<1>4. e = FoldLeft(GvByte, Res(p, m, <<>>), t)
  BY DEF GvParse
<1> DEFINE r == GvParse(GvClean, FreshFrame, s \o t)
<1>5. r = FoldLeft(GvByte, FoldLeft(GvByte, start, s), t)
  <2>1. r = FoldLeft(GvByte, start, s \o t)
    BY DEF GvParse
  <2> HIDE DEF r, start
  <2>2. QED
    BY <2>1, GvFoldJoins
<1> HIDE DEF start
<1>6. PICK p2, m2, n2, x :
        /\ GvAlike(p2, m2, n2) /\ IsASeq(x)
        /\ \A z : IsASeq(z) => /\ FoldLeft(GvByte, Res(p, m, z), t) = Res(p2, m2, z \o x)
                               /\ FoldLeft(GvByte, Res(p, n, z), t) = Res(p2, n2, z \o x)
  BY <1>2, GvParseAlike
<1> HIDE DEF r
<1>7. e = Res(p2, m2, <<>> \o x) /\ <<>> \o x = x
  BY <1>4, <1>6, SmallSeqs
<1>8. r = Res(p2, n2, calls \o x)
  BY <1>2, <1>3, <1>5, <1>6
<1>9. e.p = p2 /\ e.msg = m2 /\ e.did = x /\ r.p = p2 /\ r.msg = n2 /\ r.did = calls \o x
  BY <1>7, <1>8 DEF Res
<1>10. r.p = e.p /\ r.did = calls \o e.did /\ GvAlike(e.p, e.msg, r.msg)
  BY <1>6, <1>9
<1>11. QED
  BY <1>6, <1>9, <1>10 DEF GvSays, r

-----------------------------------------------------------------------------
(* The bytes s of one command have come on channel ch, undisturbed: which   *)
(* parser has read them, and what it has made of them.                      *)
HasRead(ch, s, p, g, m, calls) ==
  /\ ch = "ws" => wsUp
  /\ IF ToSlcan(ch)
       THEN ~ToRealDash /\ SlSays(s, p, m, calls) /\ (ToGvret => g = GvClean)
       ELSE ToGvret /\ ch # "ws" /\ GvSays(s, g, m, calls)

Partly(ch) ==
  \E c \in Sayable(ch) : \E k \in 1..(Len(c.bytes) - 1) :
    /\ asked[ch] = c.effect /\ todo[ch] = SubSeq(c.bytes, k + 1, Len(c.bytes))
    /\ HasRead(ch, SubSeq(c.bytes, 1, k), sl, gv, txMsg, did[ch])

Finished(ch) == did[ch] = asked[ch] /\ Clean(ch)

ExactInv ==
  /\ ShapeInv /\ protocol \in Protocols /\ last \in Channels \cup {"none"}
  /\ DOMAIN asked = Channels /\ DOMAIN did = Channels /\ DOMAIN whole = Channels
  /\ \A ch \in Channels : whole[ch] /\ todo[ch] # <<>> => Partly(ch)
  /\ last # "none" /\ whole[last] /\ todo[last] = <<>> => Finished(last)

(* GVRET hears nothing in the characters of a WebSocket.                    *)
LEMMA GvDeaf ==
  ASSUME NEW m, NEW s \in Seq({79})
  PROVE  GvParse(GvClean, m, s) = Res(GvClean, m, <<>>)
<1> DEFINE r == Res(GvClean, m, <<>>)
<1>1. PICK f : GvRunOf(f, r, s) /\ FoldLeft(GvByte, r, s) = f[Len(s)]
  BY GvFoldHasRun
<1>2. GvByte(r, 79) = r
  <2>1. r.p = GvClean /\ r.p.state = "IDLE" /\ Res(r.p, r.msg, r.did) = r
    BY DEF Res, GvClean
  <2> HIDE DEF r
  <2>2. QED
    BY <2>1 DEF GvByte
<1> HIDE DEF r
<1> DEFINE Same == {k \in Nat : k <= Len(s) => f[k] = r}
<1>3. 0 \in Same
  BY <1>1 DEF GvRunOf
<1>4. ASSUME NEW k \in Nat, k \in Same PROVE k + 1 \in Same
  <2> SUFFICES ASSUME k + 1 <= Len(s) PROVE f[k + 1] = r
    OBVIOUS
  <2>1. Len(s) \in Nat
    OBVIOUS
  <2>2. f[k] = r /\ k + 1 \in 1..Len(s) /\ (k + 1) - 1 = k
    BY <1>4, <2>1
  <2>3. s[k + 1] = 79
    BY <2>2
  <2>4. f[k + 1] = GvByte(f[(k + 1) - 1], s[k + 1])
    BY <1>1, <2>2 DEF GvRunOf
  <2>5. QED
    BY <1>2, <2>2, <2>3, <2>4
<1> HIDE DEF Same
<1>5. \A k \in Nat : k \in Same
  BY <1>3, <1>4, SetInduction
<1>6. Len(s) \in Nat /\ Len(s) <= Len(s)
  OBVIOUS
<1>7. FoldLeft(GvByte, r, s) = r
  BY <1>1, <1>5, <1>6 DEF Same
<1>8. QED
  BY <1>7 DEF GvParse, r

(* The reset after a silence does nothing to a clean parser.                *)
LEMMA ResetClean == SlReset(SlClean) = SlClean
<1> DEFINE h1 == [SlClean EXCEPT !.state = "HEADER"]
           h2 == [h1 EXCEPT !.cmd = "none"]
           h3 == [h2 EXCEPT !.msg = <<>>]
<1>1. SlReset(SlClean) = h3
  BY DEF SlReset
<1>2. h1 = SlClean
  BY DEF SlClean
<1> HIDE DEF h1
<1>3. h2 = SlClean
  BY <1>2 DEF SlClean
<1> HIDE DEF h2
<1>4. h3 = SlClean
  BY <1>3 DEF SlClean
<1>5. QED
  BY <1>1, <1>4

(* What a turn of can_tx_task does where only one parser has a say.         *)
LEMMA FeedSlcan ==
  ASSUME NEW S, NEW ch, NEW s \in Seq(S), ToSlcan(ch), ~ToRealDash,
         ToGvret => ch = "ws" /\ gv = GvClean, ~quiet \/ sl = SlClean,
         NEW e, e = SlParse(sl, txMsg, s), IsASeq(e.did)
  PROVE  LET t == Feed(ch, s)
         IN  t.sl = e.p /\ t.gv = gv /\ t.msg = e.msg /\ t.did = e.did
<1> DEFINE sl0 == IF quiet THEN SlReset(sl) ELSE sl
           r1 == IF ToSlcan(ch) THEN SlParse(sl0, txMsg, s) ELSE Res(sl, txMsg, <<>>)
           rest == IF ch = "ws" THEN [i \in DOMAIN s |-> 79] ELSE s
           r2 == IF ToGvret THEN GvParse(gv, r1.msg, rest)
                 ELSE IF ToRealDash THEN RdParse(gv, r1.msg, rest)
                 ELSE Res(gv, r1.msg, <<>>)
           q == quiet /\ ~(ToSlcan(ch) /\ SlNotesTime(sl0, txMsg, s))
<1>1. Feed(ch, s) = [sl |-> r1.p, gv |-> r2.p, msg |-> r2.msg, did |-> r1.did \o r2.did, quiet |-> q]
  BY DEF Feed
<1>2. sl0 = sl
  BY ResetClean
<1>3. r1 = e
  BY <1>2
<1>4. r2 = Res(gv, e.msg, <<>>)
  <2>1. CASE ToGvret
    <3>1. rest \in Seq({79})
      BY <2>1
    <3> HIDE DEF rest, r1
    <3>2. GvParse(GvClean, e.msg, rest) = Res(GvClean, e.msg, <<>>)
      BY <3>1, GvDeaf
    <3>3. QED
      BY <1>3, <2>1, <3>2
  <2>2. CASE ~ToGvret
    <3> HIDE DEF rest, r1
    <3> QED
      BY <1>3, <2>2
  <2>3. QED
    BY <2>1, <2>2
<1> HIDE DEF r1, r2, q
<1>5. r2.p = gv /\ r2.msg = e.msg /\ r2.did = <<>>
  BY <1>4, ResParts
<1>6. e.did \o <<>> = e.did
  BY SmallSeqs
<1>7. QED
  BY <1>1, <1>3, <1>5, <1>6

(* The same of GVRET.                                                       *)
LEMMA FeedGvret ==
  ASSUME NEW S, NEW ch, NEW s \in Seq(S), ~ToSlcan(ch), ToGvret, ch # "ws",
         NEW e, e = GvParse(gv, txMsg, s), IsASeq(e.did)
  PROVE  LET t == Feed(ch, s)
         IN  t.sl = sl /\ t.gv = e.p /\ t.msg = e.msg /\ t.did = e.did
<1> DEFINE sl0 == IF quiet THEN SlReset(sl) ELSE sl
           r1 == IF ToSlcan(ch) THEN SlParse(sl0, txMsg, s) ELSE Res(sl, txMsg, <<>>)
           rest == IF ch = "ws" THEN [i \in DOMAIN s |-> 79] ELSE s
           r2 == IF ToGvret THEN GvParse(gv, r1.msg, rest)
                 ELSE IF ToRealDash THEN RdParse(gv, r1.msg, rest)
                 ELSE Res(gv, r1.msg, <<>>)
           q == quiet /\ ~(ToSlcan(ch) /\ SlNotesTime(sl0, txMsg, s))
<1>1. Feed(ch, s) = [sl |-> r1.p, gv |-> r2.p, msg |-> r2.msg, did |-> r1.did \o r2.did, quiet |-> q]
  BY DEF Feed
<1>2. r1 = Res(sl, txMsg, <<>>) /\ rest = s
  OBVIOUS
<1> HIDE DEF r1, rest, q
<1>3. r1.p = sl /\ r1.msg = txMsg /\ r1.did = <<>>
  BY <1>2, ResParts
<1>4. r2 = e
  BY <1>2, <1>3
<1> HIDE DEF r2
<1>5. <<>> \o e.did = e.did
  BY SmallSeqs
<1>6. QED
  BY <1>1, <1>3, <1>4, <1>5

\* A RealDash packet is sent at once, and touches no other parser.
LEMMA FeedRealDash ==
  ASSUME NEW ch, NEW s, ~ToSlcan(ch), ~ToGvret, ToRealDash, ch # "ws", IsPacket(s),
         HasShape(txMsg)
  PROVE  /\ Feed(ch, s).sl = sl /\ Feed(ch, s).gv = gv
         /\ Feed(ch, s).did = << <<"send", 0, <<s[2]>>, <<s[1]>> >> >>
<1> DEFINE sl0 == IF quiet THEN SlReset(sl) ELSE sl
           r1 == IF ToSlcan(ch) THEN SlParse(sl0, txMsg, s) ELSE Res(sl, txMsg, <<>>)
           rest == IF ch = "ws" THEN [i \in DOMAIN s |-> 79] ELSE s
           r2 == IF ToGvret THEN GvParse(gv, r1.msg, rest)
                 ELSE IF ToRealDash THEN RdParse(gv, r1.msg, rest)
                 ELSE Res(gv, r1.msg, <<>>)
           q == quiet /\ ~(ToSlcan(ch) /\ SlNotesTime(sl0, txMsg, s))
           call == <<"send", 0, <<s[2]>>, <<s[1]>> >>
<1>1. Feed(ch, s) = [sl |-> r1.p, gv |-> r2.p, msg |-> r2.msg, did |-> r1.did \o r2.did, quiet |-> q]
  BY DEF Feed
<1>2. r1 = Res(sl, txMsg, <<>>) /\ rest = s
  OBVIOUS
<1> HIDE DEF r1, rest, q
<1>3. r1.p = sl /\ r1.msg = txMsg /\ r1.did = <<>>
  BY <1>2, ResParts
<1>4. r2 = RdParse(gv, txMsg, s)
  BY <1>2, <1>3
<1>5. r2.p = gv /\ r2.did = <<call>>
  <2> DEFINE sent == [txMsg EXCEPT !.id = <<s[2]>>, !.dlc = 8, !.data = <<s[1]>>,
                                   !.extd = @ \/ s[2] = 1]
  <2>1. RdParse(gv, txMsg, s) = Res(gv, sent, << <<"send", 0, sent.id, sent.data>> >>)
    BY DEF RdParse, IsPacket
  <2>2. sent.id = <<s[2]>> /\ sent.data = <<s[1]>>
    BY DEF HasShape
  <2> HIDE DEF sent
  <2>3. QED
    BY <1>4, <2>1, <2>2 DEF Res
<1> HIDE DEF r2, call
<1>6. <<>> \o <<call>> = <<call>>
  BY SmallSeqs
<1>7. QED
  BY <1>1, <1>3, <1>5, <1>6 DEF call

(* The first bytes of a command, on a channel that may begin one.           *)
LEMMA ReadingBegins ==
  ASSUME NEW S, NEW ch \in Channels, NEW s \in Seq(S), Clean(ch), HasShape(txMsg), ~ToRealDash,
         protocol \in Protocols, ch = "ws" => wsUp
  PROVE  HasRead(ch, s, Feed(ch, s).sl, Feed(ch, s).gv, Feed(ch, s).msg, Feed(ch, s).did)
<1>1. CASE ToSlcan(ch)
  <2> DEFINE e == SlParse(sl, txMsg, s)
  <2>1. sl = SlClean /\ (ToGvret => gv = GvClean)
    BY <1>1 DEF Clean
  <2>2. ToGvret => ch = "ws"
    BY <1>1 DEF ToSlcan, ToGvret
  <2> HIDE DEF e
  <2>3. SlSays(s, e.p, e.msg, e.did)
    BY <2>1, SlSaysFirst DEF e
  <2>4. IsASeq(e.did)
    BY <2>3, SlSaysSeq
  <2>5. LET t == Feed(ch, s)
        IN  t.sl = e.p /\ t.gv = gv /\ t.msg = e.msg /\ t.did = e.did
    BY <1>1, <2>1, <2>2, <2>4, FeedSlcan DEF e
  <2>6. QED
    BY <1>1, <2>1, <2>3, <2>5 DEF HasRead
<1>2. CASE ~ToSlcan(ch)
  <2> DEFINE e == GvParse(gv, txMsg, s)
  <2>1. ch # "ws" /\ ToGvret
    BY <1>2 DEF ToSlcan, ToGvret, ToRealDash, Protocols
  <2>2. gv = GvClean
    BY <2>1 DEF Clean
  <2> HIDE DEF e
  <2>3. GvSays(s, e.p, e.msg, e.did)
    BY <2>2, GvSaysFirst DEF e
  <2>4. IsASeq(e.did)
    BY <2>3, GvSaysSeq
  <2>5. LET t == Feed(ch, s)
        IN  t.sl = sl /\ t.gv = e.p /\ t.msg = e.msg /\ t.did = e.did
    BY <1>2, <2>1, <2>4, FeedGvret DEF e
  <2>6. QED
    BY <1>2, <2>1, <2>3, <2>5 DEF HasRead
<1>3. QED
  BY <1>1, <1>2

(* More of it, undisturbed.                                                 *)
LEMMA ReadingGoesOn ==
  ASSUME NEW S, NEW ch \in Channels, NEW s \in Seq(S), NEW t \in Seq(S), NEW calls,
         HasRead(ch, s, sl, gv, txMsg, calls), ToSlcan(ch) => ~quiet
  PROVE  HasRead(ch, s \o t, Feed(ch, t).sl, Feed(ch, t).gv, Feed(ch, t).msg, calls \o Feed(ch, t).did)
<1>1. CASE ToSlcan(ch)
  <2> DEFINE e == SlParse(sl, txMsg, t)
  <2>1. ~ToRealDash /\ SlSays(s, sl, txMsg, calls) /\ (ToGvret => gv = GvClean) /\ (ch = "ws" => wsUp)
    BY <1>1 DEF HasRead
  <2>2. ToGvret => ch = "ws"
    BY <1>1 DEF ToSlcan, ToGvret
  <2> HIDE DEF e
  <2>3. SlSays(s \o t, e.p, e.msg, calls \o e.did) /\ IsASeq(e.did)
    BY <2>1, SlSaysMore DEF e
  <2>4. LET u == Feed(ch, t)
        IN  u.sl = e.p /\ u.gv = gv /\ u.msg = e.msg /\ u.did = e.did
    BY <1>1, <2>1, <2>2, <2>3, FeedSlcan DEF e
  <2>5. QED
    BY <1>1, <2>1, <2>3, <2>4 DEF HasRead
<1>2. CASE ~ToSlcan(ch)
  <2> DEFINE e == GvParse(gv, txMsg, t)
  <2>1. ToGvret /\ GvSays(s, gv, txMsg, calls) /\ ch # "ws"
    BY <1>2 DEF HasRead
  <2> HIDE DEF e
  <2>2. GvSays(s \o t, e.p, e.msg, calls \o e.did) /\ IsASeq(e.did)
    BY <2>1, GvSaysMore DEF e
  <2>3. LET u == Feed(ch, t)
        IN  u.sl = sl /\ u.gv = e.p /\ u.msg = e.msg /\ u.did = e.did
    BY <1>2, <2>1, <2>2, FeedGvret DEF e
  <2>4. QED
    BY <1>2, <2>1, <2>2, <2>3 DEF HasRead
<1>3. QED
  BY <1>1, <1>2

(* Which commands a parser has to do with.                                  *)
LEMMA WhoseCommands ==
  ASSUME NEW ch \in Channels, NEW c \in Sayable(ch), ch = "ws" => wsUp, protocol \in Protocols
  PROVE  /\ ToSlcan(ch) => c \in SlCommands \cup WsCommands
         /\ ~ToSlcan(ch) /\ ToGvret => c \in GvCommands
         /\ ~ToSlcan(ch) /\ ToRealDash => c \in RdCommands
         /\ c.bytes \in Seq(STRING) \/ c.bytes \in Seq(Nat)
<1>1. /\ ToSlcan(ch) => c \in SlCommands \cup WsCommands
      /\ ~ToSlcan(ch) /\ ToGvret => c \in GvCommands
      /\ ~ToSlcan(ch) /\ ToRealDash => c \in RdCommands
      /\ c \in SlCommands \cup WsCommands \cup GvCommands \cup RdCommands
  BY DEF Sayable, ToSlcan, ToGvret, ToRealDash, Protocols
<1>2. QED
  BY <1>1, CommandAssumption

(* The last byte of a command has come.                                     *)
LEMMA ReadingEnds ==
  ASSUME CommandsDefined, NEW ch \in Channels, NEW c \in Sayable(ch), protocol \in Protocols,
         NEW p, NEW g, NEW m, NEW calls, HasRead(ch, c.bytes, p, g, m, calls)
  PROVE  calls = c.effect /\ (ToSlcan(ch) => p = SlClean) /\ (ToGvret => g = GvClean)
<1>0. ch = "ws" => wsUp
  BY DEF HasRead
<1>1. CASE ToSlcan(ch)
  <2>1. SlSays(c.bytes, p, m, calls) /\ (ToGvret => g = GvClean)
    BY <1>1 DEF HasRead
  <2>2. SlExact(c)
    BY <1>0, <1>1, WhoseCommands DEF CommandsDefined
  <2>3. QED
    BY <2>1, <2>2 DEF SlSays, SlExact
<1>2. CASE ~ToSlcan(ch)
  <2>1. ToGvret /\ GvSays(c.bytes, g, m, calls)
    BY <1>2 DEF HasRead
  <2>2. GvExact(c)
    BY <1>0, <1>2, <2>1, WhoseCommands DEF CommandsDefined
  <2>3. QED
    BY <1>2, <2>1, <2>2 DEF GvSays, GvExact
<1>3. QED
  BY <1>1, <1>2

(* Until then nothing of it is a frame for the bus.                         *)
LEMMA ReadingIsHarmless ==
  ASSUME CommandsDefined, NEW ch \in Channels, NEW c \in Sayable(ch), protocol \in Protocols,
         NEW k \in 1..(Len(c.bytes) - 1),
         NEW p, NEW g, NEW m, NEW calls, HasRead(ch, SubSeq(c.bytes, 1, k), p, g, m, calls)
  PROVE  Harmless(calls)
<1>0. ch = "ws" => wsUp
  BY DEF HasRead
<1> DEFINE s == SubSeq(c.bytes, 1, k)
<1>1. CASE ToSlcan(ch)
  <2>1. SlSays(s, p, m, calls)
    BY <1>1 DEF HasRead
  <2>2. SlExact(c)
    BY <1>0, <1>1, WhoseCommands DEF CommandsDefined
  <2>3. Harmless(SlParse(SlClean, FreshFrame, s).did)
    BY <2>2 DEF SlExact
  <2>4. calls = SlParse(SlClean, FreshFrame, s).did
    BY <2>1 DEF SlSays
  <2>5. QED
    BY <2>3, <2>4
<1>2. CASE ~ToSlcan(ch)
  <2>1. ToGvret /\ GvSays(s, g, m, calls)
    BY <1>2 DEF HasRead
  <2>2. GvExact(c)
    BY <1>0, <1>2, <2>1, WhoseCommands DEF CommandsDefined
  <2>3. Harmless(GvParse(GvClean, FreshFrame, s).did)
    BY <2>2 DEF GvExact
  <2>4. calls = GvParse(GvClean, FreshFrame, s).did
    BY <2>1 DEF GvSays
  <2>5. QED
    BY <2>3, <2>4
<1>3. QED
  BY <1>1, <1>2

(* A chunk that belongs to the command, and what it leaves behind.          *)
LEMMA CommandAdvances ==
  ASSUME CommandsDefined, NEW ch \in Channels, NEW d \in Sayable(ch), protocol \in Protocols,
         protocol' = protocol, wsUp' = wsUp, NEW n \in 1..Len(d.bytes),
         HasRead(ch, SubSeq(d.bytes, 1, n), sl', gv', txMsg', did'[ch]),
         asked'[ch] = d.effect, todo'[ch] = SubSeq(d.bytes, n + 1, Len(d.bytes))
  PROVE  /\ todo'[ch] # <<>> => Partly(ch)'
         /\ todo'[ch] = <<>> => Finished(ch)'
<1>1. /\ ToSlcan(ch)' <=> ToSlcan(ch)
      /\ ToGvret' <=> ToGvret
      /\ ToRealDash' <=> ToRealDash
      /\ Sayable(ch)' = Sayable(ch)
  BY DEF ToSlcan, ToGvret, ToRealDash, Sayable
<1>2. PICK S : d.bytes \in Seq(S)
  <2>1. ch = "ws" => wsUp
    BY DEF HasRead
  <2>2. QED
    BY <2>1, WhoseCommands
<1>3. CASE n < Len(d.bytes)
  <2>1. n \in 1..(Len(d.bytes) - 1)
    BY <1>2, <1>3
  <2> DEFINE s == SubSeq(d.bytes, 1, n)
  <2>2. HasRead(ch, s, sl, gv, txMsg, did[ch])'
    BY <1>1 DEF HasRead
  <2>3. Partly(ch)'
    BY <1>1, <2>1, <2>2 DEF Partly
  <2>4. todo'[ch] # <<>>
    <3> DEFINE w == d.bytes
    <3>1. w \in Seq(S) /\ n \in Nat /\ n < Len(w) /\ todo'[ch] = SubSeq(w, n + 1, Len(w))
      BY <1>2, <1>3
    <3> HIDE DEF w
    <3>2. Len(SubSeq(w, n + 1, Len(w))) = Len(w) - n
      BY <3>1
    <3>3. Len(SubSeq(w, n + 1, Len(w))) # 0
      BY <3>1, <3>2
    <3>4. Len(<<>>) = 0
      OBVIOUS
    <3>5. QED
      BY <3>1, <3>3, <3>4
  <2>5. QED
    BY <2>3, <2>4
<1>4. CASE n = Len(d.bytes)
  <2>1. SubSeq(d.bytes, 1, n) = d.bytes
    BY <1>2, <1>4
  <2>2. did'[ch] = d.effect /\ (ToSlcan(ch) => sl' = SlClean) /\ (ToGvret => gv' = GvClean)
    BY <2>1, ReadingEnds
  <2>3. Finished(ch)'
    BY <1>1, <2>2 DEF Finished, Clean
  <2>4. todo'[ch] = <<>>
    BY <1>2, <1>4
  <2>5. QED
    BY <2>3, <2>4
<1>5. QED
  BY <1>2, <1>3, <1>4

(* Every chunk, of a command that began clean or of any other.              *)
LEMMA ChunkExact ==
  ASSUME CommandsDefined, ExactInv, ShapeInv', NEW ch \in Channels, Chunk(ch)
  PROVE  ExactInv'
<1> DEFINE fresh == todo[ch] = <<>>
           From == IF fresh THEN Sayable(ch) ELSE {[bytes |-> todo[ch], effect |-> asked[ch]]}
           t(c, k) == Feed(ch, SubSeq(c.bytes, 1, k))
           ok(k, c) == IF fresh THEN Clean(ch) /\ (ToRealDash => ch # "ws" /\ k = Len(c.bytes))
                                ELSE whole[ch] /\ ~(ToSlcan(ch) /\ quiet)
<1>1. PICK c \in From : \E k \in 1..Len(c.bytes) :
        LET u == Feed(ch, SubSeq(c.bytes, 1, k))
            well == IF todo[ch] = <<>>
                      THEN Clean(ch) /\ (ToRealDash => ch # "ws" /\ k = Len(c.bytes))
                      ELSE whole[ch] /\ ~(ToSlcan(ch) /\ quiet)
        IN  /\ k < Len(c.bytes) => well /\ \A o \in Channels \ {ch} : ~(todo[o] # <<>>)
            /\ strays' = IF well THEN strays ELSE strays + 1
            /\ strays' <= MaxStrays
            /\ sl' = u.sl /\ gv' = u.gv /\ txMsg' = u.msg /\ quiet' = u.quiet
            /\ todo' = [todo EXCEPT ![ch] = SubSeq(c.bytes, k + 1, Len(c.bytes))]
            /\ asked' = [o \in Channels |-> IF o = ch /\ well THEN c.effect ELSE <<>>]
            /\ did' = [o \in Channels |-> IF ~(o = ch /\ well) THEN <<>>
                                           ELSE IF todo[ch] = <<>> THEN u.did ELSE did[ch] \o u.did]
            /\ whole' = [o \in Channels |-> IF o = ch THEN well ELSE ~(todo[o] # <<>>)]
  BY Zenon DEF Chunk
<1>2. PICK k \in 1..Len(c.bytes) :
        /\ sl' = t(c, k).sl /\ gv' = t(c, k).gv /\ txMsg' = t(c, k).msg
        /\ todo' = [todo EXCEPT ![ch] = SubSeq(c.bytes, k + 1, Len(c.bytes))]
        /\ asked' = [o \in Channels |-> IF o = ch /\ ok(k, c) THEN c.effect ELSE <<>>]
        /\ did' = [o \in Channels |-> IF ~(o = ch /\ ok(k, c)) THEN <<>>
                                       ELSE IF fresh THEN t(c, k).did ELSE did[ch] \o t(c, k).did]
        /\ whole' = [o \in Channels |-> IF o = ch THEN ok(k, c) ELSE ~(todo[o] # <<>>)]
  BY <1>1
<1> DEFINE e == t(c, k)
           good == ok(k, c)
<1>3. last' = ch /\ protocol' = protocol /\ wsUp' = wsUp /\ (ch = "ws" => wsUp)
  BY DEF Chunk
<1>4. /\ ShapeInv /\ protocol \in Protocols /\ HasShape(txMsg) /\ "none" \notin Channels
      /\ todo \in [Channels -> Seq(STRING) \cup Seq(Nat)]
      /\ whole[ch] /\ ~fresh => Partly(ch)
  BY AdapterAssumption DEF ExactInv, ShapeInv
<1>5. /\ todo'[ch] = SubSeq(c.bytes, k + 1, Len(c.bytes))
      /\ \A o \in Channels : o # ch => todo'[o] = todo[o]
  BY <1>2, <1>4
<1>6. /\ good <=> whole'[ch]
      /\ \A o \in Channels : o # ch => (whole'[o] <=> todo[o] = <<>>)
      /\ DOMAIN whole' = Channels
  <2> HIDE DEF ok
  <2>1. whole' = [o \in Channels |-> IF o = ch THEN ok(k, c) ELSE ~(todo[o] # <<>>)]
    BY <1>2
  <2>2. good <=> whole'[ch]
    BY <2>1, Zenon
  <2>3. \A o \in Channels : o # ch => (whole'[o] <=> todo[o] = <<>>)
    BY <2>1, Zenon
  <2>4. DOMAIN whole' = Channels
    BY <2>1, Zenon
  <2>5. QED
    BY <2>2, <2>3, <2>4
<1>7. /\ DOMAIN asked' = Channels /\ DOMAIN did' = Channels
      /\ good => asked'[ch] = c.effect /\ did'[ch] = IF fresh THEN e.did ELSE did[ch] \o e.did
  <2> HIDE DEF ok, t
  <2>1. QED
    BY <1>2
<1>8. ASSUME good, fresh
      PROVE  (todo'[ch] # <<>> => Partly(ch)') /\ (todo'[ch] = <<>> => Finished(ch)')
  <2>1. c \in Sayable(ch) /\ Clean(ch) /\ (ToRealDash => ch # "ws" /\ k = Len(c.bytes))
    BY <1>1, <1>8
  <2>2. PICK S : c.bytes \in Seq(S)
    BY <1>3, <1>4, <2>1, WhoseCommands
  <2>3. CASE ~ToRealDash
    <3> DEFINE s == SubSeq(c.bytes, 1, k)
    <3>1. s \in Seq(S)
      BY <2>2
    <3>2. HasRead(ch, s, Feed(ch, s).sl, Feed(ch, s).gv, Feed(ch, s).msg, Feed(ch, s).did)
      <4> HIDE DEF s
      <4> QED
        BY <1>3, <1>4, <2>1, <2>3, <3>1, ReadingBegins
    <3>3. did'[ch] = Feed(ch, s).did
      BY <1>7, <1>8
    <3>4. HasRead(ch, s, sl', gv', txMsg', did'[ch])
      BY <1>2, <3>2, <3>3
    <3>5. asked'[ch] = c.effect
      BY <1>7, <1>8
    <3>6. QED
      BY <1>3, <1>4, <1>5, <2>1, <3>4, <3>5, CommandAdvances
  <2>4. CASE ToRealDash
    <3>1. ch # "ws" /\ k = Len(c.bytes) /\ ~ToSlcan(ch) /\ ~ToGvret
      BY <2>1, <2>4 DEF ToSlcan, ToGvret, ToRealDash
    <3>2. SubSeq(c.bytes, 1, k) = c.bytes /\ SubSeq(c.bytes, k + 1, Len(c.bytes)) = <<>>
      BY <2>2, <3>1
    <3>3. RdExact(c)
      BY <1>3, <1>4, <2>1, <2>4, <3>1, WhoseCommands DEF CommandsDefined
    <3>4. Feed(ch, c.bytes).did = c.effect
      BY <1>4, <2>4, <3>1, <3>3, FeedRealDash DEF RdExact
    <3>5. did'[ch] = asked'[ch]
      BY <1>7, <1>8, <3>2, <3>4
    <3>6. Clean(ch)'
      BY <1>3, <3>1 DEF Clean, ToSlcan, ToGvret
    <3>7. Finished(ch)'
      BY <3>5, <3>6 DEF Finished
    <3>8. QED
      BY <1>5, <3>2, <3>7
  <2>5. QED
    BY <2>3, <2>4
<1>9. ASSUME good, ~fresh
      PROVE  (todo'[ch] # <<>> => Partly(ch)') /\ (todo'[ch] = <<>> => Finished(ch)')
  <2>1. whole[ch] /\ ~(ToSlcan(ch) /\ quiet)
    BY <1>9
  <2>2. c.bytes = todo[ch] /\ c.effect = asked[ch]
    BY <1>1, <1>9
  <2>3. PICK d \in Sayable(ch) : \E n \in 1..(Len(d.bytes) - 1) :
          /\ asked[ch] = d.effect /\ todo[ch] = SubSeq(d.bytes, n + 1, Len(d.bytes))
          /\ HasRead(ch, SubSeq(d.bytes, 1, n), sl, gv, txMsg, did[ch])
    BY <1>4, <1>9, <2>1 DEF Partly
  <2>4. PICK n \in 1..(Len(d.bytes) - 1) :
          /\ asked[ch] = d.effect /\ todo[ch] = SubSeq(d.bytes, n + 1, Len(d.bytes))
          /\ HasRead(ch, SubSeq(d.bytes, 1, n), sl, gv, txMsg, did[ch])
    BY <2>3
  <2>5. PICK S : d.bytes \in Seq(S)
    BY <1>3, <1>4, <2>3, WhoseCommands
  <2> DEFINE w == d.bytes
             s == SubSeq(w, 1, n)
             rest == SubSeq(w, n + 1, Len(w))
             u == SubSeq(rest, 1, k)
  <2>6. w \in Seq(S) /\ n \in 1..(Len(w) - 1) /\ todo[ch] = rest /\ k \in 1..Len(rest)
    BY <2>2, <2>4, <2>5
  <2>7. n \in 1..Len(w) /\ Len(rest) = Len(w) - n /\ k \in 1..Len(w) /\ n + k \in 1..Len(w) /\ n + k <= Len(w)
    <3> HIDE DEF w
    <3>1. Len(rest) = Len(w) - n /\ Len(w) \in Nat
      BY <2>6
    <3> HIDE DEF rest
    <3>2. QED
      BY <2>6, <3>1
  <2>8. /\ s \in Seq(S) /\ u \in Seq(S) /\ s \o u = SubSeq(w, 1, n + k)
        /\ SubSeq(rest, k + 1, Len(rest)) = SubSeq(w, n + k + 1, Len(w))
    <3> HIDE DEF w
    <3> QED
      BY <2>6, <2>7, Cuts
  <2> HIDE DEF w, s, rest, u
  <2>9. HasRead(ch, s \o u, Feed(ch, u).sl, Feed(ch, u).gv, Feed(ch, u).msg, did[ch] \o Feed(ch, u).did)
    <3>1. HasRead(ch, s, sl, gv, txMsg, did[ch])
      BY <2>4 DEF s, w
    <3>2. QED
      BY <2>1, <2>8, <3>1, ReadingGoesOn
  <2>10. e = Feed(ch, u)
    BY <2>2, <2>6 DEF u
  <2>11. did'[ch] = did[ch] \o Feed(ch, u).did /\ asked'[ch] = d.effect
    BY <1>7, <1>9, <2>2, <2>4, <2>10
  <2>12. sl' = Feed(ch, u).sl /\ gv' = Feed(ch, u).gv /\ txMsg' = Feed(ch, u).msg
    BY <1>2, <2>10
  <2>13. HasRead(ch, SubSeq(d.bytes, 1, n + k), sl', gv', txMsg', did'[ch])
    BY <2>8, <2>9, <2>11, <2>12 DEF w
  <2>14. todo'[ch] = SubSeq(d.bytes, (n + k) + 1, Len(d.bytes))
    BY <1>5, <2>2, <2>6, <2>8 DEF w
  <2>15. n + k \in 1..Len(d.bytes)
    BY <2>7 DEF w
  <2>16. QED
    BY <1>3, <1>4, <2>11, <2>13, <2>14, <2>15, CommandAdvances
<1>10. good => (todo'[ch] # <<>> => Partly(ch)') /\ (todo'[ch] = <<>> => Finished(ch)')
  BY <1>8, <1>9
<1> HIDE DEF good, fresh, From, t, ok, e
<1>11. \A o \in Channels : whole'[o] /\ todo'[o] # <<>> => Partly(o)'
  BY <1>5, <1>6, <1>10
<1>12. last' # "none" /\ whole'[last'] /\ todo'[last'] = <<>> => Finished(last)'
  BY <1>3, <1>6, <1>10
<1>13. QED
  BY <1>3, <1>4, <1>6, <1>7, <1>11, <1>12 DEF ExactInv

(* A WebSocket that comes or goes disturbs no command of another channel.   *)
LEMMA OthersKeepReading ==
  ASSUME NEW ch \in Channels, ch # "ws", Partly(ch), protocol' = protocol, sl' = sl, gv' = gv,
         txMsg' = txMsg, asked'[ch] = asked[ch], todo'[ch] = todo[ch], did'[ch] = did[ch]
  PROVE  Partly(ch)'
<1>1. /\ ToSlcan(ch)' <=> ToSlcan(ch)
      /\ ToGvret' <=> ToGvret
      /\ ToRealDash' <=> ToRealDash
      /\ Sayable(ch)' = Sayable(ch)
  BY DEF ToSlcan, ToGvret, ToRealDash, Sayable
<1>2. PICK c \in Sayable(ch) : \E k \in 1..(Len(c.bytes) - 1) :
        /\ asked[ch] = c.effect /\ todo[ch] = SubSeq(c.bytes, k + 1, Len(c.bytes))
        /\ HasRead(ch, SubSeq(c.bytes, 1, k), sl, gv, txMsg, did[ch])
  BY DEF Partly
<1>3. PICK k \in 1..(Len(c.bytes) - 1) :
        /\ asked[ch] = c.effect /\ todo[ch] = SubSeq(c.bytes, k + 1, Len(c.bytes))
        /\ HasRead(ch, SubSeq(c.bytes, 1, k), sl, gv, txMsg, did[ch])
  BY <1>2
<1> DEFINE s == SubSeq(c.bytes, 1, k)
<1>4. HasRead(ch, s, sl, gv, txMsg, did[ch])'
  <2>1. HasRead(ch, s, sl, gv, txMsg, did[ch])
    BY <1>3
  <2> HIDE DEF s
  <2>2. QED
    BY <1>1, <2>1 DEF HasRead
<1>5. QED
  BY <1>1, <1>3, <1>4 DEF Partly

(* Nothing is under way in the beginning.                                   *)
LEMMA ExactInvInit == AdapterInit => ExactInv
<1> SUFFICES ASSUME AdapterInit PROVE ExactInv
  OBVIOUS
<1>1. ShapeInv
  BY ShapeInvInit
<1>2. QED
  BY <1>1 DEF AdapterInit, ExactInv

(* One step per action: time, the WebSocket, a chunk.                       *)
LEMMA ExactInvNext ==
  CommandsDefined /\ ExactInv /\ [AdapterNext]_adapterVars => ExactInv'
<1> SUFFICES ASSUME CommandsDefined, ExactInv, [AdapterNext]_adapterVars PROVE ExactInv'
  OBVIOUS
<1>1. ShapeInv'
  BY ShapeInvNext DEF ExactInv
<1>2. CASE TimePasses \/ UNCHANGED adapterVars
  <2>1. UNCHANGED <<protocol, wsUp, sl, gv, txMsg, last, asked, todo, did, whole>>
    BY <1>2 DEF TimePasses, adapterVars
  <2>2. QED
    BY <1>1, <2>1 DEF ExactInv, Partly, Finished, HasRead, Clean, Sayable, ToSlcan, ToGvret,
       ToRealDash
<1>3. CASE WsToggles
  <2>1. /\ protocol' = protocol /\ sl' = sl /\ gv' = gv /\ txMsg' = txMsg /\ last' = "none"
        /\ todo' = [todo EXCEPT !["ws"] = <<>>] /\ did' = [did EXCEPT !["ws"] = <<>>]
        /\ asked' = [asked EXCEPT !["ws"] = <<>>] /\ whole' = [whole EXCEPT !["ws"] = TRUE]
        /\ "ws" \in Channels
    BY <1>3 DEF WsToggles
  <2>2. DOMAIN asked = Channels /\ DOMAIN did = Channels /\ DOMAIN whole = Channels /\ DOMAIN todo = Channels
    BY DEF ExactInv, ShapeInv
  <2>3. todo'["ws"] = <<>>
    BY <2>1, <2>2
  <2>4. ASSUME NEW ch \in Channels, ch # "ws"
        PROVE  /\ todo'[ch] = todo[ch] /\ did'[ch] = did[ch] /\ asked'[ch] = asked[ch]
               /\ whole'[ch] = whole[ch]
    BY <2>1, <2>2, <2>4
  <2>5. ASSUME NEW ch \in Channels, whole'[ch], todo'[ch] # <<>> PROVE Partly(ch)'
    <3>1. ch # "ws"
      BY <2>3, <2>5
    <3>2. whole[ch] /\ todo[ch] # <<>>
      BY <2>4, <2>5, <3>1
    <3>3. Partly(ch)
      BY <3>2 DEF ExactInv
    <3>4. QED
      BY <2>1, <2>4, <3>1, <3>3, OthersKeepReading
  <2>6. /\ DOMAIN asked' = Channels /\ DOMAIN did' = Channels /\ DOMAIN whole' = Channels
        /\ protocol' \in Protocols
    BY <2>1, <2>2 DEF ExactInv
  <2>7. QED
    BY <1>1, <2>1, <2>5, <2>6 DEF ExactInv
<1>4. ASSUME NEW ch \in Channels, Chunk(ch) PROVE ExactInv'
  BY <1>1, <1>4, ChunkExact
<1>5. QED
  BY <1>2, <1>3, <1>4 DEF AdapterNext

(* What the invariant is for.                                               *)
LEMMA ExactMeansExact == ASSUME CommandsDefined, ExactInv PROVE CommandsExact
<1>1. last # "none" /\ whole[last] /\ todo[last] = <<>> => did[last] = asked[last] /\ Clean(last)
  BY DEF ExactInv, Finished
<1>2. ASSUME NEW ch \in Channels, whole[ch], todo[ch] # <<>>
      PROVE  \A i \in DOMAIN did[ch] : did[ch][i][1] # "send"
  <2>1. Partly(ch)
    BY <1>2 DEF ExactInv
  <2>2. Harmless(did[ch])
    BY <2>1, ReadingIsHarmless DEF Partly, ExactInv
  <2>3. QED
    BY <2>2 DEF Harmless
<1>3. QED
  BY <1>1, <1>2 DEF CommandsExact

(* For all commands that are defined, which is a matter of each command    *)
(* alone: whatever the hosts have said before and whatever tx_msg holds, a *)
(* command that is not disturbed has its exact effect however it is cut,   *)
(* leaves the parser clean, and while the rest of it is on its way nothing *)
(* of it reaches the bus (slcan.c:239, gvret.c:115, realdash.c:118).       *)
THEOREM CommandsExactCorrect == ASSUME CommandsDefined PROVE AdapterSpec => []CommandsExact
<1>1. ExactInv => CommandsExact
  BY ExactMeansExact
<1>2. AdapterInit => ExactInv
  BY ExactInvInit
<1>3. ExactInv /\ [AdapterNext]_adapterVars => ExactInv'
  BY ExactInvNext
<1>4. QED
  BY <1>1, <1>2, <1>3, PTL DEF AdapterSpec
-----------------------------------------------------------------------------
(* The CAN filters of the MQTT client. The loop over them is a fold, and so *)
(* has a run; after k turns it has served the filters among the first k     *)
(* that FiltersServed names, and goes on if none of them was early.         *)

FindStart == [going |-> TRUE, out |-> {}]

FindRunOf(g, f, n) ==
  /\ DOMAIN g = 0..n /\ g[0] = FindStart
  /\ \A k \in 1..n : g[k] = FindNext(g[k - 1], k, f)

(* The loop has a run.                                                      *)
LEMMA ServedHasRun ==
  ASSUME NEW n \in Nat, DOMAIN filters = 1..n, NEW f
  PROVE  \E g : FindRunOf(g, f, n) /\ Served(f) = g[n].out
<1> DEFINE s == [i \in DOMAIN filters |-> i]
           Eq(g, k) == g = [t \in SUBSET (1..k) |->
                              IF t = {} THEN FindStart ELSE FindNext(g[t \ {Max(t)}], s[Max(t)], f)]
           Good == {k \in Nat : \E g : Eq(g, k)}
<1>1. 0 \in Good
  <2> DEFINE g == [t \in SUBSET (1..0) |-> FindStart]
  <2>1. \A t \in SUBSET (1..0) : t = {}
    OBVIOUS
  <2>2. Eq(g, 0)
    BY <2>1
  <2> HIDE DEF Eq
  <2>3. QED
    BY <2>2
<1>2. ASSUME NEW k \in Nat, k \in Good PROVE k + 1 \in Good
  <2> HIDE DEF s
  <2>1. PICK g : Eq(g, k)
    BY <1>2
  <2> DEFINE h == [t \in SUBSET (1..(k + 1)) |->
                     IF (k + 1) \in t THEN FindNext(g[t \ {k + 1}], s[k + 1], f) ELSE g[t]]
  <2>2. ASSUME NEW t \in SUBSET (1..(k + 1)), (k + 1) \notin t
        PROVE  h[t] = IF t = {} THEN FindStart ELSE FindNext(h[t \ {Max(t)}], s[Max(t)], f)
    <3>1. t \in SUBSET (1..k) /\ t \ {Max(t)} \in SUBSET (1..k)
      <4>1. \A x \in 1..(k + 1) : x # k + 1 => x \in 1..k
        OBVIOUS
      <4> HIDE DEF h
      <4>2. t \subseteq 1..k
        BY <2>2, <4>1
      <4>3. QED
        BY <4>2
    <3>2. h[t] = g[t]
      BY <2>2
    <3>3. h[t \ {Max(t)}] = g[t \ {Max(t)}]
      BY <2>2, <3>1
    <3>4. g[t] = IF t = {} THEN FindStart ELSE FindNext(g[t \ {Max(t)}], s[Max(t)], f)
      BY <2>1, <3>1
    <3>5. QED
      BY <3>2, <3>3, <3>4
  <2>3. ASSUME NEW t \in SUBSET (1..(k + 1)), (k + 1) \in t
        PROVE  h[t] = IF t = {} THEN FindStart ELSE FindNext(h[t \ {Max(t)}], s[Max(t)], f)
    <3>1. Max(t) = k + 1
      BY <2>3, MaxOf
    <3>2. t \ {k + 1} \in SUBSET (1..(k + 1)) /\ (k + 1) \notin t \ {k + 1}
      OBVIOUS
    <3>3. h[t \ {k + 1}] = g[t \ {k + 1}]
      BY <3>2
    <3>4. QED
      BY <2>3, <3>1, <3>3
  <2>4. Eq(h, k + 1)
    BY <2>2, <2>3
  <2> HIDE DEF h, Eq
  <2>5. QED
    BY <2>4
<1>3. \A k \in Nat : k \in Good
  <2> HIDE DEF Good
  <2>1. QED
    BY <1>1, <1>2, SetInduction
<1> DEFINE it == CHOOSE g : Eq(g, n)
<1>4. Eq(it, n)
  <2>1. \E g : Eq(g, n)
    BY <1>3
  <2> HIDE DEF Eq
  <2>2. QED
    BY <2>1
<1>5. Served(f) = it[1..n].out
  BY DEF Served, FoldLeft, MapThenFoldSet, FindStart
<1> HIDE DEF it
<1> DEFINE g == [k \in 0..n |-> it[1..k]]
<1>6. g[0] = FindStart
  BY <1>4
<1>7. ASSUME NEW k \in 1..n PROVE g[k] = FindNext(g[k - 1], k, f)
  <2>1. 1..k \in SUBSET (1..n) /\ 1..k # {} /\ k \in 1..k /\ 1..k \in SUBSET (1..k) /\ k \in Nat
    <3>1. k \in Nat /\ k <= n /\ 1 <= k
      OBVIOUS
    <3>2. 1..k \subseteq 1..n /\ k \in 1..k
      BY <3>1
    <3>3. QED
      BY <3>1, <3>2
  <2>2. Max(1..k) = k
    BY <2>1, MaxOf
  <2>3. (1..k) \ {k} = 1..(k - 1)
    OBVIOUS
  <2>4. it[1..k] = FindNext(it[1..(k - 1)], s[k], f)
    BY <1>4, <2>1, <2>2, <2>3
  <2>5. s[k] = k
    OBVIOUS
  <2>6. QED
    BY <2>4, <2>5
<1>8. n \in 0..n /\ g[n] = it[1..n] /\ DOMAIN g = 0..n
  OBVIOUS
<1> HIDE DEF g
<1>9. FindRunOf(g, f, n)
  BY <1>6, <1>7, <1>8 DEF FindRunOf
<1>10. QED
  BY <1>5, <1>8, <1>9

(* A filter is served: it matches and none that matches was early up to it. *)
Due(i, f) == Matches(i, f) /\ \A j \in 1..i : Matches(j, f) => CycleOver(j)

FoundBy(acc, k, f) ==
  /\ acc = [going |-> acc.going, out |-> acc.out]
  /\ acc.going <=> \A j \in 1..k : Matches(j, f) => CycleOver(j)
  /\ acc.out = {i \in 1..k : Due(i, f)}

(* One turn of the loop.                                                    *)
LEMMA FindsNext ==
  ASSUME NEW k \in Nat, k > 0, NEW acc, NEW f, FoundBy(acc, k - 1, f)
  PROVE  FoundBy(FindNext(acc, k, f), k, f)
<1> DEFINE advanced == FindNext(acc, k, f)
<1>1. \A i \in 1..k : i = k \/ i \in 1..(k - 1)
  OBVIOUS
<1>2. 1..(k - 1) \subseteq 1..k /\ k \in 1..k /\ k \notin 1..(k - 1)
  OBVIOUS
<1>3. Matches(k, f) => filters[k].id = f.id
  BY DEF Matches
<1>4. CASE ~acc.going
  <2>1. advanced = acc
    BY <1>4 DEF FindNext
  <2>2. ~\A j \in 1..k : Matches(j, f) => CycleOver(j)
    BY <1>2, <1>4 DEF FoundBy
  <2>3. ~Due(k, f)
    BY <2>2 DEF Due
  <2>4. {i \in 1..k : Due(i, f)} = {i \in 1..(k - 1) : Due(i, f)}
    BY <1>1, <1>2, <2>3
  <2>5. QED
    BY <1>4, <2>1, <2>2, <2>4 DEF FoundBy
<1>5. CASE acc.going /\ ~Matches(k, f)
  <2>1. advanced = acc
    BY <1>5 DEF FindNext
  <2>2. \A j \in 1..k : Matches(j, f) => CycleOver(j)
    BY <1>1, <1>5 DEF FoundBy
  <2>3. {i \in 1..k : Due(i, f)} = {i \in 1..(k - 1) : Due(i, f)}
    BY <1>1, <1>2, <1>5 DEF Due
  <2>4. QED
    BY <1>5, <2>1, <2>2, <2>3 DEF FoundBy
<1>6. CASE acc.going /\ Matches(k, f) /\ ~CycleOver(k)
  <2>1. advanced = [acc EXCEPT !.going = FALSE]
    BY <1>3, <1>6 DEF FindNext
  <2>2. advanced = [going |-> FALSE, out |-> acc.out]
    BY <2>1 DEF FoundBy
  <2>3. ~\A j \in 1..k : Matches(j, f) => CycleOver(j)
    BY <1>2, <1>6
  <2>4. {i \in 1..k : Due(i, f)} = {i \in 1..(k - 1) : Due(i, f)}
    BY <1>1, <1>2, <2>3 DEF Due
  <2> HIDE DEF advanced
  <2>5. ~advanced.going /\ advanced.out = acc.out /\ advanced = [going |-> advanced.going, out |-> advanced.out]
    BY <2>2, Zenon
  <2>6. advanced.out = {i \in 1..k : Due(i, f)}
    BY <2>4, <2>5 DEF FoundBy
  <2>7. FoundBy(advanced, k, f)
    BY <2>3, <2>5, <2>6, Zenon DEF FoundBy
  <2>8. QED
    BY <2>7 DEF advanced
<1>7. CASE acc.going /\ Matches(k, f) /\ CycleOver(k)
  <2>1. advanced = [acc EXCEPT !.out = @ \cup {k}]
    BY <1>3, <1>7 DEF FindNext
  <2>2. advanced = [going |-> acc.going, out |-> acc.out \cup {k}]
    BY <2>1 DEF FoundBy
  <2>3. \A j \in 1..k : Matches(j, f) => CycleOver(j)
    BY <1>1, <1>7 DEF FoundBy
  <2>4. Due(k, f)
    BY <1>7, <2>3 DEF Due
  <2>5. {i \in 1..k : Due(i, f)} = {i \in 1..(k - 1) : Due(i, f)} \cup {k}
    BY <1>1, <1>2, <2>4
  <2> HIDE DEF advanced
  <2>6. /\ advanced.going = acc.going /\ advanced.out = acc.out \cup {k}
        /\ advanced = [going |-> advanced.going, out |-> advanced.out]
    BY <2>2, Zenon
  <2>7. advanced.out = {i \in 1..k : Due(i, f)}
    BY <2>5, <2>6 DEF FoundBy
  <2>8. advanced.going
    BY <1>7, <2>6, Zenon
  <2>9. FoundBy(advanced, k, f)
    BY <2>3, <2>6, <2>7, <2>8, Zenon DEF FoundBy
  <2>10. QED
    BY <2>9 DEF advanced
<1>8. QED
  BY <1>4, <1>5, <1>6, <1>7

(* All of them.                                                             *)
LEMMA ServedAreDue ==
  ASSUME NEW n \in Nat, DOMAIN filters = 1..n, NEW f
  PROVE  Served(f) = {i \in 1..n : Due(i, f)}
<1>1. PICK g : FindRunOf(g, f, n) /\ Served(f) = g[n].out
  BY ServedHasRun
<1> DEFINE Good == {k \in Nat : k <= n => FoundBy(g[k], k, f)}
<1>2. 0 \in Good
  <2>1. FoundBy(FindStart, 0, f)
    BY DEF FoundBy, FindStart
  <2>2. QED
    BY <1>1, <2>1 DEF FindRunOf
<1>3. ASSUME NEW k \in Nat, k \in Good PROVE k + 1 \in Good
  <2> SUFFICES ASSUME k + 1 <= n PROVE FoundBy(g[k + 1], k + 1, f)
    OBVIOUS
  <2>1. FoundBy(g[k], k, f)
    BY <1>3
  <2>2. (k + 1) - 1 = k /\ k + 1 \in 1..n /\ k + 1 \in Nat /\ k + 1 > 0
    OBVIOUS
  <2>3. g[k + 1] = FindNext(g[k], k + 1, f)
    BY <1>1, <2>2 DEF FindRunOf
  <2>4. QED
    BY <2>1, <2>2, <2>3, FindsNext
<1>4. \A k \in Nat : k \in Good
  <2> HIDE DEF Good
  <2>1. QED
    BY <1>2, <1>3, SetInduction
<1>5. FoundBy(g[n], n, f)
  BY <1>4
<1>6. QED
  BY <1>1, <1>5 DEF FoundBy

(* Nothing is older than its cycle: the loop compares with >=.              *)
MqttInv ==
  /\ filters \in FilterSets /\ DOMAIN age = DOMAIN filters
  /\ \A i \in DOMAIN filters : age[i] \in 0..filters[i].cycle

\* When the client starts, the cycle of every filter is over.
LEMMA MqttInvInit == MqttInit => MqttInv
<1> SUFFICES ASSUME MqttInit PROVE MqttInv
  OBVIOUS
<1>1. filters \in FilterSets /\ age = [i \in DOMAIN filters |-> filters[i].cycle]
  BY DEF MqttInit
<1>2. \A i \in DOMAIN filters : filters[i].cycle \in Nat
  BY <1>1, MqttAssumption
<1>3. QED
  BY <1>1, <1>2 DEF MqttInv

\* Every step keeps the ages within the cycles.
LEMMA MqttInvNext == MqttInv /\ [MqttNext]_mqttVars => MqttInv'
<1> SUFFICES ASSUME MqttInv, [MqttNext]_mqttVars PROVE MqttInv'
  OBVIOUS
<1>1. \A i \in DOMAIN filters : filters[i].cycle \in Nat /\ age[i] \in 0..filters[i].cycle
  BY MqttAssumption DEF MqttInv
<1>2. filters' = filters
  BY DEF MqttNext, mqttVars, FrameComes, BrokerComesOrGoes, Ticks, Discard, PublishFiltered,
         PublishBatch, PublishObd, BrokerSends
<1>3. CASE Ticks
  <2>1. age' = [i \in DOMAIN filters |-> IF age[i] < filters[i].cycle THEN age[i] + 1 ELSE age[i]]
    BY <1>3 DEF Ticks
  <2>2. \A i \in DOMAIN filters : age'[i] \in 0..filters[i].cycle
    BY <1>1, <2>1
  <2>3. QED
    BY <1>2, <2>1, <2>2 DEF MqttInv
<1>4. CASE PublishFiltered
  <2>1. \E served : age' = [i \in DOMAIN filters |-> IF i \in served THEN 0 ELSE age[i]]
    BY <1>4 DEF PublishFiltered
  <2>2. \A i \in DOMAIN filters : age'[i] \in 0..filters[i].cycle
    BY <1>1, <2>1
  <2>3. QED
    BY <1>2, <2>1, <2>2 DEF MqttInv
<1>5. CASE age' = age
  BY <1>2, <1>5 DEF MqttInv
<1>6. QED
  BY <1>3, <1>4, <1>5 DEF MqttNext, mqttVars, FrameComes, BrokerComesOrGoes, Discard,
     PublishBatch, PublishObd, BrokerSends

(* A frame that is published renews the filters that were due, and no other. *)
LEMMA RenewsDue ==
  ASSUME MqttInv, PublishFiltered, NEW i \in DOMAIN filters
  PROVE  (age'[i] = 0 /\ age[i] > 0) <=> Due(i, Head(mqttQueue))
<1> DEFINE f == Head(mqttQueue)
<1>1. PICK n \in Nat : DOMAIN filters = 1..n
  <2>1. filters \in Seq(ToSet(filters))
    BY MqttAssumption DEF MqttInv
  <2>2. QED
    BY <2>1
<1>2. Served(f) = {j \in 1..n : Due(j, f)}
  BY <1>1, ServedAreDue
<1>3. age'[i] = IF i \in Served(f) THEN 0 ELSE age[i]
  BY DEF PublishFiltered
<1>4. filters[i].cycle \in Nat \ {0} /\ age[i] \in 0..filters[i].cycle
  BY MqttAssumption DEF MqttInv
<1> HIDE DEF f
<1>5. CASE Due(i, f)
  <2>1. i \in 1..i
    BY <1>1
  <2>2. age[i] = filters[i].cycle
    BY <1>5, <2>1 DEF Due, CycleOver
  <2>3. age'[i] = 0
    BY <1>1, <1>2, <1>3, <1>5
  <2>4. QED
    BY <1>4, <1>5, <2>2, <2>3 DEF f
<1>6. CASE ~Due(i, f)
  <2>1. age'[i] = age[i]
    BY <1>2, <1>3, <1>6
  <2>2. QED
    BY <1>4, <1>6, <2>1 DEF f
<1>7. QED
  BY <1>5, <1>6

(* For every configuration of filters and every traffic: a frame renews     *)
(* exactly the filters it matches up to the first that was published less   *)
(* than its cycle ago (mqtt.c:384-432).                                     *)
THEOREM FiltersServedCorrect == MqttSpec => FiltersServed
<1>1. ASSUME MqttInv, PublishFiltered
      PROVE  \A i \in DOMAIN filters :
               (age'[i] = 0 /\ age[i] > 0) =
                 (Matches(i, Head(mqttQueue))
                    /\ \A j \in 1..i : Matches(j, Head(mqttQueue)) => CycleOver(j))
  BY <1>1, RenewsDue DEF Due
<1>2. MqttInv /\ [MqttNext]_mqttVars =>
        [PublishFiltered =>
           \A i \in DOMAIN filters :
             (age'[i] = 0 /\ age[i] > 0) =
               (Matches(i, Head(mqttQueue))
                  /\ \A j \in 1..i : Matches(j, Head(mqttQueue)) => CycleOver(j))]_mqttVars
  BY <1>1
<1>3. QED
  BY <1>2, MqttInvInit, MqttInvNext, PTL DEF MqttSpec, FiltersServed
=============================================================================
