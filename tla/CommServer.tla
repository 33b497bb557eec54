----------------------------- MODULE CommServer -----------------------------
(***************************************************************************)
(* The socket server of comm_server.c: a server task that accepts one      *)
(* client at a time, a receive task and a transmit task, which meet in two *)
(* event bits, the global `sock` and a mutex.  A client is named once per  *)
(* connection, so it also names the file descriptor of that connection.    *)
(* Data is a token: the client whose session a frame of txq or a segment   *)
(* of rxq belongs to, if Tagged.                                           *)
(***************************************************************************)
EXTENDS Naturals, Sequences, FiniteSets

CONSTANTS
  Clients,    (* connections that may arrive                               *)
  NoSock,     (* the value -1 of sock                                      *)
  TxDepth,    (* slots of xMsg_Tx_Queue (128 in main.c)                    *)
  RxDepth,    (* slots of xMsg_Rx_Queue (16 in main.c)                     *)
  MaxUnread,  (* bound: segments a client has under way                    *)
  Tagged      (* history: frames carry the session they are for            *)

ASSUME SocketAssumption ==
  /\ NoSock \notin Clients
  /\ TxDepth \in Nat \ {0} /\ RxDepth \in Nat \ {0} /\ MaxUnread \in Nat \ {0}
  /\ Tagged \in BOOLEAN

Tag(c) == IF Tagged THEN c ELSE NoSock

VARIABLES
  udp,        (* udp_enable                                                *)
  portOpen,   (* PORT_OPEN_BIT                                             *)
  portClosed, (* PORT_CLOSED_BIT                                           *)
  sock,       (* the descriptor of the session                             *)
  fds,        (* descriptors not closed; the listening socket is NoSock    *)
  shutFds,    (* descriptors shut down by us                               *)
  srv,        (* server task: place, newcomer                              *)
  rx,         (* receive task: place, descriptor it is blocked on          *)
  tx,         (* transmit task: place, coalesced frames                    *)
  skMutex,    (* holder of xTCP_Socket_Semaphore: "none", "srv" or "tx"    *)
  txq, rxq,   (* xMsg_Tx_Queue, xMsg_Rx_Queue                              *)
  peer,       (* per client: "away" or "met"                               *)
  unread,     (* per client: segments sent and not yet received            *)
  gone,       (* clients whose connection has failed or was closed         *)
  deaf        (* clients who are there but do not take data                *)

sessionVars == <<portOpen, portClosed, sock, fds, shutFds>>
peerVars == <<peer, unread, gone, deaf>>
queueVars == <<txq, rxq>>
commVars == <<udp, sessionVars, srv, rx, tx, skMutex, queueVars, peerVars>>

SrvPlaces == {"start", "accept", "peek", "over", "await", "swap", "clear", "open",
              "udp-wait", "dead"}
RxPlaces == {"wait", "call", "recv", "queue", "clear", "shut", "signal"}
TxPlaces == {"idle", "gate", "drain", "lock", "send", "clear", "shut", "wait"}

CommInit ==
  /\ udp \in BOOLEAN
  /\ portOpen = FALSE /\ portClosed = TRUE
  /\ sock = NoSock /\ fds = {NoSock} /\ shutFds = {}
  /\ srv = [at |-> "start", new |-> NoSock]
  /\ rx = [at |-> "wait", fd |-> NoSock]
  /\ tx = [at |-> IF udp THEN "wait" ELSE "idle", batch |-> <<>>]
  /\ skMutex = "none"
  /\ txq = <<>> /\ rxq = <<>>
  /\ peer = [c \in Clients |-> "away"]
  /\ unread = [c \in Clients |-> 0]
  /\ gone = {} /\ deaf = {}

-----------------------------------------------------------------------------
(* The peers.                                                              *)

Say(c) ==
  /\ udp \/ peer[c] # "away"
  /\ c \notin gone /\ unread[c] < MaxUnread
  /\ unread' = [unread EXCEPT ![c] = @ + 1]
  /\ UNCHANGED <<udp, sessionVars, srv, rx, tx, skMutex, queueVars, peer, gone, deaf>>

(* The client closes or resets, or the keepalive gives it up.              *)
Go(c) ==
  /\ peer[c] # "away" /\ c \notin gone
  /\ gone' = gone \cup {c}
  /\ UNCHANGED <<udp, sessionVars, srv, rx, tx, skMutex, queueVars, peer, unread, deaf>>

(* The client stops taking data, or vanishes without a trace.              *)
Deafen(c) ==
  /\ peer[c] = "met" /\ c \notin deaf \cup gone
  /\ deaf' = deaf \cup {c}
  /\ UNCHANGED <<udp, sessionVars, srv, rx, tx, skMutex, queueVars, peer, unread, gone>>

-----------------------------------------------------------------------------
(* The rest of the firmware.                                               *)

(* can_rx_task streams a frame when the port is open; a full queue drops it. *)
Stream ==
  /\ portOpen /\ Len(txq) < TxDepth
  /\ txq' = Append(txq, Tag(sock))
  /\ UNCHANGED <<udp, sessionVars, srv, rx, tx, skMutex, rxq, peerVars>>

(* can_tx_task executes a segment; its answer is dropped if the queue stays *)
(* full for 100 ms.                                                         *)
Execute ==
  /\ rxq # <<>> /\ rxq' = Tail(rxq)
  /\ \/ Len(txq) < TxDepth /\ txq' = Append(txq, Head(rxq))
     \/ UNCHANGED txq
  /\ UNCHANGED <<udp, sessionVars, srv, rx, tx, skMutex, peerVars>>

-----------------------------------------------------------------------------
(* The receive task.                                                       *)

RxWake ==
  /\ rx.at = "wait" /\ portOpen
  /\ rx' = [rx EXCEPT !.at = "call"]
  /\ UNCHANGED <<udp, sessionVars, srv, tx, skMutex, queueVars, peerVars>>

(* recv() on the descriptor sock holds now; recvfrom() on the listening one. *)
RxCall ==
  /\ rx.at = "call"
  /\ rx' = [at |-> "recv", fd |-> IF udp THEN NoSock ELSE sock]
  /\ UNCHANGED <<udp, sessionVars, srv, tx, skMutex, queueVars, peerVars>>

(* Data of the session, or in UDP of anybody.  rx.fd becomes the sender.   *)
RxData(c) ==
  /\ rx.at = "recv" /\ unread[c] > 0
  /\ IF udp THEN NoSock \in fds ELSE c = rx.fd /\ c \notin shutFds
  /\ unread' = [unread EXCEPT ![c] = @ - 1]
  /\ rx' = [at |-> "queue", fd |-> c]
  /\ UNCHANGED <<udp, sessionVars, srv, tx, skMutex, queueVars, peer, gone, deaf>>

(* xQueueSend(..., portMAX_DELAY): TCP's window closes behind it.          *)
RxQueue ==
  /\ rx.at = "queue" /\ Len(rxq) < RxDepth
  /\ rxq' = Append(rxq, Tag(rx.fd))
  /\ rx' = [rx EXCEPT !.at = "call"]
  /\ UNCHANGED <<udp, sessionVars, srv, tx, skMutex, txq, peerVars>>

RxEnd ==
  /\ rx.at = "recv"
  /\ udp \/ rx.fd \in shutFds \cup gone
  /\ rx' = [rx EXCEPT !.at = IF udp THEN "signal" ELSE "clear"]
  /\ UNCHANGED <<udp, sessionVars, srv, tx, skMutex, queueVars, peerVars>>

RxClear ==
  /\ rx.at = "clear"
  /\ portOpen' = FALSE
  /\ rx' = [rx EXCEPT !.at = IF udp THEN "wait" ELSE "shut"]
  /\ UNCHANGED <<udp, portClosed, sock, fds, shutFds, srv, tx, skMutex, queueVars, peerVars>>

RxShut ==
  /\ rx.at = "shut"
  /\ shutFds' = shutFds \cup {sock}
  /\ rx' = [rx EXCEPT !.at = "signal"]
  /\ UNCHANGED <<udp, portOpen, portClosed, sock, fds, srv, tx, skMutex, queueVars, peerVars>>

(* The UDP task raises PORT_CLOSED before it clears PORT_OPEN.             *)
RxSignal ==
  /\ rx.at = "signal"
  /\ portClosed' = TRUE
  /\ rx' = [at |-> IF udp THEN "clear" ELSE "wait", fd |-> NoSock]
  /\ UNCHANGED <<udp, portOpen, sock, fds, shutFds, srv, tx, skMutex, queueVars, peerVars>>

-----------------------------------------------------------------------------
(* The transmit task.                                                      *)

(* The UDP task waits for PORT_OPEN before its loop, the TCP task does not. *)
TxWake ==
  /\ tx.at = "wait" /\ portOpen
  /\ tx' = [tx EXCEPT !.at = "idle"]
  /\ UNCHANGED <<udp, sessionVars, srv, rx, skMutex, queueVars, peerVars>>

TxTake ==
  /\ tx.at = "idle" /\ txq # <<>>
  /\ tx' = [at |-> IF udp THEN "lock" ELSE "gate", batch |-> <<Head(txq)>>]
  /\ txq' = Tail(txq)
  /\ UNCHANGED <<udp, sessionVars, srv, rx, skMutex, rxq, peerVars>>

(* No client: the frame is discarded.                                      *)
TxGate ==
  /\ tx.at = "gate"
  /\ tx' = IF portOpen THEN [tx EXCEPT !.at = "drain"] ELSE [at |-> "idle", batch |-> <<>>]
  /\ UNCHANGED <<udp, sessionVars, srv, rx, skMutex, queueVars, peerVars>>

(* Whatever is queued already goes along in one segment.                   *)
TxDrain ==
  /\ tx.at = "drain"
  /\ tx' = [at |-> "lock", batch |-> tx.batch \o txq]
  /\ txq' = <<>>
  /\ UNCHANGED <<udp, sessionVars, srv, rx, skMutex, rxq, peerVars>>

TxLock ==
  /\ tx.at = "lock" /\ skMutex = "none"
  /\ skMutex' = "tx"
  /\ tx' = [tx EXCEPT !.at = "send"]
  /\ UNCHANGED <<udp, sessionVars, srv, rx, queueVars, peerVars>>

(* send() takes part of the segment or all of it; a client who takes no    *)
(* data blocks it.  The UDP task broadcasts.                               *)
TxSend ==
  /\ tx.at = "send"
  /\ udp \/ sock \notin shutFds \cup deaf
  /\ IF Len(tx.batch) = 1
       THEN tx' = [at |-> "idle", batch |-> <<>>] /\ skMutex' = "none"
       ELSE tx' = [tx EXCEPT !.batch = Tail(@)] /\ UNCHANGED skMutex
  /\ UNCHANGED <<udp, sessionVars, srv, rx, queueVars, peerVars>>

TxFail ==
  /\ tx.at = "send"
  /\ udp \/ sock \in gone \cup shutFds
  /\ portClosed' = (portClosed \/ udp)
  /\ tx' = [at |-> "clear", batch |-> <<>>]
  /\ UNCHANGED <<udp, portOpen, sock, fds, shutFds, srv, rx, skMutex, queueVars, peerVars>>

TxClear ==
  /\ tx.at = "clear"
  /\ portOpen' = FALSE
  /\ IF udp THEN tx' = [tx EXCEPT !.at = "wait"] /\ skMutex' = "none"
            ELSE tx' = [tx EXCEPT !.at = "shut"] /\ UNCHANGED skMutex
  /\ UNCHANGED <<udp, portClosed, sock, fds, shutFds, srv, rx, queueVars, peerVars>>

TxShut ==
  /\ tx.at = "shut"
  /\ shutFds' = shutFds \cup {sock}
  /\ tx' = [tx EXCEPT !.at = "idle"] /\ skMutex' = "none"
  /\ UNCHANGED <<udp, portOpen, portClosed, sock, fds, srv, rx, queueVars, peerVars>>

-----------------------------------------------------------------------------
(* The server task.                                                        *)

SrvMove(place) == srv' = [srv EXCEPT !.at = place]

(* The newcomer is closed and forgotten.                                   *)
Reject ==
  /\ fds' = fds \ {srv.new}
  /\ srv' = [at |-> "accept", new |-> NoSock]
  /\ UNCHANGED <<portOpen, portClosed, sock, shutFds>>

(* socket, bind, listen; if one fails there is no server.                  *)
SrvStart ==
  /\ srv.at = "start"
  /\ \/ SrvMove(IF udp THEN "clear" ELSE "accept") /\ UNCHANGED fds
     \/ SrvMove("dead") /\ fds' = {}
  /\ UNCHANGED <<udp, portOpen, portClosed, sock, shutFds, rx, tx, skMutex, queueVars, peerVars>>

(* accept() returns when a client comes (what it said before it was accepted *)
(* is said after it); then the test whether there is a session to protect.  *)
SrvAccept(c) ==
  /\ srv.at = "accept" /\ peer[c] = "away"
  /\ peer' = [peer EXCEPT ![c] = "met"]
  /\ fds' = fds \cup {c}
  /\ srv' = [at |-> IF sock # NoSock /\ portOpen THEN "peek" ELSE "over", new |-> c]
  /\ UNCHANGED <<udp, portOpen, portClosed, sock, shutFds, rx, tx, skMutex, queueVars,
                 unread, gone, deaf>>

(* Mutant: a newcomer need not say anything.                               *)
SrvPeek_Silent ==
  /\ srv.at = "peek" /\ SrvMove("over")
  /\ UNCHANGED <<udp, sessionVars, rx, tx, skMutex, queueVars, peerVars>>

(* select() for 2 s, then recv(MSG_PEEK): data, or time-out, end, error.   *)
SrvPeek ==
  /\ srv.at = "peek"
  /\ \/ unread[srv.new] > 0 /\ SrvMove("over") /\ UNCHANGED sessionVars
     \/ (unread[srv.new] = 0 \/ srv.new \in gone) /\ Reject
  /\ UNCHANGED <<udp, rx, tx, skMutex, queueVars, peerVars>>

(* Mutant: the old session is not shut down, its end is awaited.           *)
SrvOver_NoShutdown ==
  /\ srv.at = "over"
  /\ IF sock # NoSock THEN SrvMove("await") /\ UNCHANGED sock
                      ELSE sock' = srv.new /\ SrvMove("clear")
  /\ UNCHANGED <<udp, portOpen, portClosed, fds, shutFds, rx, tx, skMutex, queueVars, peerVars>>

(* The old session is shut down, which wakes recv() and a stalled send().  *)
SrvOver ==
  /\ srv.at = "over"
  /\ IF sock # NoSock
       THEN shutFds' = shutFds \cup {sock} /\ SrvMove("await") /\ UNCHANGED sock
       ELSE sock' = srv.new /\ SrvMove("clear") /\ UNCHANGED shutFds
  /\ UNCHANGED <<udp, portOpen, portClosed, fds, rx, tx, skMutex, queueVars, peerVars>>

(* The receive task cannot go on by itself: the 5 s of the server run out  *)
(* only then (every other step of the three tasks is a matter of ms).      *)
RxStuck ==
  \/ rx.at = "queue" /\ Len(rxq) = RxDepth
  \/ rx.at = "wait" /\ ~portOpen

(* Mutant: when the 5 s are over the server goes on.                        *)
SrvAwait_Impatient ==
  /\ srv.at = "await"
  /\ portClosed \/ RxStuck
  /\ SrvMove("swap")
  /\ UNCHANGED <<udp, sessionVars, rx, tx, skMutex, queueVars, peerVars>>

SrvAwait ==
  /\ srv.at = "await"
  /\ \/ portClosed /\ SrvMove("swap") /\ UNCHANGED sessionVars
     \/ ~portClosed /\ RxStuck /\ Reject
  /\ UNCHANGED <<udp, rx, tx, skMutex, queueVars, peerVars>>

(* Under the mutex: close(sock); sock = new_sock.                          *)
SrvSwap ==
  /\ srv.at = "swap" /\ skMutex = "none"
  /\ fds' = fds \ {sock}
  /\ sock' = srv.new
  /\ SrvMove("clear")
  /\ UNCHANGED <<udp, portOpen, portClosed, shutFds, rx, tx, skMutex, queueVars, peerVars>>

SrvClear ==
  /\ srv.at = "clear"
  /\ portClosed' = FALSE
  /\ SrvMove("open")
  /\ UNCHANGED <<udp, portOpen, sock, fds, shutFds, rx, tx, skMutex, queueVars, peerVars>>

SrvOpen ==
  /\ srv.at = "open"
  /\ portOpen' = TRUE
  /\ srv' = [at |-> IF udp THEN "udp-wait" ELSE "accept", new |-> NoSock]
  /\ UNCHANGED <<udp, portClosed, sock, fds, shutFds, rx, tx, skMutex, queueVars, peerVars>>

(* UDP: the first error of either task ends the server for good.           *)
SrvUdpEnd ==
  /\ srv.at = "udp-wait" /\ portClosed
  /\ portOpen' = FALSE
  /\ fds' = fds \ {NoSock}
  /\ SrvMove("dead")
  /\ UNCHANGED <<udp, portClosed, sock, shutFds, rx, tx, skMutex, queueVars, peerVars>>

-----------------------------------------------------------------------------
Peers == \E c \in Clients : Say(c) \/ Go(c) \/ Deafen(c)

RxTask ==
  \/ RxWake \/ RxCall \/ RxQueue \/ RxEnd \/ RxClear \/ RxShut \/ RxSignal
  \/ \E c \in Clients : RxData(c)

TxTask ==
  \/ TxWake \/ TxTake \/ TxGate \/ TxDrain \/ TxLock \/ TxSend
  \/ TxFail \/ TxClear \/ TxShut

SrvTask ==
  \/ SrvStart \/ SrvPeek \/ SrvOver \/ SrvAwait \/ SrvSwap \/ SrvClear \/ SrvOpen
  \/ SrvUdpEnd

Accept == \E c \in Clients : SrvAccept(c)

CommNext == Peers \/ Accept \/ Stream \/ Execute \/ RxTask \/ TxTask \/ SrvTask
=============================================================================
