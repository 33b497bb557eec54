-------------------------- MODULE CommServerProps ---------------------------
(* What comm_server.c promises, and the fairness it runs under.            *)
EXTENDS CommServer

(* The three tasks are scheduled, the parser takes what is queued, and the *)
(* mutex goes to a task that keeps waiting for it (strong fairness: tasks  *)
(* of one priority get a FreeRTOS mutex in turn).  Nothing is assumed of   *)
(* the peers.                                                              *)
CommFairness ==
  /\ WF_commVars(RxTask)
  /\ WF_commVars(TxTask)
  /\ WF_commVars(SrvTask) /\ SF_commVars(SrvSwap)
  /\ WF_commVars(Execute)

CommSpec == CommInit /\ [][CommNext]_commVars /\ CommFairness

-----------------------------------------------------------------------------
(* A descriptor is never closed or replaced under a task that uses it: the *)
(* server swaps sock only when the receive task is parked and the transmit *)
(* task is not sending (comm_server.c:383-401).  UDP gives no such promise. *)
FdHeld ==
  ~udp => /\ rx.at \in {"recv", "queue", "clear", "shut"} => rx.fd = sock /\ sock \in fds
          /\ tx.at \in {"send", "clear", "shut"} => sock \in fds

(* A connection that says nothing never ends a live session: whenever the  *)
(* server shuts a session down that is still open, the newcomer's hello is *)
(* waiting to be read (comm_server.c:357).                                 *)
HelloBeforeTakeover ==
  [][srv.at = "over" /\ srv'.at = "await" /\ portOpen => unread[srv.new] > 0]_commVars

(* A session that has failed is given up: the port is closed to producers, *)
(* or it is somebody else's by then (comm_server.c:77-93).  And a takeover *)
(* ends: neither a peer who takes no data nor one who vanished keeps the   *)
(* server from its next accept (comm_server.c:379-406).                    *)
DeadSessionEnds ==
  /\ \A c \in Clients : sock = c /\ c \in gone /\ portOpen ~> sock # c \/ ~portOpen
  /\ srv.at \in {"over", "await", "swap"} ~> srv.at = "accept"

(* What is sent to a client belongs to its own session.                    *)
NoLeftovers ==
  ~udp /\ tx.at = "send" /\ sock \notin shutFds => Head(tx.batch) = sock
=============================================================================
