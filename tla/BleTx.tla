-------------------------------- MODULE BleTx --------------------------------
(***************************************************************************)
(* ble_task (ble.c): the bytes for the phone, taken item by item from the  *)
(* transmit queue, packed into notifications of ble_max_data_size bytes,   *)
(* never more of them than the stack will take.                            *)
(***************************************************************************)
EXTENDS Naturals, Sequences, SequencesExt

CONSTANTS
  DataSizes,   (* the values of ble_max_data_size, by the MTU agreed       *)
  ItemSizes,   (* bytes of an item                                         *)
  Packets,     (* the most packets the stack takes                         *)
  MaxBytes     (* bound: bytes queued in a behaviour                       *)

ASSUME BleAssumption ==
  /\ DataSizes \subseteq Nat \ {0} /\ ItemSizes \subseteq Nat \ {0}
  /\ Packets \in Nat \ {0} /\ MaxBytes \in Nat

VARIABLES
  items,       (* xBle_TX_Queue; bytes are numbered                        *)
  made,        (* bytes queued so far                                      *)
  sendBuf,     (* ble_send_buf                                             *)
  free,        (* free_packet, 0 between two passes                        *)
  credits,     (* what esp_ble_get_cur_sendable_packets_num returns        *)
  dataSize,    (* ble_max_data_size                                        *)
  link,        (* a phone is connected                                     *)
  taken,       (* history: bytes taken from the queue for this phone       *)
  heard        (* history: bytes it was sent                               *)

bleVars == <<items, made, sendBuf, free, credits, dataSize, link, taken, heard>>

BleInit ==
  /\ items = <<>> /\ made = 0 /\ sendBuf = <<>> /\ free = 0 /\ credits = 0
  /\ dataSize \in DataSizes /\ link = FALSE /\ taken = <<>> /\ heard = <<>>

Between == free = 0

Queue ==
  \E n \in ItemSizes :
    /\ made + n <= MaxBytes
    /\ items' = Append(items, [i \in 1..n |-> made + i]) /\ made' = made + n
    /\ UNCHANGED <<sendBuf, free, credits, dataSize, link, taken, heard>>

(* A pass takes milliseconds: a phone connects, and agrees on an MTU,      *)
(* between two passes.                                                     *)
Link ==
  /\ Between /\ link' = ~link
  /\ credits' = IF link THEN 0 ELSE Packets
  /\ taken' = <<>> /\ heard' = <<>>
  /\ dataSize' \in DataSizes
  /\ UNCHANGED <<items, made, sendBuf, free>>

LinkLost ==
  /\ ~Between /\ link
  /\ link' = FALSE /\ credits' = 0 /\ taken' = <<>> /\ heard' = <<>>
  /\ UNCHANGED <<items, made, sendBuf, free, dataSize>>

PacketSent ==
  /\ link /\ credits < Packets /\ credits' = credits + 1
  /\ UNCHANGED <<items, made, sendBuf, free, dataSize, link, taken, heard>>

(* A pass begins when the stack takes packets and reports no congestion.   *)
Begin ==
  /\ Between /\ items # <<>> /\ link /\ credits > 0
  /\ free' = credits
  /\ UNCHANGED <<items, made, sendBuf, credits, dataSize, link, taken, heard>>

(* Mutant: a packet that is not full is not counted.                       *)
Required_Down(item) == (Len(sendBuf) + Len(item)) \div dataSize

(* num_req_packets, rounded up.                                            *)
Required(item) == (Len(sendBuf) + Len(item) + dataSize - 1) \div dataSize

(* ble_send: nothing goes out without a link.                              *)
Send(bytes, packets) ==
  /\ heard' = IF link THEN heard \o bytes ELSE heard
  /\ credits' = IF link THEN credits - packets ELSE credits

(* The item fills up the buffer, which goes out whenever it is full; with  *)
(* the packets at an end what is left of the item is given up.             *)
TakeItem ==
  /\ ~Between /\ items # <<>> /\ Required(Head(items)) <= free
  /\ LET all == sendBuf \o Head(items)
         full == Len(all) \div dataSize
         sent == IF full < free THEN full ELSE free
     IN /\ Send(SubSeq(all, 1, sent * dataSize), sent)
        /\ sendBuf' = IF sent = free THEN <<>> ELSE SubSeq(all, sent * dataSize + 1, Len(all))
        /\ free' = free - sent
  /\ items' = Tail(items)
  /\ taken' = IF link THEN taken \o Head(items) ELSE taken
  /\ UNCHANGED <<made, dataSize, link>>

(* Nothing more fits: what is in the buffer goes out.  (The last packet    *)
(* sent ends a pass as well: free is 0.)                                   *)
EndPass ==
  /\ ~Between /\ (items # <<>> => Required(Head(items)) > free)
  /\ IF sendBuf # <<>> THEN Send(sendBuf, 1) ELSE UNCHANGED <<heard, credits>>
  /\ sendBuf' = <<>> /\ free' = 0
  /\ UNCHANGED <<items, made, dataSize, link, taken>>

BleNext == Queue \/ Link \/ LinkLost \/ PacketSent \/ Begin \/ TakeItem \/ EndPass
BleSpec == BleInit /\ [][BleNext]_bleVars

-----------------------------------------------------------------------------
(* What is taken from the queue reaches the phone, every byte once and in  *)
(* order, and nothing stays in the buffer between two passes               *)
(* (ble.c:684-752).                                                        *)
BytesReachPhone ==
  /\ IsPrefix(heard, taken)
  /\ Between => heard = taken /\ sendBuf = <<>>
=============================================================================
