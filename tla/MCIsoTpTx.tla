------------------------------- MODULE MCIsoTpTx -------------------------------
(* Small instances of the ISO-TP transmitter.                                   *)
EXTENDS IsoTpTxProps, TLC

\* Clients differ in nothing but who holds the request lock.
ClientSymmetry == Permutations(Clients)
================================================================================
