-------------------------------- MODULE MCHdkif --------------------------------
(***************************************************************************)
(* The two sides of the driver for TLC.  They have separate descriptors    *)
(* and DMA channels, and meet only where the receive interrupt keeps the   *)
(* transmit interrupt out and sends answers, which HdkifTx has itself      *)
(* (RxBegin, RxEnd).  So a behaviour explores one of them and leaves the   *)
(* other at rest.                                                          *)
(***************************************************************************)
EXTENDS Naturals

CONSTANTS N, Packets, MaxLen, NULL, D, P, MaxKept

VARIABLES
  side,
  next, flags, buf, free_head, active_tail, next_bd_to_process, hdp, pending,
  cpu, pc, tx, len, queue, sent, used, overrun,
  rxnext, rxflags, held, rxfree_head, rxactive_head, rxactive_tail,
  freed_pbuf_len, rxhdp, rxpending, rxpc, avail, kept

Tx == INSTANCE HdkifTx
Rx == INSTANCE HdkifRx WITH
  next <- rxnext, flags <- rxflags, free_head <- rxfree_head,
  active_head <- rxactive_head, active_tail <- rxactive_tail, hdp <- rxhdp,
  pending <- rxpending, pc <- rxpc

ASSUME DriverAssumption == Tx!TxAssumption /\ Rx!RxAssumption

txVars == <<next, flags, buf, free_head, active_tail, next_bd_to_process, hdp,
            pending, cpu, pc, tx, len, queue, sent, used, overrun>>
rxVars == <<rxnext, rxflags, held, rxfree_head, rxactive_head, rxactive_tail,
            freed_pbuf_len, rxhdp, rxpending, rxpc, avail, kept>>
vars == <<side, txVars, rxVars>>

Init == side \in {"tx", "rx"} /\ Tx!Init /\ Rx!Init

Next ==
  \/ side = "tx" /\ Tx!Next /\ UNCHANGED <<side, rxVars>>
  \/ side = "rx" /\ Rx!Next /\ UNCHANGED <<side, txVars>>

(* Nothing of this is enabled on a side at rest.                           *)
Spec == Init /\ [][Next]_vars /\ Tx!Fairness /\ Rx!Fairness

-----------------------------------------------------------------------------
(* The transmit side, until a packet is put into a ring without room for   *)
(* it: hdkif_transmit and its interrupt keep the ring whole up to the last *)
(* descriptor, and the DMA and the interrupt find whole packets in it.     *)
TxSound == overrun \/ (Tx!TypeOK /\ Tx!RingIntact /\ Tx!DescriptorsWhole)

(* To its callers it is a queue that loses nothing and takes packets in    *)
(* and out in order, until that happens.                                   *)
ImplementsTxQueue == Tx!ImplementsTxQueue

(* The receive side: hdkif_rx_inthandler and the refill lose no pbuf, the  *)
(* chain has every descriptor with a pbuf, and the DMA stands still only   *)
(* while the handler has work.                                             *)
RxSound == Rx!TypeOK /\ Rx!PbufsConserved /\ Rx!ChainComplete /\ Rx!NoStall

(* The chain runs dry only after a failed allocation.                      *)
DryOnlyAfterFailure == Rx!DryOnlyAfterFailure

(* Reception starts again after a burst.                                   *)
ReceptionRestarts == Rx!ReceptionRestarts
================================================================================
