------------------------------- MODULE HdkifTx -------------------------------
(***************************************************************************)
(* The transmit side of the EMAC driver (hdkif.c): the ring of buffer      *)
(* descriptors that hdkif_transmit fills, the EMAC's DMA empties and       *)
(* hdkif_tx_inthandler gives back.  A packet is a chain of pbufs, one      *)
(* descriptor each.                                                        *)
(*                                                                         *)
(* hdkif_output runs with interrupts off, in the main loop or inside the   *)
(* receive interrupt (the answers of lwIP), so that only the DMA is        *)
(* concurrent with it.  The transmit interrupt comes when neither runs.    *)
(*                                                                         *)
(* The DMA is external: it walks the chain at the head descriptor pointer  *)
(* to the end of the packet, clears OWNER in the first descriptor, and at  *)
(* a NULL link sets EOQ and clears the pointer, in one step.               *)
(***************************************************************************)
EXTENDS Naturals, Sequences, FiniteSets

CONSTANTS
  N,           \* descriptors in the ring
  Packets,     \* pbuf chains that may be in the driver at once
  MaxLen,      \* pbufs of a chain
  NULL

BD == 0 .. N - 1

(* Assumed of the constants, in MCHdkif.                                   *)
TxAssumption ==
  /\ N \in Nat \ {0, 1} /\ MaxLen \in 1 .. N - 1
  /\ NULL \notin BD \cup Packets

VARIABLES
  next, flags, buf,   \* per descriptor; buf is the pbuf: packet and place
  free_head, active_tail, next_bd_to_process,
  hdp,                \* TX0HDP
  pending,            \* the transmit interrupt is raised
  cpu,                \* what the processor is in
  pc, tx,             \* progress of hdkif_transmit; its active_head, bd_end
  len,                \* pbufs of each packet handed over
  queue, sent,        \* handed over and not sent; sent and not released
  used,               \* descriptors filled and not given back
  overrun             \* a packet came when the ring had no room for it

ring == <<next, flags, buf, free_head, active_tail, next_bd_to_process>>
vars == <<ring, hdp, pending, cpu, pc, tx, len, queue, sent, used, overrun>>

Init ==
  /\ next = [b \in BD |-> (b + 1) % N]
  /\ flags = [b \in BD |-> {}]
  /\ buf = [b \in BD |-> NULL]
  /\ free_head = 0 /\ next_bd_to_process = 0 /\ active_tail = NULL
  /\ hdp = NULL /\ pending = FALSE
  /\ cpu = "main" /\ pc = "idle" /\ tx = <<NULL, NULL>>
  /\ len = [p \in Packets |-> 0]
  /\ queue = << >> /\ sent = {} /\ used = 0 /\ overrun = FALSE

(* The k descriptors from b on, following next; 0 is b itself.             *)
Walk(b, k) ==
  LET at[i \in 0 .. k] ==
        IF i = 0 THEN b
        ELSE IF at[i - 1] = NULL THEN NULL ELSE next[at[i - 1]]
  IN at

-----------------------------------------------------------------------------
(* hdkif_output and hdkif_transmit.                                        *)

FirstFlags == {"SOP", "OWNER"}

Handed(p) == pc = "idle" /\ cpu \in {"main", "rx"} /\ len[p] = 0

(* From the reference on p to the end of the packet in the ring.  Without  *)
(* a packet before it (active_tail = NULL) there is nothing to wait for.   *)
(* Nothing checks that the descriptors are free: overrun remembers when    *)
(* they were not.                                                          *)
Output(p, k) ==
  LET at == Walk(free_head, k)
      filled == {at[i] : i \in 0 .. k - 1}
      first == at[0]
      end == at[k - 1] IN
  /\ Handed(p) /\ NULL \notin filled
  /\ buf' = [b \in BD |-> IF b \in filled
                          THEN <<p, CHOOSE i \in 1 .. k : at[i - 1] = b>>
                          ELSE buf[b]]
  /\ flags' = [b \in BD |->
                 (IF b = first THEN FirstFlags ELSE flags[b])
                   \cup (IF b = end THEN {"EOP"} ELSE {})]
  /\ next' = [next EXCEPT ![end] = NULL]
  /\ free_head' = at[k]
  /\ tx' = <<first, end>>
  /\ pc' = IF active_tail = NULL THEN "first" ELSE "eoq"
  /\ len' = [len EXCEPT ![p] = k]
  /\ queue' = Append(queue, p)
  /\ used' = used + k
  /\ overrun' = (overrun \/ used + k > N)
  /\ UNCHANGED <<active_tail, next_bd_to_process, hdp, pending, cpu, sent>>

(* The chain of descriptors ends before the packet does: the write through *)
(* NULL stops the processor.                                               *)
OutputFault(p, k) ==
  /\ Handed(p) /\ \E i \in 0 .. k - 1 : Walk(free_head, k)[i] = NULL
  /\ cpu' = "fault" /\ overrun' = TRUE
  /\ UNCHANGED <<ring, hdp, pending, pc, tx, len, queue, sent, used>>

Start ==
  /\ hdp' = tx[1]
  /\ active_tail' = tx[2]
  /\ pc' = "idle" /\ tx' = <<NULL, NULL>>
  /\ UNCHANGED <<flags, buf, free_head, next_bd_to_process, pending, cpu,
                 len, queue, sent, used, overrun>>

StartFirst == pc = "first" /\ Start /\ UNCHANGED next

(* The two busy waits: for EOQ in the last packet's end, then for a TX0HDP *)
(* of zero.                                                                *)
WaitEoq ==
  /\ pc = "eoq" /\ "EOQ" \in flags[active_tail]
  /\ pc' = "hdp"
  /\ UNCHANGED <<ring, hdp, pending, cpu, tx, len, queue, sent, used, overrun>>

LinkMut == next
Link == [next EXCEPT ![active_tail] = tx[1]]

(* The packet is chained to the last one.  EOQ is still set, so the DMA is *)
(* started again.                                                          *)
StartNext ==
  /\ pc = "hdp" /\ hdp = NULL
  /\ "EOQ" \in flags[active_tail]
  /\ next' = Link
  /\ Start

-----------------------------------------------------------------------------
(* The DMA sends the packet at hdp.                                        *)

PacketEnd(b) ==
  LET at == Walk(b, N)
      ends == {i \in 0 .. N : at[i] # NULL /\ "EOP" \in flags[at[i]]}
      i == IF ends = {} THEN 0
           ELSE CHOOSE e \in ends : \A f \in ends : e <= f
  IN [found |-> ends # {}, bd |-> at[i], at |-> at, last |-> i]

(* The descriptors hold a packet, whole and in order.                      *)
Whole(b) ==
  LET e == PacketEnd(b) IN
  /\ e.found
  /\ \E p \in Packets :
       /\ e.last + 1 = len[p]
       /\ \A i \in 0 .. e.last : buf[e.at[i]] = <<p, i + 1>>

(* The queue without its first p.                                          *)
Without(p) ==
  IF \E i \in DOMAIN queue : queue[i] = p
    THEN LET i == CHOOSE i \in DOMAIN queue : queue[i] = p
         IN [j \in 1 .. Len(queue) - 1 |->
               IF j < i THEN queue[j] ELSE queue[j + 1]]
    ELSE queue

Dma ==
  LET e == PacketEnd(hdp)
      p == buf[hdp][1] IN
  /\ hdp # NULL /\ "OWNER" \in flags[hdp]
  /\ e.found
  /\ flags' = [b \in BD |->
                 (IF b = hdp THEN flags[b] \ {"OWNER"} ELSE flags[b])
                   \cup (IF b = e.bd /\ next[b] = NULL THEN {"EOQ"} ELSE {})]
  /\ hdp' = next[e.bd]
  /\ pending' = TRUE
  /\ queue' = Without(p)
  /\ sent' = sent \cup {p}
  /\ UNCHANGED <<next, buf, free_head, active_tail, next_bd_to_process, cpu,
                 pc, tx, len, used, overrun>>

-----------------------------------------------------------------------------
(* Interrupts.                                                             *)

(* hdkif_rx_inthandler, as far as it keeps the transmit interrupt out.     *)
RxBegin ==
  /\ cpu = "main" /\ pc = "idle" /\ cpu' = "rx"
  /\ UNCHANGED <<ring, hdp, pending, pc, tx, len, queue, sent, used, overrun>>

RxEnd ==
  /\ cpu = "rx" /\ pc = "idle" /\ cpu' = "main"
  /\ UNCHANGED <<ring, hdp, pending, pc, tx, len, queue, sent, used, overrun>>

TxIntBegin ==
  /\ cpu = "main" /\ pc = "idle" /\ pending
  /\ cpu' = "tx" /\ pending' = FALSE
  /\ UNCHANGED <<ring, hdp, pc, tx, len, queue, sent, used, overrun>>

(* One turn of the handler's loop: the packet has been sent (it spins      *)
(* until then), its flags are taken back and its pbufs freed.              *)
AfterPacket(b) == IF next[b] = NULL THEN free_head ELSE next[b]

OwnerClearMut(b) == TRUE
OwnerClear(b) == "OWNER" \notin flags[b]

TxIntPacket ==
  LET b == next_bd_to_process
      e == PacketEnd(b)
      p == buf[e.bd][1] IN
  /\ cpu = "tx" /\ b # NULL /\ "SOP" \in flags[b] /\ OwnerClear(b)
  /\ e.found
  /\ flags' = [c \in BD |->
                 flags[c] \ ((IF c = b THEN {"SOP"} ELSE {})
                               \cup (IF c = e.bd THEN {"EOP"} ELSE {}))]
  /\ next_bd_to_process' = AfterPacket(e.bd)
  /\ sent' = sent \ {p}
  /\ len' = [len EXCEPT ![p] = 0]
  /\ used' = used - len[p]
  /\ UNCHANGED <<next, buf, free_head, active_tail, hdp, pending, cpu, pc,
                 tx, queue, overrun>>

TxIntEnd ==
  /\ cpu = "tx"
  /\ next_bd_to_process # NULL /\ "SOP" \notin flags[next_bd_to_process]
  /\ cpu' = "main"
  /\ UNCHANGED <<ring, hdp, pending, pc, tx, len, queue, sent, used, overrun>>

(* The handler looks for a packet, or for the end of one, at NULL.         *)
TxIntFault ==
  LET b == next_bd_to_process IN
  /\ cpu = "tx"
  /\ b # NULL => /\ "SOP" \in flags[b] /\ OwnerClear(b)
                 /\ ~PacketEnd(b).found /\ \E i \in 0 .. N : Walk(b, N)[i] = NULL
  /\ cpu' = "fault"
  /\ UNCHANGED <<ring, hdp, pending, pc, tx, len, queue, sent, used, overrun>>

-----------------------------------------------------------------------------
Next ==
  \/ \E p \in Packets, k \in 1 .. MaxLen : Output(p, k) \/ OutputFault(p, k)
  \/ StartFirst \/ WaitEoq \/ StartNext
  \/ Dma
  \/ RxBegin \/ RxEnd
  \/ TxIntBegin \/ TxIntPacket \/ TxIntEnd \/ TxIntFault

(* The processor does not stop inside the driver, the receive interrupt    *)
(* ends, the DMA sends, and a raised interrupt is taken.                   *)
Fairness ==
  /\ WF_vars(StartFirst \/ WaitEoq \/ StartNext)
  /\ WF_vars(Dma)
  /\ SF_vars(RxEnd) /\ SF_vars(TxIntBegin)
  /\ WF_vars(TxIntPacket \/ TxIntEnd)

Spec == Init /\ [][Next]_vars /\ Fairness

-----------------------------------------------------------------------------
(* Properties.                                                             *)

Flags == {"SOP", "EOP", "OWNER", "EOQ"}

TypeOK ==
  /\ next \in [BD -> BD \cup {NULL}]
  /\ flags \in [BD -> SUBSET Flags]
  /\ buf \in [BD -> (Packets \X (1 .. MaxLen)) \cup {NULL}]
  /\ free_head \in BD /\ next_bd_to_process \in BD
  /\ active_tail \in BD \cup {NULL} /\ hdp \in BD \cup {NULL}
  /\ pending \in BOOLEAN
  /\ cpu \in {"main", "rx", "tx"} /\ pc \in {"idle", "first", "eoq", "hdp"}
  /\ len \in [Packets -> 0 .. MaxLen]
  /\ sent \subseteq Packets /\ queue \in Seq(Packets)
  /\ used \in 0 .. N /\ overrun \in BOOLEAN

(* hdkif_transmit breaks the ring at the end of each packet and mends it   *)
(* with the next one: at rest only the last packet's end has no successor, *)
(* and following next from free_head passes every descriptor.              *)
RingIntact ==
  \A b \in BD :
    \/ next[b] = (b + 1) % N
    \/ next[b] = NULL /\ b \in {active_tail, tx[2]}

(* The DMA never meets anything but whole packets, and the interrupt finds *)
(* the end of every packet it starts on, which is one the DMA has sent.    *)
DescriptorsWhole ==
  /\ hdp # NULL => "OWNER" \in flags[hdp] /\ Whole(hdp)
  /\ LET b == next_bd_to_process IN
     "SOP" \in flags[b] =>
       /\ PacketEnd(b).found
       /\ "OWNER" \notin flags[b] => buf[b][1] \in sent

(* The driver is a queue: packets go out whole, once and in order, each is *)
(* released once and only after it was sent, and all of that happens.  In  *)
(* particular the two busy waits of hdkif_transmit end.                    *)
TxQ == INSTANCE TxQueue

ImplementsTxQueue == TxQ!Spec

(* The comment on hdkif_output: "if the channel is available. Otherwise,   *)
(* the packet will be queued": no packet leaves the ring before it has     *)
(* been released.                                                          *)
NeverDropped ==
  \A p \in Packets : len[p] > 0 =>
    Cardinality({b \in BD : buf[b] # NULL /\ buf[b][1] = p}) = len[p]
===============================================================================
