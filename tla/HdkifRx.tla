------------------------------- MODULE HdkifRx -------------------------------
(***************************************************************************)
(* The receive side of the EMAC driver (hdkif.c): the chain of buffer      *)
(* descriptors that the DMA fills and hdkif_rx_inthandler empties, giving  *)
(* each frame to lwIP and filling the descriptors again from the pool.     *)
(*                                                                         *)
(* A pbuf is one element of PBUF_POOL and its length is the unit of        *)
(* freed_pbuf_len (the code counts bytes; a pool element is 256 of them).  *)
(* Between ethernet_input and the refill the DMA goes on; its own steps,   *)
(* external to the code, are one frame each.                               *)
(***************************************************************************)
EXTENDS Naturals, FiniteSets

CONSTANTS
  D,          \* descriptors that hdkif_hw_init filled and chained
  P,          \* pbufs in the pool, those in the descriptors included
  MaxLen,     \* descriptors of a frame
  MaxKept,    \* pbufs that the layers above may hold (a datagram that waits,
              \* or one that was never freed)
  NULL

BD == 0 .. D - 1

(* Assumed of the constants, in MCHdkif.                                   *)
RxAssumption ==
  /\ D \in Nat \ {0, 1} /\ P \in Nat /\ P >= D
  /\ MaxLen \in 1 .. D - 1 /\ MaxKept \in 0 .. P
  /\ NULL \notin BD

VARIABLES
  next, flags,
  held,               \* descriptors that have a pbuf of their own
  free_head, active_head, active_tail, freed_pbuf_len,
  hdp,                \* RX0HDP
  pending,            \* the receive interrupt is raised
  pc,                 \* "main", or how far the handler's loop is
  avail, kept         \* the pool, and what the layers above hold

chain == <<next, flags, held, free_head, active_head, active_tail,
           freed_pbuf_len>>
vars == <<chain, hdp, pending, pc, avail, kept>>

Init ==
  /\ next = [b \in BD |-> IF b = D - 1 THEN NULL ELSE b + 1]
  /\ flags = [b \in BD |-> {"OWNER"}]
  /\ held = BD
  /\ free_head = NULL /\ active_head = 0 /\ active_tail = D - 1
  /\ freed_pbuf_len = 0
  /\ hdp = 0 /\ pending = FALSE /\ pc = "main"
  /\ avail = P - D /\ kept = 0

(* The descriptors from b on, following next.                              *)
Walk(b) ==
  LET at[i \in 0 .. D] ==
        IF i = 0 THEN b
        ELSE IF at[i - 1] = NULL THEN NULL ELSE next[at[i - 1]]
  IN at

-----------------------------------------------------------------------------
(* The DMA receives a frame, if there are descriptors enough for it.       *)
Dma(k) ==
  LET at == Walk(hdp)
      last == at[k - 1] IN
  /\ hdp # NULL /\ NULL \notin {at[i] : i \in 0 .. k - 1}
  /\ \A i \in 0 .. k - 1 : flags[at[i]] = {"OWNER"}
  /\ flags' = [b \in BD |->
       IF b \notin {at[i] : i \in 0 .. k - 1} THEN flags[b]
       ELSE (IF b = hdp THEN {"SOP"} ELSE {})
              \cup (IF b # last THEN {}
                    ELSE IF next[b] = NULL THEN {"EOP", "EOQ"} ELSE {"EOP"})]
  /\ hdp' = next[last]
  /\ pending' = TRUE
  /\ UNCHANGED <<next, held, free_head, active_head, active_tail,
                 freed_pbuf_len, pc, avail, kept>>

-----------------------------------------------------------------------------
(* hdkif_rx_inthandler.                                                    *)

RxIntBegin ==
  /\ pc = "main" /\ pending
  /\ pc' = "loop" /\ pending' = FALSE
  /\ UNCHANGED <<chain, hdp, avail, kept>>

(* With active_head = NULL the handler's loop reads through a null pointer; *)
(* nothing that follows is modelled.                                       *)

(* A frame at active_head goes to ethernet_input, which frees its pbufs or *)
(* keeps them.  The handler goes on at the descriptor after the frame; the *)
(* first descriptor it owes a pbuf is free_head.                           *)
FreeHead == IF free_head = NULL THEN active_head ELSE free_head

Deliver(keep) ==
  LET at == Walk(active_head)
      ends == {i \in 0 .. D - 1 : at[i] # NULL /\ "EOP" \in flags[at[i]]}
      last == CHOOSE e \in ends : \A f \in ends : e <= f
      frame == {at[i] : i \in 0 .. last} IN
  /\ pc = "loop" /\ active_head # NULL
  /\ "SOP" \in flags[active_head] /\ "OWNER" \notin flags[active_head]
  /\ keep => kept + last + 1 <= MaxKept
  /\ free_head' = FreeHead
  /\ active_head' = next[at[last]]
  /\ held' = held \ frame
  /\ freed_pbuf_len' = freed_pbuf_len + Cardinality(frame)
  /\ IF keep THEN kept' = kept + last + 1 /\ UNCHANGED avail
             ELSE avail' = avail + last + 1 /\ UNCHANGED kept
  /\ pc' = "refill"
  /\ UNCHANGED <<next, flags, active_tail, hdp, pending>>

(* pbuf_alloc: the whole length or nothing.                                *)
RefillFails ==
  /\ pc = "refill" /\ avail < freed_pbuf_len
  /\ pc' = "loop"
  /\ UNCHANGED <<chain, hdp, pending, avail, kept>>

FreedAfterMut(n) == freed_pbuf_len
FreedAfter(n) == freed_pbuf_len - n

LinkMut(last) == [next EXCEPT ![last] = NULL]
Link(last) == [next EXCEPT ![last] = NULL, ![active_tail] = free_head]

RestartMut(fl) == hdp
Restart(fl) == IF "EOQ" \in fl[active_tail] THEN free_head ELSE hdp

(* The new pbufs go to the descriptors from free_head up to active_head;   *)
(* what is left over is freed.  The chain is linked to the old tail, and   *)
(* the DMA started again if it had come to the end there.                  *)
Refill ==
  LET at == Walk(free_head)
      room == {i \in 0 .. D - 1 : \A j \in 0 .. i :
                 at[j] # NULL /\ at[j] # active_head /\ j < freed_pbuf_len}
      n == Cardinality(room)
      filled == {at[i] : i \in room} IN
  /\ pc = "refill" /\ avail >= freed_pbuf_len
  /\ flags' = [b \in BD |-> IF b \in filled THEN {"OWNER"} ELSE flags[b]]
  /\ held' = held \cup filled
  /\ freed_pbuf_len' = FreedAfter(n)
  /\ avail' = avail - n
  /\ next' = Link(at[n - 1])
  /\ hdp' = Restart(flags')
  /\ free_head' = at[n]
  /\ active_tail' = at[n - 1]
  /\ pc' = "loop"
  /\ UNCHANGED <<active_head, pending, kept>>

RxIntEnd ==
  /\ pc = "loop" /\ active_head # NULL /\ "SOP" \notin flags[active_head]
  /\ pc' = "main"
  /\ UNCHANGED <<chain, hdp, pending, avail, kept>>

(* The layers above give a pbuf back, in the main loop.                    *)
Release ==
  /\ pc = "main" /\ kept > 0
  /\ kept' = kept - 1 /\ avail' = avail + 1
  /\ UNCHANGED <<chain, hdp, pending, pc>>

-----------------------------------------------------------------------------
Next ==
  \/ \E k \in 1 .. MaxLen : Dma(k)
  \/ RxIntBegin \/ (\E keep \in BOOLEAN : Deliver(keep))
  \/ RefillFails \/ Refill \/ RxIntEnd
  \/ Release

(* The handler runs, and a raised interrupt is taken.                      *)
Fairness ==
  /\ WF_vars(RxIntBegin)
  /\ WF_vars((\E keep \in BOOLEAN : Deliver(keep))
               \/ RefillFails \/ Refill \/ RxIntEnd)

Spec == Init /\ [][Next]_vars /\ Fairness

-----------------------------------------------------------------------------
(* Properties.                                                             *)

TypeOK ==
  /\ next \in [BD -> BD \cup {NULL}]
  /\ flags \in [BD -> SUBSET {"SOP", "EOP", "OWNER", "EOQ"}]
  /\ held \subseteq BD
  /\ {free_head, active_head, hdp} \subseteq BD \cup {NULL}
  /\ active_tail \in BD
  /\ freed_pbuf_len \in 0 .. D
  /\ pending \in BOOLEAN /\ pc \in {"main", "loop", "refill"}
  /\ avail \in 0 .. P /\ kept \in 0 .. MaxKept

(* Over failed and successful allocations no pbuf is lost or used twice:   *)
(* each is in the pool, with the layers above, or in a descriptor, and     *)
(* freed_pbuf_len is what the descriptors without one are owed.            *)
PbufsConserved ==
  /\ avail + kept + Cardinality(held) = P
  /\ freed_pbuf_len = Cardinality(BD \ held)

(* From active_head the links pass exactly the descriptors that have a     *)
(* pbuf, and end at active_tail; the DMA is at one of them that is empty.  *)
ChainComplete ==
  active_head # NULL =>
    LET at == Walk(active_head) IN
    /\ {at[i] : i \in 0 .. D} \ {NULL} = held
    /\ active_tail \in held /\ next[active_tail] = NULL
    /\ hdp # NULL => hdp \in held /\ flags[hdp] = {"OWNER"}

(* The DMA stops at the end of the chain only while the handler still has  *)
(* a frame to take or descriptors to fill, or when the chain has run out   *)
(* of pbufs altogether.                                                    *)
NoStall ==
  hdp = NULL =>
    \/ active_head = NULL \/ pc = "refill"
    \/ "SOP" \in flags[active_head]

(* That happens only when an earlier allocation has failed and was not     *)
(* made up for: no burst, however long, exhausts a chain that is refilled. *)
DryOnlyAfterFailure ==
  [][active_head # NULL /\ active_head' = NULL => freed_pbuf_len > 0]_vars

(* Reception starts again after a burst that used up the ring, unless      *)
(* every descriptor ran out of pbufs.                                      *)
ReceptionRestarts == hdp = NULL ~> (hdp # NULL \/ active_head = NULL)

(* The comment in hdkif_rx_inthandler: "Care should be taken even if the   *)
(* allocation fails": the handler always has a descriptor to go on with.   *)
FailureHandled == active_head # NULL
===============================================================================
