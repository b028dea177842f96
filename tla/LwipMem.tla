-------------------------------- MODULE LwipMem --------------------------------
(***************************************************************************)
(* The heap of lwIP (mem.c), from which pbuf_alloc takes every packet that *)
(* is sent.  A block is a header, next, prev and used, followed by its     *)
(* data; lfree is the lowest free block.  The main loop allocates, sends   *)
(* and frees with interrupts on; the transmit interrupt frees what the     *)
(* EMAC has sent, the receive interrupt allocates and sends answers (the   *)
(* locator's, ICMP port unreachable).  With NO_SYS the mutex of the heap   *)
(* is empty, and LWIP_ALLOW_MEM_FREE_FROM_OTHER_CONTEXT is 0.              *)
(*                                                                         *)
(* Calls of the main loop are taken store by store, in the order of the    *)
(* source; an interrupt is one step.  A header that has left the list      *)
(* keeps its content until it is written again; data that is written over  *)
(* it is not modelled, as no call reads such a header before an interrupt  *)
(* has fallen into a call (OnTheList, a part of HeapSound).                *)
(***************************************************************************)
EXTENDS Naturals, FiniteSets, FiniteSetsExt

CONSTANTS
  MEM_SIZE,            \* MEM_SIZE_ALIGNED, in units of MEM_ALIGNMENT
  SIZEOF_STRUCT_MEM, MIN_SIZE,
  Sizes                \* what is asked for

ASSUME MemAssumption ==
  /\ MEM_SIZE \in Nat /\ SIZEOF_STRUCT_MEM \in Nat \ {0}
  /\ MIN_SIZE \in Nat \ {0}
  /\ MEM_SIZE >= SIZEOF_STRUCT_MEM + MIN_SIZE
  /\ Sizes \subseteq 1 .. MEM_SIZE

Offsets == 0 .. MEM_SIZE
ram_end == MEM_SIZE
Holders == {"main", "emac"}

VARIABLES
  heap,          \* [next, prev, used, lfree]
  refs,          \* who holds a reference to the pbuf in the block
  want,          \* the size asked for, of a block that is held
  pc, mem, size, cur,    \* the call of the main loop and its variables
  raced          \* an interrupt has changed the heap during such a call

call == <<pc, mem, size, cur>>
vars == <<heap, refs, want, call, raced>>

(* Where an interrupt finds the main loop inside mem_malloc or mem_free.   *)
InMalloc == {"walk", "split", "link", "mark", "back", "take", "adjust",
             "lower", "store", "return"}
InFree == {"unuse", "lfree", "forward", "backward"}

Init ==
  /\ heap = [next  |-> [p \in Offsets |-> ram_end],
             prev  |-> [p \in Offsets |-> IF p = ram_end THEN ram_end ELSE 0],
             used  |-> [p \in Offsets |-> p = ram_end],
             lfree |-> 0]
  /\ refs = [p \in Offsets |-> {}]
  /\ want = [p \in Offsets |-> 0]
  /\ pc = "idle" /\ mem = 0 /\ size = 0 /\ cur = 0
  /\ raced = FALSE

-----------------------------------------------------------------------------
(* mem.c, as functions of a heap h.                                        *)

AskedSize(n) == IF n < MIN_SIZE THEN MIN_SIZE ELSE n

DataSize(h, p) == h.next[p] - (p + SIZEOF_STRUCT_MEM)

Fits(h, p, n) == ~h.used[p] /\ h.next[p] >= p + SIZEOF_STRUCT_MEM + n

Splits(h, p, n) ==
  h.next[p] >= p + SIZEOF_STRUCT_MEM + n + SIZEOF_STRUCT_MEM + MIN_SIZE

Rest(p, n) == p + SIZEOF_STRUCT_MEM + n

WriteRest(h, p, n) ==
  [h EXCEPT !.next[Rest(p, n)] = h.next[p],
            !.prev[Rest(p, n)] = p,
            !.used[Rest(p, n)] = FALSE]

LinkRest(h, p, n) == [h EXCEPT !.next[p] = Rest(p, n)]

MarkUsed(h, p) == [h EXCEPT !.used[p] = TRUE]

LinkBack(h, r) ==
  IF h.next[r] = ram_end THEN h ELSE [h EXCEPT !.prev[h.next[r]] = r]

LowerGoesOnMut(h, c) == h.used[c]
LowerGoesOn(h, c) == h.used[c] /\ c # ram_end

LowerFreeMut(h, p) == h
LowerFree(h, p) == IF p < h.lfree THEN [h EXCEPT !.lfree = p] ELSE h

PlugForward(h, p) ==
  LET n == h.next[p] IN
  IF p # n /\ ~h.used[n] /\ n # ram_end
  THEN [h EXCEPT !.lfree = IF @ = n THEN p ELSE @,
                 !.next[p] = h.next[n],
                 !.prev[h.next[n]] = p]
  ELSE h

PlugBackwardMut(h, p) == h
PlugBackward(h, p) ==
  LET b == h.prev[p] IN
  IF b # p /\ ~h.used[b]
  THEN [h EXCEPT !.lfree = IF @ = p THEN b ELSE @,
                 !.next[b] = h.next[p],
                 !.prev[h.next[p]] = b]
  ELSE h

(* A whole call, as an interrupt makes it.  The searches end because a     *)
(* header only ever points upwards.                                        *)
FirstFit(h, n) ==
  LET from[p \in Offsets] ==
        IF p >= MEM_SIZE - n THEN ram_end
        ELSE IF Fits(h, p, n) THEN p ELSE from[h.next[p]]
  IN from[h.lfree]

NextFree(h, p) ==
  LET from[c \in Offsets] ==
        IF c # ram_end /\ h.used[c] THEN from[h.next[c]] ELSE c
  IN from[p]

mem_malloc(h, p, n) ==
  LET s == IF Splits(h, p, n)
           THEN LinkBack(MarkUsed(LinkRest(WriteRest(h, p, n), p, n), p),
                         Rest(p, n))
           ELSE MarkUsed(h, p)
  IN [s EXCEPT !.lfree = IF @ = p THEN NextFree(s, p) ELSE @]

mem_free(h, p) ==
  PlugBackward(PlugForward(LowerFree([h EXCEPT !.used[p] = FALSE], p), p), p)

-----------------------------------------------------------------------------
(* The main loop: pbuf_alloc for PBUF_RAM, that is mem_malloc.             *)

(* The variables of a call end with it.                                    *)
Done == pc' = "idle" /\ mem' = 0 /\ size' = 0 /\ cur' = 0

Alloc(n) ==
  /\ pc = "idle"
  /\ size' = AskedSize(n) /\ mem' = heap.lfree /\ pc' = "walk"
  /\ UNCHANGED <<heap, refs, want, cur, raced>>

Walk ==
  /\ pc = "walk" /\ mem < MEM_SIZE - size /\ ~Fits(heap, mem, size)
  /\ mem' = heap.next[mem]
  /\ UNCHANGED <<heap, refs, want, pc, size, cur, raced>>

Fail ==
  /\ pc = "walk" /\ mem >= MEM_SIZE - size
  /\ Done
  /\ UNCHANGED <<heap, refs, want, raced>>

Found ==
  /\ pc = "walk" /\ mem < MEM_SIZE - size /\ Fits(heap, mem, size)
  /\ pc' = IF Splits(heap, mem, size) THEN "split" ELSE "take"
  /\ UNCHANGED <<heap, refs, want, mem, size, cur, raced>>

(* One store of mem_malloc, and where it goes on.                          *)
Store(at, h, to) ==
  /\ pc = at /\ heap' = h /\ pc' = to
  /\ UNCHANGED <<refs, want, mem, size, cur, raced>>

Take ==
  \/ Store("split", WriteRest(heap, mem, size), "link")
  \/ Store("link", LinkRest(heap, mem, size), "mark")
  \/ Store("mark", MarkUsed(heap, mem), "back")
  \/ Store("back", LinkBack(heap, Rest(mem, size)), "adjust")
  \/ Store("take", MarkUsed(heap, mem), "adjust")

Adjust ==
  /\ pc = "adjust"
  /\ cur' = heap.lfree
  /\ pc' = IF mem = heap.lfree THEN "lower" ELSE "return"
  /\ UNCHANGED <<heap, refs, want, mem, size, raced>>

Lower ==
  /\ pc = "lower"
  /\ \/ LowerGoesOn(heap, cur) /\ cur' = heap.next[cur] /\ pc' = "lower"
     \/ ~LowerGoesOn(heap, cur) /\ cur' = cur /\ pc' = "store"
  /\ UNCHANGED <<heap, refs, want, mem, size, raced>>

StoreLfree == Store("store", [heap EXCEPT !.lfree = cur], "return")

Return ==
  /\ pc = "return"
  /\ refs' = [refs EXCEPT ![mem] = {"main"}]
  /\ want' = [want EXCEPT ![mem] = size]
  /\ pc' = "send"
  /\ UNCHANGED <<heap, mem, size, cur, raced>>

(* udp_sendto_if or ip_output_if: the driver, or a queue on the way to it, *)
(* takes a reference, unless an error keeps the packet from getting there. *)
Send ==
  /\ pc = "send" /\ pc' = "drop"
  /\ \/ refs' = [refs EXCEPT ![mem] = @ \cup {"emac"}]
     \/ UNCHANGED refs
  /\ UNCHANGED <<heap, want, mem, size, cur, raced>>

(* pbuf_free: who drops the last reference calls mem_free.                 *)
Drop ==
  /\ pc = "drop"
  /\ refs' = [refs EXCEPT ![mem] = @ \ {"main"}]
  /\ \/ refs'[mem] # {} /\ Done /\ UNCHANGED want
     \/ /\ refs'[mem] = {}
        /\ pc' = "unuse" /\ want' = [want EXCEPT ![mem] = 0]
        /\ UNCHANGED <<mem, size, cur>>
  /\ UNCHANGED <<heap, raced>>

Free ==
  \/ Store("unuse", [heap EXCEPT !.used[mem] = FALSE], "lfree")
  \/ Store("lfree", LowerFree(heap, mem), "forward")
  \/ Store("forward", PlugForward(heap, mem), "backward")
  \/ /\ pc = "backward" /\ heap' = PlugBackward(heap, mem) /\ Done
     /\ UNCHANGED <<refs, want, raced>>

-----------------------------------------------------------------------------
(* The interrupts.  One that falls into a call is followed until the main  *)
(* loop has lived with what it left; what further interrupts do to a       *)
(* damaged heap is not explored.                                           *)

Interrupts(h) ==
  /\ heap' = h
  /\ raced' = (pc \in InMalloc \cup InFree /\ h # heap)
  /\ UNCHANGED call

TxDone(p) ==
  /\ ~raced /\ "emac" \in refs[p]
  /\ refs' = [refs EXCEPT ![p] = @ \ {"emac"}]
  /\ \/ /\ refs'[p] = {}
        /\ want' = [want EXCEPT ![p] = 0]
        /\ Interrupts(mem_free(heap, p))
     \/ /\ refs'[p] # {}
        /\ UNCHANGED <<heap, want, call, raced>>

RxAnswer(n) ==
  LET a == AskedSize(n)
      p == FirstFit(heap, a) IN
  /\ ~raced /\ p # ram_end
  /\ refs' = [refs EXCEPT ![p] = {"emac"}]
  /\ want' = [want EXCEPT ![p] = a]
  /\ Interrupts(mem_malloc(heap, p, a))

Main ==
  \/ \E n \in Sizes : Alloc(n)
  \/ Walk \/ Fail \/ Found \/ Take \/ Adjust \/ Lower \/ StoreLfree
  \/ Return \/ Send \/ Drop \/ Free

Interrupt ==
  \/ \E p \in Offsets : TxDone(p)
  \/ \E n \in Sizes : RxAnswer(n)

Next == Main \/ Interrupt

(* The call under way goes on: the main loop is the only thread.  That it  *)
(* makes another call is not assumed, nor anything of the interrupts.      *)
Spec == Init /\ [][Next]_vars /\ WF_vars(pc # "idle" /\ Main)

-----------------------------------------------------------------------------
(* The blocks met from the start of the heap on.                           *)
List(h) ==
  LET from[p \in Offsets] ==
        IF p = ram_end THEN {} ELSE {p} \cup from[h.next[p]]
  IN from[0]

Held == {p \in Offsets : refs[p] # {}}

(* Every field has its type: no header is read or written outside ram.     *)
TypeOK ==
  /\ heap \in [next : [Offsets -> Offsets], prev : [Offsets -> Offsets],
               used : [Offsets -> BOOLEAN], lfree : Offsets]
  /\ refs \in [Offsets -> SUBSET Holders]
  /\ want \in [Offsets -> Nat]
  /\ pc \in {"idle", "send", "drop"} \cup InMalloc \cup InFree
  /\ mem \in Offsets /\ size \in Nat /\ cur \in Offsets
  /\ raced \in BOOLEAN

OnTheList ==
  /\ pc \in InMalloc \ {"walk"} => mem \in List(heap)
  /\ pc = "walk" => mem \in List(heap) \cup {ram_end}
  /\ pc = "lower" => cur \in List(heap) \cup {ram_end}

(* Between the calls, and in them wherever a search stands: the blocks     *)
(* fill the heap, prev is the inverse of next, no two free blocks are      *)
(* neighbours (plug_holes), lfree is the lowest free block, and a block is *)
(* used exactly while somebody holds it, so that nothing leaks.  No search *)
(* leaves the list.                                                        *)
HeapSound ==
  ~raced =>
    /\ TypeOK
    /\ OnTheList
    /\ pc \in {"idle", "walk", "send", "drop"} =>
         LET blocks == List(heap)
             free == {p \in blocks : ~heap.used[p]} IN
         /\ \A p \in blocks :
              /\ heap.next[p] \in blocks => heap.prev[heap.next[p]] = p
              /\ p \in free => heap.next[p] \notin free
              /\ DataSize(heap, p) >= MIN_SIZE
         /\ heap.lfree = Min(free \cup {ram_end})
         /\ blocks \ free = Held

Overlap(p, n, q, k) == p < Rest(q, k) /\ q < Rest(p, n)

Shared ==
  \/ \E p, q \in Held : p # q /\ Overlap(p, want[p], q, want[q])
  \/ \E q \in Held : pc = "return" /\ Overlap(mem, size, q, want[q])

(* As long as no interrupt falls into a call, what mem_malloc gives to two *)
(* packets does not overlap and is as large as was asked for.              *)
BlocksApart ==
  ~raced => ~Shared /\ \A p \in Held : DataSize(heap, p) >= want[p]

(* mem_malloc, mem_free and plug_holes keep the list of blocks whole, and  *)
(* what is given out apart.                                                *)
HeapKept == HeapSound /\ BlocksApart

(* mem_malloc, which searches from lfree on, fails only when no free block *)
(* is large enough.                                                        *)
FailsOnlyWhenFull ==
  [][ pc = "walk" /\ pc' = "idle" /\ ~raced =>
        \A p \in List(heap) : ~Fits(heap, p, size) ]_vars

(* A call returns, on a full heap too: the searches end at ram_end.        *)
CallsEnd == pc \in InMalloc \cup InFree ~> (pc \in {"idle", "send"} \/ raced)

(* mem.c "protect[s] the heap from concurrent access": memory is given to  *)
(* one packet at a time, also when interrupts fall into the calls.         *)
NeverShared == ~Shared

(* The assertion at the end of mem_malloc: lfree is free, or the end.      *)
LfreeIsFree ==
  pc = "return" => heap.lfree = ram_end \/ ~heap.used[heap.lfree]
================================================================================
