---------------------------- MODULE LwipMemProofs ----------------------------
(***************************************************************************)
(* Proofs about the heap, for any size of it, of a header and of a         *)
(* request.                                                                *)
(***************************************************************************)
EXTENDS LwipMem, WellFoundedInduction, TLAPS

-----------------------------------------------------------------------------
(* The invariant.  It is stated for a heap h, its blocks B, the blocks     *)
(* somebody holds, what was asked for them, and a call that stands at a    *)
(* place with its variables m, n and c.                                    *)

HeapType(h) ==
  h \in [next : [Offsets -> Offsets], prev : [Offsets -> Offsets],
         used : [Offsets -> BOOLEAN], lfree : Offsets]

(* The blocks fill the heap, one behind the other.                         *)
Filled(h, B) ==
  /\ 0 \in B /\ B \subseteq 0 .. MEM_SIZE - 1
  /\ \A p \in B : /\ h.next[p] \in B \cup {ram_end}
                  /\ h.next[p] >= p + SIZEOF_STRUCT_MEM + MIN_SIZE
                  /\ \A q \in B : q > p => q >= h.next[p]

(* Each block is the one before its successor, except the rest of a block  *)
(* that has just been split.                                               *)
BackLinked(h, B, at, m, n) ==
  /\ h.prev[0] = 0
  /\ \A p \in B : h.next[p] \in B
       => h.prev[h.next[p]] = p \/ (at \in {"mark", "back"} /\ p = Rest(m, n))

(* No two free blocks are neighbours, except while a call makes them so.   *)
FreeApart(h, B, at, m) ==
  \A p \in B : ~h.used[p] /\ h.next[p] \in B
     => \/ h.used[h.next[p]]
        \/ at = "mark" /\ p = m
        \/ at \in {"lfree", "forward"} /\ m \in {p, h.next[p]}
        \/ at = "backward" /\ h.next[p] = m

(* lfree is the lowest free block.                                         *)
LowestFree(h, B, at, m) ==
  /\ h.lfree \in B \cup {ram_end}
  /\ \A p \in B : ~h.used[p] => p >= h.lfree \/ (at = "lfree" /\ p = m)
  /\ h.lfree \in B /\ h.used[h.lfree]
       => at \in {"back", "adjust", "lower", "store"} /\ h.lfree = m

(* Used blocks have a holder, or are about to get one, or have just lost   *)
(* theirs.                                                                 *)
UsedAreHeld(h, B, H, at, m) ==
  /\ H \subseteq B
  /\ \A p \in B : h.used[p] <=>
       \/ p \in H
       \/ p = m /\ at \in {"back", "adjust", "lower", "store", "return", "unuse"}
  /\ at \in (InMalloc \cup InFree) \ {"walk"} => m \in B /\ m \notin H

LargeEnough(h, H, w) ==
  \A p \in H : h.next[p] >= p + SIZEOF_STRUCT_MEM + w[p]

(* Where the search, the split and the search for lfree stand.             *)
CallSound(h, B, at, m, n, c) ==
  /\ at \in InMalloc => n >= MIN_SIZE
  /\ at = "walk" => m \in B \cup {ram_end} /\ \A p \in B : p < m => ~Fits(h, p, n)
  /\ at \in {"split", "link"} => Splits(h, m, n)
  /\ at = "link" => /\ h.next[Rest(m, n)] = h.next[m] /\ h.prev[Rest(m, n)] = m
                    /\ ~h.used[Rest(m, n)]
  /\ at \in {"mark", "back"} => h.next[m] = Rest(m, n) /\ Rest(m, n) \in B /\ ~h.used[Rest(m, n)]
  /\ at \in {"mark", "take", "back", "adjust", "lower", "store", "return"}
       => h.next[m] >= m + SIZEOF_STRUCT_MEM + n
  /\ at \in {"lower", "store"}
       => h.lfree = m /\ c \in B \cup {ram_end} /\ \A p \in B : p < c => h.used[p]
  /\ at = "store" => c = ram_end \/ ~h.used[c]

Typed(h, w, m, n, c) ==
  HeapType(h) /\ w \in [Offsets -> Nat] /\ m \in Offsets /\ n \in Nat /\ c \in Offsets

Sound(h, B, H, w, at, m, n, c) ==
  /\ Typed(h, w, m, n, c)
  /\ Filled(h, B)
  /\ BackLinked(h, B, at, m, n)
  /\ FreeApart(h, B, at, m)
  /\ LowestFree(h, B, at, m)
  /\ UsedAreHeld(h, B, H, at, m)
  /\ LargeEnough(h, H, w)
  /\ CallSound(h, B, at, m, n, c)

IInv ==
  ~raced => /\ TypeOK
            /\ Sound(heap, List(heap), Held, want, pc, mem, size, cur)
            /\ pc \in {"send", "drop"} => "main" \in refs[mem]

-----------------------------------------------------------------------------
(* Numbers.                                                                *)

(* What the assumption on the sizes says, and where the heap ends.         *)
LEMMA Numbers ==
  /\ MEM_SIZE \in Nat /\ SIZEOF_STRUCT_MEM \in Nat /\ SIZEOF_STRUCT_MEM > 0
  /\ MIN_SIZE \in Nat /\ MIN_SIZE > 0 /\ MEM_SIZE > 0
  /\ Offsets = 0 .. MEM_SIZE /\ ram_end = MEM_SIZE
BY MemAssumption DEF Offsets, ram_end

(* A set of numbers that is not empty has a least one.                     *)
LEMMA LeastOf ==
  ASSUME NEW S, S \subseteq Nat, S # {}
  PROVE  \E m \in S : \A k \in S : m <= k
<1>1. PICK R : R = OpToRel(<, Nat) OBVIOUS
<1>2. IsWellFoundedOn(R, Nat) BY <1>1, NatLessThanWellFounded
<1>3. PICK m \in S : \A k \in S : ~(<<k, m>> \in R) BY <1>2, WFMin
<1>4. ASSUME NEW k \in S PROVE m <= k
  <2>1. k \in Nat /\ m \in Nat OBVIOUS
  <2>2. k < m => <<k, m>> \in R BY <1>1, <2>1 DEF OpToRel
  <2>. QED BY <1>3, <2>1, <2>2
<1>. QED BY <1>4

(* A set of offsets that is not empty has a greatest one.                  *)
LEMMA GreatestOf ==
  ASSUME NEW S, S \subseteq Offsets, S # {}
  PROVE  \E m \in S : \A k \in S : m >= k
<1>. USE Numbers
<1>1. PICK T : T = {MEM_SIZE - k : k \in S} OBVIOUS
<1>2. T \subseteq Nat /\ T # {}
  <2>1. ASSUME NEW k \in S PROVE MEM_SIZE - k \in Nat OBVIOUS
  <2>2. T \subseteq Nat BY <1>1, <2>1
  <2>3. PICK k \in S : TRUE OBVIOUS
  <2>. QED BY <1>1, <2>2, <2>3
<1>3. PICK t \in T : \A u \in T : t <= u BY <1>2, LeastOf
<1>4. PICK m \in S : t = MEM_SIZE - m BY <1>1
<1>5. ASSUME NEW k \in S PROVE m >= k
  <2>1. MEM_SIZE - k \in T BY <1>1
  <2>2. MEM_SIZE - m <= MEM_SIZE - k BY <1>3, <1>4, <2>1
  <2>. QED BY <2>2
<1>. QED BY <1>5

-----------------------------------------------------------------------------
(* Following next.  The searches of mem.c are recursive functions; that    *)
(* there are such functions follows from what can be reached before a      *)
(* place of Z, where the search ends.                                      *)

Closed(nx, Z, T) == \A x \in T : x \notin Z => nx[x] \in T

Reach(nx, Z, p) ==
  {q \in Offsets : \A T \in SUBSET Offsets : p \in T /\ Closed(nx, Z, T) => q \in T}

(* Reach satisfies the equation a search along next is defined by.         *)
LEMMA ReachOf ==
  ASSUME NEW nx \in [Offsets -> Offsets], NEW Z, NEW p \in Offsets
  PROVE  /\ p \in Z => Reach(nx, Z, p) = {p}
         /\ p \notin Z => Reach(nx, Z, p) = {p} \cup Reach(nx, Z, nx[p])
<1>1. p \in Reach(nx, Z, p) BY DEF Reach
<1>2. ASSUME p \in Z PROVE Reach(nx, Z, p) = {p}
  <2>1. {p} \in SUBSET Offsets /\ Closed(nx, Z, {p}) BY <1>2 DEF Closed
  <2>. QED BY <1>1, <2>1 DEF Reach
<1>3. ASSUME p \notin Z PROVE Reach(nx, Z, p) = {p} \cup Reach(nx, Z, nx[p])
  <2>1. ASSUME NEW q \in Reach(nx, Z, nx[p]) PROVE q \in Reach(nx, Z, p)
    <3>1. q \in Offsets BY DEF Reach
    <3>2. ASSUME NEW T \in SUBSET Offsets, p \in T, Closed(nx, Z, T) PROVE q \in T
      <4>1. nx[p] \in T BY <1>3, <3>2 DEF Closed
      <4>. QED BY <3>2, <4>1 DEF Reach
    <3>. QED BY <3>1, <3>2 DEF Reach
  <2>2. ASSUME NEW q \in Reach(nx, Z, p), q # p PROVE q \in Reach(nx, Z, nx[p])
    <3>1. q \in Offsets BY DEF Reach
    <3>2. ASSUME NEW T \in SUBSET Offsets, nx[p] \in T, Closed(nx, Z, T) PROVE q \in T
      <4>1. PICK U : U = T \cup {p} OBVIOUS
      <4>2. U \in SUBSET Offsets /\ p \in U BY <4>1
      <4>3. Closed(nx, Z, U) BY <3>2, <4>1 DEF Closed
      <4>4. q \in U BY <4>2, <4>3 DEF Reach
      <4>. QED BY <2>2, <4>1, <4>4
    <3>. QED BY <3>1, <3>2 DEF Reach
  <2>. QED BY <1>1, <2>1, <2>2
<1>. QED BY <1>2, <1>3

Chosen(S) == CHOOSE x : x \in S

(* f is the search along nx that ends at Z, with the result v there.       *)
IsSearch(f, nx, Z, v) == f = [p \in Offsets |-> IF p \in Z THEN v[p] ELSE f[nx[p]]]

(* There is such a search.                                                 *)
LEMMA SearchDefined ==
  ASSUME NEW nx \in [Offsets -> Offsets], NEW Z, NEW v
  PROVE  \E f : IsSearch(f, nx, Z, v)
<1>. DEFINE End(p) == Chosen(Reach(nx, Z, p) \cap Z)
<1>1. PICK f : f = [p \in Offsets |-> v[End(p)]] OBVIOUS
<1>2. ASSUME NEW p \in Offsets PROVE f[p] = IF p \in Z THEN v[p] ELSE f[nx[p]]
  <2>1. CASE p \in Z
    <3>1. Reach(nx, Z, p) \cap Z = {p} BY <2>1, ReachOf
    <3>2. Chosen({p}) = p BY DEF Chosen
    <3>. QED BY <1>1, <2>1, <3>1, <3>2
  <2>2. CASE p \notin Z
    <3>1. Reach(nx, Z, p) \cap Z = Reach(nx, Z, nx[p]) \cap Z BY <2>2, ReachOf
    <3>2. nx[p] \in Offsets OBVIOUS
    <3>. QED BY <1>1, <2>2, <3>1, <3>2
  <2>. QED BY <2>1, <2>2
<1>3. DOMAIN f = Offsets BY <1>1
<1>4. IsSearch(f, nx, Z, v) BY <1>1, <1>2 DEF IsSearch
<1>. QED BY <1>4

(* What follows for the offsets of the blocks.                             *)
LEMMA BlockFacts ==
  ASSUME NEW h, NEW B, Filled(h, B)
  PROVE  /\ 0 \in B /\ B \subseteq Offsets /\ ram_end \notin B
         /\ \A p \in B : /\ p \in Nat /\ p < MEM_SIZE
                         /\ h.next[p] \in B \cup {ram_end}
                         /\ h.next[p] \in Nat /\ h.next[p] > p /\ h.next[p] <= MEM_SIZE
                         /\ h.next[p] >= p + SIZEOF_STRUCT_MEM + MIN_SIZE
                         /\ \A q \in B : q > p => q >= h.next[p]
<1>. USE Numbers
<1>1. 0 \in B /\ B \subseteq 0 .. MEM_SIZE - 1 BY DEF Filled
<1>2. ASSUME NEW p \in B
      PROVE  /\ p \in Nat /\ p < MEM_SIZE
             /\ h.next[p] \in B \cup {ram_end}
             /\ h.next[p] \in Nat /\ h.next[p] > p /\ h.next[p] <= MEM_SIZE
             /\ h.next[p] >= p + SIZEOF_STRUCT_MEM + MIN_SIZE
             /\ \A q \in B : q > p => q >= h.next[p]
  <2>1. p \in Nat /\ p < MEM_SIZE BY <1>1
  <2>2. PICK x : x = h.next[p] OBVIOUS
  <2>3. /\ x \in B \cup {ram_end} /\ x >= p + SIZEOF_STRUCT_MEM + MIN_SIZE
        /\ \A q \in B : q > p => q >= x
    BY <2>2 DEF Filled
  <2>4. x \in Nat /\ x <= MEM_SIZE BY <1>1, <2>3
  <2>5. x > p BY <2>1, <2>3, <2>4
  <2>. QED BY <2>1, <2>2, <2>3, <2>4, <2>5
<1>3. B \subseteq Offsets /\ ram_end \notin B BY <1>1
<1>. QED BY <1>1, <1>2, <1>3

(* The search f from x on ends at the first block of Z.                    *)
EndsAt(f, B, Z, v, x) ==
  \E q \in (B \cup {ram_end}) \cap Z :
     f[x] = v[q] /\ q >= x /\ \A r \in B : x <= r /\ r < q => r \notin Z

(* A search that starts on a block ends at the first block of Z.           *)
LEMMA SearchEnds ==
  ASSUME NEW h, HeapType(h), NEW B, Filled(h, B), NEW Z, ram_end \in Z, NEW v, NEW f,
         IsSearch(f, h.next, Z, v), NEW p \in B \cup {ram_end}
  PROVE  EndsAt(f, B, Z, v, p)
<1>. USE Numbers
<1>0. \A x \in Offsets : f[x] = IF x \in Z THEN v[x] ELSE f[h.next[x]] BY DEF IsSearch
<1>. DEFINE Bad == {x \in B \cup {ram_end} : ~EndsAt(f, B, Z, v, x)}
<1>1. B \subseteq Offsets /\ B \cup {ram_end} \subseteq Offsets BY BlockFacts
<1>. SUFFICES ASSUME Bad # {} PROVE FALSE OBVIOUS
<1>2. Bad \subseteq Offsets BY <1>1
<1>3. PICK m \in Bad : \A k \in Bad : m >= k
  <2>. HIDE DEF Bad
  <2>. QED BY <1>2, GreatestOf
<1>4. m \in B \cup {ram_end} /\ m \in Offsets /\ ~EndsAt(f, B, Z, v, m) BY <1>1
<1>5. CASE m \in Z
  <2>1. f[m] = v[m] BY <1>0, <1>4, <1>5
  <2>2. EndsAt(f, B, Z, v, m) BY <1>1, <1>4, <1>5, <2>1 DEF EndsAt
  <2>. QED BY <1>4, <2>2
<1>6. CASE m \notin Z
  <2>1. m \in B BY <1>4, <1>6
  <2>2. PICK x : x = h.next[m] OBVIOUS
  <2>3. x \in B \cup {ram_end} /\ x > m /\ \A r \in B : r > m => r >= x
    BY <2>1, <2>2, BlockFacts
  <2>4. x \notin Bad
    <3>1. m \in Nat /\ x \in Nat BY <1>1, <1>4, <2>3
    <3>2. ~(m >= x) BY <2>3, <3>1
    <3>. QED BY <1>3, <3>2
  <2>5. f[m] = f[x] BY <1>0, <1>4, <1>6, <2>2
  <2>6. PICK q \in (B \cup {ram_end}) \cap Z :
            f[x] = v[q] /\ q >= x /\ \A r \in B : x <= r /\ r < q => r \notin Z
    BY <2>3, <2>4 DEF EndsAt
  <2>7. q >= m
    <3>1. q \in Nat /\ m \in Nat /\ x \in Nat /\ q >= x /\ x > m BY <1>1, <1>4, <2>3, <2>6
    <3>. QED BY <3>1
  <2>8. ASSUME NEW r \in B, m <= r, r < q PROVE r \notin Z
    <3>1. CASE r = m BY <1>6, <3>1
    <3>2. CASE r # m
      <4>1. r > m BY <1>1, <1>4, <2>8, <3>2
      <4>. QED BY <2>3, <2>6, <2>8, <4>1
    <3>. QED BY <3>1, <3>2
  <2>. QED BY <1>4, <2>5, <2>6, <2>7, <2>8 DEF EndsAt
<1>. QED BY <1>5, <1>6

(* What List meets from the start on are the blocks that fill the heap.    *)
LEMMA ListIs ==
  ASSUME NEW h, HeapType(h), NEW B, Filled(h, B)
  PROVE  List(h) = B
<1>. USE Numbers
<1>1. PICK nx \in [Offsets -> Offsets] : nx = h.next BY DEF HeapType
<1>2. \E f : f = [p \in Offsets |-> IF p = ram_end THEN {} ELSE {p} \cup f[h.next[p]]]
  <2>1. PICK f : f = [p \in Offsets |-> Reach(nx, {ram_end}, p) \ {ram_end}] OBVIOUS
  <2>2. ASSUME NEW p \in Offsets PROVE f[p] = IF p = ram_end THEN {} ELSE {p} \cup f[nx[p]]
    <3>1. CASE p = ram_end
      <4>1. Reach(nx, {ram_end}, p) = {p} BY <3>1, ReachOf
      <4>. QED BY <2>1, <3>1, <4>1
    <3>2. CASE p # ram_end
      <4>0. p \notin {ram_end} BY <3>2
      <4>1. Reach(nx, {ram_end}, p) = {p} \cup Reach(nx, {ram_end}, nx[p]) BY <4>0, ReachOf
      <4>2. nx[p] \in Offsets OBVIOUS
      <4>. QED BY <2>1, <3>2, <4>1, <4>2
    <3>. QED BY <3>1, <3>2
  <2>3. f = [p \in Offsets |-> IF p = ram_end THEN {} ELSE {p} \cup f[h.next[p]]] BY <1>1, <2>1, <2>2
  <2>. QED BY <2>3
<1>3. PICK f : /\ f = [p \in Offsets |-> IF p = ram_end THEN {} ELSE {p} \cup f[h.next[p]]]
               /\ List(h) = f[0]
  BY <1>2 DEF List
<1>. DEFINE Above(x) == f[x] = {q \in B : q >= x}
            Bad == {x \in B \cup {ram_end} : ~Above(x)}
<1>4. B \subseteq Offsets /\ B \cup {ram_end} \subseteq Offsets /\ ram_end \notin B /\ 0 \in B
  BY BlockFacts
<1>5. Bad = {}
  <2>. SUFFICES ASSUME Bad # {} PROVE FALSE OBVIOUS
  <2>1. Bad \subseteq Offsets BY <1>4
  <2>2. PICK m \in Bad : \A k \in Bad : m >= k
    <3>. HIDE DEF Bad
    <3>. QED BY <2>1, GreatestOf
  <2>3. m \in B \cup {ram_end} /\ m \in Offsets /\ ~Above(m) BY <1>4
  <2>4. CASE m = ram_end
    <3>1. f[m] = {} BY <1>3, <2>3, <2>4
    <3>2. \A q \in B : ~(q >= m) BY <2>4, BlockFacts
    <3>. QED BY <2>3, <3>1, <3>2
  <2>5. CASE m # ram_end
    <3>1. m \in B BY <2>3, <2>5
    <3>2. PICK x : x = nx[m] OBVIOUS
    <3>3. x \in B \cup {ram_end} /\ x > m /\ \A r \in B : r > m => r >= x
      BY <1>1, <3>1, <3>2, BlockFacts
    <3>4. m \in Nat /\ x \in Nat BY <1>4, <3>1, <3>3
    <3>5. x > m /\ ~(m >= x) BY <3>3, <3>4
    <3>6. Above(x) BY <2>2, <3>3, <3>5
    <3>7. f[m] = {m} \cup f[x] BY <1>1, <1>3, <2>3, <2>5, <3>2
    <3>8. ASSUME NEW q \in B PROVE q >= m <=> q = m \/ q >= x
      <4>1. q \in Nat BY <1>4
      <4>2. q > m => q >= x BY <3>3
      <4>. QED BY <3>4, <3>5, <4>1, <4>2
    <3>9. f[m] = {q \in B : q >= m} BY <3>1, <3>6, <3>7, <3>8
    <3>. QED BY <2>3, <3>9
  <2>. QED BY <2>4, <2>5
<1>6. f[0] = {q \in B : q >= 0} BY <1>4, <1>5
<1>7. \A q \in B : q >= 0 BY <1>4
<1>. QED BY <1>3, <1>6, <1>7

(* The search of mem_malloc, from lfree on, finds a free block that is     *)
(* large enough, or none.                                                  *)
LEMMA FirstFitFacts ==
  ASSUME NEW h, HeapType(h), NEW B, Filled(h, B), h.lfree \in B \cup {ram_end}, NEW n \in Nat
  PROVE  FirstFit(h, n) = ram_end \/ (FirstFit(h, n) \in B /\ Fits(h, FirstFit(h, n), n))
<1>. USE Numbers
<1>1. PICK nx \in [Offsets -> Offsets] : nx = h.next BY DEF HeapType
<1>2. PICK Z : Z = {p \in Offsets : p >= MEM_SIZE - n \/ Fits(h, p, n)} OBVIOUS
<1>3. PICK v : v = [p \in Offsets |-> IF p >= MEM_SIZE - n THEN ram_end ELSE p] OBVIOUS
<1>4. \E f : f = [p \in Offsets |-> IF p >= MEM_SIZE - n THEN ram_end
                                    ELSE IF Fits(h, p, n) THEN p ELSE f[h.next[p]]]
  <2>1. PICK f : IsSearch(f, nx, Z, v) BY SearchDefined, Zenon
  <2>2. \A p \in Offsets : f[p] = IF p >= MEM_SIZE - n THEN ram_end
                                  ELSE IF Fits(h, p, n) THEN p ELSE f[h.next[p]]
    BY <1>1, <1>2, <1>3, <2>1 DEF IsSearch
  <2>3. f = [p \in Offsets |-> IF p >= MEM_SIZE - n THEN ram_end
                               ELSE IF Fits(h, p, n) THEN p ELSE f[h.next[p]]]
    BY <2>1, <2>2 DEF IsSearch
  <2>. QED BY <2>3
<1>5. PICK f : /\ f = [p \in Offsets |-> IF p >= MEM_SIZE - n THEN ram_end
                                         ELSE IF Fits(h, p, n) THEN p ELSE f[h.next[p]]]
               /\ FirstFit(h, n) = f[h.lfree]
  BY <1>4 DEF FirstFit
<1>6. IsSearch(f, h.next, Z, v)
  <2>1. \A p \in Offsets : f[p] = IF p \in Z THEN v[p] ELSE f[h.next[p]]
    BY <1>2, <1>3, <1>5
  <2>. QED BY <1>5, <2>1 DEF IsSearch
<1>7. ram_end \in Z BY <1>2
<1>8. PICK q \in (B \cup {ram_end}) \cap Z : f[h.lfree] = v[q]
  <2>1. EndsAt(f, B, Z, v, h.lfree) BY <1>6, <1>7, SearchEnds
  <2>. QED BY <2>1 DEF EndsAt
<1>. QED BY <1>2, <1>3, <1>5, <1>8

(* The search for the next free block ends at the first one, or at the     *)
(* end of the heap.                                                        *)
LEMMA NextFreeFacts ==
  ASSUME NEW h, HeapType(h), NEW B, Filled(h, B), NEW p \in B
  PROVE  /\ NextFree(h, p) \in B \cup {ram_end}
         /\ NextFree(h, p) = ram_end \/ ~h.used[NextFree(h, p)]
         /\ NextFree(h, p) >= p
         /\ \A r \in B : p <= r /\ r < NextFree(h, p) => h.used[r]
<1>. USE Numbers
<1>1. PICK nx \in [Offsets -> Offsets] : nx = h.next BY DEF HeapType
<1>2. PICK Z : Z = {c \in Offsets : ~(c # ram_end /\ h.used[c])} OBVIOUS
<1>3. PICK v : v = [c \in Offsets |-> c] OBVIOUS
<1>4. \E f : f = [c \in Offsets |-> IF c # ram_end /\ h.used[c] THEN f[h.next[c]] ELSE c]
  <2>1. PICK f : IsSearch(f, nx, Z, v) BY SearchDefined, Zenon
  <2>2. \A c \in Offsets : f[c] = IF c # ram_end /\ h.used[c] THEN f[h.next[c]] ELSE c
    BY <1>1, <1>2, <1>3, <2>1 DEF IsSearch
  <2>3. f = [c \in Offsets |-> IF c # ram_end /\ h.used[c] THEN f[h.next[c]] ELSE c]
    BY <2>1, <2>2 DEF IsSearch
  <2>. QED BY <2>3
<1>5. PICK f : /\ f = [c \in Offsets |-> IF c # ram_end /\ h.used[c] THEN f[h.next[c]] ELSE c]
               /\ NextFree(h, p) = f[p]
  BY <1>4 DEF NextFree
<1>6. IsSearch(f, h.next, Z, v)
  <2>1. \A c \in Offsets : f[c] = IF c \in Z THEN v[c] ELSE f[h.next[c]]
    BY <1>2, <1>3, <1>5
  <2>. QED BY <1>5, <2>1 DEF IsSearch
<1>7. ram_end \in Z BY <1>2
<1>8. B \subseteq Offsets /\ ram_end \notin B BY BlockFacts
<1>9. PICK q \in (B \cup {ram_end}) \cap Z :
         f[p] = v[q] /\ q >= p /\ \A r \in B : p <= r /\ r < q => r \notin Z
  <2>1. EndsAt(f, B, Z, v, p) BY <1>6, <1>7, SearchEnds
  <2>. QED BY <2>1 DEF EndsAt
<1>10. NextFree(h, p) = q BY <1>2, <1>3, <1>5, <1>9
<1>11. \A r \in B : r \notin Z => h.used[r] BY <1>2, <1>8
<1>12. q = ram_end \/ ~h.used[q] BY <1>2, <1>9
<1>. QED BY <1>9, <1>10, <1>11, <1>12

-----------------------------------------------------------------------------
(* mem_malloc, store by store.                                             *)

(* The offset of the rest lies inside the block that is split.             *)
LEMMA RestInside ==
  ASSUME NEW h, NEW B, Filled(h, B), NEW m \in B, NEW n \in Nat, n >= MIN_SIZE, Splits(h, m, n)
  PROVE  /\ Rest(m, n) \in Nat /\ Rest(m, n) \in Offsets /\ Rest(m, n) \notin B
         /\ Rest(m, n) >= m + SIZEOF_STRUCT_MEM + MIN_SIZE
         /\ Rest(m, n) > m
         /\ h.next[m] >= Rest(m, n) + SIZEOF_STRUCT_MEM + MIN_SIZE
         /\ h.next[m] > Rest(m, n)
<1>. USE Numbers
<1>1. PICK x, r : x = h.next[m] /\ r = Rest(m, n) OBVIOUS
<1>2. m \in Nat /\ x \in Nat /\ x <= MEM_SIZE /\ \A q \in B : q > m => q >= x
  BY <1>1, BlockFacts
<1>3. r = m + SIZEOF_STRUCT_MEM + n BY <1>1 DEF Rest
<1>4. x >= m + SIZEOF_STRUCT_MEM + n + SIZEOF_STRUCT_MEM + MIN_SIZE BY <1>1 DEF Splits
<1>5. /\ r \in Nat /\ r >= m + SIZEOF_STRUCT_MEM + MIN_SIZE /\ r > m
      /\ x >= r + SIZEOF_STRUCT_MEM + MIN_SIZE /\ x > r /\ r \in Offsets
  BY <1>2, <1>3, <1>4
<1>6. r \notin B
  <2>1. ~(r >= x) BY <1>2, <1>5
  <2>. QED BY <1>2, <1>5, <2>1
<1>. QED BY <1>1, <1>5, <1>6

(* mem_malloc writes the header of the rest into its own block: no block sees it yet.*)
LEMMA WriteRestSound ==
  ASSUME NEW h, NEW B, NEW H, NEW w, NEW m, NEW n, NEW c, Sound(h, B, H, w, "split", m, n, c)
  PROVE  Sound(WriteRest(h, m, n), B, H, w, "link", m, n, c)
<1>. USE Numbers
<1>1. PICK g, r : g = WriteRest(h, m, n) /\ r = Rest(m, n) OBVIOUS
<1>2. Typed(h, w, m, n, c) /\ Filled(h, B) /\ HeapType(h) BY DEF Sound, Typed
<1>3. m \in B /\ m \notin H /\ n \in Nat /\ n >= MIN_SIZE /\ Splits(h, m, n)
  BY <1>2 DEF Sound, UsedAreHeld, CallSound, InMalloc, InFree, Typed
<1>4. r \in Offsets /\ r \notin B BY <1>1, <1>2, <1>3, RestInside
<1>5. m \in Offsets /\ m # r /\ B \subseteq Offsets BY <1>2, <1>3, <1>4, BlockFacts
<1>6. /\ HeapType(g)
      /\ g.next = [h.next EXCEPT ![r] = h.next[m]]
      /\ g.prev = [h.prev EXCEPT ![r] = m]
      /\ g.used = [h.used EXCEPT ![r] = FALSE]
      /\ g.lfree = h.lfree
  BY <1>1, <1>2, <1>4, <1>5 DEF WriteRest, HeapType
<1>7. g.next[r] = h.next[m] /\ g.prev[r] = m /\ ~g.used[r]
  <2>1. g.next[r] = h.next[m] BY <1>2, <1>4, <1>6 DEF HeapType
  <2>2. g.prev[r] = m BY <1>2, <1>4, <1>6 DEF HeapType
  <2>3. g.used[r] = FALSE BY <1>2, <1>4, <1>6 DEF HeapType
  <2>. QED BY <2>1, <2>2, <2>3
<1>8. \A p \in B : g.next[p] = h.next[p] /\ g.prev[p] = h.prev[p] /\ g.used[p] = h.used[p]
  BY <1>2, <1>4, <1>5, <1>6 DEF HeapType
<1>9. Typed(g, w, m, n, c) BY <1>2, <1>6 DEF Typed
<1>10. Filled(g, B) BY <1>2, <1>8 DEF Filled
<1>11. BackLinked(g, B, "link", m, n) BY <1>2, <1>8, BlockFacts DEF Sound, BackLinked
<1>12. FreeApart(g, B, "link", m) BY <1>8 DEF Sound, FreeApart
<1>13. LowestFree(g, B, "link", m) BY <1>6, <1>8 DEF Sound, LowestFree
<1>14. UsedAreHeld(g, B, H, "link", m) BY <1>3, <1>8 DEF Sound, UsedAreHeld
<1>15. LargeEnough(g, H, w)
  <2>1. H \subseteq B BY DEF Sound, UsedAreHeld
  <2>. QED BY <1>8, <2>1 DEF Sound, LargeEnough
<1>16. CallSound(g, B, "link", m, n, c) BY <1>1, <1>3, <1>7, <1>8 DEF CallSound, Splits, InMalloc
<1>. QED BY <1>1, <1>9, <1>10, <1>11, <1>12, <1>13, <1>14, <1>15, <1>16 DEF Sound

(* mem->next = ptr2: the rest becomes a block, behind the one asked for.   *)
LEMMA LinkRestSound ==
  ASSUME NEW h, NEW B, NEW H, NEW w, NEW m, NEW n, NEW c, Sound(h, B, H, w, "link", m, n, c)
  PROVE  Sound(LinkRest(h, m, n), B \cup {Rest(m, n)}, H, w, "mark", m, n, c)
<1>. USE Numbers
<1>1. PICK g, r, C : g = LinkRest(h, m, n) /\ r = Rest(m, n) /\ C = B \cup {r} OBVIOUS
<1>2. Typed(h, w, m, n, c) /\ Filled(h, B) /\ HeapType(h) BY DEF Sound, Typed
<1>3. /\ m \in B /\ m \notin H /\ n \in Nat /\ n >= MIN_SIZE /\ Splits(h, m, n)
      /\ h.next[r] = h.next[m] /\ h.prev[r] = m /\ ~h.used[r]
  BY <1>1, <1>2 DEF Sound, UsedAreHeld, CallSound, InMalloc, InFree, Typed
<1>4. /\ r \in Nat /\ r \in Offsets /\ r \notin B /\ r >= m + SIZEOF_STRUCT_MEM + MIN_SIZE /\ r > m
      /\ h.next[m] >= r + SIZEOF_STRUCT_MEM + MIN_SIZE /\ h.next[m] > r
  BY <1>1, <1>2, <1>3, RestInside
<1>5. /\ m \in Offsets /\ m # r /\ B \subseteq Offsets /\ 0 \in B /\ ram_end \notin B
      /\ h.next[m] \in B \cup {ram_end} /\ h.next[m] \in Nat /\ m \in Nat /\ h.next[m] <= MEM_SIZE
      /\ \A q \in B : q \in Nat /\ q < MEM_SIZE /\ (q > m => q >= h.next[m])
  BY <1>2, <1>3, <1>4, BlockFacts
<1>6. /\ HeapType(g) /\ g.next = [h.next EXCEPT ![m] = r]
      /\ g.prev = h.prev /\ g.used = h.used /\ g.lfree = h.lfree
  BY <1>1, <1>2, <1>4, <1>5 DEF LinkRest, HeapType
<1>7. /\ g.next[m] = r /\ g.next[r] = h.next[m]
      /\ \A p \in B \ {m} : g.next[p] = h.next[p]
  BY <1>2, <1>3, <1>4, <1>5, <1>6 DEF HeapType
<1>8. Typed(g, w, m, n, c) BY <1>2, <1>6 DEF Typed
<1>9. \A q \in C : q > m => q >= r
  <2>1. ASSUME NEW q \in B, q > m PROVE q >= r BY <1>4, <1>5, <2>1
  <2>. QED BY <1>1, <1>4, <2>1
<1>10. \A q \in C : q > r => q >= h.next[m]
  <2>1. ASSUME NEW q \in B, q > r PROVE q >= h.next[m]
    <3>1. q > m BY <1>4, <1>5, <2>1
    <3>. QED BY <1>5, <3>1
  <2>. QED BY <1>1, <1>4, <2>1
<1>11. ASSUME NEW p \in B \ {m}
       PROVE  /\ h.next[p] \in C \cup {ram_end} /\ h.next[p] \in Nat
              /\ h.next[p] >= p + SIZEOF_STRUCT_MEM + MIN_SIZE
              /\ \A q \in C : q > p => q >= h.next[p]
  <2>1. /\ p \in Nat /\ h.next[p] \in B \cup {ram_end} /\ h.next[p] \in Nat
        /\ h.next[p] >= p + SIZEOF_STRUCT_MEM + MIN_SIZE
        /\ \A q \in B : q > p => q >= h.next[p]
    BY <1>2, BlockFacts
  <2>2. ASSUME r > p PROVE r >= h.next[p]
    <3>1. ~(p > m)
      <4>1. p > m => p >= h.next[m] BY <1>5
      <4>. QED BY <1>4, <1>5, <2>1, <2>2, <4>1
    <3>2. p < m BY <1>5, <2>1, <3>1
    <3>3. m >= h.next[p] BY <1>3, <2>1, <3>2
    <3>. QED BY <1>4, <1>5, <2>1, <3>3
  <2>. QED BY <1>1, <2>1, <2>2
<1>12. Filled(g, C)
  <2>1. 0 \in C BY <1>1, <1>5
  <2>2. C \subseteq 0 .. MEM_SIZE - 1
    <3>1. r < MEM_SIZE BY <1>4, <1>5
    <3>2. ASSUME NEW q \in C PROVE q \in Nat /\ q < MEM_SIZE BY <1>1, <1>4, <1>5, <3>1
    <3>3. ASSUME NEW q \in C PROVE q \in 0 .. MEM_SIZE - 1 BY <3>2
    <3>. QED BY <3>3
  <2>3. ASSUME NEW p \in C
        PROVE  /\ g.next[p] \in C \cup {ram_end} /\ g.next[p] >= p + SIZEOF_STRUCT_MEM + MIN_SIZE
               /\ \A q \in C : q > p => q >= g.next[p]
    <3>1. CASE p = m BY <1>1, <1>4, <1>7, <1>9, <3>1
    <3>2. CASE p = r BY <1>1, <1>4, <1>5, <1>7, <1>10, <3>2
    <3>3. CASE p \in B \ {m} BY <1>7, <1>11, <3>3
    <3>. QED BY <1>1, <3>1, <3>2, <3>3
  <2>. QED BY <2>1, <2>2, <2>3 DEF Filled
<1>13. ASSUME NEW p \in B \ {m} PROVE h.next[p] # r
  BY <1>2, <1>4, <1>5, BlockFacts
<1>14. BackLinked(g, C, "mark", m, n)
  <2>. SUFFICES ASSUME NEW p \in C, g.next[p] \in C, p # r PROVE g.prev[g.next[p]] = p
    BY <1>1, <1>6 DEF Sound, BackLinked
  <2>1. CASE p = m BY <1>3, <1>6, <1>7, <2>1
  <2>2. CASE p # m
    <3>1. p \in B \ {m} BY <1>1, <2>2
    <3>2. g.next[p] = h.next[p] /\ h.next[p] \in B BY <1>1, <1>7, <1>13, <3>1
    <3>3. h.prev[h.next[p]] = p BY <3>1, <3>2 DEF Sound, BackLinked
    <3>. QED BY <1>6, <3>2, <3>3
  <2>. QED BY <2>1, <2>2
<1>15. FreeApart(g, C, "mark", m)
  <2>. SUFFICES ASSUME NEW p \in C, ~g.used[p], g.next[p] \in C, p # m PROVE g.used[g.next[p]]
    BY DEF FreeApart
  <2>1. CASE p = r
    <3>1. g.next[p] = h.next[m] /\ h.next[m] \in B BY <1>1, <1>4, <1>5, <1>7, <2>1
    <3>2. ~h.used[m] BY <1>3 DEF Sound, UsedAreHeld
    <3>3. h.used[h.next[m]] BY <1>3, <3>1, <3>2 DEF Sound, FreeApart
    <3>. QED BY <1>6, <3>1, <3>3
  <2>2. CASE p # r
    <3>1. p \in B \ {m} BY <1>1, <2>2
    <3>2. g.next[p] = h.next[p] /\ h.next[p] \in B BY <1>1, <1>7, <1>13, <3>1
    <3>3. h.used[h.next[p]] BY <1>6, <3>1, <3>2 DEF Sound, FreeApart
    <3>. QED BY <1>6, <3>2, <3>3
  <2>. QED BY <2>1, <2>2
<1>16. LowestFree(g, C, "mark", m)
  <2>1. /\ h.lfree \in B \cup {ram_end} /\ (h.lfree \in B => ~h.used[h.lfree])
        /\ \A p \in B : ~h.used[p] => p >= h.lfree
    BY DEF Sound, LowestFree
  <2>2. ~h.used[m] BY <1>3 DEF Sound, UsedAreHeld
  <2>3. m >= h.lfree BY <1>3, <2>1, <2>2
  <2>4. r >= h.lfree
    <3>1. h.lfree \in Nat BY <1>5, <2>1
    <3>. QED BY <1>4, <1>5, <2>3, <3>1
  <2>5. h.lfree # r BY <1>4, <1>5, <2>1, <2>3
  <2>. QED BY <1>1, <1>6, <2>1, <2>4, <2>5 DEF LowestFree
<1>17. UsedAreHeld(g, C, H, "mark", m)
  <2>1. H \subseteq B /\ \A p \in B : h.used[p] <=> p \in H BY DEF Sound, UsedAreHeld
  <2>. QED BY <1>1, <1>3, <1>4, <1>6, <2>1 DEF UsedAreHeld
<1>18. LargeEnough(g, H, w)
  <2>1. H \subseteq B BY DEF Sound, UsedAreHeld
  <2>. QED BY <1>3, <1>7, <2>1 DEF Sound, LargeEnough
<1>19. CallSound(g, C, "mark", m, n, c)
  <2>1. r >= m + SIZEOF_STRUCT_MEM + n BY <1>1, <1>3, <1>5 DEF Rest
  <2>. QED BY <1>1, <1>3, <1>6, <1>7, <2>1 DEF CallSound, InMalloc
<1>. QED BY <1>1, <1>8, <1>12, <1>14, <1>15, <1>16, <1>17, <1>18, <1>19 DEF Sound

(* g differs from h in one field used.                                     *)
UsedIs(g, h, m, u) ==
  /\ HeapType(g) /\ g.next = h.next /\ g.prev = h.prev /\ g.lfree = h.lfree
  /\ g.used[m] = u /\ \A p \in Offsets : p # m => g.used[p] = h.used[p]

(* A store to the field used leaves the other fields alone.                *)
LEMMA UsedStore ==
  ASSUME NEW h, HeapType(h), NEW m \in Offsets, NEW u \in BOOLEAN,
         NEW g, g = [h EXCEPT !.used[m] = u]
  PROVE  UsedIs(g, h, m, u)
<1>1. /\ g.next = h.next /\ g.prev = h.prev /\ g.lfree = h.lfree
      /\ g.used = [h.used EXCEPT ![m] = u]
  BY DEF HeapType
<1>2. HeapType(g) BY DEF HeapType
<1>3. g.used[m] = u BY <1>1 DEF HeapType
<1>4. \A p \in Offsets : p # m => g.used[p] = h.used[p] BY <1>1 DEF HeapType
<1>. QED BY <1>1, <1>2, <1>3, <1>4 DEF UsedIs

(* mem->used = 1, with a split and without one.                            *)
LEMMA MarkSound ==
  ASSUME NEW h, NEW B, NEW H, NEW w, NEW m, NEW n, NEW c, NEW at, NEW to,
         \/ at = "mark" /\ to = "back"
         \/ at = "take" /\ to = "adjust",
         Sound(h, B, H, w, at, m, n, c)
  PROVE  Sound(MarkUsed(h, m), B, H, w, to, m, n, c)
<1>. USE Numbers
<1>1. PICK g : g = MarkUsed(h, m) OBVIOUS
<1>2. Typed(h, w, m, n, c) /\ Filled(h, B) /\ HeapType(h) /\ m \in Offsets BY DEF Sound, Typed
<1>3. m \in B /\ m \notin H BY <1>2 DEF Sound, UsedAreHeld, InMalloc, InFree
<1>4. B \subseteq Offsets BY <1>2, BlockFacts
<1>5. /\ HeapType(g) /\ g.next = h.next /\ g.prev = h.prev /\ g.lfree = h.lfree
      /\ g.used[m] = TRUE /\ \A p \in Offsets : p # m => g.used[p] = h.used[p]
  <2>1. g = [h EXCEPT !.used[m] = TRUE] BY <1>1 DEF MarkUsed
  <2>2. UsedIs(g, h, m, TRUE) BY <1>2, <2>1, UsedStore
  <2>. QED BY <2>2 DEF UsedIs
<1>6. \A p \in B : h.used[p] => g.used[p] BY <1>4, <1>5
<1>7. Typed(g, w, m, n, c) BY <1>2, <1>5 DEF Typed
<1>8. Filled(g, B) BY <1>2, <1>5 DEF Filled
<1>9. BackLinked(g, B, to, m, n) BY <1>5 DEF Sound, BackLinked
<1>10. FreeApart(g, B, to, m) BY <1>5, <1>6 DEF Sound, FreeApart
<1>11. LowestFree(g, B, to, m)
  <2>1. /\ h.lfree \in B \cup {ram_end} /\ (h.lfree \in B => ~h.used[h.lfree])
        /\ \A p \in B : ~h.used[p] => p >= h.lfree
    BY DEF Sound, LowestFree
  <2>. QED BY <1>4, <1>5, <1>6, <2>1 DEF LowestFree
<1>12. UsedAreHeld(g, B, H, to, m)
  <2>1. H \subseteq B /\ \A p \in B : h.used[p] <=> p \in H BY DEF Sound, UsedAreHeld
  <2>. QED BY <1>3, <1>4, <1>5, <2>1 DEF UsedAreHeld
<1>13. LargeEnough(g, H, w) BY <1>5 DEF Sound, LargeEnough
<1>14. CallSound(g, B, to, m, n, c)
  <2>1. CASE at = "mark"
    <3>1. /\ n >= MIN_SIZE /\ h.next[m] = Rest(m, n) /\ Rest(m, n) \in B /\ ~h.used[Rest(m, n)]
          /\ h.next[m] >= m + SIZEOF_STRUCT_MEM + n
      BY <2>1 DEF Sound, CallSound, InMalloc
    <3>2. Rest(m, n) # m BY <1>2, <1>3, <3>1, BlockFacts
    <3>3. ~g.used[Rest(m, n)] BY <1>4, <1>5, <3>1, <3>2
    <3>. QED BY <1>5, <2>1, <3>1, <3>3 DEF CallSound
  <2>2. CASE at = "take"
    <3>1. n >= MIN_SIZE /\ h.next[m] >= m + SIZEOF_STRUCT_MEM + n
      BY <2>2 DEF Sound, CallSound, InMalloc
    <3>. QED BY <1>5, <2>2, <3>1 DEF CallSound
  <2>. QED BY <2>1, <2>2
<1>. QED BY <1>1, <1>7, <1>8, <1>9, <1>10, <1>11, <1>12, <1>13, <1>14 DEF Sound

(* The block behind the rest gets its back link.                           *)
LEMMA LinkBackSound ==
  ASSUME NEW h, NEW B, NEW H, NEW w, NEW m, NEW n, NEW c, Sound(h, B, H, w, "back", m, n, c)
  PROVE  Sound(LinkBack(h, Rest(m, n)), B, H, w, "adjust", m, n, c)
<1>. USE Numbers
<1>1. PICK g, r : g = LinkBack(h, r) /\ r = Rest(m, n) OBVIOUS
<1>2. Typed(h, w, m, n, c) /\ Filled(h, B) /\ HeapType(h) BY DEF Sound, Typed
<1>3. m \in B /\ m \notin H /\ r \in B /\ n >= MIN_SIZE /\ h.next[m] >= m + SIZEOF_STRUCT_MEM + n
  BY <1>1 DEF Sound, UsedAreHeld, CallSound, InMalloc, InFree
<1>4. B \subseteq Offsets /\ h.next[r] \in Offsets /\ r \in Offsets BY <1>2, <1>3, BlockFacts
<1>5. /\ HeapType(g) /\ g.next = h.next /\ g.used = h.used /\ g.lfree = h.lfree
      /\ h.next[r] # ram_end => g.prev = [h.prev EXCEPT ![h.next[r]] = r]
      /\ h.next[r] = ram_end => g.prev = h.prev
  <2>1. CASE h.next[r] = ram_end BY <1>1, <1>2, <2>1 DEF LinkBack
  <2>2. CASE h.next[r] # ram_end BY <1>1, <1>2, <1>4, <2>2 DEF LinkBack, HeapType
  <2>. QED BY <2>1, <2>2
<1>6. Typed(g, w, m, n, c) BY <1>2, <1>5 DEF Typed
<1>7. Filled(g, B) BY <1>2, <1>5 DEF Filled
<1>8. BackLinked(g, B, "adjust", m, n)
  <2>. SUFFICES ASSUME NEW p \in B, h.next[p] \in B PROVE g.prev[h.next[p]] = p
    <3>1. h.next[r] # 0 /\ 0 \in Offsets BY <1>2, <1>3, BlockFacts
    <3>2. g.prev[0] = h.prev[0] BY <1>2, <1>4, <1>5, <3>1 DEF HeapType
    <3>. QED BY <1>5, <3>2 DEF Sound, BackLinked
  <2>1. h.next[p] \in Offsets /\ h.next[p] # ram_end BY <1>2, <1>4, BlockFacts
  <2>2. CASE p = r
    <3>1. g.prev = [h.prev EXCEPT ![h.next[r]] = r] BY <1>5, <2>1, <2>2
    <3>. QED BY <1>2, <1>4, <2>2, <3>1 DEF HeapType
  <2>3. CASE p # r
    <3>1. h.prev[h.next[p]] = p BY <1>1, <2>3 DEF Sound, BackLinked
    <3>2. h.next[p] # h.next[r]
      <4>1. p \in Nat /\ r \in Nat BY <1>2, <1>3, BlockFacts
      <4>2. p < r \/ r < p BY <2>3, <4>1
      <4>3. ASSUME p < r PROVE h.next[p] <= r /\ r < h.next[r] /\ h.next[r] \in Nat /\ h.next[p] \in Nat
        BY <1>2, <1>3, <4>3, <4>1, BlockFacts
      <4>4. ASSUME r < p PROVE h.next[r] <= p /\ p < h.next[p] /\ h.next[r] \in Nat /\ h.next[p] \in Nat
        BY <1>2, <1>3, <4>4, <4>1, BlockFacts
      <4>. QED BY <4>1, <4>2, <4>3, <4>4
    <3>3. g.prev[h.next[p]] = h.prev[h.next[p]] BY <1>2, <1>4, <1>5, <2>1, <3>2 DEF HeapType
    <3>. QED BY <3>1, <3>3
  <2>. QED BY <2>2, <2>3
<1>9. FreeApart(g, B, "adjust", m) BY <1>5 DEF Sound, FreeApart
<1>10. LowestFree(g, B, "adjust", m) BY <1>5 DEF Sound, LowestFree
<1>11. UsedAreHeld(g, B, H, "adjust", m)
  BY <1>3, <1>5 DEF Sound, UsedAreHeld
<1>12. LargeEnough(g, H, w) BY <1>5 DEF Sound, LargeEnough
<1>13. CallSound(g, B, "adjust", m, n, c) BY <1>3, <1>5 DEF CallSound
<1>. QED BY <1>1, <1>6, <1>7, <1>8, <1>9, <1>10, <1>11, <1>12, <1>13 DEF Sound

(* The end of mem_malloc: the search for the new lfree begins, goes on,    *)
(* and its result is stored.                                               *)
LEMMA AdjustSound ==
  ASSUME NEW h, NEW B, NEW H, NEW w, NEW m, NEW n, NEW c, Sound(h, B, H, w, "adjust", m, n, c)
  PROVE  /\ h.lfree = m => Sound(h, B, H, w, "lower", m, n, m)
         /\ h.lfree # m => Sound(h, B, H, w, "return", m, n, h.lfree)
<1>. USE Numbers
<1>1. Typed(h, w, m, n, c) /\ Filled(h, B) /\ HeapType(h) /\ m \in Offsets /\ h.lfree \in Offsets
  BY DEF Sound, Typed, HeapType
<1>2. m \in B /\ m \notin H /\ n >= MIN_SIZE /\ h.next[m] >= m + SIZEOF_STRUCT_MEM + n
  BY DEF Sound, UsedAreHeld, CallSound, InMalloc, InFree
<1>3. /\ h.lfree \in B \cup {ram_end} /\ (h.lfree \in B /\ h.used[h.lfree] => h.lfree = m)
      /\ \A p \in B : ~h.used[p] => p >= h.lfree
  BY DEF Sound, LowestFree
<1>4. ASSUME h.lfree = m PROVE Sound(h, B, H, w, "lower", m, n, m)
  <2>1. Typed(h, w, m, n, m) BY <1>1 DEF Typed
  <2>2. BackLinked(h, B, "lower", m, n) /\ FreeApart(h, B, "lower", m) BY DEF Sound, BackLinked, FreeApart
  <2>3. LowestFree(h, B, "lower", m) BY <1>3 DEF LowestFree
  <2>4. UsedAreHeld(h, B, H, "lower", m) BY <1>2 DEF Sound, UsedAreHeld
  <2>5. \A p \in B : p < m => h.used[p]
    <3>1. \A p \in B : p \in Nat BY <1>1, BlockFacts
    <3>. QED BY <1>1, <1>3, <1>4, <3>1
  <2>6. CallSound(h, B, "lower", m, n, m) BY <1>2, <1>4, <2>5 DEF CallSound
  <2>. QED BY <1>1, <2>1, <2>2, <2>3, <2>4, <2>6 DEF Sound
<1>5. ASSUME h.lfree # m PROVE Sound(h, B, H, w, "return", m, n, h.lfree)
  <2>1. Typed(h, w, m, n, h.lfree) BY <1>1 DEF Typed
  <2>2. BackLinked(h, B, "return", m, n) /\ FreeApart(h, B, "return", m) BY DEF Sound, BackLinked, FreeApart
  <2>3. LowestFree(h, B, "return", m) BY <1>3, <1>5 DEF LowestFree
  <2>4. UsedAreHeld(h, B, H, "return", m) BY <1>2 DEF Sound, UsedAreHeld
  <2>5. CallSound(h, B, "return", m, n, h.lfree) BY <1>2 DEF CallSound
  <2>. QED BY <1>1, <2>1, <2>2, <2>3, <2>4, <2>5 DEF Sound
<1>. QED BY <1>4, <1>5

(* The search for a new lfree passes used blocks only.                     *)
LEMMA LowerSound ==
  ASSUME NEW h, NEW B, NEW H, NEW w, NEW m, NEW n, NEW c, Sound(h, B, H, w, "lower", m, n, c)
  PROVE  /\ LowerGoesOn(h, c) => Sound(h, B, H, w, "lower", m, n, h.next[c])
         /\ ~LowerGoesOn(h, c) => Sound(h, B, H, w, "store", m, n, c)
<1>. USE Numbers
<1>1. Typed(h, w, m, n, c) /\ Filled(h, B) BY DEF Sound
<1>2. /\ n >= MIN_SIZE /\ h.next[m] >= m + SIZEOF_STRUCT_MEM + n /\ h.lfree = m
      /\ c \in B \cup {ram_end} /\ \A p \in B : p < c => h.used[p]
  BY DEF Sound, CallSound, InMalloc
<1>3. m \in B /\ m \notin H BY DEF Sound, UsedAreHeld, InMalloc, InFree
<1>4. ASSUME LowerGoesOn(h, c) PROVE Sound(h, B, H, w, "lower", m, n, h.next[c])
  <2>1. c \in B /\ h.used[c] BY <1>2, <1>4 DEF LowerGoesOn
  <2>2. /\ h.next[c] \in B \cup {ram_end} /\ h.next[c] \in Offsets
        /\ \A q \in B : q \in Nat /\ (q > c => q >= h.next[c])
        /\ h.next[c] \in Nat /\ c \in Nat
    BY <1>1, <2>1, BlockFacts
  <2>3. ASSUME NEW p \in B, p < h.next[c] PROVE h.used[p]
    <3>1. ~(p > c) BY <2>2, <2>3
    <3>2. p < c \/ p = c BY <2>2, <3>1
    <3>. QED BY <1>2, <2>1, <3>2
  <2>4. CallSound(h, B, "lower", m, n, h.next[c]) BY <1>2, <2>2, <2>3 DEF CallSound
  <2>5. Typed(h, w, m, n, h.next[c]) BY <1>1, <2>2 DEF Typed
  <2>. QED BY <2>4, <2>5 DEF Sound
<1>5. ASSUME ~LowerGoesOn(h, c) PROVE Sound(h, B, H, w, "store", m, n, c)
  <2>1. CallSound(h, B, "store", m, n, c) BY <1>2, <1>5 DEF CallSound, LowerGoesOn
  <2>2. BackLinked(h, B, "store", m, n) /\ FreeApart(h, B, "store", m) BY DEF Sound, BackLinked, FreeApart
  <2>3. LowestFree(h, B, "store", m) BY DEF Sound, LowestFree
  <2>4. UsedAreHeld(h, B, H, "store", m) BY <1>3 DEF Sound, UsedAreHeld
  <2>. QED BY <2>1, <2>2, <2>3, <2>4 DEF Sound
<1>. QED BY <1>4, <1>5

(* The same search in one piece.                                           *)
LEMMA LowerAtOnce ==
  ASSUME NEW h, NEW B, NEW H, NEW w, NEW m, NEW n, NEW c, Sound(h, B, H, w, "adjust", m, n, c),
         h.lfree = m
  PROVE  Sound(h, B, H, w, "store", m, n, NextFree(h, m))
<1>. USE Numbers
<1>1. Sound(h, B, H, w, "lower", m, n, m) BY AdjustSound
<1>2. Typed(h, w, m, n, m) /\ HeapType(h) /\ Filled(h, B) BY <1>1 DEF Sound, Typed
<1>3. /\ n >= MIN_SIZE /\ h.next[m] >= m + SIZEOF_STRUCT_MEM + n
      /\ \A p \in B : p < m => h.used[p]
  BY <1>1 DEF Sound, CallSound, InMalloc
<1>4. m \in B /\ m \notin H BY <1>1 DEF Sound, UsedAreHeld, InMalloc, InFree
<1>5. PICK d : d = NextFree(h, m) OBVIOUS
<1>6. /\ d \in B \cup {ram_end} /\ (d = ram_end \/ ~h.used[d]) /\ d >= m
      /\ \A r \in B : m <= r /\ r < d => h.used[r]
  BY <1>2, <1>4, <1>5, NextFreeFacts
<1>7. d \in Offsets /\ \A p \in B : p \in Nat BY <1>2, <1>6, BlockFacts
<1>8. ASSUME NEW p \in B, p < d PROVE h.used[p]
  <2>1. p < m \/ m <= p BY <1>4, <1>7
  <2>. QED BY <1>3, <1>6, <1>8, <2>1
<1>9. CallSound(h, B, "store", m, n, d) BY <1>3, <1>6, <1>8 DEF CallSound
<1>10. Typed(h, w, m, n, d) BY <1>2, <1>7 DEF Typed
<1>11. BackLinked(h, B, "store", m, n) /\ FreeApart(h, B, "store", m) BY DEF Sound, BackLinked, FreeApart
<1>12. LowestFree(h, B, "store", m) BY DEF Sound, LowestFree
<1>13. UsedAreHeld(h, B, H, "store", m) BY <1>4 DEF Sound, UsedAreHeld
<1>. QED BY <1>2, <1>5, <1>9, <1>10, <1>11, <1>12, <1>13 DEF Sound

(* lfree = cur: the lowest free block, or the end.                         *)
LEMMA StoreLfreeSound ==
  ASSUME NEW h, NEW B, NEW H, NEW w, NEW m, NEW n, NEW c, Sound(h, B, H, w, "store", m, n, c)
  PROVE  Sound([h EXCEPT !.lfree = c], B, H, w, "return", m, n, c)
<1>. USE Numbers
<1>1. PICK g : g = [h EXCEPT !.lfree = c] OBVIOUS
<1>2. Typed(h, w, m, n, c) /\ HeapType(h) /\ Filled(h, B) /\ c \in Offsets BY DEF Sound, Typed
<1>3. /\ n >= MIN_SIZE /\ h.next[m] >= m + SIZEOF_STRUCT_MEM + n
      /\ c \in B \cup {ram_end} /\ (c = ram_end \/ ~h.used[c]) /\ \A p \in B : p < c => h.used[p]
  BY DEF Sound, CallSound, InMalloc
<1>4. m \in B /\ m \notin H BY DEF Sound, UsedAreHeld, InMalloc, InFree
<1>5. HeapType(g) /\ g.next = h.next /\ g.prev = h.prev /\ g.used = h.used /\ g.lfree = c
  BY <1>1, <1>2 DEF HeapType
<1>6. B \subseteq Offsets /\ ram_end \notin B BY <1>2, BlockFacts
<1>7. Typed(g, w, m, n, c) BY <1>2, <1>5 DEF Typed
<1>8. Filled(g, B) BY <1>2, <1>5 DEF Filled
<1>9. BackLinked(g, B, "return", m, n) /\ FreeApart(g, B, "return", m)
  BY <1>5 DEF Sound, BackLinked, FreeApart
<1>10. \A p \in B : ~h.used[p] => p >= c BY <1>2, <1>3, <1>6
<1>11. LowestFree(g, B, "return", m) BY <1>3, <1>5, <1>6, <1>10 DEF LowestFree
<1>12. UsedAreHeld(g, B, H, "return", m) BY <1>4, <1>5 DEF Sound, UsedAreHeld
<1>13. LargeEnough(g, H, w) BY <1>5 DEF Sound, LargeEnough
<1>14. CallSound(g, B, "return", m, n, c) BY <1>3, <1>5 DEF CallSound
<1>. QED BY <1>1, <1>7, <1>8, <1>9, <1>11, <1>12, <1>13, <1>14 DEF Sound

Resting == {"idle", "send", "drop"}

(* Between the calls the variables of a call do not matter.                *)
LEMMA RestingSound ==
  ASSUME NEW h, NEW B, NEW H, NEW w, NEW at \in Resting \cup {"walk"}, NEW m, NEW n, NEW c,
         Sound(h, B, H, w, at, m, n, c),
         NEW to \in Resting, NEW k \in Offsets, NEW l \in Nat, NEW d \in Offsets
  PROVE  Sound(h, B, H, w, to, k, l, d)
<1>1. Typed(h, w, k, l, d) BY DEF Sound, Typed
<1>2. BackLinked(h, B, to, k, l) BY DEF Sound, BackLinked, Resting
<1>3. FreeApart(h, B, to, k) BY DEF Sound, FreeApart, Resting
<1>4. LowestFree(h, B, to, k) BY DEF Sound, LowestFree, Resting
<1>5. UsedAreHeld(h, B, H, to, k) BY DEF Sound, UsedAreHeld, Resting, InMalloc, InFree
<1>6. CallSound(h, B, to, k, l, d) BY DEF CallSound, Resting, InMalloc
<1>. QED BY <1>1, <1>2, <1>3, <1>4, <1>5, <1>6 DEF Sound

(* The caller gets the block.                                              *)
LEMMA ReturnSound ==
  ASSUME NEW h, NEW B, NEW H, NEW w, NEW m, NEW n, NEW c, Sound(h, B, H, w, "return", m, n, c)
  PROVE  Sound(h, B, H \cup {m}, [w EXCEPT ![m] = n], "send", m, n, c)
<1>. USE Numbers
<1>1. PICK I, v : I = H \cup {m} /\ v = [w EXCEPT ![m] = n] OBVIOUS
<1>2. Typed(h, w, m, n, c) /\ Filled(h, B) BY DEF Sound
<1>3. n >= MIN_SIZE /\ h.next[m] >= m + SIZEOF_STRUCT_MEM + n BY DEF Sound, CallSound, InMalloc
<1>4. m \in B /\ m \notin H BY DEF Sound, UsedAreHeld, InMalloc, InFree
<1>5. /\ v \in [Offsets -> Nat] /\ v[m] = n
      /\ \A p \in Offsets : p # m => v[p] = w[p]
  BY <1>1, <1>2 DEF Typed
<1>6. H \subseteq B /\ B \subseteq Offsets BY <1>2, BlockFacts DEF Sound, UsedAreHeld
<1>7. Typed(h, v, m, n, c) BY <1>2, <1>5 DEF Typed
<1>8. BackLinked(h, B, "send", m, n) /\ FreeApart(h, B, "send", m) BY DEF Sound, BackLinked, FreeApart
<1>9. LowestFree(h, B, "send", m) BY DEF Sound, LowestFree
<1>10. UsedAreHeld(h, B, I, "send", m) BY <1>1, <1>4 DEF Sound, UsedAreHeld, InMalloc, InFree
<1>11. LargeEnough(h, I, v)
  <2>. SUFFICES ASSUME NEW p \in I PROVE h.next[p] >= p + SIZEOF_STRUCT_MEM + v[p] BY DEF LargeEnough
  <2>1. CASE p = m BY <1>3, <1>5, <2>1
  <2>2. CASE p # m
    <3>1. p \in H /\ v[p] = w[p] BY <1>1, <1>5, <1>6, <2>2
    <3>. QED BY <3>1 DEF Sound, LargeEnough
  <2>. QED BY <2>1, <2>2
<1>12. CallSound(h, B, "send", m, n, c) BY DEF CallSound, InMalloc
<1>. QED BY <1>1, <1>2, <1>7, <1>8, <1>9, <1>10, <1>11, <1>12 DEF Sound

(* A block that fits is taken, whole or in part.                           *)
LEMMA FoundSound ==
  ASSUME NEW h, NEW B, NEW H, NEW w, NEW at \in Resting \cup {"walk"}, NEW k, NEW l, NEW c,
         Sound(h, B, H, w, at, k, l, c),
         NEW m \in B, NEW n \in Nat, n >= MIN_SIZE, Fits(h, m, n)
  PROVE  Sound(h, B, H, w, IF Splits(h, m, n) THEN "split" ELSE "take", m, n, c)
<1>. USE Numbers
<1>1. PICK to \in {"split", "take"} : /\ to = IF Splits(h, m, n) THEN "split" ELSE "take"
                                      /\ to = "split" => Splits(h, m, n)
  OBVIOUS
<1>2. Typed(h, w, k, l, c) /\ Filled(h, B) BY DEF Sound
<1>3. ~h.used[m] /\ h.next[m] >= m + SIZEOF_STRUCT_MEM + n BY DEF Fits
<1>4. H \subseteq B /\ \A p \in B : h.used[p] <=> p \in H BY DEF Sound, UsedAreHeld, Resting
<1>5. m \in Offsets /\ m \notin H BY <1>2, <1>3, <1>4, BlockFacts
<1>6. Typed(h, w, m, n, c) BY <1>2, <1>5 DEF Typed
<1>7. BackLinked(h, B, to, m, n) BY DEF Sound, BackLinked, Resting
<1>8. FreeApart(h, B, to, m) BY DEF Sound, FreeApart, Resting
<1>9. LowestFree(h, B, to, m) BY DEF Sound, LowestFree, Resting
<1>10. UsedAreHeld(h, B, H, to, m) BY <1>4, <1>5 DEF UsedAreHeld
<1>11. CallSound(h, B, to, m, n, c) BY <1>1, <1>3 DEF CallSound
<1>. QED BY <1>1, <1>2, <1>6, <1>7, <1>8, <1>9, <1>10, <1>11 DEF Sound

-----------------------------------------------------------------------------
(* mem_free, store by store.                                               *)

(* The last reference goes.                                                *)
LEMMA LastDropSound ==
  ASSUME NEW h, NEW B, NEW H, NEW w, NEW at \in Resting, NEW k, NEW l, NEW c,
         Sound(h, B, H, w, at, k, l, c), NEW m \in H, NEW n \in Nat
  PROVE  Sound(h, B, H \ {m}, [w EXCEPT ![m] = 0], "unuse", m, n, c)
<1>. USE Numbers
<1>1. PICK I, v : I = H \ {m} /\ v = [w EXCEPT ![m] = 0] OBVIOUS
<1>2. Typed(h, w, k, l, c) /\ Filled(h, B) BY DEF Sound
<1>3. H \subseteq B /\ \A p \in B : h.used[p] <=> p \in H BY DEF Sound, UsedAreHeld, Resting
<1>4. m \in B /\ m \in Offsets /\ B \subseteq Offsets BY <1>2, <1>3, BlockFacts
<1>5. v \in [Offsets -> Nat] /\ \A p \in Offsets : p # m => v[p] = w[p] BY <1>1, <1>2 DEF Typed
<1>6. Typed(h, v, m, n, c) BY <1>2, <1>4, <1>5 DEF Typed
<1>7. BackLinked(h, B, "unuse", m, n) BY DEF Sound, BackLinked, Resting
<1>8. FreeApart(h, B, "unuse", m) BY DEF Sound, FreeApart, Resting
<1>9. LowestFree(h, B, "unuse", m) BY DEF Sound, LowestFree, Resting
<1>10. UsedAreHeld(h, B, I, "unuse", m) BY <1>1, <1>3, <1>4 DEF UsedAreHeld
<1>11. LargeEnough(h, I, v)
  <2>. SUFFICES ASSUME NEW p \in I PROVE h.next[p] >= p + SIZEOF_STRUCT_MEM + v[p] BY DEF LargeEnough
  <2>1. p \in H /\ v[p] = w[p] BY <1>1, <1>3, <1>4, <1>5
  <2>. QED BY <2>1 DEF Sound, LargeEnough
<1>12. CallSound(h, B, "unuse", m, n, c) BY DEF CallSound, InMalloc
<1>. QED BY <1>1, <1>2, <1>6, <1>7, <1>8, <1>9, <1>10, <1>11, <1>12 DEF Sound

(* mem->used = 0: the block is free, and lfree may be too high.            *)
LEMMA UnuseSound ==
  ASSUME NEW h, NEW B, NEW H, NEW w, NEW m, NEW n, NEW c, Sound(h, B, H, w, "unuse", m, n, c)
  PROVE  Sound([h EXCEPT !.used[m] = FALSE], B, H, w, "lfree", m, n, c)
<1>. USE Numbers
<1>1. PICK g : g = [h EXCEPT !.used[m] = FALSE] OBVIOUS
<1>2. Typed(h, w, m, n, c) /\ Filled(h, B) /\ HeapType(h) /\ m \in Offsets BY DEF Sound, Typed
<1>3. m \in B /\ m \notin H BY <1>2 DEF Sound, UsedAreHeld, InMalloc, InFree
<1>4. B \subseteq Offsets BY <1>2, BlockFacts
<1>5. /\ HeapType(g) /\ g.next = h.next /\ g.prev = h.prev /\ g.lfree = h.lfree
      /\ g.used[m] = FALSE /\ \A p \in Offsets : p # m => g.used[p] = h.used[p]
  <2>1. UsedIs(g, h, m, FALSE) BY <1>1, <1>2, UsedStore
  <2>. QED BY <2>1 DEF UsedIs
<1>6. Typed(g, w, m, n, c) BY <1>2, <1>5 DEF Typed
<1>7. Filled(g, B) BY <1>2, <1>5 DEF Filled
<1>8. BackLinked(g, B, "lfree", m, n) BY <1>5 DEF Sound, BackLinked
<1>9. FreeApart(g, B, "lfree", m)
  <2>. SUFFICES ASSUME NEW p \in B, ~g.used[p], h.next[p] \in B, m # p, m # h.next[p]
                PROVE  g.used[h.next[p]]
    BY <1>5 DEF FreeApart
  <2>1. ~h.used[p] /\ g.used[h.next[p]] = h.used[h.next[p]] BY <1>4, <1>5
  <2>. QED BY <2>1 DEF Sound, FreeApart
<1>10. LowestFree(g, B, "lfree", m)
  <2>1. /\ h.lfree \in B \cup {ram_end} /\ (h.lfree \in B => ~h.used[h.lfree])
        /\ \A p \in B : ~h.used[p] => p >= h.lfree
    BY DEF Sound, LowestFree
  <2>. QED BY <1>4, <1>5, <2>1 DEF LowestFree
<1>11. UsedAreHeld(g, B, H, "lfree", m)
  <2>1. H \subseteq B /\ \A p \in B : p # m => (h.used[p] <=> p \in H) BY DEF Sound, UsedAreHeld
  <2>. QED BY <1>3, <1>4, <1>5, <2>1 DEF UsedAreHeld
<1>12. LargeEnough(g, H, w) BY <1>5 DEF Sound, LargeEnough
<1>13. CallSound(g, B, "lfree", m, n, c) BY DEF CallSound, InMalloc
<1>. QED BY <1>1, <1>6, <1>7, <1>8, <1>9, <1>10, <1>11, <1>12, <1>13 DEF Sound

(* mem_free lowers lfree when the block lies below it.                     *)
LEMMA LowerFreeSound ==
  ASSUME NEW h, NEW B, NEW H, NEW w, NEW m, NEW n, NEW c, Sound(h, B, H, w, "lfree", m, n, c)
  PROVE  Sound(LowerFree(h, m), B, H, w, "forward", m, n, c)
<1>. USE Numbers
<1>1. PICK g : g = LowerFree(h, m) OBVIOUS
<1>2. Typed(h, w, m, n, c) /\ Filled(h, B) /\ HeapType(h) /\ m \in Offsets BY DEF Sound, Typed
<1>3. m \in B /\ m \notin H /\ ~h.used[m] BY DEF Sound, UsedAreHeld, InMalloc, InFree
<1>4. B \subseteq Offsets /\ ram_end \notin B BY <1>2, BlockFacts
<1>5. /\ HeapType(g) /\ g.next = h.next /\ g.prev = h.prev /\ g.used = h.used
      /\ g.lfree = IF m < h.lfree THEN m ELSE h.lfree
  <2>1. CASE m < h.lfree BY <1>1, <1>2, <2>1 DEF LowerFree, HeapType
  <2>2. CASE ~(m < h.lfree) BY <1>1, <1>2, <2>2 DEF LowerFree
  <2>. QED BY <2>1, <2>2
<1>6. Typed(g, w, m, n, c) BY <1>2, <1>5 DEF Typed
<1>7. Filled(g, B) BY <1>2, <1>5 DEF Filled
<1>8. BackLinked(g, B, "forward", m, n) /\ FreeApart(g, B, "forward", m)
  BY <1>5 DEF Sound, BackLinked, FreeApart
<1>9. LowestFree(g, B, "forward", m)
  <2>1. /\ h.lfree \in B \cup {ram_end} /\ (h.lfree \in B => ~h.used[h.lfree])
        /\ \A p \in B : ~h.used[p] => p >= h.lfree \/ p = m
    BY DEF Sound, LowestFree
  <2>2. \A p \in B \cup {ram_end} : p \in Nat BY <1>4
  <2>3. ASSUME NEW p \in B, ~h.used[p] PROVE p >= g.lfree
    <3>1. p >= h.lfree \/ p = m BY <2>1, <2>3
    <3>. QED BY <1>3, <1>5, <2>1, <2>2, <3>1
  <2>. QED BY <1>3, <1>5, <2>1, <2>3 DEF LowestFree
<1>10. UsedAreHeld(g, B, H, "forward", m) BY <1>3, <1>5 DEF Sound, UsedAreHeld
<1>11. LargeEnough(g, H, w) BY <1>5 DEF Sound, LargeEnough
<1>12. CallSound(g, B, "forward", m, n, c) BY DEF CallSound, InMalloc
<1>. QED BY <1>1, <1>6, <1>7, <1>8, <1>9, <1>10, <1>11, <1>12 DEF Sound

(* Every block but the first has one before it, and only one.              *)
HasBefore(h, B, m) == \E p \in B : h.next[p] = m

(* Every block but the first is the next of a block.                       *)
LEMMA Before ==
  ASSUME NEW h, NEW B, Filled(h, B), NEW m \in B, m # 0
  PROVE  HasBefore(h, B, m)
<1>. USE Numbers
<1>1. PICK S : S = {q \in B : q < m} OBVIOUS
<1>2. 0 \in S BY <1>1, BlockFacts
<1>3. S \subseteq Offsets /\ S # {} BY <1>1, <1>2, BlockFacts
<1>4. PICK p \in S : \A q \in S : p >= q BY <1>3, GreatestOf
<1>5. p \in B /\ p < m BY <1>1
<1>6. /\ p \in Nat /\ m \in Nat /\ h.next[p] \in Nat /\ h.next[p] \in B \cup {ram_end} /\ h.next[p] > p
      /\ m < MEM_SIZE /\ (m > p => m >= h.next[p])
  BY <1>5, BlockFacts
<1>7. h.next[p] <= m BY <1>5, <1>6
<1>8. ASSUME h.next[p] < m PROVE FALSE
  <2>1. h.next[p] \in S BY <1>1, <1>6, <1>8
  <2>. QED BY <1>4, <1>6, <2>1
<1>9. h.next[p] = m BY <1>6, <1>7, <1>8
<1>. QED BY <1>5, <1>9 DEF HasBefore

(* Two blocks do not end at the same place.                                *)
LEMMA OneBefore ==
  ASSUME NEW h, NEW B, Filled(h, B), NEW p \in B, NEW q \in B, p # q
  PROVE  h.next[p] # h.next[q]
<1>. USE Numbers
<1>1. /\ p \in Nat /\ q \in Nat /\ h.next[p] \in Nat /\ h.next[q] \in Nat
      /\ h.next[p] > p /\ h.next[q] > q
      /\ (q > p => q >= h.next[p]) /\ (p > q => p >= h.next[q])
  BY BlockFacts
<1>. QED BY <1>1

(* g is h with block x merged into the block y before it.                  *)
MergeIs(g, h, B, y, x, l) ==
  /\ HeapType(g) /\ g.used = h.used /\ g.lfree = l
  /\ g.next[y] = h.next[x] /\ g.prev[h.next[x]] = y
  /\ \A p \in B \ {y, x} : /\ g.next[p] = h.next[p]
                           /\ h.next[p] # x /\ h.next[p] # h.next[x]
                           /\ h.next[p] \in Offsets => g.prev[h.next[p]] = h.prev[h.next[p]]
  /\ g.prev[0] = h.prev[0]
  /\ Filled(g, B \ {x})

(* What the three stores of a merge in plug_holes do to blocks y and x behind it.*)
LEMMA Merge ==
  ASSUME NEW h, HeapType(h), NEW B, Filled(h, B), NEW y \in B, NEW x \in B, h.next[y] = x,
         NEW l \in Offsets,
         NEW g, g = [h EXCEPT !.lfree = l, !.next[y] = h.next[x], !.prev[h.next[x]] = y]
  PROVE  MergeIs(g, h, B, y, x, l)
<1>. USE Numbers
<1>1. PICK z, C : z = h.next[x] /\ C = B \ {x} OBVIOUS
<1>2. /\ 0 \in B /\ B \subseteq Offsets /\ ram_end \notin B
      /\ y \in Nat /\ x \in Nat /\ x > y /\ x >= y + SIZEOF_STRUCT_MEM + MIN_SIZE
      /\ z \in B \cup {ram_end} /\ z \in Nat /\ z > x /\ z <= MEM_SIZE
      /\ \A q \in B : q \in Nat /\ q < MEM_SIZE /\ (q > y => q >= x) /\ (q > x => q >= z)
  BY <1>1, BlockFacts
<1>3. z \in Offsets /\ y \in Offsets /\ x \in Offsets /\ z # y BY <1>2
<1>4. /\ g.next = [h.next EXCEPT ![y] = z] /\ g.prev = [h.prev EXCEPT ![z] = y]
      /\ g.used = h.used /\ g.lfree = l
  BY <1>1 DEF HeapType
<1>5. HeapType(g) BY <1>1, <1>3 DEF HeapType
<1>6. g.next[y] = z /\ g.prev[z] = y BY <1>3, <1>4 DEF HeapType
<1>7. g.prev[0] = h.prev[0]
  <2>1. 0 \in Offsets /\ z # 0 BY <1>2
  <2>. QED BY <1>4, <2>1 DEF HeapType
<1>8. ASSUME NEW p \in B \ {y, x}
      PROVE  /\ g.next[p] = h.next[p] /\ h.next[p] # x /\ h.next[p] # z
             /\ h.next[p] \in Offsets => g.prev[h.next[p]] = h.prev[h.next[p]]
  <2>1. h.next[p] # h.next[y] BY OneBefore
  <2>2. h.next[p] # h.next[x] BY OneBefore
  <2>3. g.next[p] = h.next[p] BY <1>2, <1>4 DEF HeapType
  <2>4. h.next[p] \in Offsets => g.prev[h.next[p]] = h.prev[h.next[p]]
    BY <1>1, <1>4, <2>2 DEF HeapType
  <2>. QED BY <1>1, <2>1, <2>2, <2>3, <2>4
<1>9. Filled(g, C)
  <2>1. 0 \in C BY <1>1, <1>2
  <2>2. C \subseteq 0 .. MEM_SIZE - 1 BY <1>1 DEF Filled
  <2>3. ASSUME NEW p \in C
        PROVE  /\ g.next[p] \in C \cup {ram_end} /\ g.next[p] >= p + SIZEOF_STRUCT_MEM + MIN_SIZE
               /\ \A q \in C : q > p => q >= g.next[p]
    <3>1. CASE p = y
      <4>1. z \in C \cup {ram_end} /\ z >= y + SIZEOF_STRUCT_MEM + MIN_SIZE BY <1>1, <1>2
      <4>2. ASSUME NEW q \in C, q > y PROVE q >= z
        <5>1. q \in B /\ q # x BY <1>1
        <5>2. q >= x /\ q \in Nat BY <1>2, <4>2, <5>1
        <5>3. q > x BY <1>2, <5>1, <5>2
        <5>. QED BY <1>2, <5>1, <5>3
      <4>. QED BY <1>6, <3>1, <4>1, <4>2
    <3>2. CASE p # y
      <4>1. p \in B \ {y, x} BY <1>1, <3>2
      <4>2. /\ h.next[p] \in B \cup {ram_end} /\ h.next[p] >= p + SIZEOF_STRUCT_MEM + MIN_SIZE
            /\ \A q \in B : q > p => q >= h.next[p]
        BY <4>1, BlockFacts
      <4>3. g.next[p] = h.next[p] /\ h.next[p] # x BY <1>8, <4>1
      <4>. QED BY <1>1, <4>2, <4>3
    <3>. QED BY <3>1, <3>2
  <2>. QED BY <2>1, <2>2, <2>3 DEF Filled
<1>. QED BY <1>1, <1>4, <1>5, <1>6, <1>7, <1>8, <1>9 DEF MergeIs

(* If the links back were right before, they are right after it.           *)
LEMMA MergeBack ==
  ASSUME NEW g, NEW h, NEW B, NEW y \in B, NEW x \in B, NEW l, MergeIs(g, h, B, y, x, l),
         B \subseteq Offsets, NEW at, NEW m, NEW n, at \notin {"mark", "back"},
         BackLinked(h, B, at, m, n), NEW to
  PROVE  BackLinked(g, B \ {x}, to, m, n)
<1>1. g.prev[0] = 0 BY DEF MergeIs, BackLinked
<1>2. ASSUME NEW p \in B \ {x}, g.next[p] \in B \ {x} PROVE g.prev[g.next[p]] = p
  <2>1. CASE p = y BY <2>1 DEF MergeIs
  <2>2. CASE p # y
    <3>1. p \in B \ {y, x} BY <2>2
    <3>2. g.next[p] = h.next[p] /\ g.prev[h.next[p]] = h.prev[h.next[p]] BY <1>2, <3>1 DEF MergeIs
    <3>3. h.prev[h.next[p]] = p BY <1>2, <3>1, <3>2 DEF BackLinked
    <3>. QED BY <3>2, <3>3
  <2>. QED BY <2>1, <2>2
<1>. QED BY <1>1, <1>2 DEF BackLinked

(* The blocks after plug_holes has looked forward from m.                  *)
AfterForward(h, B, m) ==
  IF h.next[m] # ram_end /\ ~h.used[h.next[m]] THEN B \ {h.next[m]} ELSE B

(* plug_holes, first half: a free block behind is taken in.                *)
LEMMA PlugForwardSound ==
  ASSUME NEW h, NEW B, NEW H, NEW w, NEW m, NEW n, NEW c, Sound(h, B, H, w, "forward", m, n, c)
  PROVE  Sound(PlugForward(h, m), AfterForward(h, B, m), H, w, "backward", m, n, c)
<1>. USE Numbers
<1>1. PICK g, x, C : g = PlugForward(h, m) /\ x = h.next[m] /\ C = AfterForward(h, B, m) OBVIOUS
<1>2. Typed(h, w, m, n, c) /\ Filled(h, B) /\ HeapType(h) /\ m \in Offsets BY DEF Sound, Typed
<1>3. m \in B /\ m \notin H /\ ~h.used[m] BY DEF Sound, UsedAreHeld, InMalloc, InFree
<1>4. /\ B \subseteq Offsets /\ ram_end \notin B /\ x \in B \cup {ram_end} /\ x > m /\ x # m
      /\ \A p \in B : p \in Nat
  BY <1>1, <1>2, <1>3, BlockFacts
<1>5. H \subseteq B /\ \A p \in B : h.used[p] <=> p \in H BY DEF Sound, UsedAreHeld
<1>6. /\ h.lfree \in B \cup {ram_end} /\ (h.lfree \in B => ~h.used[h.lfree])
      /\ \A p \in B : ~h.used[p] => p >= h.lfree
  BY DEF Sound, LowestFree
<1>7. \A p \in B : ~h.used[p] /\ h.next[p] \in B /\ p # m /\ h.next[p] # m => h.used[h.next[p]]
  BY DEF Sound, FreeApart
<1>8. BackLinked(h, B, "forward", m, n) /\ LargeEnough(h, H, w) BY DEF Sound
<1>9. CASE x # ram_end /\ ~h.used[x]
  <2>1. C = B \ {x} /\ x \in B BY <1>1, <1>4, <1>9 DEF AfterForward
  <2>2. h.lfree # x /\ h.lfree \in Offsets
    <3>1. m >= h.lfree BY <1>3, <1>6
    <3>2. h.lfree \in Offsets BY <1>2 DEF HeapType
    <3>3. x \in Offsets BY <1>4
    <3>. QED BY <1>2, <1>4, <3>1, <3>2, <3>3
  <2>3. g = [h EXCEPT !.lfree = h.lfree, !.next[m] = h.next[x], !.prev[h.next[x]] = m]
    BY <1>1, <1>4, <1>9, <2>2 DEF PlugForward
  <2>4. MergeIs(g, h, B, m, x, h.lfree) BY <1>1, <1>2, <1>3, <2>1, <2>2, <2>3, Merge
  <2>5. /\ HeapType(g) /\ g.used = h.used /\ g.lfree = h.lfree /\ g.next[m] = h.next[x]
        /\ Filled(g, C) /\ \A p \in C : p # m => g.next[p] = h.next[p]
    BY <2>1, <2>4 DEF MergeIs
  <2>6. Typed(g, w, m, n, c) BY <1>2, <2>5 DEF Typed
  <2>7. BackLinked(g, C, "backward", m, n) BY <1>3, <1>4, <1>8, <2>1, <2>4, MergeBack
  <2>8. FreeApart(g, C, "backward", m)
    <3>. SUFFICES ASSUME NEW p \in C, ~g.used[p], g.next[p] \in C, g.next[p] # m
                  PROVE  g.used[g.next[p]]
      BY DEF FreeApart
    <3>1. CASE p = m
      <4>1. h.next[x] \in B /\ h.next[x] # m /\ g.next[p] = h.next[x] BY <2>1, <2>5, <3>1
      <4>2. h.used[h.next[x]] BY <1>4, <1>7, <1>9, <2>1, <4>1
      <4>. QED BY <2>5, <4>1, <4>2
    <3>2. CASE p # m
      <4>1. p \in B /\ g.next[p] = h.next[p] /\ h.next[p] \in B BY <2>1, <2>5, <3>2
      <4>2. ~h.used[p] /\ h.next[p] # m BY <2>5, <4>1
      <4>3. h.used[h.next[p]] BY <1>7, <3>2, <4>1, <4>2
      <4>. QED BY <2>5, <4>1, <4>3
    <3>. QED BY <3>1, <3>2
  <2>9. LowestFree(g, C, "backward", m) BY <1>6, <2>1, <2>2, <2>5 DEF LowestFree
  <2>10. UsedAreHeld(g, C, H, "backward", m) BY <1>3, <1>4, <1>5, <1>9, <2>1, <2>5 DEF UsedAreHeld
  <2>11. LargeEnough(g, H, w) BY <1>3, <1>5, <1>8, <1>9, <2>1, <2>5 DEF LargeEnough
  <2>12. CallSound(g, C, "backward", m, n, c) BY DEF CallSound, InMalloc
  <2>. QED BY <1>1, <2>5, <2>6, <2>7, <2>8, <2>9, <2>10, <2>11, <2>12 DEF Sound
<1>10. CASE ~(x # ram_end /\ ~h.used[x])
  <2>1. g = h /\ C = B BY <1>1, <1>10 DEF PlugForward, AfterForward
  <2>2. BackLinked(h, B, "backward", m, n) BY <1>8 DEF BackLinked
  <2>3. FreeApart(h, B, "backward", m)
    <3>1. x \in B => h.used[x] BY <1>4, <1>10
    <3>. QED BY <1>1, <1>7, <3>1 DEF FreeApart
  <2>4. LowestFree(h, B, "backward", m) BY <1>6 DEF LowestFree
  <2>5. UsedAreHeld(h, B, H, "backward", m) BY <1>3, <1>5 DEF UsedAreHeld
  <2>6. CallSound(h, B, "backward", m, n, c) BY DEF CallSound, InMalloc
  <2>. QED BY <1>1, <1>2, <1>8, <2>1, <2>2, <2>3, <2>4, <2>5, <2>6 DEF Sound
<1>. QED BY <1>9, <1>10

(* The blocks after it has looked backward.                                *)
AfterBackward(h, B, m) ==
  IF h.prev[m] # m /\ ~h.used[h.prev[m]] THEN B \ {m} ELSE B

(* plug_holes, second half: the block goes into a free one before it.      *)
LEMMA PlugBackwardSound ==
  ASSUME NEW h, NEW B, NEW H, NEW w, NEW m, NEW n, NEW c, Sound(h, B, H, w, "backward", m, n, c)
  PROVE  Sound(PlugBackward(h, m), AfterBackward(h, B, m), H, w, "idle", m, n, c)
<1>. USE Numbers
<1>1. PICK g, y, C : g = PlugBackward(h, m) /\ y = h.prev[m] /\ C = AfterBackward(h, B, m) OBVIOUS
<1>2. Typed(h, w, m, n, c) /\ Filled(h, B) /\ HeapType(h) /\ m \in Offsets BY DEF Sound, Typed
<1>3. m \in B /\ m \notin H /\ ~h.used[m] BY DEF Sound, UsedAreHeld, InMalloc, InFree
<1>4. B \subseteq Offsets /\ ram_end \notin B /\ \A p \in B : p \in Nat /\ h.next[p] > p
  BY <1>2, BlockFacts
<1>5. H \subseteq B /\ \A p \in B : h.used[p] <=> p \in H BY DEF Sound, UsedAreHeld
<1>6. /\ h.lfree \in B \cup {ram_end} /\ (h.lfree \in B => ~h.used[h.lfree])
      /\ \A p \in B : ~h.used[p] => p >= h.lfree
  BY DEF Sound, LowestFree
<1>7. \A p \in B : ~h.used[p] /\ h.next[p] \in B /\ h.next[p] # m => h.used[h.next[p]]
  BY DEF Sound, FreeApart
<1>8. BackLinked(h, B, "backward", m, n) /\ LargeEnough(h, H, w) BY DEF Sound
<1>9. \A p \in B : h.next[p] = m => p = y
  BY <1>1, <1>3, <1>8 DEF BackLinked
<1>10. y # m => y \in B /\ h.next[y] = m
  <2>1. m = 0 => y = m BY <1>1, <1>8 DEF BackLinked
  <2>2. ASSUME m # 0 PROVE \E p \in B : h.next[p] = m
    <3>1. HasBefore(h, B, m) BY <1>2, <1>3, <2>2, Before
    <3>. QED BY <3>1 DEF HasBefore
  <2>. QED BY <1>9, <2>1, <2>2
<1>11. CASE y # m /\ ~h.used[y]
  <2>1. C = B \ {m} /\ y \in B /\ h.next[y] = m BY <1>1, <1>10, <1>11 DEF AfterBackward
  <2>2. h.lfree # m /\ h.lfree \in Offsets
    <3>1. y >= h.lfree /\ m > y BY <1>4, <1>6, <1>11, <2>1
    <3>2. h.lfree \in Offsets BY <1>2 DEF HeapType
    <3>. QED BY <1>2, <1>4, <2>1, <3>1, <3>2
  <2>3. g = [h EXCEPT !.lfree = h.lfree, !.next[y] = h.next[m], !.prev[h.next[m]] = y]
    BY <1>1, <1>11, <2>2 DEF PlugBackward
  <2>4. MergeIs(g, h, B, y, m, h.lfree) BY <1>2, <1>3, <2>1, <2>2, <2>3, Merge
  <2>5. /\ HeapType(g) /\ g.used = h.used /\ g.lfree = h.lfree /\ g.next[y] = h.next[m]
        /\ Filled(g, C) /\ \A p \in C : p # y => g.next[p] = h.next[p]
    BY <2>1, <2>4 DEF MergeIs
  <2>6. Typed(g, w, m, n, c) BY <1>2, <2>5 DEF Typed
  <2>7. BackLinked(g, C, "idle", m, n)
    <3>1. "backward" \notin {"mark", "back"} OBVIOUS
    <3>2. BackLinked(g, B \ {m}, "idle", m, n) BY <1>3, <1>4, <1>8, <2>1, <2>4, <3>1, MergeBack
    <3>. QED BY <2>1, <3>2
  <2>8. FreeApart(g, C, "idle", m)
    <3>. SUFFICES ASSUME NEW p \in C, ~g.used[p], g.next[p] \in C PROVE g.used[g.next[p]]
      BY DEF FreeApart
    <3>1. CASE p = y
      <4>1. h.next[m] \in B /\ h.next[m] # m /\ g.next[p] = h.next[m] BY <2>1, <2>5, <3>1
      <4>2. h.used[h.next[m]] BY <1>3, <1>7, <4>1
      <4>. QED BY <2>5, <4>1, <4>2
    <3>2. CASE p # y
      <4>1. p \in B /\ g.next[p] = h.next[p] /\ h.next[p] \in B /\ h.next[p] # m BY <2>1, <2>5, <3>2
      <4>2. h.used[h.next[p]] BY <1>7, <2>5, <4>1
      <4>. QED BY <2>5, <4>1, <4>2
    <3>. QED BY <3>1, <3>2
  <2>9. LowestFree(g, C, "idle", m) BY <1>6, <2>1, <2>2, <2>5 DEF LowestFree
  <2>10. UsedAreHeld(g, C, H, "idle", m) BY <1>3, <1>5, <2>1, <2>5 DEF UsedAreHeld, InMalloc, InFree
  <2>11. LargeEnough(g, H, w) BY <1>3, <1>5, <1>8, <1>11, <2>1, <2>5 DEF LargeEnough
  <2>12. CallSound(g, C, "idle", m, n, c) BY DEF CallSound, InMalloc
  <2>. QED BY <1>1, <2>5, <2>6, <2>7, <2>8, <2>9, <2>10, <2>11, <2>12 DEF Sound
<1>12. CASE ~(y # m /\ ~h.used[y])
  <2>1. g = h /\ C = B BY <1>1, <1>12 DEF PlugBackward, AfterBackward
  <2>2. BackLinked(h, B, "idle", m, n) BY <1>8 DEF BackLinked
  <2>3. FreeApart(h, B, "idle", m)
    <3>1. ASSUME NEW p \in B, h.next[p] = m PROVE h.used[p]
      <4>1. p = y /\ p # m BY <1>4, <1>9, <3>1
      <4>. QED BY <1>12, <4>1
    <3>. QED BY <1>7, <3>1 DEF FreeApart
  <2>4. LowestFree(h, B, "idle", m) BY <1>6 DEF LowestFree
  <2>5. UsedAreHeld(h, B, H, "idle", m) BY <1>5 DEF UsedAreHeld, InMalloc, InFree
  <2>6. CallSound(h, B, "idle", m, n, c) BY DEF CallSound, InMalloc
  <2>. QED BY <1>1, <1>2, <1>8, <2>1, <2>2, <2>3, <2>4, <2>5, <2>6 DEF Sound
<1>. QED BY <1>11, <1>12

-----------------------------------------------------------------------------
(* Whole calls, as the interrupts make them.                               *)

(* A whole call of mem_malloc, as the receive interrupt makes it.          *)
LEMMA MallocSound ==
  ASSUME NEW h, NEW B, NEW H, NEW w, NEW at \in Resting, NEW k, NEW l, NEW c,
         Sound(h, B, H, w, at, k, l, c),
         NEW m \in B, NEW n \in Nat, n >= MIN_SIZE, Fits(h, m, n)
  PROVE  \E C, d : Sound(mem_malloc(h, m, n), C, H \cup {m}, [w EXCEPT ![m] = n], "send", m, n, d)
<1>1. PICK s, C : /\ s = IF Splits(h, m, n)
                         THEN LinkBack(MarkUsed(LinkRest(WriteRest(h, m, n), m, n), m), Rest(m, n))
                         ELSE MarkUsed(h, m)
                  /\ Sound(s, C, H, w, "adjust", m, n, c)
  <2>1. Sound(h, B, H, w, IF Splits(h, m, n) THEN "split" ELSE "take", m, n, c) BY FoundSound
  <2>2. CASE Splits(h, m, n)
    <3>1. Sound(WriteRest(h, m, n), B, H, w, "link", m, n, c) BY <2>1, <2>2, WriteRestSound
    <3>2. PICK C : Sound(LinkRest(WriteRest(h, m, n), m, n), C, H, w, "mark", m, n, c)
      BY <3>1, LinkRestSound
    <3>3. Sound(MarkUsed(LinkRest(WriteRest(h, m, n), m, n), m), C, H, w, "back", m, n, c)
      BY <3>2, MarkSound
    <3>4. Sound(LinkBack(MarkUsed(LinkRest(WriteRest(h, m, n), m, n), m), Rest(m, n)), C, H, w, "adjust", m, n, c)
      BY <3>3, LinkBackSound
    <3>. QED BY <2>2, <3>4
  <2>3. CASE ~Splits(h, m, n)
    <3>1. Sound(MarkUsed(h, m), B, H, w, "adjust", m, n, c) BY <2>1, <2>3, MarkSound
    <3>. QED BY <2>3, <3>1
  <2>. QED BY <2>2, <2>3
<1>2. mem_malloc(h, m, n) = [s EXCEPT !.lfree = IF s.lfree = m THEN NextFree(s, m) ELSE s.lfree]
  BY <1>1 DEF mem_malloc
<1>3. HeapType(s) BY <1>1 DEF Sound, Typed
<1>4. \E d : Sound(mem_malloc(h, m, n), C, H, w, "return", m, n, d)
  <2>1. CASE s.lfree = m
    <3>1. Sound(s, C, H, w, "store", m, n, NextFree(s, m)) BY <1>1, <2>1, LowerAtOnce
    <3>2. Sound([s EXCEPT !.lfree = NextFree(s, m)], C, H, w, "return", m, n, NextFree(s, m))
      BY <3>1, StoreLfreeSound
    <3>. QED BY <1>2, <2>1, <3>2
  <2>2. CASE s.lfree # m
    <3>1. Sound(s, C, H, w, "return", m, n, s.lfree) BY <1>1, <2>2, AdjustSound
    <3>2. mem_malloc(h, m, n) = s BY <1>2, <1>3, <2>2 DEF HeapType
    <3>. QED BY <3>1, <3>2
  <2>. QED BY <2>1, <2>2
<1>. QED BY <1>4, ReturnSound

(* A whole call of mem_free, as the transmit interrupt makes it.           *)
LEMMA FreeSound ==
  ASSUME NEW h, NEW B, NEW H, NEW w, NEW at \in Resting, NEW k, NEW l, NEW c,
         Sound(h, B, H, w, at, k, l, c), NEW m \in H
  PROVE  \E C : Sound(mem_free(h, m), C, H \ {m}, [w EXCEPT ![m] = 0], "idle", m, 0, c)
<1>1. PICK I, v : I = H \ {m} /\ v = [w EXCEPT ![m] = 0] OBVIOUS
<1>2. Sound(h, B, I, v, "unuse", m, 0, c) BY <1>1, LastDropSound
<1>3. PICK h1 : h1 = [h EXCEPT !.used[m] = FALSE] OBVIOUS
<1>4. Sound(h1, B, I, v, "lfree", m, 0, c) BY <1>2, <1>3, UnuseSound
<1>5. Sound(LowerFree(h1, m), B, I, v, "forward", m, 0, c) BY <1>4, LowerFreeSound
<1>6. PICK C : Sound(PlugForward(LowerFree(h1, m), m), C, I, v, "backward", m, 0, c)
  BY <1>5, PlugForwardSound
<1>7. PICK D : Sound(PlugBackward(PlugForward(LowerFree(h1, m), m), m), D, I, v, "idle", m, 0, c)
  BY <1>6, PlugBackwardSound
<1>8. mem_free(h, m) = PlugBackward(PlugForward(LowerFree(h1, m), m), m) BY <1>3 DEF mem_free
<1>. QED BY <1>1, <1>7, <1>8

(* Each of them leaves a trace in the field used of the block.             *)
LEMMA FreeShows ==
  ASSUME NEW h, HeapType(h), NEW p \in Offsets, h.used[p]
  PROVE  mem_free(h, p) # h
<1>1. PICK h1, h2, h3 : /\ h1 = [h EXCEPT !.used[p] = FALSE] /\ h2 = LowerFree(h1, p)
                        /\ h3 = PlugForward(h2, p)
  OBVIOUS
<1>2. UsedIs(h1, h, p, FALSE) BY <1>1, UsedStore
<1>3. HeapType(h1) /\ h1.used[p] = FALSE BY <1>2 DEF UsedIs
<1>4. h2.used[p] = FALSE /\ DOMAIN h2 = DOMAIN h1 BY <1>1, <1>3 DEF LowerFree, HeapType
<1>5. h3.used[p] = FALSE /\ DOMAIN h3 = DOMAIN h1 BY <1>1, <1>3, <1>4 DEF PlugForward, HeapType
<1>6. PlugBackward(h3, p).used[p] = FALSE BY <1>3, <1>5 DEF PlugBackward, HeapType
<1>. QED BY <1>1, <1>6 DEF mem_free

UsedType(h) == DOMAIN h = {"next", "prev", "used", "lfree"} /\ h.used \in [Offsets -> BOOLEAN]

(* mem_malloc changes the heap, so that one inside a call of the main loop is a race.*)
LEMMA MallocShows ==
  ASSUME NEW h, HeapType(h), NEW p \in Offsets, ~h.used[p], NEW n
  PROVE  mem_malloc(h, p, n) # h
<1>1. PICK h1, h2 : h1 = WriteRest(h, p, n) /\ h2 = LinkRest(h1, p, n) OBVIOUS
<1>2. UsedType(h) BY DEF HeapType, UsedType
<1>3. UsedType(h1) BY <1>1, <1>2 DEF WriteRest, UsedType
<1>4. UsedType(h2) BY <1>1, <1>3 DEF LinkRest, UsedType
<1>5. ASSUME NEW g, UsedType(g) PROVE UsedType(MarkUsed(g, p)) /\ MarkUsed(g, p).used[p]
  BY <1>5 DEF MarkUsed, UsedType
<1>6. ASSUME NEW g, UsedType(g), g.used[p], NEW r
      PROVE  UsedType(LinkBack(g, r)) /\ LinkBack(g, r).used[p]
  BY <1>6 DEF LinkBack, UsedType
<1>7. PICK s : /\ s = IF Splits(h, p, n) THEN LinkBack(MarkUsed(h2, p), Rest(p, n)) ELSE MarkUsed(h, p)
               /\ mem_malloc(h, p, n) = [s EXCEPT !.lfree = IF s.lfree = p THEN NextFree(s, p) ELSE s.lfree]
  BY <1>1 DEF mem_malloc
<1>8. UsedType(s) /\ s.used[p] BY <1>2, <1>4, <1>5, <1>6, <1>7
<1>9. mem_malloc(h, p, n).used[p] BY <1>7, <1>8 DEF UsedType
<1>. QED BY <1>9

-----------------------------------------------------------------------------
(* The steps of the main loop.                                             *)

PCs == {"idle", "send", "drop"} \cup InMalloc \cup InFree

(* For the induction it is enough to know some blocks.                     *)
LEMMA Concluded ==
  ASSUME NEW B, Sound(heap', B, Held', want', pc', mem', size', cur'),
         refs' \in [Offsets -> SUBSET Holders], pc' \in PCs, raced' \in BOOLEAN,
         pc' \in {"send", "drop"} => "main" \in refs'[mem']
  PROVE  IInv'
<1>1. Typed(heap', want', mem', size', cur') /\ Filled(heap', B) BY DEF Sound
<1>2. List(heap') = B BY <1>1, ListIs DEF Typed
<1>3. TypeOK' BY <1>1 DEF TypeOK, Typed, HeapType, PCs
<1>. QED BY <1>2, <1>3 DEF IInv

(* A search begins at lfree.                                               *)
LEMMA AllocSound ==
  ASSUME NEW h, NEW B, NEW H, NEW w, NEW m, NEW k, NEW c, Sound(h, B, H, w, "idle", m, k, c),
         NEW n \in Nat, n >= MIN_SIZE
  PROVE  Sound(h, B, H, w, "walk", h.lfree, n, c)
<1>. USE Numbers
<1>1. Typed(h, w, m, k, c) /\ Filled(h, B) /\ HeapType(h) BY DEF Sound, Typed
<1>2. h.lfree \in B \cup {ram_end} /\ \A p \in B : ~h.used[p] => p >= h.lfree
  BY DEF Sound, LowestFree
<1>3. Typed(h, w, h.lfree, n, c) BY <1>1 DEF Typed, HeapType
<1>4. BackLinked(h, B, "walk", h.lfree, n) /\ FreeApart(h, B, "walk", h.lfree)
  BY DEF Sound, BackLinked, FreeApart
<1>5. LowestFree(h, B, "walk", h.lfree) BY DEF Sound, LowestFree
<1>6. UsedAreHeld(h, B, H, "walk", h.lfree) BY DEF Sound, UsedAreHeld
<1>7. ASSUME NEW p \in B, p < h.lfree PROVE ~Fits(h, p, n)
  <2>1. p \in Nat /\ h.lfree \in Offsets BY <1>1, BlockFacts DEF HeapType
  <2>2. ~(p >= h.lfree) BY <1>7, <2>1
  <2>. QED BY <1>2, <2>2 DEF Fits
<1>8. CallSound(h, B, "walk", h.lfree, n, c) BY <1>2, <1>7 DEF CallSound
<1>. QED BY <1>1, <1>3, <1>4, <1>5, <1>6, <1>8 DEF Sound

(* mem_malloc passes a block that does not fit.                            *)
LEMMA WalkSound ==
  ASSUME NEW h, NEW B, NEW H, NEW w, NEW m, NEW n, NEW c, Sound(h, B, H, w, "walk", m, n, c),
         m < MEM_SIZE - n, ~Fits(h, m, n)
  PROVE  Sound(h, B, H, w, "walk", h.next[m], n, c)
<1>. USE Numbers
<1>1. Typed(h, w, m, n, c) /\ Filled(h, B) /\ n \in Nat /\ m \in Offsets BY DEF Sound, Typed
<1>2. /\ n >= MIN_SIZE /\ m \in B \cup {ram_end}
      /\ \A p \in B : p < m => ~Fits(h, p, n)
  BY DEF Sound, CallSound, InMalloc
<1>3. m \in B BY <1>1, <1>2
<1>4. /\ h.next[m] \in B \cup {ram_end} /\ h.next[m] \in Offsets /\ h.next[m] \in Nat /\ m \in Nat
      /\ \A q \in B : q \in Nat /\ (q > m => q >= h.next[m])
  BY <1>1, <1>3, BlockFacts
<1>5. Typed(h, w, h.next[m], n, c) BY <1>1, <1>4 DEF Typed
<1>6. BackLinked(h, B, "walk", h.next[m], n) /\ FreeApart(h, B, "walk", h.next[m])
  BY DEF Sound, BackLinked, FreeApart
<1>7. LowestFree(h, B, "walk", h.next[m]) BY DEF Sound, LowestFree
<1>8. UsedAreHeld(h, B, H, "walk", h.next[m]) BY DEF Sound, UsedAreHeld
<1>9. ASSUME NEW p \in B, p < h.next[m] PROVE ~Fits(h, p, n)
  <2>1. ~(p > m) BY <1>4, <1>9
  <2>2. p < m \/ p = m BY <1>4, <2>1
  <2>. QED BY <1>2, <2>2
<1>10. CallSound(h, B, "walk", h.next[m], n, c) BY <1>2, <1>4, <1>9 DEF CallSound
<1>. QED BY <1>1, <1>5, <1>6, <1>7, <1>8, <1>10 DEF Sound

(* The steps of mem_malloc in the main loop.                               *)
LEMMA MallocStep ==
  ASSUME IInv, ~raced,
         \/ \E n \in Sizes : Alloc(n)
         \/ Walk \/ Fail \/ Found \/ Take \/ Adjust \/ Lower \/ StoreLfree \/ Return
  PROVE  IInv'
<1>. USE Numbers
<1>1. PICK B : B = List(heap) OBVIOUS
<1>2. TypeOK /\ Sound(heap, B, Held, want, pc, mem, size, cur) BY <1>1 DEF IInv
<1>3. ASSUME NEW n \in Sizes, Alloc(n) PROVE IInv'
  <2>1. AskedSize(n) \in Nat /\ AskedSize(n) >= MIN_SIZE BY MemAssumption DEF AskedSize
  <2>2. pc = "idle" BY <1>3 DEF Alloc
  <2>3. Sound(heap, B, Held, want, "walk", heap.lfree, AskedSize(n), cur) BY <1>2, <2>1, <2>2, AllocSound
  <2>4. /\ heap' = heap /\ refs' = refs /\ want' = want /\ cur' = cur /\ raced' = raced
        /\ size' = AskedSize(n) /\ mem' = heap.lfree /\ pc' = "walk" /\ Held' = Held
    BY <1>3 DEF Alloc, Held
  <2>5. Sound(heap', B, Held', want', pc', mem', size', cur') BY <2>3, <2>4
  <2>. QED BY <1>2, <2>4, <2>5, Concluded DEF TypeOK, PCs, InMalloc
<1>4. CASE Walk
  <2>1. pc = "walk" /\ mem < MEM_SIZE - size /\ ~Fits(heap, mem, size) BY <1>4 DEF Walk
  <2>2. Sound(heap, B, Held, want, "walk", heap.next[mem], size, cur) BY <1>2, <2>1, WalkSound
  <2>3. /\ heap' = heap /\ refs' = refs /\ want' = want /\ cur' = cur /\ raced' = raced
        /\ size' = size /\ mem' = heap.next[mem] /\ pc' = "walk" /\ Held' = Held
    BY <1>4 DEF Walk, Held
  <2>4. Sound(heap', B, Held', want', pc', mem', size', cur') BY <2>2, <2>3
  <2>. QED BY <1>2, <2>3, <2>4, Concluded DEF TypeOK, PCs, InMalloc
<1>5. CASE Fail
  <2>1. pc = "walk" BY <1>5 DEF Fail
  <2>2. 0 \in Offsets /\ "idle" \in Resting /\ "walk" \in Resting \cup {"walk"} BY DEF Resting
  <2>3. Sound(heap, B, Held, want, "idle", 0, 0, 0) BY <1>2, <2>1, <2>2, RestingSound
  <2>4. /\ heap' = heap /\ refs' = refs /\ want' = want /\ cur' = 0 /\ raced' = raced
        /\ size' = 0 /\ mem' = 0 /\ pc' = "idle" /\ Held' = Held
    BY <1>5 DEF Fail, Done, Held
  <2>5. Sound(heap', B, Held', want', pc', mem', size', cur') BY <2>3, <2>4
  <2>. QED BY <1>2, <2>4, <2>5, Concluded DEF TypeOK, PCs
<1>6. CASE Found
  <2>1. pc = "walk" /\ mem < MEM_SIZE - size /\ Fits(heap, mem, size) BY <1>6 DEF Found
  <2>2. size \in Nat /\ size >= MIN_SIZE /\ mem \in B \cup {ram_end}
    BY <1>2, <2>1 DEF Sound, CallSound, InMalloc, TypeOK
  <2>3. mem \in B BY <2>1, <2>2
  <2>4. "walk" \in Resting \cup {"walk"} OBVIOUS
  <2>5. Sound(heap, B, Held, want, IF Splits(heap, mem, size) THEN "split" ELSE "take", mem, size, cur)
    BY <1>2, <2>1, <2>2, <2>3, <2>4, FoundSound
  <2>6. /\ heap' = heap /\ refs' = refs /\ want' = want /\ cur' = cur /\ raced' = raced
        /\ size' = size /\ mem' = mem /\ Held' = Held
        /\ pc' = IF Splits(heap, mem, size) THEN "split" ELSE "take"
    BY <1>6 DEF Found, Held
  <2>7. Sound(heap', B, Held', want', pc', mem', size', cur') BY <2>5, <2>6
  <2>. QED BY <1>2, <2>6, <2>7, Concluded DEF TypeOK, PCs, InMalloc
<1>7. ASSUME NEW at, NEW g, NEW to, Store(at, g, to), NEW C, to \in InMalloc,
             Sound(g, C, Held, want, to, mem, size, cur)
      PROVE  IInv'
  <2>1. /\ heap' = g /\ refs' = refs /\ want' = want /\ cur' = cur /\ raced' = raced
        /\ size' = size /\ mem' = mem /\ Held' = Held /\ pc' = to
    BY <1>7 DEF Store, Held
  <2>2. Sound(heap', C, Held', want', pc', mem', size', cur') BY <1>7, <2>1
  <2>3. pc' \in PCs /\ pc' \notin {"send", "drop"} BY <1>7, <2>1 DEF PCs, InMalloc
  <2>. QED BY <1>2, <2>1, <2>2, <2>3, Concluded DEF TypeOK
<1>8. CASE Take
  <2>1. ASSUME Store("split", WriteRest(heap, mem, size), "link") PROVE IInv'
    <3>1. Sound(WriteRest(heap, mem, size), B, Held, want, "link", mem, size, cur)
      BY <1>2, <2>1, WriteRestSound DEF Store
    <3>. QED BY <1>7, <2>1, <3>1 DEF InMalloc
  <2>2. ASSUME Store("link", LinkRest(heap, mem, size), "mark") PROVE IInv'
    <3>1. Sound(LinkRest(heap, mem, size), B \cup {Rest(mem, size)}, Held, want, "mark", mem, size, cur)
      BY <1>2, <2>2, LinkRestSound DEF Store
    <3>. QED BY <1>7, <2>2, <3>1 DEF InMalloc
  <2>3. ASSUME Store("mark", MarkUsed(heap, mem), "back") PROVE IInv'
    <3>1. Sound(MarkUsed(heap, mem), B, Held, want, "back", mem, size, cur)
      BY <1>2, <2>3, MarkSound DEF Store
    <3>. QED BY <1>7, <2>3, <3>1 DEF InMalloc
  <2>4. ASSUME Store("back", LinkBack(heap, Rest(mem, size)), "adjust") PROVE IInv'
    <3>1. Sound(LinkBack(heap, Rest(mem, size)), B, Held, want, "adjust", mem, size, cur)
      BY <1>2, <2>4, LinkBackSound DEF Store
    <3>. QED BY <1>7, <2>4, <3>1 DEF InMalloc
  <2>5. ASSUME Store("take", MarkUsed(heap, mem), "adjust") PROVE IInv'
    <3>1. Sound(MarkUsed(heap, mem), B, Held, want, "adjust", mem, size, cur)
      BY <1>2, <2>5, MarkSound DEF Store
    <3>. QED BY <1>7, <2>5, <3>1 DEF InMalloc
  <2>. QED BY <1>8, <2>1, <2>2, <2>3, <2>4, <2>5 DEF Take
<1>9. CASE Adjust
  <2>1. pc = "adjust" BY <1>9 DEF Adjust
  <2>2. /\ heap.lfree = mem => Sound(heap, B, Held, want, "lower", mem, size, mem)
        /\ heap.lfree # mem => Sound(heap, B, Held, want, "return", mem, size, heap.lfree)
    BY <1>2, <2>1, AdjustSound
  <2>3. /\ heap' = heap /\ refs' = refs /\ want' = want /\ cur' = heap.lfree /\ raced' = raced
        /\ size' = size /\ mem' = mem /\ Held' = Held
        /\ pc' = IF mem = heap.lfree THEN "lower" ELSE "return"
    BY <1>9 DEF Adjust, Held
  <2>4. Sound(heap', B, Held', want', pc', mem', size', cur') BY <2>2, <2>3
  <2>. QED BY <1>2, <2>3, <2>4, Concluded DEF TypeOK, PCs, InMalloc
<1>10. CASE Lower
  <2>1. pc = "lower" BY <1>10 DEF Lower
  <2>2. /\ LowerGoesOn(heap, cur) => Sound(heap, B, Held, want, "lower", mem, size, heap.next[cur])
        /\ ~LowerGoesOn(heap, cur) => Sound(heap, B, Held, want, "store", mem, size, cur)
    BY <1>2, <2>1, LowerSound
  <2>3. /\ heap' = heap /\ refs' = refs /\ want' = want /\ raced' = raced
        /\ size' = size /\ mem' = mem /\ Held' = Held
    BY <1>10 DEF Lower, Held
  <2>4. \/ LowerGoesOn(heap, cur) /\ cur' = heap.next[cur] /\ pc' = "lower"
        \/ ~LowerGoesOn(heap, cur) /\ cur' = cur /\ pc' = "store"
    BY <1>10 DEF Lower
  <2>5. Sound(heap', B, Held', want', pc', mem', size', cur') BY <2>2, <2>3, <2>4
  <2>. QED BY <1>2, <2>3, <2>4, <2>5, Concluded DEF TypeOK, PCs, InMalloc
<1>11. CASE StoreLfree
  <2>1. Sound([heap EXCEPT !.lfree = cur], B, Held, want, "return", mem, size, cur)
    BY <1>2, <1>11, StoreLfreeSound DEF StoreLfree, Store
  <2>. QED BY <1>7, <1>11, <2>1 DEF StoreLfree, InMalloc
<1>12. CASE Return
  <2>1. pc = "return" /\ mem \in Offsets BY <1>2, <1>12 DEF Return, TypeOK
  <2>2. Sound(heap, B, Held \cup {mem}, [want EXCEPT ![mem] = size], "send", mem, size, cur)
    BY <1>2, <2>1, ReturnSound
  <2>3. /\ heap' = heap /\ refs' = [refs EXCEPT ![mem] = {"main"}] /\ raced' = raced
        /\ want' = [want EXCEPT ![mem] = size]
        /\ size' = size /\ mem' = mem /\ cur' = cur /\ pc' = "send"
    BY <1>12 DEF Return
  <2>4. refs' \in [Offsets -> SUBSET Holders] /\ refs'[mem] = {"main"}
    BY <1>2, <2>1, <2>3 DEF TypeOK, Holders
  <2>5. Held' = Held \cup {mem}
    <3>1. \A p \in Offsets : p # mem => refs'[p] = refs[p] BY <1>2, <2>3 DEF TypeOK
    <3>2. Held' = {p \in Offsets : refs'[p] # {}} BY DEF Held
    <3>. QED BY <2>1, <2>4, <3>1, <3>2 DEF Held
  <2>6. Sound(heap', B, Held', want', pc', mem', size', cur') BY <2>2, <2>3, <2>5
  <2>. QED BY <1>2, <2>3, <2>4, <2>6, Concluded DEF TypeOK, PCs
<1>. QED BY <1>3, <1>4, <1>5, <1>6, <1>8, <1>9, <1>10, <1>11, <1>12

(* The steps of the main loop after mem_malloc: send, drop, mem_free.      *)
LEMMA FreeStep ==
  ASSUME IInv, ~raced, Send \/ Drop \/ Free
  PROVE  IInv'
<1>. USE Numbers
<1>1. PICK B : B = List(heap) OBVIOUS
<1>2. TypeOK /\ Sound(heap, B, Held, want, pc, mem, size, cur) BY <1>1 DEF IInv
<1>3. mem \in Offsets /\ size \in Nat /\ cur \in Offsets /\ refs \in [Offsets -> SUBSET Holders]
  BY <1>2 DEF TypeOK
<1>4. pc \in {"send", "drop"} => "main" \in refs[mem] BY DEF IInv
<1>5. Held' = {p \in Offsets : refs'[p] # {}} BY DEF Held
<1>6. CASE Send
  <2>1. pc = "send" /\ "main" \in refs[mem] BY <1>4, <1>6 DEF Send
  <2>2. /\ heap' = heap /\ want' = want /\ cur' = cur /\ raced' = raced
        /\ size' = size /\ mem' = mem /\ pc' = "drop"
    BY <1>6 DEF Send
  <2>3. refs' \in [Offsets -> SUBSET Holders] /\ "main" \in refs'[mem] /\ Held' = Held
    <3>1. CASE UNCHANGED refs BY <1>3, <2>1, <3>1 DEF Held
    <3>2. CASE refs' = [refs EXCEPT ![mem] = @ \cup {"emac"}]
      <4>1. refs' \in [Offsets -> SUBSET Holders] BY <1>3, <3>2 DEF Holders
      <4>2. refs'[mem] = refs[mem] \cup {"emac"} /\ \A p \in Offsets : p # mem => refs'[p] = refs[p]
        BY <1>3, <3>2
      <4>3. \A p \in Offsets : refs'[p] # {} <=> refs[p] # {} BY <2>1, <4>2
      <4>. QED BY <1>5, <2>1, <4>1, <4>2, <4>3 DEF Held
    <3>. QED BY <1>6, <3>1, <3>2 DEF Send
  <2>4. "send" \in Resting \cup {"walk"} /\ "drop" \in Resting BY DEF Resting
  <2>5. Sound(heap, B, Held, want, "drop", mem, size, cur) BY <1>2, <1>3, <2>1, <2>4, RestingSound
  <2>6. Sound(heap', B, Held', want', pc', mem', size', cur') BY <2>2, <2>3, <2>5
  <2>. QED BY <1>2, <2>2, <2>3, <2>6, Concluded DEF TypeOK, PCs
<1>7. CASE Drop
  <2>1. pc = "drop" /\ "main" \in refs[mem] /\ mem \in Held BY <1>3, <1>4, <1>7 DEF Drop, Held
  <2>2. refs' = [refs EXCEPT ![mem] = @ \ {"main"}] BY <1>7 DEF Drop
  <2>3. /\ refs' \in [Offsets -> SUBSET Holders]
        /\ \A p \in Offsets : p # mem => refs'[p] = refs[p]
    BY <1>3, <2>2
  <2>4. CASE refs'[mem] # {}
    <3>1. /\ heap' = heap /\ want' = want /\ cur' = 0 /\ raced' = raced
          /\ size' = 0 /\ mem' = 0 /\ pc' = "idle"
      BY <1>7, <2>4 DEF Drop, Done
    <3>2. Held' = Held
      <4>1. \A p \in Offsets : refs'[p] # {} <=> refs[p] # {} BY <2>1, <2>3, <2>4
      <4>. QED BY <1>5, <4>1 DEF Held
    <3>3. "drop" \in Resting \cup {"walk"} /\ "idle" \in Resting /\ 0 \in Offsets BY DEF Resting
    <3>4. Sound(heap, B, Held, want, "idle", 0, 0, 0) BY <1>2, <2>1, <3>3, RestingSound
    <3>5. Sound(heap', B, Held', want', pc', mem', size', cur') BY <3>1, <3>2, <3>4
    <3>. QED BY <1>2, <2>3, <3>1, <3>5, Concluded DEF TypeOK, PCs
  <2>5. CASE refs'[mem] = {}
    <3>1. /\ heap' = heap /\ want' = [want EXCEPT ![mem] = 0] /\ cur' = cur /\ raced' = raced
          /\ size' = size /\ mem' = mem /\ pc' = "unuse"
      BY <1>7, <2>5 DEF Drop
    <3>2. Held' = Held \ {mem} BY <1>5, <2>3, <2>5 DEF Held
    <3>3. "drop" \in Resting BY DEF Resting
    <3>4. Sound(heap, B, Held \ {mem}, [want EXCEPT ![mem] = 0], "unuse", mem, size, cur)
      BY <1>2, <1>3, <2>1, <3>3, LastDropSound
    <3>5. Sound(heap', B, Held', want', pc', mem', size', cur') BY <3>1, <3>2, <3>4
    <3>. QED BY <1>2, <2>3, <3>1, <3>5, Concluded DEF TypeOK, PCs, InFree
  <2>. QED BY <2>4, <2>5
<1>8. CASE Free
  <2>1. ASSUME NEW at, NEW g, NEW to, Store(at, g, to), NEW C, to \in InFree,
               Sound(g, C, Held, want, to, mem, size, cur)
        PROVE  IInv'
    <3>1. /\ heap' = g /\ refs' = refs /\ want' = want /\ cur' = cur /\ raced' = raced
          /\ size' = size /\ mem' = mem /\ Held' = Held /\ pc' = to
      BY <2>1 DEF Store, Held
    <3>2. Sound(heap', C, Held', want', pc', mem', size', cur') BY <2>1, <3>1
    <3>3. pc' \in PCs /\ pc' \notin {"send", "drop"} BY <2>1, <3>1 DEF PCs, InFree
    <3>. QED BY <1>2, <3>1, <3>2, <3>3, Concluded DEF TypeOK
  <2>2. ASSUME Store("unuse", [heap EXCEPT !.used[mem] = FALSE], "lfree") PROVE IInv'
    <3>1. Sound([heap EXCEPT !.used[mem] = FALSE], B, Held, want, "lfree", mem, size, cur)
      BY <1>2, <2>2, UnuseSound DEF Store
    <3>. QED BY <2>1, <2>2, <3>1 DEF InFree
  <2>3. ASSUME Store("lfree", LowerFree(heap, mem), "forward") PROVE IInv'
    <3>1. Sound(LowerFree(heap, mem), B, Held, want, "forward", mem, size, cur)
      BY <1>2, <2>3, LowerFreeSound DEF Store
    <3>. QED BY <2>1, <2>3, <3>1 DEF InFree
  <2>4. ASSUME Store("forward", PlugForward(heap, mem), "backward") PROVE IInv'
    <3>1. Sound(PlugForward(heap, mem), AfterForward(heap, B, mem), Held, want, "backward", mem, size, cur)
      BY <1>2, <2>4, PlugForwardSound DEF Store
    <3>. QED BY <2>1, <2>4, <3>1 DEF InFree
  <2>5. ASSUME pc = "backward", heap' = PlugBackward(heap, mem), Done, UNCHANGED <<refs, want, raced>>
        PROVE  IInv'
    <3>1. PICK C : C = AfterBackward(heap, B, mem) OBVIOUS
    <3>2. Sound(heap', C, Held, want, "idle", mem, size, cur) BY <1>2, <2>5, <3>1, PlugBackwardSound
    <3>3. "idle" \in Resting /\ 0 \in Offsets BY DEF Resting
    <3>4. Sound(heap', C, Held, want, "idle", 0, 0, 0) BY <3>2, <3>3, RestingSound
    <3>5. /\ refs' = refs /\ want' = want /\ cur' = 0 /\ raced' = raced
          /\ size' = 0 /\ mem' = 0 /\ pc' = "idle" /\ Held' = Held
      BY <2>5 DEF Done, Held
    <3>6. Sound(heap', C, Held', want', pc', mem', size', cur') BY <3>4, <3>5
    <3>. QED BY <1>2, <3>5, <3>6, Concluded DEF TypeOK, PCs
  <2>. QED BY <1>8, <2>2, <2>3, <2>4, <2>5 DEF Free
<1>. QED BY <1>6, <1>7, <1>8

-----------------------------------------------------------------------------
(* The interrupts.  Inside a call they change the heap, and that is noted. *)

(* The transmit interrupt releases the pbuf, between calls or inside one.  *)
LEMMA TxDoneStep ==
  ASSUME IInv, NEW p \in Offsets, TxDone(p)
  PROVE  IInv'
<1>. USE Numbers
<1>0. ~raced /\ "emac" \in refs[p] BY DEF TxDone
<1>1. PICK B : B = List(heap) OBVIOUS
<1>2. TypeOK /\ Sound(heap, B, Held, want, pc, mem, size, cur) BY <1>0, <1>1 DEF IInv
<1>3. /\ mem \in Offsets /\ size \in Nat /\ cur \in Offsets /\ refs \in [Offsets -> SUBSET Holders]
      /\ HeapType(heap) /\ pc \in PCs
  BY <1>2 DEF TypeOK, HeapType, PCs
<1>4. pc \in {"send", "drop"} => "main" \in refs[mem] BY <1>0 DEF IInv
<1>5. Held' = {q \in Offsets : refs'[q] # {}} /\ p \in Held BY <1>0 DEF Held
<1>6. refs' = [refs EXCEPT ![p] = @ \ {"emac"}] BY DEF TxDone
<1>7. /\ refs' \in [Offsets -> SUBSET Holders]
      /\ \A q \in Offsets : q # p => refs'[q] = refs[q]
      /\ refs'[p] = refs[p] \ {"emac"}
  BY <1>3, <1>6
<1>8. "main" \in refs[mem] => "main" \in refs'[mem] BY <1>3, <1>7
<1>9. CASE refs'[p] # {}
  <2>1. /\ heap' = heap /\ want' = want /\ cur' = cur /\ raced' = raced
        /\ size' = size /\ mem' = mem /\ pc' = pc
    BY <1>9 DEF TxDone, call
  <2>2. Held' = Held
    <3>1. \A q \in Offsets : refs'[q] # {} <=> refs[q] # {} BY <1>0, <1>7, <1>9
    <3>. QED BY <1>5, <3>1 DEF Held
  <2>3. Sound(heap', B, Held', want', pc', mem', size', cur') BY <1>2, <2>1, <2>2
  <2>. QED BY <1>2, <1>3, <1>4, <1>7, <1>8, <2>1, <2>3, Concluded DEF TypeOK
<1>10. CASE refs'[p] = {}
  <2>1. /\ heap' = mem_free(heap, p) /\ want' = [want EXCEPT ![p] = 0] /\ cur' = cur
        /\ size' = size /\ mem' = mem /\ pc' = pc
        /\ raced' = (pc \in InMalloc \cup InFree /\ mem_free(heap, p) # heap)
    BY <1>10 DEF TxDone, Interrupts, call
  <2>2. Held' = Held \ {p} BY <1>5, <1>7, <1>10 DEF Held
  <2>3. CASE pc \in Resting
    <3>1. PICK C : Sound(mem_free(heap, p), C, Held \ {p}, [want EXCEPT ![p] = 0], "idle", p, 0, cur)
      BY <1>2, <1>5, <2>3, FreeSound
    <3>2. "idle" \in Resting BY DEF Resting
    <3>3. Sound(mem_free(heap, p), C, Held \ {p}, [want EXCEPT ![p] = 0], pc, mem, size, cur)
      BY <1>3, <2>3, <3>1, <3>2, RestingSound
    <3>4. Sound(heap', C, Held', want', pc', mem', size', cur') BY <2>1, <2>2, <3>3
    <3>. QED BY <1>3, <1>4, <1>7, <1>8, <2>1, <3>4, Concluded
  <2>4. CASE pc \notin Resting
    <3>1. heap.used[p] BY <1>2, <1>5 DEF Sound, UsedAreHeld
    <3>2. mem_free(heap, p) # heap BY <1>3, <3>1, FreeShows
    <3>3. raced' BY <1>3, <2>1, <2>4, <3>2 DEF PCs, Resting
    <3>. QED BY <3>3 DEF IInv
  <2>. QED BY <2>3, <2>4
<1>. QED BY <1>9, <1>10

(* The receive interrupt allocates an answer, between calls or inside one. *)
LEMMA RxAnswerStep ==
  ASSUME IInv, NEW k \in Sizes, RxAnswer(k)
  PROVE  IInv'
<1>. USE Numbers
<1>0. ~raced BY DEF RxAnswer
<1>1. PICK B, n, p : B = List(heap) /\ n = AskedSize(k) /\ p = FirstFit(heap, n) OBVIOUS
<1>2. TypeOK /\ Sound(heap, B, Held, want, pc, mem, size, cur) BY <1>0, <1>1 DEF IInv
<1>3. /\ mem \in Offsets /\ size \in Nat /\ cur \in Offsets /\ refs \in [Offsets -> SUBSET Holders]
      /\ HeapType(heap) /\ pc \in PCs
  BY <1>2 DEF TypeOK, HeapType, PCs
<1>4. pc \in {"send", "drop"} => "main" \in refs[mem] BY <1>0 DEF IInv
<1>5. n \in Nat /\ n >= MIN_SIZE BY <1>1, MemAssumption DEF AskedSize
<1>6. Filled(heap, B) /\ heap.lfree \in B \cup {ram_end} BY <1>2 DEF Sound, LowestFree
<1>7. /\ p # ram_end /\ refs' = [refs EXCEPT ![p] = {"emac"}] /\ want' = [want EXCEPT ![p] = n]
      /\ heap' = mem_malloc(heap, p, n) /\ cur' = cur /\ size' = size /\ mem' = mem /\ pc' = pc
      /\ raced' = (pc \in InMalloc \cup InFree /\ mem_malloc(heap, p, n) # heap)
  BY <1>1 DEF RxAnswer, Interrupts, call
<1>8. p \in B /\ Fits(heap, p, n) BY <1>1, <1>3, <1>5, <1>6, <1>7, FirstFitFacts
<1>9. p \in Offsets /\ ~heap.used[p] BY <1>6, <1>8, BlockFacts DEF Fits
<1>10. CASE pc \in Resting
  <2>1. /\ refs' \in [Offsets -> SUBSET Holders] /\ refs'[p] = {"emac"}
        /\ \A q \in Offsets : q # p => refs'[q] = refs[q]
    BY <1>3, <1>7, <1>9 DEF Holders
  <2>2. Held' = {q \in Offsets : refs'[q] # {}} BY DEF Held
  <2>3. Held' = Held \cup {p} BY <1>9, <2>1, <2>2 DEF Held
  <2>4. p \notin Held BY <1>2, <1>8, <1>9 DEF Sound, UsedAreHeld
  <2>5. "main" \in refs[mem] => "main" \in refs'[mem] BY <1>3, <2>1, <2>4 DEF Held
  <2>6. PICK C, d : Sound(mem_malloc(heap, p, n), C, Held \cup {p}, [want EXCEPT ![p] = n], "send", p, n, d)
    BY <1>2, <1>5, <1>8, <1>10, MallocSound
  <2>7. "send" \in Resting BY DEF Resting
  <2>8. Sound(mem_malloc(heap, p, n), C, Held \cup {p}, [want EXCEPT ![p] = n], pc, mem, size, cur)
    BY <1>3, <1>10, <2>6, <2>7, RestingSound
  <2>9. Sound(heap', C, Held', want', pc', mem', size', cur') BY <1>7, <2>3, <2>8
  <2>. QED BY <1>3, <1>4, <1>7, <2>1, <2>5, <2>9, Concluded
<1>11. CASE pc \notin Resting
  <2>1. mem_malloc(heap, p, n) # heap BY <1>3, <1>9, MallocShows
  <2>2. raced' BY <1>3, <1>7, <1>11, <2>1 DEF PCs, Resting
  <2>. QED BY <2>2 DEF IInv
<1>. QED BY <1>10, <1>11

-----------------------------------------------------------------------------
(* The theorems.                                                           *)

(* mem_init leaves one free block.                                         *)
LEMMA InitIInv == Init => IInv
<1>. USE Numbers
<1>. SUFFICES ASSUME Init PROVE IInv OBVIOUS
<1>1. PICK B : B = {0} OBVIOUS
<1>2. /\ 0 \in Offsets /\ ram_end \in Offsets /\ ram_end # 0
      /\ MEM_SIZE >= 0 + SIZEOF_STRUCT_MEM + MIN_SIZE
  BY MemAssumption
<1>3. /\ heap = [next  |-> [p \in Offsets |-> ram_end],
                 prev  |-> [p \in Offsets |-> IF p = ram_end THEN ram_end ELSE 0],
                 used  |-> [p \in Offsets |-> p = ram_end],
                 lfree |-> 0]
      /\ refs = [p \in Offsets |-> {}] /\ want = [p \in Offsets |-> 0]
      /\ pc = "idle" /\ mem = 0 /\ size = 0 /\ cur = 0 /\ raced = FALSE
  BY DEF Init
<1>4. HeapType(heap)
  <2>1. [p \in Offsets |-> IF p = ram_end THEN ram_end ELSE 0] \in [Offsets -> Offsets] BY <1>2
  <2>2. [p \in Offsets |-> ram_end] \in [Offsets -> Offsets] BY <1>2
  <2>3. [p \in Offsets |-> p = ram_end] \in [Offsets -> BOOLEAN] OBVIOUS
  <2>. QED BY <1>2, <1>3, <2>1, <2>2, <2>3 DEF HeapType
<1>5. heap.next[0] = ram_end /\ heap.prev[0] = 0 /\ ~heap.used[0] /\ heap.lfree = 0 BY <1>2, <1>3
<1>6. Typed(heap, want, mem, size, cur) BY <1>2, <1>3, <1>4 DEF Typed
<1>7. Filled(heap, B) BY <1>1, <1>2, <1>5 DEF Filled
<1>8. BackLinked(heap, B, pc, mem, size) BY <1>1, <1>2, <1>5 DEF BackLinked
<1>9. FreeApart(heap, B, pc, mem) BY <1>1, <1>2, <1>5 DEF FreeApart
<1>10. LowestFree(heap, B, pc, mem) BY <1>1, <1>5 DEF LowestFree
<1>11. Held = {} BY <1>3 DEF Held
<1>12. UsedAreHeld(heap, B, Held, pc, mem)
  BY <1>1, <1>3, <1>5, <1>11 DEF UsedAreHeld, InMalloc, InFree
<1>13. LargeEnough(heap, Held, want) BY <1>11 DEF LargeEnough
<1>14. CallSound(heap, B, pc, mem, size, cur) BY <1>3 DEF CallSound, InMalloc
<1>15. Sound(heap, B, Held, want, pc, mem, size, cur)
  BY <1>6, <1>7, <1>8, <1>9, <1>10, <1>12, <1>13, <1>14 DEF Sound
<1>16. List(heap) = B BY <1>4, <1>7, ListIs
<1>17. TypeOK BY <1>3, <1>4, <1>6 DEF TypeOK, HeapType, Typed
<1>. QED BY <1>3, <1>15, <1>16, <1>17 DEF IInv

(* Each step keeps the invariant.                                          *)
LEMMA Step ==
  ASSUME IInv, [Next]_vars
  PROVE  IInv'
<1>1. CASE UNCHANGED vars
  <2>1. /\ heap' = heap /\ refs' = refs /\ want' = want /\ pc' = pc /\ mem' = mem /\ size' = size
        /\ cur' = cur /\ raced' = raced
    BY <1>1 DEF vars, call
  <2>. QED BY <2>1 DEF IInv, TypeOK, Held
<1>2. CASE Main
  <2>1. CASE raced
    <3>1. raced' = raced
      BY <1>2 DEF Main, Alloc, Walk, Fail, Found, Take, Store, Adjust, Lower, StoreLfree, Return,
                  Send, Drop, Free
    <3>. QED BY <2>1, <3>1 DEF IInv
  <2>2. CASE ~raced BY <1>2, <2>2, MallocStep, FreeStep DEF Main
  <2>. QED BY <2>1, <2>2
<1>3. CASE Interrupt BY <1>3, TxDoneStep, RxAnswerStep DEF Interrupt
<1>. QED BY <1>1, <1>2, <1>3 DEF Next

(* The inductive invariant holds in every reachable state.                 *)
THEOREM Invariance == Spec => []IInv
BY InitIInv, Step, PTL DEF Spec

(* Min of a set of numbers is its least element.                           *)
LEMMA MinIs ==
  ASSUME NEW S, S \subseteq Nat, NEW x \in S, \A y \in S : x <= y
  PROVE  Min(S) = x
<1>1. \A z \in S : (\A y \in S : z <= y) => z = x OBVIOUS
<1>2. Min(S) \in S /\ \A y \in S : Min(S) <= y BY DEF Min
<1>. QED BY <1>1, <1>2

(* The invariant is more than HeapKept.                                    *)
LEMMA KeptByIInv ==
  ASSUME IInv
  PROVE  HeapKept
<1>. USE Numbers
<1>. SUFFICES ASSUME ~raced PROVE HeapKept BY DEF HeapKept, HeapSound, BlocksApart
<1>1. PICK B : B = List(heap) OBVIOUS
<1>2. TypeOK /\ Sound(heap, B, Held, want, pc, mem, size, cur) BY <1>1 DEF IInv
<1>3. Filled(heap, B) /\ LargeEnough(heap, Held, want) BY <1>2 DEF Sound
<1>4. /\ B \subseteq Offsets /\ ram_end \notin B
      /\ \A p \in B : /\ p \in Nat /\ p < MEM_SIZE /\ heap.next[p] \in Nat
                      /\ heap.next[p] >= p + SIZEOF_STRUCT_MEM + MIN_SIZE
                      /\ \A q \in B : q > p => q >= heap.next[p]
  BY <1>3, BlockFacts
<1>5. Held \subseteq B BY <1>2 DEF Sound, UsedAreHeld
<1>6. OnTheList
  <2>1. pc \in InMalloc \ {"walk"} => mem \in B BY <1>2 DEF Sound, UsedAreHeld
  <2>2. pc = "walk" => mem \in B \cup {ram_end} BY <1>2 DEF Sound, CallSound
  <2>3. pc = "lower" => cur \in B \cup {ram_end} BY <1>2 DEF Sound, CallSound
  <2>. QED BY <1>1, <2>1, <2>2, <2>3 DEF OnTheList
<1>7. ASSUME pc \in {"idle", "walk", "send", "drop"}, NEW free, free = {p \in B : ~heap.used[p]}
      PROVE  /\ \A p \in B : /\ heap.next[p] \in B => heap.prev[heap.next[p]] = p
                             /\ p \in free => heap.next[p] \notin free
                             /\ DataSize(heap, p) >= MIN_SIZE
             /\ heap.lfree = Min(free \cup {ram_end})
             /\ B \ free = Held
  <2>1. \A p \in B : heap.next[p] \in B => heap.prev[heap.next[p]] = p
    BY <1>2, <1>7 DEF Sound, BackLinked
  <2>2. \A p \in B : p \in free => heap.next[p] \notin free
    <3>1. \A p \in B : ~heap.used[p] /\ heap.next[p] \in B => heap.used[heap.next[p]]
      BY <1>2, <1>7 DEF Sound, FreeApart
    <3>. QED BY <1>7, <3>1
  <2>3. ASSUME NEW p \in B PROVE DataSize(heap, p) >= MIN_SIZE
    <3>1. p \in Nat /\ heap.next[p] \in Nat /\ heap.next[p] >= p + SIZEOF_STRUCT_MEM + MIN_SIZE BY <1>4
    <3>. QED BY <3>1 DEF DataSize
  <2>4. heap.lfree = Min(free \cup {ram_end})
    <3>1. /\ heap.lfree \in B \cup {ram_end} /\ (heap.lfree \in B => ~heap.used[heap.lfree])
          /\ \A p \in B : ~heap.used[p] => p >= heap.lfree
      BY <1>2, <1>7 DEF Sound, LowestFree
    <3>2. free \cup {ram_end} \subseteq Nat BY <1>4, <1>7
    <3>3. heap.lfree \in free \cup {ram_end} BY <1>7, <3>1
    <3>4. heap.lfree <= ram_end
      <4>1. heap.lfree \in Offsets BY <1>2 DEF TypeOK
      <4>. QED BY <4>1
    <3>5. ASSUME NEW y \in free PROVE heap.lfree <= y BY <1>7, <3>1, <3>2, <3>3
    <3>6. \A y \in free \cup {ram_end} : heap.lfree <= y BY <3>4, <3>5
    <3>. QED BY <3>2, <3>3, <3>6, MinIs
  <2>5. B \ free = Held
    <3>1. \A p \in B : heap.used[p] <=> p \in Held BY <1>2, <1>7 DEF Sound, UsedAreHeld
    <3>. QED BY <1>5, <1>7, <3>1
  <2>. QED BY <2>1, <2>2, <2>3, <2>4, <2>5
<1>8. HeapSound BY <1>1, <1>2, <1>6, <1>7 DEF HeapSound
<1>9. ASSUME NEW p \in Held
      PROVE  /\ p \in B /\ p \in Nat /\ want[p] \in Nat /\ heap.next[p] \in Nat
             /\ heap.next[p] >= p + SIZEOF_STRUCT_MEM + want[p]
  <2>1. p \in B /\ p \in Offsets BY <1>4, <1>5
  <2>2. want[p] \in Nat BY <1>2, <2>1 DEF TypeOK
  <2>. QED BY <1>3, <1>4, <2>1, <2>2 DEF LargeEnough
<1>10. ASSUME NEW p \in B, NEW q \in B, p # q, NEW n \in Nat, NEW k \in Nat,
              heap.next[p] >= p + SIZEOF_STRUCT_MEM + n, heap.next[q] >= q + SIZEOF_STRUCT_MEM + k
       PROVE  ~Overlap(p, n, q, k)
  <2>1. /\ p \in Nat /\ q \in Nat /\ heap.next[p] \in Nat /\ heap.next[q] \in Nat
        /\ (q > p => q >= heap.next[p]) /\ (p > q => p >= heap.next[q])
    BY <1>4
  <2>2. PICK x, y : x = heap.next[p] /\ y = heap.next[q] OBVIOUS
  <2>3. q >= p + SIZEOF_STRUCT_MEM + n \/ p >= q + SIZEOF_STRUCT_MEM + k
    BY <1>10, <2>1, <2>2
  <2>. QED BY <1>10, <2>1, <2>3 DEF Overlap, Rest
<1>11. ~Shared
  <2>1. ASSUME NEW p \in Held, NEW q \in Held, p # q PROVE ~Overlap(p, want[p], q, want[q])
    BY <1>9, <1>10, <2>1
  <2>2. ASSUME NEW q \in Held, pc = "return" PROVE ~Overlap(mem, size, q, want[q])
    <3>1. mem \in B /\ mem \notin Held BY <1>2, <2>2 DEF Sound, UsedAreHeld, InMalloc
    <3>2. size \in Nat /\ heap.next[mem] >= mem + SIZEOF_STRUCT_MEM + size
      BY <1>2, <2>2 DEF Sound, CallSound, TypeOK
    <3>. QED BY <1>9, <1>10, <3>1, <3>2
  <2>. QED BY <2>1, <2>2 DEF Shared
<1>12. ASSUME NEW p \in Held PROVE DataSize(heap, p) >= want[p]
  <2>1. /\ p \in Nat /\ want[p] \in Nat /\ heap.next[p] \in Nat
        /\ heap.next[p] >= p + SIZEOF_STRUCT_MEM + want[p]
    BY <1>9
  <2>. QED BY <2>1 DEF DataSize
<1>. QED BY <1>8, <1>11, <1>12 DEF HeapKept, BlocksApart

(* For every size of the heap, of a header and of the requests: as long as *)
(* no interrupt falls into a call, mem_malloc, mem_free and plug_holes     *)
(* keep the list of blocks whole, nothing leaks, and no memory is given to *)
(* two packets.                                                            *)
THEOREM HeapKeptCorrect == Spec => []HeapKept
BY Invariance, KeptByIInv, PTL

(* mem_malloc, which searches from lfree on, fails only when no free block *)
(* is large enough.                                                        *)
THEOREM FailsOnlyWhenFullCorrect == Spec => FailsOnlyWhenFull
<1>. USE Numbers
<1>1. ASSUME IInv, Next, pc = "walk", pc' = "idle", ~raced
      PROVE  \A p \in List(heap) : ~Fits(heap, p, size)
  <2>1. PICK B : B = List(heap) OBVIOUS
  <2>2. TypeOK /\ Sound(heap, B, Held, want, "walk", mem, size, cur) BY <1>1, <2>1 DEF IInv
  <2>3. Fail
    BY <1>1 DEF Next, Main, Interrupt, Alloc, Walk, Found, Take, Store, Adjust, Lower, StoreLfree, Return,
                Send, Drop, Free, TxDone, RxAnswer, Interrupts, call
  <2>4. mem >= MEM_SIZE - size /\ mem \in Nat /\ size \in Nat BY <2>2, <2>3 DEF Fail, TypeOK
  <2>5. Filled(heap, B) /\ \A p \in B : p < mem => ~Fits(heap, p, size) BY <2>2 DEF Sound, CallSound
  <2>6. ASSUME NEW p \in B, Fits(heap, p, size) PROVE FALSE
    <3>1. p \in Nat /\ heap.next[p] \in Nat /\ heap.next[p] <= MEM_SIZE BY <2>5, BlockFacts
    <3>2. heap.next[p] >= p + SIZEOF_STRUCT_MEM + size BY <2>6 DEF Fits
    <3>3. ~(p < mem) BY <2>5, <2>6
    <3>4. PICK x : x = heap.next[p] OBVIOUS
    <3>. QED BY <2>4, <3>1, <3>2, <3>3, <3>4
  <2>. QED BY <2>1, <2>6
<1>2. IInv /\ [Next]_vars
        => [pc = "walk" /\ pc' = "idle" /\ ~raced => \A p \in List(heap) : ~Fits(heap, p, size)]_vars
  BY <1>1
<1>. QED BY Invariance, <1>2, PTL DEF Spec, FailsOnlyWhenFull

=============================================================================
