-------------------------- MODULE UdpPcbListProofs --------------------------
(***************************************************************************)
(* Proofs about UdpPcbList: the linked list of pcbs, for any number of     *)
(* pcbs, keys, moves and calls.                                            *)
(***************************************************************************)
EXTENDS UdpPcbList, FiniteSetTheorems, WellFoundedInduction, TLAPS

(* The list from hd on over the links nx has the n pcbs of s, in order:    *)
(* none is met twice, and after the last there is NULL.                    *)
At(s, n, k) == IF k <= n THEN s[k] ELSE NULL

Chain(s, n, hd, nx) ==
  /\ s \in [1 .. n -> PCBs]
  /\ \A j, k \in 1 .. n : s[j] = s[k] => j = k
  /\ hd = At(s, n, 1)
  /\ \A k \in 1 .. n : nx[s[k]] = At(s, n, k + 1)

In(s, n) == {s[k] : k \in 1 .. n}

-----------------------------------------------------------------------------
(* What udp_bind has done so far.  Its pcb is not linked before the second *)
(* store; the walk stands on the list; the link that is stored leads into  *)
(* the list, to its head unless a pcb was moved since.                     *)
BindState(s, n) ==
  /\ pc # "idle" => pcb \notin In(s, n) /\ pcb # LOC
  /\ pc = "walk" => ipcb \in In(s, n) \cup {NULL}
  /\ pc \in {"link", "head"} => key[pcb] = want
  /\ pc = "head" => next[pcb] = udp_pcbs \/ (linkRaced /\ next[pcb] \in In(s, n))

(* No listed pcb that the walk has passed has the key.                     *)
PassedApart(s, n) ==
  \A k \in 1 .. n : (\A j \in 1 .. k : s[j] # ipcb) => key[s[k]] # want

(* Keys are apart as long as nothing was moved inside udp_bind.            *)
Apart(s, n) ==
  /\ \A p, q \in Bound : p # q => key[p] # key[q]
  /\ pc = "walk" => PassedApart(s, n)
  /\ pc \in {"link", "head"} => \A p \in Bound : key[p] # want

Shape(s, n) ==
  /\ Chain(s, n, udp_pcbs, next)
  /\ In(s, n) \subseteq live
  /\ BindState(s, n)
  /\ linkRaced \/ In(s, n) = Bound
  /\ walkRaced \/ linkRaced \/ Apart(s, n)

IInv ==
  /\ TypeOK /\ walkRaced \in BOOLEAN /\ linkRaced \in BOOLEAN
  /\ \E n \in 0 .. Cardinality(PCBs) : \E s \in [1 .. n -> PCBs] : Shape(s, n)

-----------------------------------------------------------------------------
(* The list.                                                               *)

(* A set of numbers that is not empty has a least one.                     *)
LEMMA LeastOf ==
  ASSUME NEW S, S \subseteq Nat, S # {}
  PROVE  \E m \in S : \A k \in S : m <= k
<1>1. PICK R : R = OpToRel(<, Nat) OBVIOUS
<1>2. IsWellFoundedOn(R, Nat) BY <1>1, NatLessThanWellFounded
<1>3. PICK m \in S : \A k \in S : ~(<<k, m>> \in R) BY <1>2, WFMin
<1>4. ASSUME NEW k \in S PROVE m <= k
  <2>1. k \in Nat /\ m \in Nat OBVIOUS
  <2>2. k < m => <<k, m>> \in R BY <1>1, <2>1 DEF OpToRel
  <2>. QED BY <1>3, <2>1, <2>2
<1>. QED BY <1>4

(* It is no longer than there are pcbs.                                    *)
LEMMA ChainShort ==
  ASSUME NEW n \in Nat, NEW s, NEW hd, NEW nx, Chain(s, n, hd, nx)
  PROVE  Cardinality(PCBs) \in Nat /\ n <= Cardinality(PCBs)
<1>1. s \in Injection(1 .. n, PCBs)
  <2>1. s \in [1 .. n -> PCBs] /\ \A j, k \in 1 .. n : s[j] = s[k] => j = k BY DEF Chain
  <2>. QED BY <2>1 DEF Injection, IsInjective
<1>2. IsFiniteSet(PCBs) BY ListAssumption
<1>3. Cardinality(1 .. n) <= Cardinality(PCBs) BY <1>1, <1>2, FS_Injection
<1>4. Cardinality(1 .. n) = n
  <2>1. Cardinality(1 .. n) = IF 1 > n THEN 0 ELSE n - 1 + 1 BY FS_Interval
  <2>. QED BY <2>1
<1>5. Cardinality(PCBs) \in Nat BY <1>2, FS_CardinalityType
<1>. QED BY <1>3, <1>4, <1>5

(* Following the links meets the pcbs of the list, and NULL after them.    *)
LEMMA Reach ==
  ASSUME NEW n \in Nat, NEW s, NEW hd, NEW nx, Chain(s, n, hd, nx)
  PROVE  \A i \in 0 .. Cardinality(PCBs) : ReachableIn(nx, hd)[i] = At(s, n, i + 1)
<1>0. PICK N : N = Cardinality(PCBs) OBVIOUS
<1>1. N \in Nat BY <1>0, ChainShort
<1>2. \A k \in 1 .. n : s[k] # NULL /\ nx[s[k]] = At(s, n, k + 1) BY ListAssumption DEF Chain
<1>. DEFINE Next1(f, i) == IF i = 0 THEN hd ELSE IF f[i - 1] = NULL THEN NULL ELSE nx[f[i - 1]]
            F == CHOOSE f : f = [i \in 0 .. N |->
                   IF i = 0 THEN hd ELSE IF f[i - 1] = NULL THEN NULL ELSE nx[f[i - 1]]]
<1>3. ReachableIn(nx, hd) = F BY <1>0 DEF ReachableIn
<1>4. PICK g : g = [i \in 0 .. N |-> At(s, n, i + 1)] OBVIOUS
<1>5. ASSUME NEW i \in 0 .. N PROVE At(s, n, i + 1) = Next1(g, i)
  <2>1. CASE i = 0 BY <2>1 DEF Chain
  <2>2. CASE i # 0
    <3>1. i - 1 \in 0 .. N /\ i \in Nat /\ i > 0 BY <1>1, <2>2
    <3>2. g[i - 1] = At(s, n, i) BY <1>4, <3>1
    <3>3. CASE i <= n
      <4>1. i \in 1 .. n BY <3>1, <3>3
      <4>2. g[i - 1] = s[i] BY <3>2, <3>3 DEF At
      <4>. QED BY <1>2, <2>2, <4>1, <4>2
    <3>4. CASE i > n
      <4>1. g[i - 1] = NULL /\ At(s, n, i + 1) = NULL BY <3>1, <3>2, <3>4 DEF At
      <4>. QED BY <2>2, <4>1
    <3>. QED BY <3>1, <3>3, <3>4
  <2>. QED BY <2>1, <2>2
<1>6. F = [i \in 0 .. N |-> Next1(F, i)]
  <2>1. \E f : f = [i \in 0 .. N |->
                   IF i = 0 THEN hd ELSE IF f[i - 1] = NULL THEN NULL ELSE nx[f[i - 1]]]
    BY <1>4, <1>5
  <2>. QED BY <2>1
<1>. DEFINE B == {i \in 0 .. N : F[i] # At(s, n, i + 1)}
<1>7. B = {}
  <2>. HIDE DEF F
  <2>. SUFFICES ASSUME B # {} PROVE FALSE OBVIOUS
  <2>1. B \subseteq Nat BY <1>1
  <2>2. PICK m \in B : \A k \in B : m <= k BY <2>1, LeastOf
  <2>3. m \in 0 .. N /\ m \in Nat /\ F[m] # At(s, n, m + 1) BY <2>1
  <2>4. CASE m = 0 BY <1>5, <1>6, <2>3, <2>4
  <2>5. CASE m # 0
    <3>1. m - 1 \in 0 .. N /\ ~(m <= m - 1) BY <1>1, <2>3, <2>5
    <3>2. F[m - 1] = At(s, n, m - 1 + 1) BY <2>2, <3>1
    <3>3. g[m - 1] = F[m - 1] BY <1>4, <3>1, <3>2
    <3>4. Next1(F, m) = Next1(g, m) BY <3>3
    <3>. QED BY <1>5, <1>6, <2>3, <3>4
  <2>. QED BY <2>4, <2>5
<1>. QED BY <1>0, <1>3, <1>7

(* Following next from udp_pcbs gives the elements of the chain.           *)
LEMMA ListedIs ==
  ASSUME NEW n \in Nat, NEW s, Chain(s, n, udp_pcbs, next)
  PROVE  /\ Listed = In(s, n)
         /\ ReachableIn(next, udp_pcbs)[Cardinality(PCBs)] = NULL
<1>1. PICK N \in Nat : N = Cardinality(PCBs) /\ n <= N BY ChainShort
<1>2. PICK R : R = ReachableIn(next, udp_pcbs) OBVIOUS
<1>3. \A i \in 0 .. N : R[i] = At(s, n, i + 1) BY <1>1, <1>2, Reach
<1>4. \A k \in 1 .. n : s[k] \in PCBs /\ s[k] # NULL BY ListAssumption DEF Chain
<1>5. Listed = {R[i] : i \in 0 .. N} \ {NULL} BY <1>1, <1>2 DEF Listed
<1>6. ASSUME NEW k \in 1 .. n PROVE s[k] \in Listed
  <2>1. k - 1 \in 0 .. N /\ k <= n BY <1>1
  <2>2. R[k - 1] = s[k] BY <1>3, <2>1 DEF At
  <2>. QED BY <1>4, <1>5, <2>1, <2>2
<1>7. ASSUME NEW p \in Listed PROVE p \in In(s, n)
  <2>1. PICK i \in 0 .. N : p = R[i] /\ p # NULL BY <1>5
  <2>2. i + 1 \in 1 .. n /\ p = s[i + 1] BY <1>3, <2>1 DEF At
  <2>. QED BY <2>2 DEF In
<1>8. R[N] = NULL BY <1>1, <1>3 DEF At
<1>. QED BY <1>1, <1>2, <1>6, <1>7, <1>8 DEF In

(* A list in which a pcb was put in front.                                 *)
LEMMA Pushed ==
  ASSUME NEW n \in Nat, NEW s, NEW hd, NEW nx, Chain(s, n, hd, nx),
         NEW p \in PCBs, p \notin In(s, n), NEW ny, ny[p] = hd,
         \A q \in In(s, n) : ny[q] = nx[q]
  PROVE  \E t : Chain(t, n + 1, p, ny) /\ In(t, n + 1) = In(s, n) \cup {p}
<1>1. PICK t : t = [k \in 1 .. n + 1 |-> IF k = 1 THEN p ELSE s[k - 1]] OBVIOUS
<1>2. \A k \in 1 .. n : s[k] \in PCBs /\ s[k] # p /\ ny[s[k]] = At(s, n, k + 1) BY DEF Chain, In
<1>3. t[1] = p /\ \A k \in 1 .. n + 1 : k # 1 => k - 1 \in 1 .. n /\ t[k] = s[k - 1] BY <1>1
<1>4. t \in [1 .. n + 1 -> PCBs] BY <1>1, <1>2
<1>5. \A j, k \in 1 .. n + 1 : t[j] = t[k] => j = k
  <2>. SUFFICES ASSUME NEW j \in 1 .. n + 1, NEW k \in 1 .. n + 1, t[j] = t[k] PROVE j = k OBVIOUS
  <2>1. CASE j = 1 \/ k = 1 BY <1>2, <1>3, <2>1
  <2>2. CASE j # 1 /\ k # 1
    <3>1. j - 1 \in 1 .. n /\ k - 1 \in 1 .. n /\ s[j - 1] = s[k - 1] BY <1>3, <2>2
    <3>2. j - 1 = k - 1 BY <3>1 DEF Chain
    <3>. QED BY <3>2
  <2>. QED BY <2>1, <2>2
<1>6. ASSUME NEW k \in 1 .. n + 1 PROVE ny[t[k]] = At(t, n + 1, k + 1)
  <2>1. CASE k = 1
    <3>1. ny[t[k]] = At(s, n, 1) BY <1>3, <2>1 DEF Chain
    <3>2. n # 0 => 2 \in 1 .. n + 1 /\ t[2] = s[1] BY <1>3
    <3>. QED BY <2>1, <3>1, <3>2 DEF At
  <2>2. CASE k # 1
    <3>1. k - 1 \in 1 .. n /\ ny[t[k]] = At(s, n, k) BY <1>2, <1>3, <2>2
    <3>2. k <= n => k + 1 \in 1 .. n + 1 /\ t[k + 1] = s[k] BY <1>3, <2>2
    <3>. QED BY <3>1, <3>2 DEF At
  <2>. QED BY <2>1, <2>2
<1>7. p = At(t, n + 1, 1) BY <1>3 DEF At
<1>8. Chain(t, n + 1, p, ny) BY <1>4, <1>5, <1>6, <1>7 DEF Chain
<1>9. In(t, n + 1) = In(s, n) \cup {p}
  <2>1. \A k \in 1 .. n : k + 1 \in 1 .. n + 1 /\ t[k + 1] = s[k] BY <1>3
  <2>2. 1 \in 1 .. n + 1 OBVIOUS
  <2>. QED BY <1>3, <2>1, <2>2 DEF In
<1>. QED BY <1>8, <1>9

(* The rest of a list, from one of its pcbs on.                            *)
LEMMA Suffix ==
  ASSUME NEW n \in Nat, NEW s, NEW hd, NEW nx, Chain(s, n, hd, nx), NEW p \in In(s, n)
  PROVE  \E m \in Nat : \E t : Chain(t, m, p, nx) /\ In(t, m) \subseteq In(s, n)
<1>1. PICK j \in 1 .. n : p = s[j] BY DEF In
<1>2. PICK m \in Nat : m = n - j + 1 BY <1>1
<1>3. PICK t : t = [k \in 1 .. m |-> s[j + k - 1]] OBVIOUS
<1>4. \A k \in 1 .. m : j + k - 1 \in 1 .. n /\ t[k] = s[j + k - 1] BY <1>1, <1>2, <1>3
<1>5. t \in [1 .. m -> PCBs] BY <1>3, <1>4 DEF Chain
<1>6. \A i, k \in 1 .. m : t[i] = t[k] => i = k
  <2>. SUFFICES ASSUME NEW i \in 1 .. m, NEW k \in 1 .. m, t[i] = t[k] PROVE i = k OBVIOUS
  <2>1. j + i - 1 = j + k - 1 BY <1>4 DEF Chain
  <2>. QED BY <1>1, <2>1
<1>7. p = At(t, m, 1) BY <1>1, <1>2, <1>4 DEF At
<1>8. ASSUME NEW k \in 1 .. m PROVE nx[t[k]] = At(t, m, k + 1)
  <2>1. nx[t[k]] = At(s, n, j + k) BY <1>1, <1>4 DEF Chain
  <2>2. k < m => t[k + 1] = s[j + k] BY <1>1, <1>4
  <2>. QED BY <1>1, <1>2, <2>1, <2>2 DEF At
<1>9. In(t, m) \subseteq In(s, n) BY <1>4 DEF In
<1>. QED BY <1>5, <1>6, <1>7, <1>8, <1>9 DEF Chain

(* The head of a list without its mth pcb, after which x comes.            *)
HeadAfter(m, x, hd) == IF m = 1 THEN x ELSE hd

(* The links ny pass over the mth pcb of a list over nx.                   *)
Skips(s, n, m, nx, ny) ==
  /\ m > 1 => ny[s[m - 1]] = nx[s[m]]
  /\ \A k \in 1 .. n : k # m /\ k # m - 1 => ny[s[k]] = nx[s[k]]

Without(t, s, n, p) == In(t, n - 1) = In(s, n) \ {p}

(* A list without one of its pcbs.                                         *)
LEMMA Removed ==
  ASSUME NEW n \in Nat, NEW s, NEW hd, NEW nx, Chain(s, n, hd, nx), NEW m \in 1 .. n,
         NEW ny, Skips(s, n, m, nx, ny)
  PROVE  \E t : Chain(t, n - 1, HeadAfter(m, nx[s[m]], hd), ny) /\ Without(t, s, n, s[m])
<1>. USE DEF Skips, Without
<1>1. PICK t : t = [k \in 1 .. n - 1 |-> IF k < m THEN s[k] ELSE s[k + 1]] OBVIOUS
<1>2. PICK l \in Nat : l = n - 1 OBVIOUS
<1>3. \A k \in 1 .. l : /\ k \in 1 .. n /\ k + 1 \in 1 .. n
                        /\ k < m => t[k] = s[k]
                        /\ k >= m => t[k] = s[k + 1]
  BY <1>1, <1>2
<1>4. s \in [1 .. n -> PCBs] /\ \A j, k \in 1 .. n : s[j] = s[k] => j = k BY DEF Chain
<1>5. \A k \in 1 .. n : nx[s[k]] = At(s, n, k + 1) BY DEF Chain
<1>6. t \in [1 .. l -> PCBs] BY <1>1, <1>2, <1>3, <1>4
<1>7. \A j, k \in 1 .. l : t[j] = t[k] => j = k
  <2>. SUFFICES ASSUME NEW j \in 1 .. l, NEW k \in 1 .. l, t[j] = t[k] PROVE j = k OBVIOUS
  <2>1. PICK a \in 1 .. n : t[j] = s[a] /\ a = (IF j < m THEN j ELSE j + 1) BY <1>3
  <2>2. PICK b \in 1 .. n : t[k] = s[b] /\ b = (IF k < m THEN k ELSE k + 1) BY <1>3
  <2>3. s[a] = s[b] BY <2>1, <2>2
  <2>4. a = b BY <1>4, <2>3
  <2>. QED BY <2>1, <2>2, <2>4
<1>8. ASSUME NEW k \in 1 .. l PROVE ny[t[k]] = At(t, l, k + 1)
  <2>1. k < l => k + 1 \in 1 .. l BY <1>2
  <2>2. CASE k < m - 1
    <3>1. t[k] = s[k] /\ ny[s[k]] = nx[s[k]] BY <1>3, <2>2
    <3>2. k + 1 \in 1 .. l /\ t[k + 1] = s[k + 1] BY <1>2, <1>3, <2>2
    <3>. QED BY <1>3, <1>5, <3>1, <3>2 DEF At
  <2>3. CASE k = m - 1
    <3>1. t[k] = s[m - 1] /\ ny[s[m - 1]] = nx[s[m]] BY <1>3, <2>3
    <3>2. nx[s[m]] = At(s, n, m + 1) BY <1>5
    <3>3. k < l => t[k + 1] = s[k + 2] BY <1>3, <2>1, <2>3
    <3>. QED BY <1>2, <2>3, <3>1, <3>2, <3>3 DEF At
  <2>4. CASE k >= m
    <3>1. t[k] = s[k + 1] /\ ny[s[k + 1]] = nx[s[k + 1]] BY <1>3, <2>4
    <3>2. nx[s[k + 1]] = At(s, n, k + 2) BY <1>3, <1>5
    <3>3. k < l => t[k + 1] = s[k + 2] BY <1>3, <2>1, <2>4
    <3>. QED BY <1>2, <3>1, <3>2, <3>3 DEF At
  <2>. QED BY <2>2, <2>3, <2>4
<1>9. HeadAfter(m, nx[s[m]], hd) = At(t, l, 1)
  <2>1. CASE m = 1
    <3>1. nx[s[1]] = At(s, n, 2) BY <1>5, <2>1
    <3>2. l >= 1 => t[1] = s[2] BY <1>3, <2>1
    <3>. QED BY <1>2, <2>1, <3>1, <3>2 DEF At, HeadAfter
  <2>2. CASE m # 1
    <3>1. hd = s[1] BY <2>2 DEF Chain, At
    <3>2. l >= 1 /\ t[1] = s[1] BY <1>2, <1>3, <2>2
    <3>. QED BY <2>2, <3>1, <3>2 DEF At, HeadAfter
  <2>. QED BY <2>1, <2>2
<1>10. In(t, l) = In(s, n) \ {s[m]}
  <2>1. ASSUME NEW k \in 1 .. l PROVE t[k] \in In(s, n) \ {s[m]}
    <3>1. PICK a \in 1 .. n : t[k] = s[a] /\ a # m BY <1>3
    <3>. QED BY <1>4, <3>1 DEF In
  <2>2. ASSUME NEW a \in 1 .. n, a # m PROVE s[a] \in In(t, l)
    <3>1. CASE a < m BY <1>2, <1>3, <3>1 DEF In
    <3>2. CASE a > m
      <4>1. a - 1 \in 1 .. l /\ t[a - 1] = s[a - 1 + 1] BY <1>2, <1>3, <3>2
      <4>. QED BY <4>1 DEF In
    <3>. QED BY <2>2, <3>1, <3>2
  <2>. QED BY <2>1, <2>2 DEF In
<1>11. Chain(t, l, HeadAfter(m, nx[s[m]], hd), ny) BY <1>6, <1>7, <1>8, <1>9 DEF Chain
<1>. QED BY <1>2, <1>10, <1>11

-----------------------------------------------------------------------------
(* The invariant holds again as soon as some list has the shape.           *)
LEMMA ShapeIsEnough ==
  ASSUME TypeOK, walkRaced \in BOOLEAN, linkRaced \in BOOLEAN,
         NEW n \in Nat, NEW s, Shape(s, n)
  PROVE  IInv
<1>1. Chain(s, n, udp_pcbs, next) BY DEF Shape
<1>2. s \in [1 .. n -> PCBs] BY <1>1 DEF Chain
<1>3. n \in 0 .. Cardinality(PCBs) BY <1>1, ChainShort
<1>. QED BY <1>2, <1>3 DEF IInv

(* The initial states satisfy the invariant.                               *)
LEMMA Initially == Init => IInv
<1>. SUFFICES ASSUME Init PROVE IInv OBVIOUS
<1>1. TypeOK /\ walkRaced \in BOOLEAN /\ linkRaced \in BOOLEAN BY ListAssumption DEF Init, TypeOK
<1>2. PICK s : s = [k \in 1 .. 1 |-> LOC] OBVIOUS
<1>3. s[1] = LOC /\ \A k \in 1 .. 1 : k = 1 BY <1>2
<1>4. Chain(s, 1, udp_pcbs, next) BY <1>2, <1>3, ListAssumption DEF Chain, At, Init
<1>5. In(s, 1) = {LOC} BY <1>3 DEF In
<1>6. Shape(s, 1) BY <1>4, <1>5 DEF Shape, Init, BindState, Bound, Apart
<1>. QED BY <1>1, <1>6, ShapeIsEnough

(* The pcb before q on the list.                                           *)
LEMMA PrevIs ==
  ASSUME NEW n \in Nat, NEW s, Chain(s, n, udp_pcbs, next), NEW q \in In(s, n), q # udp_pcbs
  PROVE  \E m \in 1 .. n : m > 1 /\ s[m] = q /\ m - 1 \in 1 .. n /\ Prev(q) = s[m - 1]
<1>1. PICK m \in 1 .. n : s[m] = q BY DEF In
<1>2. m > 1 /\ m - 1 \in 1 .. n BY <1>1 DEF Chain, At
<1>3. s[m - 1] \in Listed /\ next[s[m - 1]] = q
  <2>1. next[s[m - 1]] = At(s, n, m - 1 + 1) BY <1>2 DEF Chain
  <2>2. s[m - 1] \in In(s, n) BY <1>2 DEF In
  <2>. QED BY <1>1, <2>1, <2>2, ListedIs DEF At
<1>4. Prev(q) \in Listed /\ next[Prev(q)] = q BY <1>3 DEF Prev
<1>5. PICK j \in 1 .. n : Prev(q) = s[j] BY <1>4, ListedIs DEF In
<1>6. next[s[j]] = At(s, n, j + 1) BY DEF Chain
<1>7. q \in PCBs /\ q # NULL BY <1>1, ListAssumption DEF Chain
<1>8. j + 1 \in 1 .. n /\ s[j + 1] = s[m] BY <1>1, <1>4, <1>5, <1>6, <1>7 DEF At
<1>9. j + 1 = m BY <1>8 DEF Chain
<1>10. j = m - 1 BY <1>9
<1>. QED BY <1>1, <1>2, <1>5, <1>10

(* Every step keeps the types.                                             *)
LEMMA TypesKept ==
  ASSUME IInv, [Next]_vars
  PROVE  TypeOK' /\ walkRaced' \in BOOLEAN /\ linkRaced' \in BOOLEAN
<1>. USE ListAssumption
<1>0. TypeOK /\ walkRaced \in BOOLEAN /\ linkRaced \in BOOLEAN BY DEF IInv
<1>1. PICK n \in 0 .. Cardinality(PCBs) : \E s \in [1 .. n -> PCBs] : Shape(s, n) BY DEF IInv
<1>2. PICK s \in [1 .. n -> PCBs] : Shape(s, n) BY <1>1
<1>3. n \in Nat BY <1>1
<1>4. Listed = In(s, n) /\ Listed \subseteq live /\ (pc # "idle" => pcb \notin Listed /\ pcb # LOC)
  BY <1>2, <1>3, ListedIs DEF Shape, BindState
<1>. DEFINE Good == TypeOK' /\ walkRaced' \in BOOLEAN /\ linkRaced' \in BOOLEAN
<1>5. ASSUME NEW p \in PCBs, NEW k \in Keys, udp_new(p, k) PROVE Good
  BY <1>0, <1>5 DEF udp_new, Zeroed, TypeOK
<1>6. ASSUME NEW p \in PCBs, NEW k \in Keys, Rebind(p, k) PROVE Good
  BY <1>0, <1>6 DEF Rebind, bind, TypeOK
<1>7. CASE BindWalk BY <1>0, <1>7 DEF BindWalk, TypeOK
<1>8. CASE BindInUse BY <1>0, <1>4, <1>8 DEF BindInUse, TypeOK
<1>9. CASE BindKey BY <1>0, <1>9 DEF BindKey, TypeOK
<1>10. CASE BindLink BY <1>0, <1>10 DEF BindLink, NewNext, TypeOK
<1>11. CASE BindHead BY <1>0, <1>11 DEF BindHead, TypeOK
<1>12. ASSUME NEW p \in PCBs, udp_remove(p) PROVE Good
  BY <1>0, <1>12 DEF udp_remove, Unlinked, bind, TypeOK
<1>13. ASSUME NEW q \in PCBs, udp_input(q) PROVE Good
  <2>1. q \in Listed /\ q # udp_pcbs /\ next' = Moved(q) BY <1>13 DEF udp_input
  <2>2. Prev(q) \in Listed
    <3>1. Chain(s, n, udp_pcbs, next) BY <1>2 DEF Shape
    <3>2. PICK m \in 1 .. n : m - 1 \in 1 .. n /\ Prev(q) = s[m - 1] BY <1>3, <1>4, <2>1, <3>1, PrevIs
    <3>. QED BY <1>4, <3>2 DEF In
  <2>3. next' \in [PCBs -> PCBs \cup {NULL}] BY <1>0, <2>1 DEF Moved, TypeOK
  <2>4. pc # "idle" => next'[pcb] = next[pcb]
    BY <1>0, <1>4, <2>1, <2>2 DEF Moved, TypeOK
  <2>. QED BY <1>0, <1>13, <2>3, <2>4 DEF udp_input, bind, TypeOK
<1>14. CASE UNCHANGED vars BY <1>0, <1>14 DEF vars, bind, TypeOK
<1>. QED BY <1>5, <1>6, <1>7, <1>8, <1>9, <1>10, <1>11, <1>12, <1>13, <1>14 DEF Next

-----------------------------------------------------------------------------
(* Every step leaves a list.  Only moves inside udp_bind cost anything.    *)
LEMMA ShapeKept ==
  ASSUME IInv, [Next]_vars
  PROVE  \E n \in Nat : \E s : Shape(s, n)'
<1>. USE ListAssumption
<1>0. TypeOK /\ walkRaced \in BOOLEAN /\ linkRaced \in BOOLEAN BY DEF IInv
<1>1. PICK n \in Nat : \E s : Shape(s, n)
  <2>1. PICK n \in 0 .. Cardinality(PCBs) : \E s \in [1 .. n -> PCBs] : Shape(s, n) BY DEF IInv
  <2>. QED BY <2>1
<1>2. PICK s : Shape(s, n) BY <1>1
<1>3. /\ Chain(s, n, udp_pcbs, next) /\ In(s, n) \subseteq live /\ BindState(s, n)
      /\ Listed = In(s, n) /\ (linkRaced \/ In(s, n) = Bound)
      /\ (walkRaced \/ linkRaced \/ Apart(s, n))
  BY <1>2, ListedIs DEF Shape
<1>4. In(s, n) \subseteq PCBs /\ \A k \in 1 .. n : s[k] \in In(s, n) BY <1>3 DEF Chain, In
<1>5. ASSUME UNCHANGED <<udp_pcbs, next, key, live, bind, walkRaced, linkRaced>>
      PROVE  Shape(s, n)'
  BY <1>2, <1>5 DEF Shape, BindState, Bound, Apart, PassedApart, bind
<1>6. ASSUME NEW p \in PCBs, NEW k \in Keys, udp_new(p, k) PROVE Shape(s, n)'
  <2>1. p \notin live /\ p \notin In(s, n) /\ p # LOC BY <1>0, <1>3, <1>6 DEF udp_new, TypeOK
  <2>2. /\ next' = [next EXCEPT ![p] = NULL] /\ key' = [key EXCEPT ![p] = NULL]
        /\ live' = live \cup {p} /\ pc = "idle" /\ pc' = "walk" /\ pcb' = p /\ want' = k
        /\ ipcb' = udp_pcbs /\ UNCHANGED <<udp_pcbs, walkRaced, linkRaced>>
    BY <1>6 DEF udp_new, Zeroed
  <2>3. Chain(s, n, udp_pcbs', next') BY <1>0, <1>3, <1>4, <2>1, <2>2 DEF Chain, TypeOK
  <2>4. Bound = live /\ Bound' = live BY <2>1, <2>2 DEF Bound
  <2>5. ipcb' \in In(s, n) \cup {NULL} /\ (n # 0 => ipcb' = s[1])
    <3>1. CASE n = 0 BY <1>3, <2>2, <3>1 DEF Chain, At
    <3>2. CASE n # 0
      <4>1. 1 \in 1 .. n /\ udp_pcbs = s[1] BY <1>3, <3>2 DEF Chain, At
      <4>. QED BY <1>4, <2>2, <4>1
    <3>. QED BY <3>1, <3>2
  <2>6. BindState(s, n)' BY <2>1, <2>2, <2>5 DEF BindState
  <2>7. PassedApart(s, n)'
    <3>1. \A j \in 1 .. n : 1 \in 1 .. j /\ n # 0 OBVIOUS
    <3>. QED BY <2>5, <3>1 DEF PassedApart
  <2>8. Apart(s, n) => Apart(s, n)'
    <3>1. \A q \in live : key'[q] = key[q] BY <1>0, <2>1, <2>2 DEF TypeOK
    <3>. QED BY <2>2, <2>4, <2>7, <3>1 DEF Apart
  <2>. QED BY <1>3, <2>2, <2>3, <2>4, <2>6, <2>8 DEF Shape
<1>7. CASE BindWalk
  <2>1. /\ pc = "walk" /\ ipcb # NULL /\ key[ipcb] # want /\ ipcb' = next[ipcb]
        /\ UNCHANGED <<udp_pcbs, next, key, live, pc, pcb, want, walkRaced, linkRaced>>
    BY <1>7 DEF BindWalk, InUse
  <2>2. PICK m \in 1 .. n : s[m] = ipcb BY <1>3, <2>1 DEF BindState, In
  <2>3. ipcb' = At(s, n, m + 1) BY <1>3, <2>1, <2>2 DEF Chain
  <2>4. ipcb' \in In(s, n) \cup {NULL} /\ (m < n => ipcb' = s[m + 1])
    BY <1>4, <2>3 DEF At
  <2>5. BindState(s, n)' BY <1>3, <2>1, <2>4 DEF BindState
  <2>6. PassedApart(s, n) => PassedApart(s, n)'
    <3>. SUFFICES ASSUME PassedApart(s, n), NEW k \in 1 .. n, \A j \in 1 .. k : s[j] # ipcb'
                  PROVE  key[s[k]] # want
      BY <2>1 DEF PassedApart
    <3>1. CASE k < m
      <4>1. \A j \in 1 .. k : j \in 1 .. n /\ j # m BY <3>1
      <4>2. \A j \in 1 .. k : s[j] # ipcb BY <1>3, <2>2, <4>1 DEF Chain
      <4>. QED BY <4>2 DEF PassedApart
    <3>2. CASE k = m BY <2>1, <2>2, <3>2
    <3>3. CASE k > m
      <4>1. m + 1 \in 1 .. k /\ m < n BY <3>3
      <4>. QED BY <2>4, <4>1
    <3>. QED BY <3>1, <3>2, <3>3
  <2>7. Apart(s, n) => Apart(s, n)' BY <2>1, <2>6 DEF Apart, Bound
  <2>. QED BY <1>3, <2>1, <2>5, <2>7 DEF Shape, Bound
<1>8. CASE BindInUse
  <2>1. /\ pc = "walk" /\ pc' = "idle" /\ live' = live \ {pcb}
        /\ UNCHANGED <<udp_pcbs, next, key, walkRaced, linkRaced>>
    BY <1>8 DEF BindInUse
  <2>2. Bound' = Bound /\ In(s, n) \subseteq live' BY <1>3, <2>1 DEF Bound, BindState
  <2>3. BindState(s, n)' BY <2>1 DEF BindState
  <2>4. Apart(s, n) => Apart(s, n)' BY <2>1, <2>2 DEF Apart
  <2>. QED BY <1>3, <2>1, <2>2, <2>3, <2>4 DEF Shape
<1>9. CASE BindKey
  <2>1. /\ pc = "walk" /\ ipcb = NULL /\ pc' = "link" /\ key' = [key EXCEPT ![pcb] = want]
        /\ UNCHANGED <<udp_pcbs, next, live, pcb, want, walkRaced, linkRaced>>
    BY <1>9 DEF BindKey
  <2>2. pcb \in PCBs /\ key'[pcb] = want /\ Bound = live \ {pcb} /\ Bound' = Bound
    BY <1>0, <2>1 DEF TypeOK, Bound
  <2>3. \A p \in Bound : key'[p] = key[p] BY <1>0, <2>1, <2>2 DEF TypeOK
  <2>4. BindState(s, n)' BY <1>3, <2>1, <2>2 DEF BindState
  <2>5. ASSUME ~linkRaced, Apart(s, n) PROVE Apart(s, n)'
    <3>1. \A k \in 1 .. n : key[s[k]] # want
      <4>1. \A k \in 1 .. n : s[k] # NULL BY <1>4
      <4>2. \A k \in 1 .. n : \A j \in 1 .. k : j \in 1 .. n OBVIOUS
      <4>3. PassedApart(s, n) BY <2>1, <2>5 DEF Apart
      <4>. QED BY <2>1, <4>1, <4>2, <4>3 DEF PassedApart
    <3>2. \A p \in Bound : key[p] # want BY <1>3, <2>5, <3>1 DEF In
    <3>. QED BY <2>1, <2>2, <2>3, <2>5, <3>2 DEF Apart
  <2>. QED BY <1>3, <2>1, <2>2, <2>4, <2>5 DEF Shape
<1>10. CASE BindLink
  <2>1. /\ pc = "link" /\ pc' = "head" /\ next' = [next EXCEPT ![pcb] = udp_pcbs]
        /\ UNCHANGED <<udp_pcbs, key, live, pcb, want, walkRaced, linkRaced>>
    BY <1>10 DEF BindLink, NewNext
  <2>2. pcb \in PCBs /\ pcb \notin In(s, n) /\ next'[pcb] = udp_pcbs
    BY <1>0, <1>3, <2>1 DEF TypeOK, BindState
  <2>3. Chain(s, n, udp_pcbs', next') BY <1>0, <1>3, <1>4, <2>1, <2>2 DEF Chain, TypeOK
  <2>4. BindState(s, n)' BY <1>3, <2>1, <2>2 DEF BindState
  <2>5. Apart(s, n) => Apart(s, n)' BY <2>1 DEF Apart, Bound
  <2>. QED BY <1>3, <2>1, <2>3, <2>4, <2>5 DEF Shape, Bound
<1>11. CASE BindHead
  <2>1. /\ pc = "head" /\ pc' = "idle" /\ udp_pcbs' = pcb
        /\ UNCHANGED <<next, key, live, walkRaced, linkRaced>>
    BY <1>11 DEF BindHead
  <2>2. pcb \in live /\ pcb \in PCBs /\ pcb \notin In(s, n) /\ key[pcb] = want
        /\ Bound = live \ {pcb} /\ Bound' = live
    BY <1>0, <1>3, <2>1 DEF TypeOK, BindState, Bound
  <2>3. ASSUME NEW m \in Nat, NEW t, Chain(t, m, next[pcb], next), In(t, m) \subseteq In(s, n),
               linkRaced \/ In(t, m) = In(s, n)
        PROVE  \E u : Shape(u, m + 1)'
    <3>1. pcb \notin In(t, m) BY <2>2, <2>3
    <3>a. PICK hd, nx : hd = next[pcb] /\ nx = next OBVIOUS
    <3>b. PICK p \in PCBs : p = pcb BY <2>2
    <3>c. Chain(t, m, hd, nx) /\ p \notin In(t, m) /\ nx[p] = hd BY <2>3, <3>1, <3>a, <3>b
    <3>2. PICK u : Chain(u, m + 1, pcb, next) /\ In(u, m + 1) = In(t, m) \cup {pcb}
      <4>1. \E u : Chain(u, m + 1, p, nx) /\ In(u, m + 1) = In(t, m) \cup {p} BY <3>c, Pushed
      <4>. QED BY <3>a, <3>b, <4>1
    <3>3. BindState(u, m + 1)' BY <2>1 DEF BindState
    <3>4. Apart(s, n) => Apart(u, m + 1)' BY <2>1, <2>2 DEF Apart
    <3>. QED BY <1>3, <2>1, <2>2, <2>3, <3>2, <3>3, <3>4 DEF Shape
  <2>4. CASE next[pcb] = udp_pcbs
    <3>1. \E u : Shape(u, n + 1)' BY <1>3, <2>3, <2>4
    <3>. QED BY <3>1
  <2>5. CASE linkRaced /\ next[pcb] \in In(s, n)
    <3>1. PICK m \in Nat : \E t : Chain(t, m, next[pcb], next) /\ In(t, m) \subseteq In(s, n)
      BY <1>3, <2>5, Suffix
    <3>2. \E u : Shape(u, m + 1)' BY <2>3, <2>5, <3>1
    <3>. QED BY <3>2
  <2>. QED BY <1>3, <2>1, <2>4, <2>5 DEF BindState
<1>12. ASSUME NEW p \in PCBs, NEW k \in Keys, Rebind(p, k)
       PROVE  \E m \in Nat : \E t : Shape(t, m)'
  <2>1. /\ pc = "idle" /\ p \in live /\ key' = [key EXCEPT ![p] = k]
        /\ \A q \in Listed \ {p} : key[q] # k
        /\ UNCHANGED <<live, pc, walkRaced, linkRaced>>
    BY <1>12 DEF Rebind, bind
  <2>2. Bound = live /\ Bound' = live BY <2>1 DEF Bound
  <2>3. key'[p] = k /\ \A q \in live \ {p} : key'[q] = key[q] BY <1>0, <2>1 DEF TypeOK
  <2>4. ASSUME NEW m, NEW t, ~linkRaced, Apart(s, n) PROVE Apart(t, m)'
    <3>1. \A q \in live \ {p} : key[q] # k BY <1>3, <2>1, <2>2, <2>4
    <3>. QED BY <2>1, <2>2, <2>3, <2>4, <3>1 DEF Apart
  <2>5. ASSUME NEW m, NEW t PROVE BindState(t, m)' BY <2>1 DEF BindState
  <2>6. CASE Relinks(p)
    <3>1. p \notin In(s, n) BY <1>3, <2>6 DEF Relinks
    <3>2. next' = [next EXCEPT ![p] = udp_pcbs] /\ udp_pcbs' = p BY <1>12, <2>6 DEF Rebind
    <3>3. PICK ny : ny = next' OBVIOUS
    <3>4. ny[p] = udp_pcbs /\ \A q \in In(s, n) : ny[q] = next[q]
      BY <1>0, <1>4, <3>1, <3>2, <3>3 DEF TypeOK
    <3>5. PICK t : Chain(t, n + 1, p, ny) /\ In(t, n + 1) = In(s, n) \cup {p}
      BY <1>3, <3>1, <3>4, Pushed
    <3>6. Shape(t, n + 1)'
      BY <1>3, <2>1, <2>2, <2>4, <2>5, <3>2, <3>3, <3>5 DEF Shape
    <3>. QED BY <3>6
  <2>7. CASE ~Relinks(p)
    <3>1. UNCHANGED <<next, udp_pcbs>> BY <1>12, <2>7 DEF Rebind
    <3>2. Shape(s, n)' BY <1>3, <2>1, <2>2, <2>4, <2>5, <3>1 DEF Shape
    <3>. QED BY <3>2
  <2>. QED BY <2>6, <2>7
<1>13. ASSUME NEW p \in PCBs, udp_remove(p) PROVE \E m \in Nat : \E t : Shape(t, m)'
  <2>1. /\ pc = "idle" /\ p \in live /\ live' = live \ {p}
        /\ UNCHANGED <<key, pc, walkRaced, linkRaced>>
    BY <1>13 DEF udp_remove, bind
  <2>2. Bound = live /\ Bound' = live \ {p} BY <2>1 DEF Bound
  <2>3. ASSUME NEW m \in Nat, NEW t, Chain(t, m, udp_pcbs', next'), In(t, m) = In(s, n) \ {p}
        PROVE  Shape(t, m)'
    <3>1. BindState(t, m)' BY <2>1 DEF BindState
    <3>2. Apart(s, n) => Apart(t, m)' BY <2>1, <2>2 DEF Apart
    <3>. QED BY <1>3, <2>1, <2>2, <2>3, <3>1, <3>2 DEF Shape
  <2>4. CASE p \in In(s, n)
    <3>1. PICK m \in 1 .. n : s[m] = p BY <2>4 DEF In
    <3>2. \A j \in 1 .. n : /\ next[s[j]] = At(s, n, j + 1)
                            /\ next[s[j]] = p <=> j = m - 1
      <4>1. ASSUME NEW j \in 1 .. n PROVE next[s[j]] = p <=> j = m - 1
        <5>1. next[s[j]] = At(s, n, j + 1) BY <1>3 DEF Chain
        <5>2. CASE j < n
          <6>1. next[s[j]] = s[j + 1] /\ j + 1 \in 1 .. n BY <5>1, <5>2 DEF At
          <6>2. s[j + 1] = p <=> j + 1 = m BY <1>3, <3>1, <6>1 DEF Chain
          <6>. QED BY <6>1, <6>2
        <5>3. CASE j = n BY <5>1, <5>3 DEF At
        <5>. QED BY <5>2, <5>3
      <4>. QED BY <1>3, <4>1 DEF Chain
    <3>3. PICK ny, hd : ny = next' /\ hd = udp_pcbs' OBVIOUS
    <3>4. PICK l \in Nat : l = n - 1 OBVIOUS
    <3>5. CASE udp_pcbs = p
      <4>1. m = 1
        <5>1. udp_pcbs = s[1] /\ 1 \in 1 .. n BY <1>3 DEF Chain, At
        <5>. QED BY <1>3, <3>1, <3>5, <5>1 DEF Chain
      <4>2. ny = next /\ hd = next[s[m]] BY <1>13, <3>1, <3>3, <3>5 DEF udp_remove
      <4>3. m > 1 => ny[s[m - 1]] = next[s[m]] BY <4>1
      <4>4. \A k \in 1 .. n : k # m /\ k # m - 1 => ny[s[k]] = next[s[k]] BY <4>2
      <4>5. \E t : Chain(t, n - 1, HeadAfter(m, next[s[m]], udp_pcbs), ny) /\ Without(t, s, n, s[m])
        <5>1. Skips(s, n, m, next, ny) BY <4>3, <4>4 DEF Skips
        <5>. QED BY <1>3, <5>1, Removed
      <4>6. PICK t : Chain(t, l, hd, ny) /\ In(t, l) = In(s, n) \ {p} BY <3>1, <3>4, <4>1, <4>2, <4>5 DEF HeadAfter, Without
      <4>. QED BY <2>3, <3>3, <4>6
    <3>6. CASE udp_pcbs # p
      <4>1. m # 1 BY <1>3, <3>1, <3>6 DEF Chain, At
      <4>2. ny = Unlinked(p) /\ hd = udp_pcbs BY <1>13, <3>3, <3>6 DEF udp_remove
      <4>3. \A k \in 1 .. n : ny[s[k]] = IF next[s[k]] = p THEN next[p] ELSE next[s[k]]
        BY <1>3, <1>4, <4>2 DEF Unlinked
      <4>4. m > 1 => ny[s[m - 1]] = next[s[m]] BY <3>1, <3>2, <4>1, <4>3
      <4>5. \A k \in 1 .. n : k # m /\ k # m - 1 => ny[s[k]] = next[s[k]] BY <3>2, <4>3
      <4>6. \E t : Chain(t, n - 1, HeadAfter(m, next[s[m]], udp_pcbs), ny) /\ Without(t, s, n, s[m])
        <5>1. Skips(s, n, m, next, ny) BY <4>4, <4>5 DEF Skips
        <5>. QED BY <1>3, <5>1, Removed
      <4>7. PICK t : Chain(t, l, hd, ny) /\ In(t, l) = In(s, n) \ {p} BY <3>1, <3>4, <4>1, <4>2, <4>6 DEF HeadAfter, Without
      <4>. QED BY <2>3, <3>3, <4>7
    <3>. QED BY <3>5, <3>6
  <2>5. CASE p \notin In(s, n)
    <3>1. \A k \in 1 .. n : next[s[k]] \in In(s, n) \cup {NULL} BY <1>3, <1>4 DEF Chain, At
    <3>2. udp_pcbs # p
      <4>1. udp_pcbs \in In(s, n) \cup {NULL} BY <1>3, <1>4 DEF Chain, At
      <4>. QED BY <2>5, <4>1
    <3>3. next' = Unlinked(p) /\ udp_pcbs' = udp_pcbs BY <1>13, <3>2 DEF udp_remove
    <3>4. \A k \in 1 .. n : next'[s[k]] = next[s[k]] BY <1>4, <2>5, <3>1, <3>3 DEF Unlinked
    <3>5. Chain(s, n, udp_pcbs', next') BY <1>3, <3>3, <3>4 DEF Chain
    <3>6. In(s, n) = In(s, n) \ {p} BY <2>5
    <3>. QED BY <2>3, <3>5, <3>6
  <2>. QED BY <2>4, <2>5
<1>14. ASSUME NEW q \in PCBs, udp_input(q) PROVE \E m \in Nat : \E t : Shape(t, m)'
  <2>1. /\ q \in In(s, n) /\ q # udp_pcbs /\ next' = Moved(q) /\ udp_pcbs' = q
        /\ walkRaced' = (walkRaced \/ pc = "walk") /\ linkRaced' = (linkRaced \/ pc = "head")
        /\ UNCHANGED <<key, live, pc, pcb, want, ipcb>>
    BY <1>3, <1>14 DEF udp_input, bind
  <2>2. PICK m \in 1 .. n : m > 1 /\ s[m] = q /\ m - 1 \in 1 .. n /\ Prev(q) = s[m - 1]
    BY <1>3, <2>1, PrevIs
  <2>3. PICK ny : ny = next' OBVIOUS
  <2>4. s[m - 1] # q /\ s[m - 1] \in PCBs BY <1>3, <2>2 DEF Chain
  <2>5. /\ ny[q] = udp_pcbs /\ ny[s[m - 1]] = next[s[m]]
        /\ \A p \in PCBs \ {q, s[m - 1]} : ny[p] = next[p]
    BY <1>0, <2>1, <2>2, <2>3, <2>4 DEF Moved, TypeOK
  <2>6. \A k \in 1 .. n : k # m /\ k # m - 1 => ny[s[k]] = next[s[k]]
    <3>1. ASSUME NEW k \in 1 .. n, k # m, k # m - 1 PROVE s[k] \in PCBs \ {q, s[m - 1]}
      BY <1>3, <2>2, <3>1 DEF Chain
    <3>. QED BY <2>5, <3>1
  <2>7. PICK l \in Nat : l = n - 1 OBVIOUS
  <2>8. \E t : Chain(t, n - 1, HeadAfter(m, next[s[m]], udp_pcbs), ny) /\ Without(t, s, n, s[m])
    <3>1. Skips(s, n, m, next, ny) BY <2>5, <2>6 DEF Skips
    <3>. QED BY <1>3, <3>1, Removed
  <2>9. PICK t : Chain(t, l, udp_pcbs, ny) /\ In(t, l) = In(s, n) \ {q} BY <2>2, <2>7, <2>8 DEF HeadAfter, Without
  <2>10. PICK u : Chain(u, l + 1, q, ny) /\ In(u, l + 1) = In(t, l) \cup {q}
    BY <2>5, <2>9, Pushed
  <2>11. In(u, l + 1) = In(s, n) BY <2>1, <2>9, <2>10
  <2>12. Bound' = Bound BY <2>1 DEF Bound
  <2>13. BindState(u, l + 1)'
    <3>1. pc # "idle" => pcb \in PCBs \ {q, s[m - 1]}
      BY <1>0, <1>3, <1>4, <2>1, <2>2 DEF BindState, TypeOK
    <3>2. pc = "head" => next'[pcb] = next[pcb] BY <2>3, <2>5, <3>1
    <3>3. pc = "head" => next[pcb] \in In(s, n)
      <4>1. udp_pcbs \in In(s, n) BY <1>3, <1>4, <2>2 DEF Chain, At
      <4>. QED BY <1>3, <4>1 DEF BindState
    <3>. QED BY <1>3, <2>1, <2>11, <3>2, <3>3 DEF BindState
  <2>14. ASSUME ~walkRaced', ~linkRaced', Apart(s, n) PROVE Apart(u, l + 1)'
    BY <2>1, <2>12, <2>14 DEF Apart
  <2>15. Shape(u, l + 1)' BY <1>0, <1>3, <2>1, <2>3, <2>10, <2>11, <2>12, <2>13, <2>14 DEF Shape
  <2>. QED BY <2>15
<1>15. CASE UNCHANGED vars BY <1>5, <1>15 DEF vars
<1>. QED BY <1>6, <1>7, <1>8, <1>9, <1>10, <1>11, <1>12, <1>13, <1>14, <1>15 DEF Next

-----------------------------------------------------------------------------
(* The invariant is inductive: whatever the interrupt moves and whenever,  *)
(* the links form a list of pcbs in use without a cycle; it has all of     *)
(* them and no key twice unless a move fell into udp_bind.                 *)
THEOREM Invariance == Spec => []IInv
<1>1. IInv /\ [Next]_vars => IInv'
  <2>. SUFFICES ASSUME IInv, [Next]_vars PROVE IInv' OBVIOUS
  <2>1. TypeOK' /\ walkRaced' \in BOOLEAN /\ linkRaced' \in BOOLEAN BY TypesKept
  <2>2. PICK n \in Nat : \E s : Shape(s, n)' BY ShapeKept
  <2>3. PICK s : Shape(s, n)' BY <2>2
  <2>4. Chain(s, n, udp_pcbs', next') BY <2>3 DEF Shape
  <2>5. s \in [1 .. n -> PCBs] BY <2>4 DEF Chain
  <2>6. n \in 0 .. Cardinality(PCBs) BY <2>4, ChainShort
  <2>. QED BY <2>1, <2>3, <2>5, <2>6 DEF IInv
<1>. QED BY Initially, <1>1, PTL DEF Spec

(* udp.c: udp_input's move to the front, udp_bind's walk and its two       *)
(* stores, and udp_remove, interleaved in any way: udp_pcbs always ends    *)
(* and has only pcbs in use, every bound one unless a move came between    *)
(* the two stores, and no address and port twice unless one came during    *)
(* udp_bind.                                                               *)
THEOREM PcbsSoundCorrect == Spec => []PcbsSound
<1>1. IInv => PcbsSound
  <2>. SUFFICES ASSUME IInv PROVE PcbsSound OBVIOUS
  <2>1. PICK n \in 0 .. Cardinality(PCBs) : \E s \in [1 .. n -> PCBs] : Shape(s, n) BY DEF IInv
  <2>2. PICK s : Shape(s, n) BY <2>1
  <2>3. n \in Nat /\ Chain(s, n, udp_pcbs, next) BY <2>1, <2>2 DEF Shape
  <2>4. Listed = In(s, n) /\ ReachableIn(next, udp_pcbs)[Cardinality(PCBs)] = NULL BY <2>3, ListedIs
  <2>5. ListSound BY <2>2, <2>4 DEF Shape, ListSound
  <2>6. AllListed BY <2>2, <2>4 DEF Shape, AllListed
  <2>7. KeysApart BY <2>2 DEF Shape, Apart, KeysApart
  <2>. QED BY <2>5, <2>6, <2>7 DEF IInv, PcbsSound
<1>. QED BY <1>1, Invariance, PTL
=============================================================================
