----------------------------- MODULE HdkifProofs -----------------------------
(***************************************************************************)
(* Proofs about the driver, for any number of descriptors, pbufs and       *)
(* packets.                                                                *)
(***************************************************************************)
EXTENDS MCHdkif, Sequences, SequenceTheorems, FiniteSetTheorems, WellFoundedInduction, TLAPS

(* A set of numbers that is not empty has a least one.                     *)
LEMMA LeastOf ==
  ASSUME NEW S, S \subseteq Nat, S # {}
  PROVE  \E m \in S : \A k \in S : m <= k
<1>1. PICK R : R = OpToRel(<, Nat) OBVIOUS
<1>2. IsWellFoundedOn(R, Nat) BY <1>1, NatLessThanWellFounded
<1>3. PICK m \in S : \A k \in S : ~(<<k, m>> \in R) BY <1>2, WFMin
<1>4. ASSUME NEW k \in S PROVE m <= k
  <2>1. k \in Nat /\ m \in Nat OBVIOUS
  <2>2. k < m => <<k, m>> \in R BY <1>1, <2>1 DEF OpToRel
  <2>. QED BY <1>3, <2>1, <2>2
<1>. QED BY <1>4

-----------------------------------------------------------------------------
(* The receive side.  All D descriptors form one list s: first those that  *)
(* are owed a pbuf, freed_pbuf_len of them, then from active_head to       *)
(* active_tail those that have one.  The DMA stands at place c.            *)

RxBD == 0 .. D - 1

RxPlace(s, k) == IF k <= D THEN s[k] ELSE NULL

RxOrder(s) ==
  /\ s \in [1 .. D -> RxBD]
  /\ \A j, k \in 1 .. D : s[j] = s[k] => j = k
  /\ \A b \in RxBD : \E k \in 1 .. D : s[k] = b

RxLinked(s) == \A k \in 1 .. D : rxnext[s[k]] = RxPlace(s, k + 1)

RxEnds(s) ==
  /\ rxactive_head = RxPlace(s, freed_pbuf_len + 1) /\ rxactive_tail = s[D]
  /\ rxfree_head = s[1] \/ (rxfree_head = NULL /\ freed_pbuf_len = 0)
  /\ held = {s[k] : k \in freed_pbuf_len + 1 .. D}

(* Before c there are whole frames, of at most MaxLen descriptors, from c  *)
(* on what the DMA may fill; EOQ says that it has come to the end.         *)
RxFrames(s, c) ==
  /\ c \in freed_pbuf_len + 1 .. D + 1 /\ rxhdp = RxPlace(s, c)
  /\ \A k \in c .. D : rxflags[s[k]] = {"OWNER"}
  /\ freed_pbuf_len + 1 < c => "SOP" \in rxflags[s[freed_pbuf_len + 1]]
  /\ \A k \in freed_pbuf_len + 1 .. c - 1 : "SOP" \in rxflags[s[k]] =>
       \E e \in k .. c - 1 : e < k + MaxLen /\ "EOP" \in rxflags[s[e]]
  /\ \A k \in freed_pbuf_len + 1 .. c - 2 :
       "EOP" \in rxflags[s[k]] => "SOP" \in rxflags[s[k + 1]]
  /\ "EOQ" \in rxflags[s[D]] <=> c = D + 1

RxShape(s, c) == RxOrder(s) /\ RxLinked(s) /\ RxEnds(s) /\ RxFrames(s, c)

(* The handler has run out of descriptors, and reads through NULL next.    *)
RxDead ==
  /\ rxactive_head = NULL /\ rxhdp = NULL /\ rxpc = "loop"
  /\ \/ held = {} /\ freed_pbuf_len = D
     \/ held = RxBD /\ freed_pbuf_len = 0

RxIInv ==
  /\ Rx!TypeOK
  /\ avail + kept + D = P + freed_pbuf_len
  /\ rxpc = "refill" => freed_pbuf_len > 0
  /\ RxDead \/ \E s \in [1 .. D -> RxBD], c \in 1 .. D + 1 : RxShape(s, c)

-----------------------------------------------------------------------------
(* What the assumption on the sizes says of the receive side.              *)
LEMMA RxNumbers ==
  /\ D \in Nat /\ D > 1 /\ P \in Nat /\ P >= D
  /\ MaxLen \in Nat /\ MaxLen > 0 /\ MaxLen < D /\ MaxKept \in Nat /\ MaxKept <= P
  /\ NULL \notin RxBD /\ Rx!BD = RxBD
BY DriverAssumption DEF Rx!RxAssumption, Rx!BD, RxBD

(* Cardinality as the module of the receive side imports it.               *)
LEMMA RxCardinality == \A S : Rx!Cardinality(S) = Cardinality(S)
BY DEF Rx!Cardinality, Cardinality

(* Places have as many descriptors as there are of them.                   *)
LEMMA RxCount ==
  ASSUME NEW s, RxOrder(s), NEW a \in 1 .. D + 1, NEW b \in 0 .. D, a <= b + 1
  PROVE  Cardinality({s[k] : k \in a .. b}) = b - a + 1
<1>. USE RxNumbers
<1>1. PICK S : S = {s[k] : k \in a .. b} OBVIOUS
<1>2. PICK f : f = [k \in a .. b |-> s[k]] OBVIOUS
<1>3. \A k \in a .. b : k \in 1 .. D BY DEF RxOrder
<1>4. f \in Bijection(a .. b, S)
  <2>1. f \in [a .. b -> S] BY <1>1, <1>2
  <2>2. \A j, k \in a .. b : f[j] = f[k] => j = k BY <1>2, <1>3 DEF RxOrder
  <2>3. \A t \in S : \E k \in a .. b : f[k] = t BY <1>1, <1>2
  <2>4. f \in Injection(a .. b, S) BY <2>1, <2>2 DEF Injection, IsInjective
  <2>5. f \in Surjection(a .. b, S) BY <2>1, <2>3 DEF Surjection
  <2>. QED BY <2>4, <2>5 DEF Bijection
<1>5. IsFiniteSet(a .. b) /\ Cardinality(a .. b) = IF a > b THEN 0 ELSE b - a + 1 BY FS_Interval
<1>6. Cardinality(S) = Cardinality(a .. b) BY <1>4, <1>5, FS_Bijection DEF ExistsBijection
<1>. QED BY <1>1, <1>5, <1>6

(* Following next from a place meets the places after it, then NULL.       *)
LEMMA RxReach ==
  ASSUME NEW s, RxOrder(s), RxLinked(s), NEW j \in 1 .. D + 1
  PROVE  \A i \in 0 .. D : Rx!Walk(RxPlace(s, j))[i] = RxPlace(s, j + i)
<1>. USE RxNumbers
<1>0. PICK hd : hd = RxPlace(s, j) OBVIOUS
<1>2. \A k \in 1 .. D : s[k] # NULL /\ rxnext[s[k]] = RxPlace(s, k + 1) BY DEF RxOrder, RxLinked
<1>. DEFINE Step(f, i) == IF i = 0 THEN hd ELSE IF f[i - 1] = NULL THEN NULL ELSE rxnext[f[i - 1]]
            F == CHOOSE f : f = [i \in 0 .. D |->
                   IF i = 0 THEN hd ELSE IF f[i - 1] = NULL THEN NULL ELSE rxnext[f[i - 1]]]
<1>3. Rx!Walk(hd) = F BY DEF Rx!Walk
<1>4. PICK g : g = [i \in 0 .. D |-> RxPlace(s, j + i)] OBVIOUS
<1>5. ASSUME NEW i \in 0 .. D PROVE RxPlace(s, j + i) = Step(g, i)
  <2>1. CASE i = 0
    <3>1. j + i = j BY <2>1
    <3>. QED BY <1>0, <2>1, <3>1
  <2>2. CASE i # 0
    <3>1. i - 1 \in 0 .. D /\ j + (i - 1) \in Nat /\ j + (i - 1) + 1 = j + i BY <2>2
    <3>2. g[i - 1] = RxPlace(s, j + (i - 1)) BY <1>4, <3>1
    <3>3. CASE j + (i - 1) <= D
      <4>1. j + (i - 1) \in 1 .. D BY <3>1, <3>3
      <4>2. g[i - 1] = s[j + (i - 1)] BY <3>2, <3>3 DEF RxPlace
      <4>. QED BY <1>2, <2>2, <3>1, <4>1, <4>2
    <3>4. CASE ~(j + (i - 1) <= D)
      <4>1. ~(j + i <= D) BY <3>1, <3>4
      <4>2. g[i - 1] = NULL /\ RxPlace(s, j + i) = NULL BY <3>2, <3>4, <4>1 DEF RxPlace
      <4>. QED BY <2>2, <4>2
    <3>. QED BY <3>3, <3>4
  <2>. QED BY <2>1, <2>2
<1>6. F = [i \in 0 .. D |-> Step(F, i)]
  <2>1. \E f : f = [i \in 0 .. D |->
                   IF i = 0 THEN hd ELSE IF f[i - 1] = NULL THEN NULL ELSE rxnext[f[i - 1]]]
    BY <1>4, <1>5
  <2>. QED BY <2>1
<1>. DEFINE B == {i \in 0 .. D : F[i] # RxPlace(s, j + i)}
<1>7. B = {}
  <2>. HIDE DEF F
  <2>. SUFFICES ASSUME B # {} PROVE FALSE OBVIOUS
  <2>1. B \subseteq Nat OBVIOUS
  <2>2. PICK m \in B : \A k \in B : m <= k BY <2>1, LeastOf
  <2>3. m \in 0 .. D /\ m \in Nat /\ F[m] # RxPlace(s, j + m) BY <2>1
  <2>4. CASE m = 0 BY <1>5, <1>6, <2>3, <2>4
  <2>5. CASE m # 0
    <3>1. m - 1 \in 0 .. D /\ ~(m <= m - 1) BY <2>3, <2>5
    <3>2. F[m - 1] = RxPlace(s, j + (m - 1)) BY <2>2, <3>1
    <3>3. g[m - 1] = F[m - 1] BY <1>4, <3>1, <3>2
    <3>4. Step(F, m) = Step(g, m) BY <3>3
    <3>. QED BY <1>5, <1>6, <2>3, <3>4
  <2>. QED BY <2>4, <2>5
<1>. QED BY <1>0, <1>3, <1>7

-----------------------------------------------------------------------------
(* The steps.                                                              *)

(* What a step leaves alone when only the pool, the interrupt or the place *)
(* in the handler changes.                                                 *)
LEMMA RxShapeKept ==
  ASSUME NEW s, NEW c, RxShape(s, c), UNCHANGED <<Rx!chain, rxhdp>>
  PROVE  RxShape(s, c)'
BY DEF RxShape, RxOrder, RxLinked, RxEnds, RxFrames, Rx!chain, RxPlace

(* The DMA moves c to behind the frame.                                    *)
LEMMA RxDmaStep ==
  ASSUME RxIInv, NEW l \in 1 .. MaxLen, Rx!Dma(l)
  PROVE  RxIInv'
<1>. USE RxNumbers
<1>1. rxhdp # NULL BY DEF Rx!Dma
<1>2. PICK s \in [1 .. D -> RxBD], c \in 1 .. D + 1 : RxShape(s, c) BY <1>1 DEF RxIInv, RxDead
<1>3. PICK m : m = freed_pbuf_len OBVIOUS
<1>4. m \in 0 .. D BY <1>3 DEF RxIInv, Rx!TypeOK
<1>5. rxhdp = RxPlace(s, c) /\ c \in 1 .. D /\ rxhdp = s[c] /\ c >= m + 1
  BY <1>1, <1>2, <1>3, <1>4 DEF RxShape, RxFrames, RxPlace
<1>6. PICK at : at = Rx!Walk(rxhdp) OBVIOUS
<1>7. \A i \in 0 .. D : at[i] = RxPlace(s, c + i)
  <2>1. RxOrder(s) /\ RxLinked(s) /\ c \in 1 .. D + 1 BY <1>2 DEF RxShape
  <2>2. \A i \in 0 .. D : Rx!Walk(RxPlace(s, c))[i] = RxPlace(s, c + i) BY <2>1, RxReach
  <2>. QED BY <1>5, <1>6, <2>2
<1>8. l - 1 \in 0 .. D /\ \A i \in 0 .. l - 1 : i \in 0 .. D OBVIOUS
<1>9. NULL \notin {at[i] : i \in 0 .. l - 1} BY <1>6 DEF Rx!Dma
<1>10. c + l - 1 <= D
  <2>1. at[l - 1] # NULL BY <1>8, <1>9
  <2>2. at[l - 1] = RxPlace(s, c + (l - 1)) BY <1>7, <1>8
  <2>. QED BY <2>1, <2>2 DEF RxPlace
<1>11. PICK z \in Nat : z = c + l /\ z <= D + 1 /\ z - 1 \in 1 .. D /\ z > c BY <1>5, <1>10
<1>12. \A i \in 0 .. l - 1 : at[i] = s[c + i] /\ c + i \in c .. z - 1
  BY <1>5, <1>7, <1>8, <1>10, <1>11 DEF RxPlace
<1>13. {at[i] : i \in 0 .. l - 1} = {s[k] : k \in c .. z - 1}
  <2>1. \A k \in c .. z - 1 : k - c \in 0 .. l - 1 /\ c + (k - c) = k BY <1>5, <1>11
  <2>2. \A k \in c .. z - 1 : s[k] = at[k - c] BY <1>12, <2>1
  <2>3. {at[i] : i \in 0 .. l - 1} \subseteq {s[k] : k \in c .. z - 1} BY <1>12
  <2>4. {s[k] : k \in c .. z - 1} \subseteq {at[i] : i \in 0 .. l - 1} BY <2>1, <2>2
  <2>. QED BY <2>3, <2>4
<1>14. at[l - 1] = s[z - 1]
  <2>1. l - 1 \in 0 .. l - 1 /\ c + (l - 1) = z - 1 BY <1>5, <1>11
  <2>. QED BY <1>12, <2>1
<1>15. rxnext[s[z - 1]] = RxPlace(s, z) /\ rxhdp' = RxPlace(s, z)
  <2>1. rxnext[s[z - 1]] = RxPlace(s, z - 1 + 1) /\ z - 1 + 1 = z BY <1>2, <1>11 DEF RxShape, RxLinked
  <2>2. rxhdp' = rxnext[at[l - 1]] BY <1>6 DEF Rx!Dma
  <2>. QED BY <1>14, <2>1, <2>2
<1>16. rxnext[s[z - 1]] = NULL <=> z = D + 1
  <2>1. z <= D => s[z] \in RxBD BY <1>2, <1>11
  <2>. QED BY <1>11, <1>15, <2>1 DEF RxPlace
<1>17. rxflags' = [b \in RxBD |->
          IF b \notin {s[k] : k \in c .. z - 1} THEN rxflags[b]
          ELSE (IF b = s[c] THEN {"SOP"} ELSE {})
                 \cup (IF b # s[z - 1] THEN {}
                       ELSE IF rxnext[b] = NULL THEN {"EOP", "EOQ"} ELSE {"EOP"})]
  BY <1>5, <1>6, <1>13, <1>14 DEF Rx!Dma
<1>18. \A k \in 1 .. D : (k < c \/ k >= z) => rxflags'[s[k]] = rxflags[s[k]]
  <2>1. ASSUME NEW k \in 1 .. D, k < c \/ k >= z PROVE s[k] \notin {s[i] : i \in c .. z - 1}
    BY <1>2, <1>5, <1>11, <2>1 DEF RxShape, RxOrder
  <2>. QED BY <1>2, <1>17, <2>1
<1>19. /\ "SOP" \in rxflags'[s[c]]
       /\ "EOP" \in rxflags'[s[z - 1]]
       /\ "EOQ" \in rxflags'[s[z - 1]] <=> z = D + 1
  <2>1. c \in c .. z - 1 /\ z - 1 \in c .. z - 1 BY <1>5, <1>11
  <2>2. s[c] \in RxBD /\ s[z - 1] \in RxBD BY <1>2, <1>5, <1>11
  <2>3. "SOP" \in rxflags'[s[c]] BY <1>17, <2>1, <2>2
  <2>4. "EOP" \in rxflags'[s[z - 1]] BY <1>17, <2>1, <2>2
  <2>5. "EOQ" \in rxflags'[s[z - 1]] <=> rxnext[s[z - 1]] = NULL BY <1>17, <2>1, <2>2
  <2>. QED BY <1>16, <2>3, <2>4, <2>5
<1>20. \A k \in c .. z - 1 : k # c => "SOP" \notin rxflags'[s[k]]
  BY <1>2, <1>5, <1>11, <1>17 DEF RxShape, RxOrder
<1>21. \A k \in c .. z - 1 : k # z - 1 => "EOP" \notin rxflags'[s[k]]
  BY <1>2, <1>5, <1>11, <1>17 DEF RxShape, RxOrder
<1>22. UNCHANGED <<rxnext, held, rxfree_head, rxactive_head, rxactive_tail, freed_pbuf_len, rxpc,
                   avail, kept>> /\ rxpending' = TRUE
  BY DEF Rx!Dma
<1>23. Rx!TypeOK'
  <2>1. rxflags' \in [RxBD -> SUBSET {"SOP", "EOP", "OWNER", "EOQ"}]
    BY <1>17 DEF RxIInv, Rx!TypeOK
  <2>2. rxhdp' \in RxBD \cup {NULL} BY <1>2, <1>11, <1>15 DEF RxPlace
  <2>. QED BY <1>22, <2>1, <2>2 DEF RxIInv, Rx!TypeOK
<1>24. RxFrames(s, z)'
  <2>1. m + 1 < z BY <1>4, <1>5, <1>11
  <2>2. "SOP" \in rxflags'[s[m + 1]]
    <3>1. CASE m + 1 = c BY <1>19, <3>1
    <3>2. CASE m + 1 < c
      <4>1. m + 1 \in 1 .. D BY <1>4, <1>5, <3>2
      <4>. QED BY <1>2, <1>3, <1>18, <3>2, <4>1 DEF RxShape, RxFrames
    <3>. QED BY <1>4, <1>5, <3>1, <3>2
  <2>3. ASSUME NEW k \in m + 1 .. z - 1, "SOP" \in rxflags'[s[k]]
        PROVE  \E e \in k .. z - 1 : e < k + MaxLen /\ "EOP" \in rxflags'[s[e]]
    <3>1. CASE k >= c
      <4>1. k = c BY <1>4, <1>5, <1>11, <1>20, <2>3, <3>1
      <4>2. z - 1 \in k .. z - 1 /\ z - 1 < k + MaxLen BY <1>5, <1>11, <4>1
      <4>. QED BY <1>19, <4>2
    <3>2. CASE k < c
      <4>1. k \in 1 .. D /\ k \in m + 1 .. c - 1 BY <1>4, <1>5, <3>2
      <4>2. PICK e \in k .. c - 1 : e < k + MaxLen /\ "EOP" \in rxflags[s[e]]
        BY <1>2, <1>3, <1>18, <2>3, <3>2, <4>1 DEF RxShape, RxFrames
      <4>3. e \in k .. z - 1 /\ e \in 1 .. D /\ e < c BY <1>5, <1>11, <4>1
      <4>. QED BY <1>18, <4>2, <4>3
    <3>. QED BY <1>4, <1>5, <1>11, <3>1, <3>2
  <2>4. ASSUME NEW k \in m + 1 .. z - 2, "EOP" \in rxflags'[s[k]]
        PROVE  "SOP" \in rxflags'[s[k + 1]]
    <3>1. CASE k >= c BY <1>4, <1>5, <1>11, <1>21, <2>4, <3>1
    <3>2. CASE k + 1 = c BY <1>19, <3>2
    <3>3. CASE k + 1 < c
      <4>1. k \in 1 .. D /\ k + 1 \in 1 .. D /\ k \in m + 1 .. c - 2 /\ k < c BY <1>4, <1>5, <3>3
      <4>. QED BY <1>2, <1>3, <1>18, <2>4, <3>3, <4>1 DEF RxShape, RxFrames
    <3>. QED BY <1>4, <1>5, <1>11, <3>1, <3>2, <3>3
  <2>5. ASSUME NEW k \in z .. D PROVE rxflags'[s[k]] = {"OWNER"}
    <3>1. k \in 1 .. D /\ k \in c .. D /\ k >= z BY <1>5, <1>11
    <3>. QED BY <1>2, <1>18, <3>1 DEF RxShape, RxFrames
  <2>6. "EOQ" \in rxflags'[s[D]] <=> z = D + 1
    <3>1. CASE z = D + 1 BY <1>19, <3>1
    <3>2. CASE z # D + 1
      <4>1. D \in z .. D BY <1>11, <3>2
      <4>2. rxflags'[s[D]] = {"OWNER"} BY <2>5, <4>1
      <4>. QED BY <3>2, <4>2
    <3>. QED BY <3>1, <3>2
  <2>7. z \in m + 1 .. D + 1 BY <1>4, <1>11, <2>1
  <2>. QED BY <1>3, <1>15, <1>22, <2>2, <2>3, <2>4, <2>5, <2>6, <2>7 DEF RxFrames, RxPlace
<1>25. RxShape(s, z)'
  BY <1>2, <1>22, <1>24 DEF RxShape, RxOrder, RxLinked, RxEnds, RxPlace
<1>. QED BY <1>11, <1>22, <1>23, <1>25 DEF RxIInv
(* A frame is delivered: its descriptors are owed a pbuf.                  *)
LEMMA RxDeliverStep ==
  ASSUME RxIInv, NEW keep \in BOOLEAN, Rx!Deliver(keep)
  PROVE  /\ RxIInv'
         /\ rxactive_head' = NULL => freed_pbuf_len > 0
<1>. USE RxNumbers
<1>1. /\ rxpc = "loop" /\ rxactive_head # NULL
      /\ "SOP" \in rxflags[rxactive_head] /\ "OWNER" \notin rxflags[rxactive_head]
  BY DEF Rx!Deliver
<1>2. PICK s \in [1 .. D -> RxBD], c \in 1 .. D + 1 : RxShape(s, c) BY <1>1 DEF RxIInv, RxDead
<1>3. PICK m : m = freed_pbuf_len OBVIOUS
<1>4. m \in 0 .. D /\ avail \in 0 .. P /\ kept \in 0 .. MaxKept
  BY <1>3 DEF RxIInv, Rx!TypeOK
<1>5. m + 1 \in 1 .. D /\ rxactive_head = s[m + 1] /\ rxactive_head = RxPlace(s, m + 1)
  BY <1>1, <1>2, <1>3, <1>4 DEF RxShape, RxEnds, RxPlace
<1>6. c \in m + 2 .. D + 1
  <2>1. c \in m + 1 .. D + 1 BY <1>2, <1>3 DEF RxShape, RxFrames
  <2>2. c # m + 1
    <3>. SUFFICES ASSUME c = m + 1 PROVE FALSE OBVIOUS
    <3>0. m + 1 \in c .. D BY <1>5
    <3>1. rxflags[s[m + 1]] = {"OWNER"} BY <1>2, <3>0 DEF RxShape, RxFrames
    <3>. QED BY <1>1, <1>5, <3>1
  <2>. QED BY <1>4, <2>1, <2>2
<1>7. PICK at : at = Rx!Walk(rxactive_head) OBVIOUS
<1>8. \A i \in 0 .. D : at[i] = RxPlace(s, m + 1 + i)
  <2>1. RxOrder(s) /\ RxLinked(s) /\ m + 1 \in 1 .. D + 1 BY <1>2, <1>5 DEF RxShape
  <2>2. \A i \in 0 .. D : Rx!Walk(RxPlace(s, m + 1))[i] = RxPlace(s, m + 1 + i) BY <2>1, RxReach
  <2>. QED BY <1>5, <1>7, <2>2
<1>9. PICK ends : ends = {i \in 0 .. D - 1 : at[i] # NULL /\ "EOP" \in rxflags[at[i]]} OBVIOUS
<1>10. PICK e \in m + 1 .. c - 1 : e < m + 1 + MaxLen /\ "EOP" \in rxflags[s[e]]
  <2>1. m + 1 \in m + 1 .. c - 1 BY <1>4, <1>6
  <2>. QED BY <1>1, <1>2, <1>3, <1>5, <2>1 DEF RxShape, RxFrames
<1>11. e - (m + 1) \in ends
  <2>1. e - (m + 1) \in 0 .. D - 1 /\ m + 1 + (e - (m + 1)) = e /\ e \in 1 .. D BY <1>4, <1>6
  <2>2. at[e - (m + 1)] = RxPlace(s, e)
    <3>1. e - (m + 1) \in 0 .. D BY <2>1
    <3>2. at[e - (m + 1)] = RxPlace(s, m + 1 + (e - (m + 1))) BY <1>8, <3>1
    <3>. QED BY <2>1, <3>2
  <2>3. RxPlace(s, e) = s[e] /\ s[e] # NULL BY <1>2, <2>1 DEF RxPlace
  <2>. QED BY <1>9, <1>10, <2>1, <2>2, <2>3
<1>12. PICK last : last = CHOOSE i \in ends : \A f \in ends : i <= f OBVIOUS
<1>13. last \in ends /\ \A f \in ends : last <= f
  <2>1. ends \subseteq Nat /\ ends # {} BY <1>9, <1>11
  <2>2. \E i \in ends : \A f \in ends : i <= f BY <2>1, LeastOf
  <2>. QED BY <1>12, <2>2
<1>14. last \in 0 .. D - 1 /\ last <= e - (m + 1) BY <1>9, <1>11, <1>13
<1>15. PICK q \in Nat : /\ q = m + last + 1 /\ q \in m + 1 .. c - 1 /\ q \in 1 .. D /\ q <= m + MaxLen
                         /\ m + 1 + last = q
  BY <1>4, <1>6, <1>10, <1>14
<1>16. at[last] = s[q] /\ "EOP" \in rxflags[s[q]]
  <2>1. last \in 0 .. D /\ at[last] = RxPlace(s, m + 1 + last) BY <1>8, <1>14
  <2>2. at[last] = s[q] BY <1>15, <2>1 DEF RxPlace
  <2>. QED BY <1>9, <1>13, <2>2
<1>17. PICK frame : frame = {at[i] : i \in 0 .. last} OBVIOUS
<1>18. frame = {s[k] : k \in m + 1 .. q}
  <2>1. \A i \in 0 .. last : at[i] = s[m + 1 + i] /\ m + 1 + i \in m + 1 .. q
    <3>. SUFFICES ASSUME NEW i \in 0 .. last PROVE at[i] = s[m + 1 + i] /\ m + 1 + i \in m + 1 .. q
      OBVIOUS
    <3>1. i \in 0 .. D /\ m + 1 + i <= D /\ m + 1 + i \in m + 1 .. q BY <1>4, <1>14, <1>15
    <3>. QED BY <1>8, <3>1 DEF RxPlace
  <2>2. \A k \in m + 1 .. q : k - (m + 1) \in 0 .. last /\ m + 1 + (k - (m + 1)) = k
    BY <1>4, <1>14, <1>15
  <2>3. \A k \in m + 1 .. q : s[k] = at[k - (m + 1)] BY <2>1, <2>2
  <2>4. frame \subseteq {s[k] : k \in m + 1 .. q} BY <1>17, <2>1
  <2>5. {s[k] : k \in m + 1 .. q} \subseteq frame BY <1>17, <2>2, <2>3
  <2>. QED BY <2>4, <2>5
<1>19. Cardinality(frame) = last + 1
  <2>1. m + 1 \in 1 .. D + 1 /\ q \in 0 .. D /\ m + 1 <= q + 1 BY <1>5, <1>15
  <2>2. Cardinality(frame) = q - (m + 1) + 1 BY <1>2, <1>18, <2>1, RxCount DEF RxShape
  <2>. QED BY <1>4, <1>14, <1>15, <2>2
<1>20. /\ rxfree_head' = IF rxfree_head = NULL THEN rxactive_head ELSE rxfree_head
       /\ rxactive_head' = rxnext[at[last]]
       /\ held' = held \ frame
       /\ freed_pbuf_len' = freed_pbuf_len + Cardinality(frame)
       /\ \/ kept' = kept + last + 1 /\ kept' <= MaxKept /\ avail' = avail
          \/ avail' = avail + last + 1 /\ kept' = kept
       /\ rxpc' = "refill"
       /\ UNCHANGED <<rxnext, rxflags, rxactive_tail, rxhdp, rxpending>>
  <2>1. rxactive_head' = rxnext[at[last]] BY <1>7, <1>9, <1>12 DEF Rx!Deliver
  <2>2. held' = held \ frame BY <1>7, <1>9, <1>12, <1>17 DEF Rx!Deliver
  <2>3. freed_pbuf_len' = freed_pbuf_len + Cardinality(frame)
    <3>1. freed_pbuf_len' = freed_pbuf_len + Rx!Cardinality(frame)
      BY <1>7, <1>9, <1>12, <1>17 DEF Rx!Deliver
    <3>. QED BY <3>1, RxCardinality
  <2>4. keep => kept + last + 1 <= MaxKept BY <1>7, <1>9, <1>12 DEF Rx!Deliver
  <2>5. IF keep THEN kept' = kept + last + 1 /\ UNCHANGED avail
               ELSE avail' = avail + last + 1 /\ UNCHANGED kept
    BY <1>7, <1>9, <1>12 DEF Rx!Deliver
  <2>6. /\ rxfree_head' = IF rxfree_head = NULL THEN rxactive_head ELSE rxfree_head
        /\ rxpc' = "refill"
        /\ UNCHANGED <<rxnext, rxflags, rxactive_tail, rxhdp, rxpending>>
    BY DEF Rx!Deliver, Rx!FreeHead
  <2>. QED BY <2>1, <2>2, <2>3, <2>4, <2>5, <2>6
<1>21. freed_pbuf_len' = q BY <1>3, <1>4, <1>14, <1>15, <1>19, <1>20
<1>22. rxactive_head' = RxPlace(s, q + 1) BY <1>2, <1>15, <1>16, <1>20 DEF RxShape, RxLinked
<1>23. rxactive_head' = NULL => m > 0
  <2>. SUFFICES ASSUME m = 0, rxactive_head' = NULL PROVE FALSE BY <1>4
  <2>1. q + 1 \in 1 .. D BY <1>15
  <2>. QED BY <1>2, <1>22, <2>1 DEF RxPlace
<1>24. RxEnds(s)'
  <2>1. rxfree_head' = s[1]
    <3>1. CASE rxfree_head = NULL
      <4>1. m = 0 BY <1>2, <1>3, <3>1 DEF RxShape, RxEnds, RxOrder
      <4>2. m + 1 = 1 BY <4>1
      <4>. QED BY <1>5, <1>20, <3>1, <4>2
    <3>2. CASE rxfree_head # NULL BY <1>2, <1>20, <3>2 DEF RxShape, RxEnds
    <3>. QED BY <3>1, <3>2
  <2>2. held' = {s[k] : k \in q + 1 .. D}
    <3>1. held = {s[k] : k \in m + 1 .. D} BY <1>2, <1>3 DEF RxShape, RxEnds
    <3>2. \A j, k \in 1 .. D : s[j] = s[k] => j = k BY <1>2 DEF RxShape, RxOrder
    <3>3. \A k \in q + 1 .. D : k \in m + 1 .. D /\ k \in 1 .. D BY <1>4, <1>15
    <3>4. \A k \in m + 1 .. q : k \in 1 .. D BY <1>4, <1>15
    <3>5. {s[k] : k \in q + 1 .. D} \subseteq held \ frame
      <4>. SUFFICES ASSUME NEW k \in q + 1 .. D PROVE s[k] \in held /\ s[k] \notin frame OBVIOUS
      <4>1. s[k] \in held BY <3>1, <3>3
      <4>2. ASSUME NEW j \in m + 1 .. q PROVE s[k] # s[j]
        <5>1. k # j BY <1>4, <1>15
        <5>. QED BY <3>2, <3>3, <3>4, <5>1
      <4>. QED BY <1>18, <4>1, <4>2
    <3>6. held \ frame \subseteq {s[k] : k \in q + 1 .. D}
      <4>1. \A k \in m + 1 .. D : k \in m + 1 .. q \/ k \in q + 1 .. D BY <1>4, <1>15
      <4>. QED BY <1>18, <3>1, <4>1
    <3>. QED BY <1>20, <3>5, <3>6
  <2>. QED BY <1>2, <1>20, <1>21, <1>22, <2>1, <2>2 DEF RxShape, RxEnds, RxPlace
<1>25. RxFrames(s, c)'
  <2>1. c \in q + 1 .. D + 1 BY <1>4, <1>6, <1>15
  <2>2. q + 1 < c => "SOP" \in rxflags[s[q + 1]]
    <3>1. q + 1 < c => q \in m + 1 .. c - 2 BY <1>4, <1>6, <1>15
    <3>. QED BY <1>2, <1>3, <1>16, <3>1 DEF RxShape, RxFrames
  <2>3. \A k \in q + 1 .. c - 1 : k \in m + 1 .. c - 1 BY <1>4, <1>6, <1>15
  <2>4. \A k \in q + 1 .. c - 2 : k \in m + 1 .. c - 2 BY <1>4, <1>6, <1>15
  <2>. QED BY <1>2, <1>3, <1>20, <1>21, <2>1, <2>2, <2>3, <2>4 DEF RxShape, RxFrames, RxPlace
<1>26. RxShape(s, c)' BY <1>2, <1>20, <1>24, <1>25 DEF RxShape, RxOrder, RxLinked, RxPlace
<1>27. (avail + kept + D = P + freed_pbuf_len)' /\ avail' \in 0 .. P /\ kept' \in 0 .. MaxKept
  <2>1. avail + kept + D = P + m BY <1>3 DEF RxIInv
  <2>2. CASE kept' = kept + last + 1 /\ kept' <= MaxKept /\ avail' = avail
    BY <1>4, <1>14, <1>15, <1>21, <2>1, <2>2
  <2>3. CASE avail' = avail + last + 1 /\ kept' = kept BY <1>4, <1>14, <1>15, <1>21, <2>1, <2>3
  <2>. QED BY <1>20, <2>2, <2>3
<1>28. Rx!TypeOK'
  <2>1. rxactive_head' \in RxBD \cup {NULL}
    <3>1. CASE q + 1 <= D BY <1>2, <1>15, <1>22, <3>1 DEF RxPlace
    <3>2. CASE ~(q + 1 <= D) BY <1>22, <3>2 DEF RxPlace
    <3>. QED BY <3>1, <3>2
  <2>2. rxfree_head' \in RxBD \cup {NULL} BY <1>20 DEF RxIInv, Rx!TypeOK
  <2>3. held' \subseteq RxBD BY <1>20 DEF RxIInv, Rx!TypeOK
  <2>4. freed_pbuf_len' \in 0 .. D BY <1>15, <1>21
  <2>. QED BY <1>20, <1>27, <2>1, <2>2, <2>3, <2>4 DEF RxIInv, Rx!TypeOK
<1>29. freed_pbuf_len' > 0 BY <1>15, <1>21
<1>. QED BY <1>3, <1>23, <1>26, <1>27, <1>28, <1>29 DEF RxIInv
(* The descriptors that were owed a pbuf, moved behind the others.         *)
RxTurned(s, m) == [k \in 1 .. D |-> IF k <= D - m THEN s[k + m] ELSE s[k - (D - m)]]

(* A list of all descriptors stays one when its first m go to the end.     *)
LEMMA RxTurnedOrder ==
  ASSUME NEW s, RxOrder(s), NEW m \in 1 .. D - 1
  PROVE  RxOrder(RxTurned(s, m))
<1>. USE RxNumbers
<1>1. PICK t : t = RxTurned(s, m) OBVIOUS
<1>2. \A k \in 1 .. D : t[k] = IF k <= D - m THEN s[k + m] ELSE s[k - (D - m)]
  BY <1>1 DEF RxTurned
<1>3. \A k \in 1 .. D : k <= D - m => k + m \in 1 .. D /\ k + m > m OBVIOUS
<1>4. \A k \in 1 .. D : ~(k <= D - m) => k - (D - m) \in 1 .. D /\ k - (D - m) <= m OBVIOUS
<1>5. t \in [1 .. D -> RxBD] BY <1>1, <1>3, <1>4 DEF RxTurned, RxOrder
<1>6. ASSUME NEW j \in 1 .. D, NEW k \in 1 .. D, t[j] = t[k] PROVE j = k
  <2>1. \A a, b \in 1 .. D : s[a] = s[b] => a = b BY DEF RxOrder
  <2>2. CASE j <= D - m /\ k <= D - m BY <1>2, <1>3, <1>6, <2>1, <2>2
  <2>3. CASE j <= D - m /\ ~(k <= D - m)
    <3>1. s[j + m] = s[k - (D - m)] BY <1>2, <1>6, <2>3
    <3>. QED BY <1>3, <1>4, <2>1, <2>3, <3>1
  <2>4. CASE ~(j <= D - m) /\ k <= D - m
    <3>1. s[k + m] = s[j - (D - m)] BY <1>2, <1>6, <2>4
    <3>. QED BY <1>3, <1>4, <2>1, <2>4, <3>1
  <2>5. CASE ~(j <= D - m) /\ ~(k <= D - m) BY <1>2, <1>4, <1>6, <2>1, <2>5
  <2>. QED BY <2>2, <2>3, <2>4, <2>5
<1>7. ASSUME NEW b \in RxBD PROVE \E k \in 1 .. D : t[k] = b
  <2>1. PICK i \in 1 .. D : s[i] = b BY DEF RxOrder
  <2>2. CASE i <= m
    <3>1. i + (D - m) \in 1 .. D /\ ~(i + (D - m) <= D - m) /\ i + (D - m) - (D - m) = i BY <2>2
    <3>2. PICK k \in 1 .. D : k = i + (D - m) BY <3>1
    <3>3. t[k] = s[k - (D - m)] BY <1>2, <3>1, <3>2
    <3>. QED BY <2>1, <3>1, <3>2, <3>3
  <2>3. CASE i > m
    <3>1. i - m \in 1 .. D /\ i - m <= D - m /\ i - m + m = i BY <2>3
    <3>. QED BY <1>2, <2>1, <3>1
  <2>. QED BY <2>2, <2>3
<1>. QED BY <1>1, <1>5, <1>6, <1>7 DEF RxOrder

(* What Refill does, in places: the first freed_pbuf_len are filled.       *)
RxRefilled(s, m) ==
  /\ m \in 1 .. D /\ rxfree_head = s[1] /\ avail >= m
  /\ rxflags' = [b \in RxBD |-> IF b \in {s[k] : k \in 1 .. m} THEN {"OWNER"} ELSE rxflags[b]]
  /\ held' = held \cup {s[k] : k \in 1 .. m}
  /\ freed_pbuf_len' = 0 /\ avail' = avail - m
  /\ rxnext' = [rxnext EXCEPT ![s[m]] = NULL, ![s[D]] = s[1]]
  /\ rxhdp' = IF "EOQ" \in rxflags'[s[D]] THEN s[1] ELSE rxhdp
  /\ rxfree_head' = RxPlace(s, m + 1) /\ rxactive_tail' = s[m]
  /\ rxpc' = "loop" /\ UNCHANGED <<rxactive_head, rxpending, kept>>

(* hdkif_rx_inthandler fills every descriptor that is owed a pbuf.          *)
LEMMA RxRefillEffect ==
  ASSUME RxIInv, Rx!Refill, NEW s, NEW c, RxShape(s, c), NEW m, m = freed_pbuf_len
  PROVE  RxRefilled(s, m)
<1>. USE RxNumbers
<1>1. rxpc = "refill" /\ avail >= m BY DEF Rx!Refill
<1>2. m \in 1 .. D BY <1>1 DEF RxIInv, Rx!TypeOK
<1>3. s \in [1 .. D -> RxBD] /\ \A j, k \in 1 .. D : s[j] = s[k] => j = k BY DEF RxShape, RxOrder
<1>4. rxfree_head = s[1] /\ rxactive_tail = s[D] /\ rxactive_head = RxPlace(s, m + 1)
  BY <1>2 DEF RxShape, RxEnds
<1>5. PICK at : at = Rx!Walk(rxfree_head) OBVIOUS
<1>6. \A i \in 0 .. D : at[i] = RxPlace(s, 1 + i)
  <2>1. RxOrder(s) /\ RxLinked(s) /\ 1 \in 1 .. D + 1 BY DEF RxShape
  <2>2. \A i \in 0 .. D : Rx!Walk(RxPlace(s, 1))[i] = RxPlace(s, 1 + i) BY <2>1, RxReach
  <2>3. RxPlace(s, 1) = s[1] BY DEF RxPlace
  <2>. QED BY <1>4, <1>5, <2>2, <2>3
<1>7. PICK room : room = {i \in 0 .. D - 1 : \A j \in 0 .. i :
                            at[j] # NULL /\ at[j] # rxactive_head /\ j < freed_pbuf_len}
  OBVIOUS
<1>8. \A j \in 0 .. m - 1 : at[j] = s[j + 1] /\ j + 1 \in 1 .. m /\ j + 1 \in 1 .. D
  <2>. SUFFICES ASSUME NEW j \in 0 .. m - 1
                PROVE  at[j] = s[j + 1] /\ j + 1 \in 1 .. m /\ j + 1 \in 1 .. D
    OBVIOUS
  <2>1. j \in 0 .. D /\ 1 + j = j + 1 /\ j + 1 <= D /\ j + 1 \in 1 .. m BY <1>2
  <2>. QED BY <1>6, <2>1 DEF RxPlace
<1>9. room = 0 .. m - 1
  <2>1. ASSUME NEW j \in 0 .. m - 1 PROVE at[j] # NULL /\ at[j] # rxactive_head /\ j < m
    <3>1. at[j] = s[j + 1] /\ j + 1 \in 1 .. D /\ s[j + 1] # NULL BY <1>3, <1>8
    <3>2. rxactive_head = NULL \/ (m + 1 \in 1 .. D /\ rxactive_head = s[m + 1])
      BY <1>2, <1>4 DEF RxPlace
    <3>3. j + 1 # m + 1 /\ j < m BY <1>2
    <3>. QED BY <1>3, <3>1, <3>2, <3>3
  <2>2. ASSUME NEW i \in 0 .. m - 1 PROVE i \in room
    <3>1. i \in 0 .. D - 1 /\ \A j \in 0 .. i : j \in 0 .. m - 1 BY <1>2
    <3>. QED BY <1>7, <2>1, <3>1
  <2>3. ASSUME NEW i \in room PROVE i \in 0 .. m - 1
    <3>1. i \in 0 .. D - 1 /\ i \in 0 .. i BY <1>7
    <3>2. i < freed_pbuf_len BY <1>7, <3>1
    <3>. QED BY <1>2, <3>1, <3>2
  <2>. QED BY <2>2, <2>3
<1>10. Rx!Cardinality(room) = m
  <2>1. Cardinality(0 .. m - 1) = IF 0 > m - 1 THEN 0 ELSE m - 1 - 0 + 1 BY <1>2, FS_Interval
  <2>2. Cardinality(0 .. m - 1) = m BY <1>2, <2>1
  <2>. QED BY <1>9, <2>2, RxCardinality
<1>11. PICK filled : filled = {at[i] : i \in room} OBVIOUS
<1>12. filled = {s[k] : k \in 1 .. m}
  <2>1. \A k \in 1 .. m : k - 1 \in 0 .. m - 1 /\ k - 1 + 1 = k BY <1>2
  <2>2. \A k \in 1 .. m : s[k] = at[k - 1] BY <1>8, <2>1
  <2>3. filled \subseteq {s[k] : k \in 1 .. m} BY <1>8, <1>9, <1>11
  <2>4. {s[k] : k \in 1 .. m} \subseteq filled BY <1>9, <1>11, <2>1, <2>2
  <2>. QED BY <2>3, <2>4
<1>13. at[m - 1] = s[m] /\ at[m] = RxPlace(s, m + 1)
  <2>1. m - 1 \in 0 .. m - 1 /\ m - 1 + 1 = m BY <1>2
  <2>2. m \in 0 .. D /\ 1 + m = m + 1 BY <1>2
  <2>3. at[m - 1] = s[m - 1 + 1] BY <1>8, <2>1
  <2>4. at[m] = RxPlace(s, 1 + m) BY <1>6, <2>2
  <2>. QED BY <2>1, <2>2, <2>3, <2>4
<1>14. /\ rxflags' = [b \in RxBD |-> IF b \in filled THEN {"OWNER"} ELSE rxflags[b]]
       /\ held' = held \cup filled
  BY <1>5, <1>7, <1>11 DEF Rx!Refill
<1>15. /\ freed_pbuf_len' = freed_pbuf_len - m
       /\ avail' = avail - m
  BY <1>5, <1>7, <1>10 DEF Rx!Refill, Rx!FreedAfter
<1>16. rxnext' = [rxnext EXCEPT ![at[m - 1]] = NULL, ![rxactive_tail] = rxfree_head]
  BY <1>5, <1>7, <1>10 DEF Rx!Refill, Rx!Link
<1>17. rxhdp' = IF "EOQ" \in rxflags'[rxactive_tail] THEN rxfree_head ELSE rxhdp
  BY DEF Rx!Refill, Rx!Restart
<1>18. rxfree_head' = at[m] /\ rxactive_tail' = at[m - 1] BY <1>5, <1>7, <1>10 DEF Rx!Refill
<1>19. rxpc' = "loop" /\ UNCHANGED <<rxactive_head, rxpending, kept>> BY DEF Rx!Refill
<1>20. freed_pbuf_len' = 0 BY <1>2, <1>15
<1>. QED BY <1>1, <1>2, <1>4, <1>12, <1>13, <1>14, <1>15, <1>16, <1>17, <1>18, <1>19, <1>20
        DEF RxRefilled

(* A refill keeps the shape: the filled descriptors go to the tail.         *)
LEMMA RxRefillStep ==
  ASSUME RxIInv, Rx!Refill
  PROVE  RxIInv'
<1>. USE RxNumbers
<1>1. PICK s \in [1 .. D -> RxBD], c \in 1 .. D + 1 : RxShape(s, c)
  <2>1. rxpc = "refill" BY DEF Rx!Refill
  <2>. QED BY <2>1 DEF RxIInv, RxDead
<1>2. PICK m : m = freed_pbuf_len OBVIOUS
<1>3. /\ m \in 1 .. D /\ rxfree_head = s[1] /\ avail >= m
      /\ rxflags' = [b \in RxBD |-> IF b \in {s[k] : k \in 1 .. m} THEN {"OWNER"} ELSE rxflags[b]]
      /\ held' = held \cup {s[k] : k \in 1 .. m}
      /\ freed_pbuf_len' = 0 /\ avail' = avail - m
      /\ rxnext' = [rxnext EXCEPT ![s[m]] = NULL, ![s[D]] = s[1]]
      /\ rxhdp' = IF "EOQ" \in rxflags'[s[D]] THEN s[1] ELSE rxhdp
      /\ rxfree_head' = RxPlace(s, m + 1) /\ rxactive_tail' = s[m]
      /\ rxpc' = "loop" /\ UNCHANGED <<rxactive_head, rxpending, kept>>
  <2>1. RxRefilled(s, m) BY <1>1, <1>2, RxRefillEffect
  <2>. QED BY <2>1 DEF RxRefilled
<1>4. s \in [1 .. D -> RxBD] /\ \A j, k \in 1 .. D : s[j] = s[k] => j = k BY <1>1 DEF RxShape, RxOrder
<1>5. held' = RxBD
  <2>1. held = {s[k] : k \in m + 1 .. D} BY <1>1, <1>2 DEF RxShape, RxEnds
  <2>2. \A k \in 1 .. D : k \in 1 .. m \/ k \in m + 1 .. D BY <1>3
  <2>3. RxBD \subseteq held' BY <1>1, <1>3, <2>1, <2>2 DEF RxShape, RxOrder
  <2>4. \A k \in m + 1 .. D : s[k] \in RxBD BY <1>3, <1>4
  <2>5. \A k \in 1 .. m : s[k] \in RxBD BY <1>3, <1>4
  <2>. QED BY <1>3, <2>1, <2>3, <2>4, <2>5
<1>6. (avail + kept + D = P + freed_pbuf_len)' /\ avail' \in 0 .. P
  <2>1. avail + kept + D = P + m /\ avail \in 0 .. P /\ kept \in 0 .. MaxKept
    BY <1>2 DEF RxIInv, Rx!TypeOK
  <2>2. m \in 1 .. D /\ avail >= m /\ avail' = avail - m /\ freed_pbuf_len' = 0 /\ kept' = kept BY <1>3
  <2>3. avail' + kept' + D = P + freed_pbuf_len' BY <2>1, <2>2
  <2>. QED BY <2>1, <2>2, <2>3
<1>7. Rx!TypeOK'
  <2>1. s[1] \in RxBD /\ s[m] \in RxBD /\ s[D] \in RxBD BY <1>3, <1>4
  <2>2. rxnext' \in [RxBD -> RxBD \cup {NULL}] BY <1>3, <2>1 DEF RxIInv, Rx!TypeOK
  <2>3. rxflags' \in [RxBD -> SUBSET {"SOP", "EOP", "OWNER", "EOQ"}] BY <1>3 DEF RxIInv, Rx!TypeOK
  <2>4. rxhdp' \in RxBD \cup {NULL} BY <1>3, <2>1 DEF RxIInv, Rx!TypeOK
  <2>5. rxfree_head' \in RxBD \cup {NULL}
    <3>1. m + 1 <= D => s[m + 1] \in RxBD BY <1>3, <1>4
    <3>. QED BY <1>3, <3>1 DEF RxPlace
  <2>6. freed_pbuf_len' \in 0 .. D /\ rxpc' \in {"main", "loop", "refill"} BY <1>3
  <2>7. rxactive_tail' \in RxBD BY <1>3, <2>1
  <2>8. UNCHANGED <<rxactive_head, rxpending, kept>> BY <1>3
  <2>. QED BY <1>5, <1>6, <2>2, <2>3, <2>4, <2>5, <2>6, <2>7, <2>8 DEF RxIInv, Rx!TypeOK
<1>8. CASE m = D
  <2>1. rxactive_head = NULL
    <3>1. ~(m + 1 <= D) BY <1>8
    <3>. QED BY <1>1, <1>2, <3>1 DEF RxShape, RxEnds, RxPlace
  <2>2. rxhdp = NULL
    <3>1. c = D + 1 BY <1>1, <1>2, <1>8 DEF RxShape, RxFrames
    <3>2. ~(c <= D) BY <3>1
    <3>. QED BY <1>1, <3>2 DEF RxShape, RxFrames, RxPlace
  <2>3. "EOQ" \notin rxflags'[s[D]]
    <3>1. D \in 1 .. m /\ s[D] \in RxBD BY <1>4, <1>8
    <3>2. rxflags'[s[D]] = {"OWNER"} BY <1>3, <3>1
    <3>. QED BY <3>2
  <2>4. RxDead' BY <1>3, <1>5, <2>1, <2>2, <2>3 DEF RxDead
  <2>. QED BY <1>3, <1>6, <1>7, <2>4 DEF RxIInv
<1>9. CASE m # D
  <2>1. m \in 1 .. D - 1 /\ D - m \in 1 .. D - 1 BY <1>3, <1>9
  <2>2. PICK t : t = RxTurned(s, m) OBVIOUS
  <2>3. RxOrder(t) BY <1>1, <2>1, <2>2, RxTurnedOrder DEF RxShape
  <2>4. \A k \in 1 .. D : k <= D - m => t[k] = s[k + m] /\ k + m \in m + 1 .. D
    BY <2>1, <2>2 DEF RxTurned
  <2>5. \A k \in 1 .. D : k > D - m => t[k] = s[k - (D - m)] /\ k - (D - m) \in 1 .. m
    BY <2>1, <2>2 DEF RxTurned
  <2>6. t[1] = s[m + 1] /\ t[D - m] = s[D] /\ t[D] = s[m] /\ t[D - m + 1] = s[1]
    <3>1. 1 \in 1 .. D /\ 1 <= D - m /\ 1 + m = m + 1 BY <2>1
    <3>2. D - m \in 1 .. D /\ D - m + m = D BY <2>1
    <3>3. D \in 1 .. D /\ D > D - m /\ D - (D - m) = m BY <2>1
    <3>4. D - m + 1 \in 1 .. D /\ D - m + 1 > D - m /\ D - m + 1 - (D - m) = 1 BY <2>1
    <3>5. t[1] = s[1 + m] BY <2>4, <3>1
    <3>6. t[D - m] = s[D - m + m] BY <2>1, <2>4, <3>2
    <3>7. t[D] = s[D - (D - m)] BY <2>5, <3>3
    <3>8. PICK i \in 1 .. D : i = D - m + 1 /\ i > D - m /\ i - (D - m) = 1 BY <2>1
    <3>9. t[i] = s[i - (D - m)] BY <2>5, <3>8
    <3>. QED BY <3>1, <3>2, <3>3, <3>5, <3>6, <3>7, <3>8, <3>9
  <2>7. RxLinked(t)'
    <3>. SUFFICES ASSUME NEW k \in 1 .. D PROVE rxnext'[t[k]] = RxPlace(t, k + 1)
      BY DEF RxLinked, RxPlace
    <3>0. \A i \in 1 .. D : i # m /\ i # D => rxnext'[s[i]] = RxPlace(s, i + 1)
      <4>1. \A i \in 1 .. D : s[i] \in RxBD BY <1>4
      <4>2. rxnext \in [RxBD -> RxBD \cup {NULL}] BY DEF RxIInv, Rx!TypeOK
      <4>3. \A i \in 1 .. D : i # m /\ i # D => s[i] # s[m] /\ s[i] # s[D] BY <1>3, <1>4
      <4>4. \A i \in 1 .. D : i # m /\ i # D => rxnext'[s[i]] = rxnext[s[i]]
        BY <1>3, <4>1, <4>2, <4>3
      <4>. QED BY <1>1, <4>4 DEF RxShape, RxLinked
    <3>1. CASE k < D - m
      <4>1. k + 1 \in 1 .. D /\ k + 1 <= D - m /\ k + 1 <= D /\ k + m \in 1 .. D /\ k + m # m
            /\ k + m # D /\ k + m + 1 <= D /\ k + 1 + m = k + m + 1
        BY <2>1, <3>1
      <4>2. t[k] = s[k + m] /\ t[k + 1] = s[k + 1 + m] BY <2>1, <2>4, <3>1, <4>1
      <4>3. rxnext'[s[k + m]] = RxPlace(s, k + m + 1) BY <3>0, <4>1
      <4>. QED BY <4>1, <4>2, <4>3 DEF RxPlace
    <3>2. CASE k = D - m
      <4>1. D - m + 1 <= D BY <2>1
      <4>2. s[D] \in RxBD /\ s[m] \in RxBD /\ s[D] # s[m] BY <1>3, <1>4, <1>9
      <4>3. rxnext'[s[D]] = s[1] BY <1>3, <4>2 DEF RxIInv, Rx!TypeOK
      <4>. QED BY <2>6, <3>2, <4>1, <4>3 DEF RxPlace
    <3>3. CASE k > D - m /\ k < D
      <4>1. PICK i \in 1 .. D : i = k - (D - m) /\ i # m /\ i # D /\ i + 1 = k + 1 - (D - m) /\ i + 1 <= D
        BY <2>1, <3>3
      <4>2. k + 1 \in 1 .. D /\ k + 1 > D - m /\ k + 1 <= D BY <2>1, <3>3
      <4>3. t[k] = s[i] BY <2>5, <3>3, <4>1
      <4>5. PICK j \in 1 .. D : j = k + 1 /\ j > D - m /\ j - (D - m) = i + 1 BY <2>1, <4>1, <4>2
      <4>6. t[j] = s[j - (D - m)] BY <2>5, <4>5
      <4>4. rxnext'[s[i]] = RxPlace(s, i + 1) BY <3>0, <4>1
      <4>. QED BY <4>1, <4>2, <4>3, <4>4, <4>5, <4>6 DEF RxPlace
    <3>4. CASE k = D
      <4>1. ~(k + 1 <= D) BY <3>4
      <4>2. s[D] \in RxBD /\ s[m] \in RxBD /\ s[D] # s[m] BY <1>3, <1>4, <1>9
      <4>3. rxnext'[s[m]] = NULL BY <1>3, <4>2 DEF RxIInv, Rx!TypeOK
      <4>. QED BY <2>6, <3>4, <4>1, <4>3 DEF RxPlace
    <3>. QED BY <2>1, <3>1, <3>2, <3>3, <3>4
  <2>8. RxEnds(t)'
    <3>1. m + 1 <= D /\ 0 + 1 = 1 /\ 1 <= D BY <2>1
    <3>2. rxactive_head = s[m + 1] BY <1>1, <1>2, <3>1 DEF RxShape, RxEnds, RxPlace
    <3>3. rxfree_head' = s[m + 1] BY <1>3, <3>1 DEF RxPlace
    <3>4. held' = {t[k] : k \in 0 + 1 .. D} BY <1>5, <2>3, <3>1 DEF RxOrder
    <3>. QED BY <1>3, <2>6, <3>1, <3>2, <3>3, <3>4 DEF RxEnds, RxPlace
  <2>9. \A k \in 1 .. D : k > D - m => rxflags'[t[k]] = {"OWNER"} BY <1>3, <1>4, <2>5
  <2>10. \A i \in m + 1 .. D : rxflags'[s[i]] = rxflags[s[i]]
    <3>. SUFFICES ASSUME NEW i \in m + 1 .. D PROVE rxflags'[s[i]] = rxflags[s[i]] OBVIOUS
    <3>1. i \in 1 .. D /\ \A k \in 1 .. m : k \in 1 .. D /\ k # i BY <1>3
    <3>2. s[i] \notin {s[k] : k \in 1 .. m} BY <1>4, <3>1
    <3>. QED BY <1>3, <1>4, <3>1, <3>2
  <2>11. c \in m + 1 .. D + 1 /\ c - m \in 1 .. D - m + 1 BY <1>1, <1>2, <2>1 DEF RxShape, RxFrames
  <2>12. RxFrames(t, c - m)'
    <3>1. rxhdp' = RxPlace(t, c - m)
      <4>1. D \in m + 1 .. D /\ c - m <= D BY <2>1, <2>11
      <4>2. "EOQ" \in rxflags'[s[D]] <=> c = D + 1 BY <1>1, <2>10, <4>1 DEF RxShape, RxFrames
      <4>3. CASE c = D + 1
        <5>1. c - m = D - m + 1 BY <2>1, <4>3
        <5>. QED BY <1>3, <2>6, <4>1, <4>2, <4>3, <5>1 DEF RxPlace
      <4>4. CASE c # D + 1
        <5>1. c <= D /\ c - m \in 1 .. D /\ c - m <= D - m /\ c - m + m = c BY <2>1, <2>11, <4>4
        <5>2. rxhdp' = s[c] BY <1>1, <1>3, <4>2, <4>4, <5>1 DEF RxShape, RxFrames, RxPlace
        <5>3. t[c - m] = s[c - m + m] BY <2>4, <5>1
        <5>. QED BY <4>1, <5>1, <5>2, <5>3 DEF RxPlace
      <4>. QED BY <4>3, <4>4
    <3>2. ASSUME NEW k \in c - m .. D PROVE rxflags'[t[k]] = {"OWNER"}
      <4>1. CASE k > D - m
        <5>1. k \in 1 .. D BY <2>11
        <5>. QED BY <2>9, <4>1, <5>1
      <4>2. CASE k <= D - m
        <5>1. k \in 1 .. D /\ k + m \in m + 1 .. D /\ k + m \in c .. D BY <2>1, <2>11, <4>2
        <5>2. rxflags'[s[k + m]] = {"OWNER"} BY <1>1, <2>10, <5>1 DEF RxShape, RxFrames
        <5>3. t[k] = s[k + m] BY <2>4, <4>2, <5>1
        <5>. QED BY <5>2, <5>3
      <4>. QED BY <2>1, <2>11, <4>1, <4>2
    <3>3. \A k \in 1 .. D - m : t[k] = s[k + m] /\ rxflags'[t[k]] = rxflags[s[k + m]]
      <4>. SUFFICES ASSUME NEW k \in 1 .. D - m
                    PROVE  t[k] = s[k + m] /\ rxflags'[t[k]] = rxflags[s[k + m]]
        OBVIOUS
      <4>1. k \in 1 .. D /\ k <= D - m BY <2>1
      <4>. QED BY <2>4, <2>10, <4>1
    <3>4. 0 + 1 < c - m => "SOP" \in rxflags'[t[0 + 1]]
      <4>. SUFFICES ASSUME 0 + 1 < c - m PROVE "SOP" \in rxflags'[t[1]] OBVIOUS
      <4>1. m + 1 < c /\ 1 \in 1 .. D - m /\ 1 + m = m + 1 BY <2>1, <2>11
      <4>2. "SOP" \in rxflags[s[m + 1]] BY <1>1, <1>2, <4>1 DEF RxShape, RxFrames
      <4>3. rxflags'[t[1]] = rxflags[s[1 + m]] BY <3>3, <4>1
      <4>. QED BY <4>1, <4>2, <4>3
    <3>5. ASSUME NEW k \in 0 + 1 .. c - m - 1, "SOP" \in rxflags'[t[k]]
          PROVE  \E e \in k .. c - m - 1 : e < k + MaxLen /\ "EOP" \in rxflags'[t[e]]
      <4>1. k \in 1 .. D - m /\ k + m \in m + 1 .. c - 1 BY <2>1, <2>11
      <4>2. "SOP" \in rxflags[s[k + m]] BY <3>3, <3>5, <4>1
      <4>3. PICK e \in k + m .. c - 1 : e < k + m + MaxLen /\ "EOP" \in rxflags[s[e]]
        BY <1>1, <1>2, <4>1, <4>2 DEF RxShape, RxFrames
      <4>4. e - m \in k .. c - m - 1 /\ e - m \in 1 .. D - m /\ e - m + m = e /\ e - m < k + MaxLen
        <5>1. e \in Int /\ k \in Int /\ m \in Int /\ c \in Int BY <2>1, <2>11, <4>1
        <5>2. k >= 1 /\ e >= k + m /\ e <= c - 1 /\ c <= D + 1 BY <2>11, <4>1
        <5>3. e < k + m + MaxLen BY <4>3
        <5>4. e - m >= k /\ e - m <= c - m - 1 /\ e - m <= D - m /\ e - m < k + MaxLen
          BY <5>1, <5>2, <5>3
        <5>. QED BY <5>1, <5>2, <5>4
      <4>5. rxflags'[t[e - m]] = rxflags[s[e - m + m]] BY <3>3, <4>4
      <4>. QED BY <4>3, <4>4, <4>5
    <3>6. ASSUME NEW k \in 0 + 1 .. c - m - 2, "EOP" \in rxflags'[t[k]]
          PROVE  "SOP" \in rxflags'[t[k + 1]]
      <4>1. /\ k \in 1 .. D - m /\ k + m \in m + 1 .. c - 2 /\ k + 1 \in 1 .. D - m
            /\ k + 1 + m = k + m + 1
        BY <2>1, <2>11
      <4>2. "EOP" \in rxflags[s[k + m]] BY <3>3, <3>6, <4>1
      <4>3. "SOP" \in rxflags[s[k + m + 1]] BY <1>1, <1>2, <4>1, <4>2 DEF RxShape, RxFrames
      <4>4. rxflags'[t[k + 1]] = rxflags[s[k + 1 + m]] BY <3>3, <4>1
      <4>. QED BY <4>1, <4>3, <4>4
    <3>7. "EOQ" \notin rxflags'[t[D]] /\ c - m # D + 1
      <4>1. D \in 1 .. D /\ D > D - m /\ c - m # D + 1 BY <2>1, <2>11
      <4>2. rxflags'[t[D]] = {"OWNER"} BY <2>9, <4>1
      <4>. QED BY <4>1, <4>2
    <3>8. c - m \in 0 + 1 .. D + 1 BY <2>1, <2>11
    <3>. QED BY <1>3, <3>1, <3>2, <3>4, <3>5, <3>6, <3>7, <3>8 DEF RxFrames, RxPlace
  <2>13. RxShape(t, c - m)' BY <2>3, <2>7, <2>8, <2>12 DEF RxShape, RxOrder
  <2>14. t \in [1 .. D -> RxBD] /\ c - m \in 1 .. D + 1 BY <2>1, <2>3, <2>11 DEF RxOrder
  <2>. QED BY <1>3, <1>6, <1>7, <2>13, <2>14 DEF RxIInv
<1>. QED BY <1>8, <1>9

(* hdkif_init leaves all descriptors with the DMA, in one chain.           *)
LEMMA RxInitial ==
  ASSUME Rx!Init
  PROVE  RxIInv
<1>. USE RxNumbers
<1>1. /\ rxnext = [b \in RxBD |-> IF b = D - 1 THEN NULL ELSE b + 1]
      /\ rxflags = [b \in RxBD |-> {"OWNER"}]
      /\ held = RxBD /\ rxfree_head = NULL /\ rxactive_head = 0 /\ rxactive_tail = D - 1
      /\ freed_pbuf_len = 0 /\ rxhdp = 0 /\ rxpending = FALSE /\ rxpc = "main"
      /\ avail = P - D /\ kept = 0
  BY DEF Rx!Init
<1>2. PICK s : s = [k \in 1 .. D |-> k - 1] OBVIOUS
<1>3. s \in [1 .. D -> RxBD] /\ \A k \in 1 .. D : s[k] = k - 1 BY <1>2 DEF RxBD
<1>4. RxOrder(s)
  <2>1. ASSUME NEW b \in RxBD PROVE \E k \in 1 .. D : s[k] = b
    <3>1. PICK k \in 1 .. D : k = b + 1 /\ k - 1 = b BY DEF RxBD
    <3>. QED BY <1>3, <3>1
  <2>. QED BY <1>3, <2>1 DEF RxOrder
<1>5. RxLinked(s)
  <2>. SUFFICES ASSUME NEW k \in 1 .. D PROVE rxnext[k - 1] = RxPlace(s, k + 1)
    BY <1>3 DEF RxLinked
  <2>1. k - 1 \in RxBD BY DEF RxBD
  <2>2. CASE k = D BY <1>1, <2>1, <2>2 DEF RxPlace
  <2>3. CASE k # D
    <3>1. k + 1 \in 1 .. D /\ k - 1 # D - 1 /\ k - 1 + 1 = k /\ k + 1 - 1 = k BY <2>3
    <3>. QED BY <1>1, <1>3, <2>1, <3>1 DEF RxPlace
  <2>. QED BY <2>2, <2>3
<1>6. RxPlace(s, 0 + 1) = 0 /\ s[D] = D - 1 /\ s[1] = 0 BY <1>3 DEF RxPlace
<1>7. held = {s[k] : k \in 0 + 1 .. D} BY <1>1, <1>4 DEF RxOrder
<1>8. RxEnds(s) BY <1>1, <1>6, <1>7 DEF RxEnds
<1>9. RxFrames(s, 1)
  <2>1. \A k \in 1 .. D : rxflags[s[k]] = {"OWNER"} BY <1>1, <1>3
  <2>2. "EOQ" \notin rxflags[s[D]]
    <3>1. rxflags[s[D]] = {"OWNER"} BY <2>1
    <3>. QED BY <3>1
  <2>3. RxPlace(s, 1) = 0 BY <1>6
  <2>4. /\ 1 \in 0 + 1 .. D + 1 /\ ~(0 + 1 < 1) /\ 1 # D + 1
        /\ 0 + 1 .. 1 - 1 = {} /\ 0 + 1 .. 1 - 2 = {}
    OBVIOUS
  <2>. QED BY <1>1, <2>1, <2>2, <2>3, <2>4 DEF RxFrames
<1>10. Rx!TypeOK
  <2>1. rxnext \in [RxBD -> RxBD \cup {NULL}] BY <1>1 DEF RxBD
  <2>2. 0 \in RxBD /\ D - 1 \in RxBD BY DEF RxBD
  <2>3. avail \in 0 .. P /\ kept \in 0 .. MaxKept BY <1>1
  <2>4. rxflags \in [RxBD -> SUBSET {"SOP", "EOP", "OWNER", "EOQ"}] BY <1>1
  <2>5. held \subseteq RxBD /\ rxactive_tail \in RxBD /\ freed_pbuf_len \in 0 .. D
        /\ {rxfree_head, rxactive_head, rxhdp} \subseteq RxBD \cup {NULL}
    BY <1>1, <2>2
  <2>6. rxpending \in BOOLEAN /\ rxpc \in {"main", "loop", "refill"} BY <1>1
  <2>. QED BY <2>1, <2>3, <2>4, <2>5, <2>6 DEF Rx!TypeOK
<1>11. avail + kept + D = P + freed_pbuf_len BY <1>1
<1>12. 1 \in 1 .. D + 1 OBVIOUS
<1>. QED BY <1>1, <1>3, <1>4, <1>5, <1>8, <1>9, <1>10, <1>11, <1>12 DEF RxIInv, RxShape

(* Every step of the receive side keeps the invariant; the chain runs dry only while a refill is owed.*)
LEMMA RxStep ==
  ASSUME RxIInv, [Rx!Next]_(Rx!vars)
  PROVE  RxIInv' /\ (rxactive_head # NULL /\ rxactive_head' = NULL => freed_pbuf_len > 0)
<1>. USE RxNumbers
<1>1. CASE \E l \in 1 .. MaxLen : Rx!Dma(l)
  <2>1. UNCHANGED rxactive_head BY <1>1 DEF Rx!Dma
  <2>. QED BY <1>1, <2>1, RxDmaStep
<1>2. CASE \E keep \in BOOLEAN : Rx!Deliver(keep) BY <1>2, RxDeliverStep
<1>3. CASE Rx!Refill
  <2>1. UNCHANGED rxactive_head BY <1>3 DEF Rx!Refill
  <2>. QED BY <1>3, <2>1, RxRefillStep
<1>4. ASSUME UNCHANGED <<Rx!chain, rxhdp>>, rxpc' # "refill", Rx!TypeOK',
             (avail + kept)' = avail + kept, RxDead => rxpc' = "loop"
      PROVE  RxIInv' /\ UNCHANGED rxactive_head
  <2>1. UNCHANGED <<rxactive_head, freed_pbuf_len, held, rxhdp>> BY <1>4 DEF Rx!chain
  <2>2. CASE RxDead
    <3>1. RxDead' BY <1>4, <2>1, <2>2 DEF RxDead
    <3>. QED BY <1>4, <2>1, <3>1 DEF RxIInv
  <2>3. CASE ~RxDead
    <3>1. PICK s \in [1 .. D -> RxBD], c \in 1 .. D + 1 : RxShape(s, c) BY <2>3 DEF RxIInv
    <3>2. RxShape(s, c)' BY <1>4, <3>1, RxShapeKept
    <3>. QED BY <1>4, <2>1, <3>1, <3>2 DEF RxIInv
  <2>. QED BY <2>2, <2>3
<1>5. CASE Rx!RxIntBegin
  <2>1. Rx!TypeOK' BY <1>5 DEF RxIInv, Rx!TypeOK, Rx!RxIntBegin, Rx!chain
  <2>2. RxDead => FALSE BY <1>5 DEF RxDead, Rx!RxIntBegin
  <2>. QED BY <1>4, <1>5, <2>1, <2>2 DEF Rx!RxIntBegin
<1>6. CASE Rx!RefillFails
  <2>1. Rx!TypeOK' BY <1>6 DEF RxIInv, Rx!TypeOK, Rx!RefillFails, Rx!chain
  <2>2. RxDead => FALSE BY <1>6 DEF RxDead, Rx!RefillFails
  <2>. QED BY <1>4, <1>6, <2>1, <2>2 DEF Rx!RefillFails
<1>7. CASE Rx!RxIntEnd
  <2>1. Rx!TypeOK' BY <1>7 DEF RxIInv, Rx!TypeOK, Rx!RxIntEnd, Rx!chain
  <2>2. RxDead => FALSE BY <1>7 DEF RxDead, Rx!RxIntEnd
  <2>. QED BY <1>4, <1>7, <2>1, <2>2 DEF Rx!RxIntEnd
<1>8. CASE Rx!Release
  <2>1. avail \in 0 .. P /\ kept \in 0 .. MaxKept /\ kept > 0 /\ kept' = kept - 1 /\ avail' = avail + 1
        /\ freed_pbuf_len \in 0 .. D /\ avail + kept + D = P + freed_pbuf_len
    BY <1>8 DEF Rx!Release, RxIInv, Rx!TypeOK
  <2>2. avail' \in 0 .. P /\ kept' \in 0 .. MaxKept /\ (avail + kept)' = avail + kept BY <2>1
  <2>3. Rx!TypeOK' BY <1>8, <2>2 DEF RxIInv, Rx!TypeOK, Rx!Release, Rx!chain
  <2>4. RxDead => FALSE BY <1>8 DEF RxDead, Rx!Release
  <2>5. UNCHANGED <<Rx!chain, rxhdp>> /\ rxpc' = "main" BY <1>8 DEF Rx!Release
  <2>. QED BY <1>4, <2>2, <2>3, <2>4, <2>5
<1>9. CASE UNCHANGED Rx!vars
  <2>1. UNCHANGED <<Rx!chain, rxhdp, rxpending, rxpc, avail, kept>> BY <1>9 DEF Rx!vars
  <2>2. UNCHANGED <<rxactive_head, freed_pbuf_len, held, rxhdp, rxpc, avail, kept>>
    BY <2>1 DEF Rx!chain
  <2>3. Rx!TypeOK' BY <2>1 DEF RxIInv, Rx!TypeOK, Rx!chain
  <2>4. RxDead => RxDead' BY <2>2 DEF RxDead
  <2>5. ASSUME NEW s \in [1 .. D -> RxBD], NEW c \in 1 .. D + 1, RxShape(s, c) PROVE RxShape(s, c)'
    BY <2>1, <2>5, RxShapeKept
  <2>. QED BY <2>2, <2>3, <2>4, <2>5 DEF RxIInv
<1>. QED BY <1>1, <1>2, <1>3, <1>4, <1>5, <1>6, <1>7, <1>8, <1>9 DEF Rx!Next

(* RxSound is a consequence.                                               *)
LEMMA RxImplied ==
  ASSUME RxIInv
  PROVE  RxSound
<1>. USE RxNumbers
<1>1. CASE RxDead
  <2>1. Cardinality({}) = 0 BY FS_EmptySet
  <2>2. IsFiniteSet(RxBD) /\ Cardinality(RxBD) = D
    <3>1. IsFiniteSet(0 .. D - 1) /\ Cardinality(0 .. D - 1) = IF 0 > D - 1 THEN 0 ELSE D - 1 - 0 + 1
      BY FS_Interval
    <3>. QED BY <3>1 DEF RxBD
  <2>3. RxBD \ {} = RxBD /\ RxBD \ RxBD = {} OBVIOUS
  <2>4. Cardinality(held) = D - freed_pbuf_len /\ Cardinality(RxBD \ held) = freed_pbuf_len
    BY <1>1, <2>1, <2>2, <2>3 DEF RxDead
  <2>5. avail \in Nat /\ kept \in Nat /\ freed_pbuf_len \in Nat
        /\ avail + kept + D = P + freed_pbuf_len
    BY DEF RxIInv, Rx!TypeOK
  <2>6. avail + kept + Cardinality(held) = P BY <2>4, <2>5
  <2>7. Rx!PbufsConserved BY <2>4, <2>6, RxCardinality DEF Rx!PbufsConserved
  <2>8. Rx!ChainComplete /\ Rx!NoStall BY <1>1 DEF RxDead, Rx!ChainComplete, Rx!NoStall
  <2>. QED BY <2>7, <2>8 DEF RxIInv, RxSound
<1>2. CASE ~RxDead
  <2>1. PICK s \in [1 .. D -> RxBD], c \in 1 .. D + 1 : RxShape(s, c) BY <1>2 DEF RxIInv
  <2>2. PICK m : m = freed_pbuf_len OBVIOUS
  <2>3. m \in 0 .. D /\ avail \in Nat /\ kept \in Nat /\ avail + kept + D = P + m
    BY <2>2 DEF RxIInv, Rx!TypeOK
  <2>4. held = {s[k] : k \in m + 1 .. D} BY <2>1, <2>2 DEF RxShape, RxEnds
  <2>5. RxBD \ held = {s[k] : k \in 1 .. m}
    <3>1. \A k \in 1 .. D : k \in 1 .. m \/ k \in m + 1 .. D BY <2>3
    <3>2. RxBD \ held \subseteq {s[k] : k \in 1 .. m} BY <2>1, <2>4, <3>1 DEF RxShape, RxOrder
    <3>3. ASSUME NEW k \in 1 .. m PROVE s[k] \in RxBD /\ s[k] \notin held
      <4>1. k \in 1 .. D /\ \A j \in m + 1 .. D : j \in 1 .. D /\ j # k BY <2>3
      <4>. QED BY <2>1, <2>4, <4>1 DEF RxShape, RxOrder
    <3>. QED BY <3>2, <3>3
  <2>6. Cardinality(held) = D - m
    <3>1. m + 1 \in 1 .. D + 1 /\ D \in 0 .. D /\ m + 1 <= D + 1 BY <2>3
    <3>2. Cardinality(held) = D - (m + 1) + 1 BY <2>1, <2>4, <3>1, RxCount DEF RxShape
    <3>. QED BY <2>3, <3>2
  <2>7. Cardinality(RxBD \ held) = m
    <3>1. 1 \in 1 .. D + 1 /\ m \in 0 .. D /\ 1 <= m + 1 BY <2>3
    <3>2. Cardinality(RxBD \ held) = m - 1 + 1 BY <2>1, <2>5, <3>1, RxCount DEF RxShape
    <3>. QED BY <2>3, <3>2
  <2>8. avail + kept + Cardinality(held) = P BY <2>3, <2>6
  <2>9. Rx!PbufsConserved BY <2>2, <2>7, <2>8, RxCardinality DEF Rx!PbufsConserved
  <2>10. ASSUME rxactive_head # NULL
         PROVE  /\ {Rx!Walk(rxactive_head)[i] : i \in 0 .. D} \ {NULL} = held
                /\ rxactive_tail \in held /\ rxnext[rxactive_tail] = NULL
                /\ rxhdp # NULL => rxhdp \in held /\ rxflags[rxhdp] = {"OWNER"}
    <3>1. m + 1 \in 1 .. D /\ rxactive_head = RxPlace(s, m + 1)
      BY <2>1, <2>2, <2>3, <2>10 DEF RxShape, RxEnds, RxPlace
    <3>2. PICK at : at = Rx!Walk(rxactive_head) OBVIOUS
    <3>3. \A i \in 0 .. D : at[i] = RxPlace(s, m + 1 + i)
      <4>1. RxOrder(s) /\ RxLinked(s) /\ m + 1 \in 1 .. D + 1 BY <2>1, <3>1 DEF RxShape
      <4>2. \A i \in 0 .. D : Rx!Walk(RxPlace(s, m + 1))[i] = RxPlace(s, m + 1 + i) BY <4>1, RxReach
      <4>. QED BY <3>1, <3>2, <4>2
    <3>4. ASSUME NEW i \in 0 .. D, at[i] # NULL PROVE at[i] \in held
      <4>1. m + 1 + i \in m + 1 .. D BY <2>3, <3>3, <3>4 DEF RxPlace
      <4>2. at[i] = s[m + 1 + i] BY <3>3, <4>1 DEF RxPlace
      <4>. QED BY <2>4, <4>1, <4>2
    <3>5. ASSUME NEW k \in m + 1 .. D PROVE s[k] # NULL /\ \E i \in 0 .. D : at[i] = s[k]
      <4>1. k - (m + 1) \in 0 .. D /\ m + 1 + (k - (m + 1)) = k /\ k \in 1 .. D BY <2>3
      <4>2. at[k - (m + 1)] = RxPlace(s, m + 1 + (k - (m + 1))) BY <3>3, <4>1
      <4>3. RxPlace(s, k) = s[k] BY <4>1 DEF RxPlace
      <4>4. s[k] # NULL BY <2>1, <4>1
      <4>. QED BY <4>1, <4>2, <4>3, <4>4
    <3>6. {at[i] : i \in 0 .. D} \ {NULL} = held BY <2>4, <3>4, <3>5
    <3>7. rxactive_tail \in held /\ rxnext[rxactive_tail] = NULL
      <4>1. D \in m + 1 .. D /\ D \in 1 .. D /\ ~(D + 1 <= D) BY <3>1
      <4>2. rxactive_tail = s[D] BY <2>1 DEF RxShape, RxEnds
      <4>3. rxnext[s[D]] = NULL BY <2>1, <4>1 DEF RxShape, RxLinked, RxPlace
      <4>. QED BY <2>4, <4>1, <4>2, <4>3
    <3>8. ASSUME rxhdp # NULL PROVE rxhdp \in held /\ rxflags[rxhdp] = {"OWNER"}
      <4>1. c \in m + 1 .. D + 1 /\ rxhdp = RxPlace(s, c) BY <2>1, <2>2 DEF RxShape, RxFrames
      <4>2. c \in m + 1 .. D /\ c \in c .. D /\ rxhdp = s[c] BY <2>3, <3>8, <4>1 DEF RxPlace
      <4>. QED BY <2>1, <2>4, <4>2 DEF RxShape, RxFrames
    <3>. QED BY <3>2, <3>6, <3>7, <3>8
  <2>11. Rx!ChainComplete BY <2>10 DEF Rx!ChainComplete
  <2>12. Rx!NoStall
    <3>. SUFFICES ASSUME rxhdp = NULL, rxactive_head # NULL PROVE "SOP" \in rxflags[rxactive_head]
      BY DEF Rx!NoStall
    <3>1. m + 1 \in 1 .. D /\ rxactive_head = s[m + 1]
      BY <2>1, <2>2, <2>3 DEF RxShape, RxEnds, RxPlace
    <3>2. c \in m + 1 .. D + 1 /\ rxhdp = RxPlace(s, c) BY <2>1, <2>2 DEF RxShape, RxFrames
    <3>3. c = D + 1
      <4>1. c <= D => s[c] # NULL BY <2>1, <2>3, <3>2
      <4>. QED BY <2>3, <3>2, <4>1 DEF RxPlace
    <3>4. m + 1 < c BY <3>1, <3>3
    <3>. QED BY <2>1, <2>2, <3>1, <3>4 DEF RxShape, RxFrames
  <2>. QED BY <2>9, <2>11, <2>12 DEF RxIInv, RxSound
<1>. QED BY <1>1, <1>2

-----------------------------------------------------------------------------
(* A step of the driver is a step of the receive side or leaves it alone.  *)
LEMMA RxOfDriver ==
  ASSUME [Next]_vars
  PROVE  [Rx!Next]_(Rx!vars)
<1>1. CASE Rx!Next BY <1>1
<1>2. CASE UNCHANGED rxVars BY <1>2 DEF rxVars, Rx!vars, Rx!chain
<1>. QED BY <1>1, <1>2 DEF Next, vars

(* The invariant of the receive side is inductive.                         *)
THEOREM RxInvariance == Spec => []RxIInv
<1>1. Init => RxIInv BY RxInitial DEF Init
<1>2. RxIInv /\ [Next]_vars => RxIInv' BY RxStep, RxOfDriver
<1>. QED BY <1>1, <1>2, PTL DEF Spec

(* The receive chain, for any number of descriptors, pool and frame        *)
(* length: over failed and successful allocations and a DMA that goes on,  *)
(* hdkif_rx_inthandler loses no pbuf and fills none twice, the links pass  *)
(* exactly the descriptors that have one, and the DMA is at rest only      *)
(* while the handler has work to do or has run dry.                        *)
THEOREM RxSoundCorrect == Spec => []RxSound
BY RxInvariance, RxImplied, PTL

(* The chain runs dry only when pbufs are owed that an allocation failed   *)
(* to give: a frame never has as many descriptors as the chain.            *)
THEOREM DryOnlyAfterFailureCorrect == Spec => DryOnlyAfterFailure
<1>1. RxIInv /\ [Next]_vars
        => [rxactive_head # NULL /\ rxactive_head' = NULL => freed_pbuf_len > 0]_(Rx!vars)
  BY RxStep, RxOfDriver
<1>. QED BY <1>1, RxInvariance, PTL DEF Spec, DryOnlyAfterFailure, Rx!DryOnlyAfterFailure
-----------------------------------------------------------------------------
(* The transmit side.  From next_bd_to_process on the ring holds first the *)
(* u descriptors of packets that have not been released, then the free     *)
(* ones; s lists it.                                                       *)

TxBD == 0 .. N - 1

(* The j-th descriptor after b in the ring.                                *)
TxAt(b, j) == IF b + j < N THEN b + j ELSE b + j - N

TxOrder(s) == s = [j \in 0 .. N |-> TxAt(next_bd_to_process, j)]

TxLinks ==
  \A b \in TxBD :
    \/ next[b] = TxAt(b, 1)
    \/ next[b] = NULL /\ b \in {active_tail, tx[2]}

(* The packet and the place in it that are at place j.                     *)
TxPk(s, j) == buf[s[j]][1]
TxIx(s, j) == buf[s[j]][2]

(* A descriptor in use: its flags and link say where in the packet it is,  *)
(* and from the first one on the whole packet follows, then the next.      *)
TxUsed(s, j) ==
  /\ buf[s[j]] \in Packets \X (1 .. MaxLen)
  /\ TxIx(s, j) <= len[TxPk(s, j)]
  /\ "SOP" \in flags[s[j]] <=> TxIx(s, j) = 1
  /\ "EOP" \in flags[s[j]] <=> TxIx(s, j) = len[TxPk(s, j)]
  /\ next[s[j]] = NULL => TxIx(s, j) = len[TxPk(s, j)]
  /\ "OWNER" \in flags[s[j]] => s[j] \in {hdp, tx[1]}

TxStart(s, u, j) ==
  /\ "OWNER" \in flags[s[j]] \/ TxPk(s, j) \in sent
  /\ j + len[TxPk(s, j)] <= u
  /\ \A i \in 0 .. len[TxPk(s, j)] - 1 : buf[s[j + i]] = <<TxPk(s, j), i + 1>>
  /\ j + len[TxPk(s, j)] < u => buf[s[j + len[TxPk(s, j)]]][2] = 1

TxPackets(s, u) ==
  /\ \A j \in 0 .. u - 1 : TxUsed(s, j) /\ (TxIx(s, j) = 1 => TxStart(s, u, j))
  /\ u > 0 => TxIx(s, 0) = 1
  /\ \A i, j \in 0 .. u - 1 : buf[s[i]] = buf[s[j]] => i = j
  /\ \A j \in u .. N - 1 : flags[s[j]] \subseteq {"EOQ"}

(* At rest free_head is behind the last packet.                            *)
TxRest(u) ==
  /\ tx = <<NULL, NULL>>
  /\ active_tail = NULL => u = 0 /\ hdp = NULL
  /\ active_tail # NULL => free_head = TxAt(active_tail, 1)

(* In hdkif_transmit the new packet, from place v on, is behind it.        *)
TxNew(s, u, v) ==
  /\ tx = <<s[v], s[u - 1]>> /\ next[s[u - 1]] = NULL
  /\ TxIx(s, v) = 1 /\ "OWNER" \in flags[s[v]] /\ v + len[TxPk(s, v)] = u
  /\ active_tail = NULL => v = 0 /\ hdp = NULL
  /\ active_tail # NULL => s[v] = TxAt(active_tail, 1)

(* The DMA has one packet, the last one that was started.                  *)
TxDma(s, u, w) ==
  /\ hdp = s[w] /\ TxIx(s, w) = 1 /\ "OWNER" \in flags[s[w]]
  /\ active_tail = s[w + len[TxPk(s, w)] - 1]
  /\ hdp # tx[1]

TxChain(s, u) ==
  /\ free_head = s[u] /\ u = used
  /\ pc = "idle" => TxRest(u)
  /\ pc # "idle" => cpu # "tx" /\ \E v \in 0 .. u - 1 : TxNew(s, u, v)
  /\ pc = "first" => active_tail = NULL
  /\ pc \in {"eoq", "hdp"} => active_tail # NULL
  /\ active_tail # NULL => next[active_tail] = NULL
  /\ hdp # NULL => \E w \in 0 .. u - 1 : TxDma(s, u, w)

TxShape(s, u) == TxOrder(s) /\ TxPackets(s, u) /\ TxChain(s, u)

(* Handed over and not sent: the DMA's packet, then the new one.           *)
TxLine ==
  /\ hdp = NULL /\ pc = "idle" => queue = << >>
  /\ hdp = NULL /\ pc # "idle" => queue = <<buf[tx[1]][1]>>
  /\ hdp # NULL /\ pc = "idle" => queue = <<buf[hdp][1]>>
  /\ hdp # NULL /\ pc # "idle" => queue = <<buf[hdp][1], buf[tx[1]][1]>>

TxIInv ==
  /\ Tx!TypeOK /\ TxLinks /\ TxLine
  /\ \A p \in sent : len[p] > 0
  /\ \E s \in [0 .. N -> TxBD], u \in 0 .. N : TxShape(s, u)

-----------------------------------------------------------------------------
(* What the assumption on the sizes says of the transmit side.             *)
LEMMA TxNumbers ==
  /\ N \in Nat /\ N > 1
  /\ MaxLen \in Nat /\ MaxLen > 0 /\ MaxLen < N
  /\ NULL \notin TxBD /\ NULL \notin Packets /\ Tx!BD = TxBD
BY DriverAssumption DEF Tx!TxAssumption, Tx!BD, TxBD

(* The remainder of hdkif_init's successor.                                *)
LEMMA TxSucc == \A b \in TxBD : (b + 1) % N = TxAt(b, 1)
<1>. USE TxNumbers
<1>. SUFFICES ASSUME NEW b \in TxBD PROVE (b + 1) % N = TxAt(b, 1) OBVIOUS
<1>1. CASE b + 1 < N
  <2>1. (b + 1) % N = b + 1 BY <1>1 DEF TxBD
  <2>. QED BY <1>1, <2>1 DEF TxAt, TxBD
<1>2. CASE ~(b + 1 < N)
  <2>1. b + 1 = N BY <1>2 DEF TxBD
  <2>2. N % N = 0 OBVIOUS
  <2>. QED BY <1>2, <2>1, <2>2 DEF TxAt, TxBD
<1>. QED BY <1>1, <1>2

(* Counting on from a descriptor goes once round the ring.                 *)
LEMMA TxAtFacts ==
  ASSUME NEW b \in TxBD
  PROVE  /\ \A j \in 0 .. N : TxAt(b, j) \in TxBD
         /\ TxAt(b, 0) = b /\ TxAt(b, N) = b
         /\ \A i, j \in 0 .. N : i + j <= N => TxAt(TxAt(b, i), j) = TxAt(b, i + j)
         /\ \A i, j \in 0 .. N - 1 : TxAt(b, i) = TxAt(b, j) => i = j
         /\ \A c \in TxBD : \E j \in 0 .. N - 1 : TxAt(b, j) = c
<1>. USE TxNumbers
<1>1. \A j \in 0 .. N : TxAt(b, j) \in TxBD BY DEF TxAt, TxBD
<1>2. TxAt(b, 0) = b /\ TxAt(b, N) = b BY DEF TxAt, TxBD
<1>3. \A i, j \in 0 .. N : i + j <= N => TxAt(TxAt(b, i), j) = TxAt(b, i + j) BY DEF TxAt, TxBD
<1>4. \A i, j \in 0 .. N - 1 : TxAt(b, i) = TxAt(b, j) => i = j BY DEF TxAt, TxBD
<1>5. ASSUME NEW c \in TxBD PROVE \E j \in 0 .. N - 1 : TxAt(b, j) = c
  <2>1. CASE c >= b
    <3>1. c - b \in 0 .. N - 1 /\ TxAt(b, c - b) = c BY <2>1 DEF TxAt, TxBD
    <3>. QED BY <3>1
  <2>2. CASE c < b
    <3>1. c - b + N \in 0 .. N - 1 /\ TxAt(b, c - b + N) = c BY <2>2 DEF TxAt, TxBD
    <3>. QED BY <3>1
  <2>. QED BY <2>1, <2>2 DEF TxBD
<1>. QED BY <1>1, <1>2, <1>3, <1>4, <1>5

(* The places from next_bd_to_process on are the ring, each descriptor once.*)
LEMMA TxOrderFacts ==
  ASSUME NEW s, TxOrder(s), next_bd_to_process \in TxBD
  PROVE  /\ s \in [0 .. N -> TxBD] /\ s[0] = next_bd_to_process /\ s[N] = s[0]
         /\ \A j \in 0 .. N - 1 : s[j + 1] = TxAt(s[j], 1)
         /\ \A i, j \in 0 .. N - 1 : s[i] = s[j] => i = j
         /\ \A b \in TxBD : \E j \in 0 .. N - 1 : s[j] = b
         /\ \A i, j \in 0 .. N : i + j <= N => TxAt(s[i], j) = s[i + j]
<1>. USE TxNumbers
<1>1. PICK b \in TxBD : b = next_bd_to_process OBVIOUS
<1>2. s = [j \in 0 .. N |-> TxAt(b, j)] BY <1>1 DEF TxOrder
<1>3. \A j \in 0 .. N : s[j] = TxAt(b, j) BY <1>2
<1>4. s \in [0 .. N -> TxBD] BY <1>2, TxAtFacts
<1>5. s[0] = b /\ s[N] = b
  <2>1. 0 \in 0 .. N /\ N \in 0 .. N OBVIOUS
  <2>. QED BY <1>3, <2>1, TxAtFacts
<1>6. ASSUME NEW i \in 0 .. N, NEW j \in 0 .. N, i + j <= N PROVE TxAt(s[i], j) = s[i + j]
  <2>1. i + j \in 0 .. N BY <1>6
  <2>2. TxAt(TxAt(b, i), j) = TxAt(b, i + j) BY <1>6, TxAtFacts
  <2>. QED BY <1>3, <2>1, <2>2
<1>7. ASSUME NEW j \in 0 .. N - 1 PROVE s[j + 1] = TxAt(s[j], 1)
  <2>1. j \in 0 .. N /\ 1 \in 0 .. N /\ j + 1 <= N OBVIOUS
  <2>. QED BY <1>6, <2>1
<1>8. \A i, j \in 0 .. N - 1 : s[i] = s[j] => i = j
  <2>1. \A j \in 0 .. N - 1 : s[j] = TxAt(b, j) BY <1>3
  <2>2. \A i, j \in 0 .. N - 1 : TxAt(b, i) = TxAt(b, j) => i = j BY TxAtFacts
  <2>. QED BY <2>1, <2>2
<1>9. \A c \in TxBD : \E j \in 0 .. N - 1 : s[j] = c
  <2>1. \A j \in 0 .. N - 1 : s[j] = TxAt(b, j) BY <1>3
  <2>2. \A c \in TxBD : \E j \in 0 .. N - 1 : TxAt(b, j) = c BY TxAtFacts
  <2>. QED BY <2>1, <2>2
<1>. QED BY <1>1, <1>4, <1>5, <1>6, <1>7, <1>8, <1>9

(* Following next meets the descriptors after b up to the first one that   *)
(* has no successor.                                                       *)
LEMMA TxReach ==
  ASSUME TxLinks, NEW b \in TxBD, NEW K \in 0 .. N
  PROVE  \A i \in 0 .. K : Tx!Walk(b, K)[i] =
           IF \A k \in 0 .. i - 1 : next[TxAt(b, k)] # NULL THEN TxAt(b, i) ELSE NULL
<1>. USE TxNumbers
<1>. DEFINE Open(i) == \A k \in 0 .. i - 1 : next[TxAt(b, k)] # NULL
            G(i) == IF Open(i) THEN TxAt(b, i) ELSE NULL
            Step(f, i) == IF i = 0 THEN b ELSE IF f[i - 1] = NULL THEN NULL ELSE next[f[i - 1]]
            F == CHOOSE f : f = [i \in 0 .. K |->
                   IF i = 0 THEN b ELSE IF f[i - 1] = NULL THEN NULL ELSE next[f[i - 1]]]
<1>1. \A k \in 0 .. N : TxAt(b, k) \in TxBD /\ TxAt(b, k) # NULL BY TxAtFacts
<1>2. TxAt(b, 0) = b BY TxAtFacts
<1>3. Tx!Walk(b, K) = F BY DEF Tx!Walk
<1>4. PICK g : g = [i \in 0 .. K |-> G(i)] OBVIOUS
<1>5. ASSUME NEW i \in 0 .. K PROVE G(i) = Step(g, i)
  <2>1. CASE i = 0
    <3>1. Open(0) OBVIOUS
    <3>. QED BY <1>2, <2>1, <3>1
  <2>2. CASE i # 0
    <3>1. PICK h \in 0 .. K : h = i - 1 /\ h \in 0 .. N - 1 /\ h + 1 = i BY <2>2
    <3>2. g[h] = G(h) BY <1>4, <3>1
    <3>3. TxAt(TxAt(b, h), 1) = TxAt(b, i)
      <4>1. h \in 0 .. N /\ 1 \in 0 .. N /\ h + 1 <= N BY <3>1
      <4>. QED BY <3>1, <4>1, TxAtFacts
    <3>4. next[TxAt(b, h)] = TxAt(b, i) \/ next[TxAt(b, h)] = NULL
      <4>1. TxAt(b, h) \in TxBD BY <1>1, <3>1
      <4>. QED BY <3>3, <4>1 DEF TxLinks
    <3>5. \A k : k \in 0 .. i - 1 <=> (k \in 0 .. h - 1 \/ k = h) BY <3>1
    <3>6. Open(i) <=> (Open(h) /\ next[TxAt(b, h)] # NULL) BY <3>5
    <3>7. TxAt(b, h) # NULL /\ TxAt(b, i) # NULL
      <4>1. h \in 0 .. N /\ i \in 0 .. N BY <3>1
      <4>. QED BY <1>1, <4>1
    <3>8. Step(g, i) = IF g[h] = NULL THEN NULL ELSE next[g[h]] BY <2>2, <3>1
    <3>9. CASE Open(h)
      <4>1. g[h] = TxAt(b, h) BY <3>2, <3>9
      <4>. QED BY <3>4, <3>6, <3>7, <3>8, <3>9, <4>1
    <3>10. CASE ~Open(h)
      <4>1. g[h] = NULL BY <3>2, <3>10
      <4>. QED BY <3>6, <3>8, <3>10, <4>1
    <3>. QED BY <3>9, <3>10
  <2>. QED BY <2>1, <2>2
<1>6. F = [i \in 0 .. K |-> Step(F, i)]
  <2>1. g = [i \in 0 .. K |->
               IF i = 0 THEN b ELSE IF g[i - 1] = NULL THEN NULL ELSE next[g[i - 1]]]
    BY <1>4, <1>5
  <2>2. \E f : f = [i \in 0 .. K |->
                   IF i = 0 THEN b ELSE IF f[i - 1] = NULL THEN NULL ELSE next[f[i - 1]]]
    BY <2>1
  <2>. QED BY <2>2
<1>. DEFINE B == {i \in 0 .. K : F[i] # G(i)}
<1>7. B = {}
  <2>. HIDE DEF F, G
  <2>. SUFFICES ASSUME B # {} PROVE FALSE OBVIOUS
  <2>1. B \subseteq Nat OBVIOUS
  <2>2. PICK m \in B : \A k \in B : m <= k BY <2>1, LeastOf
  <2>3. m \in 0 .. K /\ m \in Nat /\ F[m] # G(m) BY <2>1
  <2>4. CASE m = 0 BY <1>5, <1>6, <2>3, <2>4
  <2>5. CASE m # 0
    <3>1. m - 1 \in 0 .. K /\ ~(m <= m - 1) BY <2>3, <2>5
    <3>2. F[m - 1] = G(m - 1) BY <2>2, <3>1
    <3>3. g[m - 1] = F[m - 1] BY <1>4, <3>1, <3>2
    <3>4. Step(F, m) = Step(g, m) BY <3>3
    <3>. QED BY <1>5, <1>6, <2>3, <3>4
  <2>. QED BY <2>4, <2>5
<1>. QED BY <1>3, <1>7

(* No link is missing among the m from place a on.                         *)
TxOpen(s, a, m) == \A k \in 0 .. m - 1 : next[s[a + k]] # NULL

(* As far as no link is cut, the walk of the code goes from place to place.*)
LEMMA TxWalk ==
  ASSUME TxLinks, next_bd_to_process \in TxBD, NEW s, TxOrder(s),
         NEW a \in 0 .. N, NEW K \in 0 .. N, NEW m \in 0 .. K, a + m <= N,
         TxOpen(s, a, m)
  PROVE  \A i \in 0 .. m : Tx!Walk(s[a], K)[i] = s[a + i]
<1>. USE TxNumbers
<1>. SUFFICES ASSUME NEW i \in 0 .. m PROVE Tx!Walk(s[a], K)[i] = s[a + i] OBVIOUS
<1>1. s[a] \in TxBD BY TxOrderFacts
<1>2. \A k \in 0 .. N : a + k <= N => TxAt(s[a], k) = s[a + k]
  <2>1. \A g, k \in 0 .. N : g + k <= N => TxAt(s[g], k) = s[g + k] BY TxOrderFacts, ZenonT(30)
  <2>. QED BY <2>1
<1>3. i \in 0 .. K /\ i \in 0 .. N /\ a + i <= N OBVIOUS
<1>4. TxAt(s[a], i) = s[a + i] BY <1>2, <1>3
<1>5. ASSUME NEW k \in 0 .. i - 1 PROVE next[TxAt(s[a], k)] # NULL
  <2>1. k \in 0 .. m - 1 /\ k \in 0 .. N /\ a + k <= N OBVIOUS
  <2>2. TxAt(s[a], k) = s[a + k] BY <1>2, <2>1
  <2>. QED BY <2>1, <2>2 DEF TxOpen
<1>6. Tx!Walk(s[a], K)[i] =
        IF \A k \in 0 .. i - 1 : next[TxAt(s[a], k)] # NULL THEN TxAt(s[a], i) ELSE NULL
  BY <1>1, <1>3, TxReach
<1>. QED BY <1>4, <1>5, <1>6

(* What a packet in the ring looks like from its first descriptor.         *)
TxWhole(s, u, j, p, L) ==
  /\ p \in Packets /\ L \in 1 .. MaxLen
  /\ p = TxPk(s, j) /\ L = len[p] /\ j + L <= u
  /\ j + L < u => TxIx(s, j + L) = 1
  /\ \A i \in 0 .. L - 1 : /\ buf[s[j + i]] = <<p, i + 1>>
                           /\ next[s[j + i]] = NULL => i = L - 1
                           /\ "SOP" \in flags[s[j + i]] <=> i = 0
                           /\ "EOP" \in flags[s[j + i]] <=> i = L - 1

(* A used descriptor with SOP begins a packet that is there as a whole.    *)
LEMMA TxPacket ==
  ASSUME Tx!TypeOK, NEW s, NEW u \in 0 .. N, TxPackets(s, u),
         NEW j \in 0 .. u - 1, TxIx(s, j) = 1
  PROVE  \E p, L : TxWhole(s, u, j, p, L)
<1>. USE TxNumbers
<1>1. TxUsed(s, j) /\ TxStart(s, u, j) BY DEF TxPackets
<1>2. PICK p : p = TxPk(s, j) OBVIOUS
<1>3. p \in Packets BY <1>1, <1>2 DEF TxUsed, TxPk
<1>4. PICK L : L = len[p] OBVIOUS
<1>5. L \in 1 .. MaxLen
  <2>1. L \in 0 .. MaxLen BY <1>3, <1>4 DEF Tx!TypeOK
  <2>2. 1 <= L BY <1>1, <1>2, <1>4 DEF TxUsed
  <2>. QED BY <2>1, <2>2
<1>6. /\ j + L <= u /\ (j + L < u => TxIx(s, j + L) = 1)
      /\ \A i \in 0 .. L - 1 : buf[s[j + i]] = <<p, i + 1>>
  BY <1>1, <1>2, <1>4 DEF TxStart, TxIx
<1>7. ASSUME NEW i \in 0 .. L - 1
      PROVE  /\ buf[s[j + i]] = <<p, i + 1>>
             /\ next[s[j + i]] = NULL => i = L - 1
             /\ "SOP" \in flags[s[j + i]] <=> i = 0
             /\ "EOP" \in flags[s[j + i]] <=> i = L - 1
  <2>1. j + i \in 0 .. u - 1 BY <1>5, <1>6
  <2>2. TxUsed(s, j + i) BY <2>1 DEF TxPackets
  <2>3. buf[s[j + i]] = <<p, i + 1>> BY <1>6
  <2>4. TxPk(s, j + i) = p /\ TxIx(s, j + i) = i + 1 BY <2>3 DEF TxPk, TxIx
  <2>5. i + 1 = 1 <=> i = 0 BY <1>5
  <2>6. i + 1 = L <=> i = L - 1 BY <1>5
  <2>. QED BY <1>4, <2>2, <2>3, <2>4, <2>5, <2>6 DEF TxUsed
<1>8. TxWhole(s, u, j, p, L) BY <1>2, <1>3, <1>4, <1>5, <1>6, <1>7 DEF TxWhole
<1>. QED BY <1>8

(* The DMA and the interrupt find the end of the packet they start on.     *)
LEMMA TxEnd ==
  ASSUME Tx!TypeOK, TxLinks, NEW s, TxOrder(s), NEW u \in 0 .. N, TxPackets(s, u),
         NEW j \in 0 .. u - 1, NEW p, NEW L, TxWhole(s, u, j, p, L)
  PROVE  LET e == Tx!PacketEnd(s[j]) IN
         /\ e.found /\ e.last = L - 1 /\ e.bd = s[j + L - 1]
         /\ \A i \in 0 .. L - 1 : e.at[i] = s[j + i]
<1>. USE TxNumbers
<1>1. \A i \in 0 .. L - 1 : /\ next[s[j + i]] = NULL => i = L - 1
                            /\ "EOP" \in flags[s[j + i]] <=> i = L - 1
  BY DEF TxWhole
<1>2. L \in 1 .. MaxLen /\ j + L <= u /\ L - 1 \in 0 .. N BY DEF TxWhole
<1>3. next_bd_to_process \in TxBD BY DEF Tx!TypeOK
<1>4. PICK at : at = Tx!Walk(s[j], N) OBVIOUS
<1>5. \A i \in 0 .. L - 1 : at[i] = s[j + i]
  <2>1. PICK m \in 0 .. N : m = L - 1 /\ j + m <= N BY <1>2
  <2>2. TxOpen(s, j, m)
    <3>1. \A k \in 0 .. m - 1 : k \in 0 .. L - 1 /\ k # L - 1 BY <1>2, <2>1
    <3>. QED BY <1>1, <1>2, <3>1 DEF TxOpen
  <2>3. PICK K \in 0 .. N : K = N /\ m \in 0 .. K /\ j \in 0 .. N BY <2>1
  <2>4. \A i \in 0 .. m : Tx!Walk(s[j], K)[i] = s[j + i] BY <1>3, <2>1, <2>2, <2>3, TxWalk
  <2>. QED BY <1>4, <2>1, <2>3, <2>4
<1>6. PICK ends : ends = {i \in 0 .. N : at[i] # NULL /\ "EOP" \in flags[at[i]]} OBVIOUS
<1>7. \A i \in 0 .. L - 1 : s[j + i] # NULL
  <2>1. \A i \in 0 .. L - 1 : j + i \in 0 .. N BY <1>2
  <2>2. s \in [0 .. N -> TxBD] BY <1>3, TxOrderFacts
  <2>3. \A k \in 0 .. N : s[k] \in TxBD BY <2>2
  <2>. QED BY <2>1, <2>3
<1>8. L - 1 \in ends
  <2>1. L - 1 \in 0 .. L - 1 BY <1>2
  <2>. QED BY <1>1, <1>2, <1>5, <1>6, <1>7, <2>1
<1>9. \A f \in ends : L - 1 <= f
  <2>. SUFFICES ASSUME NEW f \in ends, ~(L - 1 <= f) PROVE FALSE OBVIOUS
  <2>1. f \in 0 .. N BY <1>6
  <2>2. f \in 0 .. L - 1 /\ f # L - 1 BY <1>2, <2>1
  <2>3. "EOP" \in flags[s[j + f]] BY <1>5, <1>6, <2>2
  <2>. QED BY <1>1, <1>2, <2>2, <2>3
<1>10. PICK i : i = IF ends = {} THEN 0 ELSE CHOOSE e \in ends : \A f \in ends : e <= f OBVIOUS
<1>11. i = L - 1
  <2>1. i \in ends /\ \A f \in ends : i <= f BY <1>8, <1>9, <1>10
  <2>2. i \in 0 .. N /\ i <= L - 1 /\ L - 1 <= i BY <1>6, <1>8, <1>9, <2>1
  <2>. QED BY <1>2, <2>2
<1>12. Tx!PacketEnd(s[j]) = [found |-> ends # {}, bd |-> at[i], at |-> at, last |-> i]
  BY <1>4, <1>6, <1>10 DEF Tx!PacketEnd
<1>13. at[L - 1] = s[j + L - 1]
  <2>1. L - 1 \in 0 .. L - 1 /\ j + (L - 1) = j + L - 1 BY <1>2
  <2>. QED BY <1>5, <2>1
<1>14. PICK e : e = Tx!PacketEnd(s[j]) OBVIOUS
<1>15. e.found = (ends # {}) /\ e.bd = at[i] /\ e.at = at /\ e.last = i BY <1>12, <1>14
<1>16. e.found /\ e.last = L - 1 /\ e.bd = s[j + L - 1] BY <1>8, <1>11, <1>13, <1>15
<1>17. \A k \in 0 .. L - 1 : e.at[k] = s[j + k] BY <1>5, <1>15
<1>. QED BY <1>14, <1>16, <1>17

-----------------------------------------------------------------------------
(* The steps of the transmit side.                                         *)

(* What the provers do not see about a queue of one.                       *)
LEMMA AppendPair == \A q, p : Append(<<q>>, p) = <<q, p>>
<1>. SUFFICES ASSUME NEW q, NEW p PROVE Append(<<q>>, p) = <<q, p>> OBVIOUS
<1>1. PICK S : S = {q, p} OBVIOUS
<1>2. PICK a, b : a = Append(<<q>>, p) /\ b = <<q, p>> OBVIOUS
<1>3. <<q>> \in Seq(S) /\ b \in Seq(S) /\ p \in S BY <1>1, <1>2
<1>4. a \in Seq(S) /\ Len(a) = 2 /\ a[1] = q /\ a[2] = p BY <1>2, <1>3
<1>5. Len(b) = 2 /\ b[1] = q /\ b[2] = p BY <1>2
<1>6. \A i \in 1 .. Len(a) : i = 1 \/ i = 2 BY <1>4
<1>7. a = b BY <1>3, <1>4, <1>5, <1>6, SeqEqual
<1>. QED BY <1>2, <1>7

(* The first in line leaves it.                                            *)
LEMMA TxWithoutOne ==
  ASSUME NEW q, queue = <<q>>
  PROVE  Tx!Without(q) = << >>
<1>1. Len(queue) = 1 /\ queue[1] = q /\ DOMAIN queue = 1 .. 1 OBVIOUS
<1>2. PICK c : c = CHOOSE i \in DOMAIN queue : queue[i] = q OBVIOUS
<1>3. \E i \in DOMAIN queue : queue[i] = q BY <1>1
<1>4. Tx!Without(q) = [j \in 1 .. Len(queue) - 1 |-> IF j < c THEN queue[j] ELSE queue[j + 1]]
  BY <1>2, <1>3 DEF Tx!Without
<1>5. 1 .. Len(queue) - 1 = {} BY <1>1
<1>. QED BY <1>4, <1>5

(* The first of two packets on the way goes out.                           *)
LEMMA TxWithoutTwo ==
  ASSUME NEW q, NEW p, queue = <<q, p>>
  PROVE  Tx!Without(q) = <<p>>
<1>1. Len(queue) = 2 /\ queue[1] = q /\ queue[2] = p /\ DOMAIN queue = 1 .. 2 OBVIOUS
<1>2. PICK c : c = CHOOSE i \in DOMAIN queue : queue[i] = q OBVIOUS
<1>3. \E i \in DOMAIN queue : queue[i] = q BY <1>1
<1>4. PICK f : f = [j \in 1 .. Len(queue) - 1 |-> IF j < c THEN queue[j] ELSE queue[j + 1]] OBVIOUS
<1>5. Tx!Without(q) = f BY <1>2, <1>3, <1>4 DEF Tx!Without
<1>6. c \in 1 .. 2 /\ queue[c] = q BY <1>1, <1>2, <1>3
<1>7. f = [j \in 1 .. 1 |-> p]
  <2>1. ASSUME NEW j \in 1 .. 1 PROVE (IF j < c THEN queue[j] ELSE queue[j + 1]) = p
    <3>1. j = 1 /\ j + 1 = 2 OBVIOUS
    <3>2. CASE c = 1 BY <1>1, <3>1, <3>2
    <3>3. CASE c = 2 BY <1>1, <1>6, <3>1, <3>3
    <3>. QED BY <1>6, <3>2, <3>3
  <2>2. Len(queue) - 1 = 1 BY <1>1
  <2>. QED BY <1>4, <2>1, <2>2
<1>8. [j \in 1 .. 1 |-> p] = <<p>> OBVIOUS
<1>. QED BY <1>5, <1>7, <1>8

(* What a step leaves alone that moves only the processor.                 *)
LEMMA TxShapeKept ==
  ASSUME NEW s, NEW u, TxShape(s, u), used' = used,
         UNCHANGED <<next, flags, buf, free_head, active_tail, next_bd_to_process, hdp, tx, len, sent>>,
         pc' = pc \/ (pc = "eoq" /\ pc' = "hdp"), pc' # "idle" => cpu' # "tx"
  PROVE  TxShape(s, u)'
<1>1. TxOrder(s)' /\ TxPackets(s, u)'
  <2>1. TxOrder(s)' BY DEF TxShape, TxOrder, TxAt
  <2>2. \A j \in 0 .. u - 1 : TxUsed(s, j)' <=> TxUsed(s, j) BY DEF TxUsed, TxPk, TxIx
  <2>3. \A j \in 0 .. u - 1 : TxStart(s, u, j)' <=> TxStart(s, u, j) BY DEF TxStart, TxPk, TxIx
  <2>4. \A j : TxIx(s, j)' = TxIx(s, j) BY DEF TxIx
  <2>. QED BY <2>1, <2>2, <2>3, <2>4 DEF TxShape, TxPackets
<1>2. pc' = "idle" <=> pc = "idle" OBVIOUS
<1>3. TxRest(u)' <=> TxRest(u) BY DEF TxRest
<1>4. \A v \in 0 .. u - 1 : TxNew(s, u, v)' <=> TxNew(s, u, v) BY DEF TxNew, TxIx, TxPk
<1>5. \A w \in 0 .. u - 1 : TxDma(s, u, w)' <=> TxDma(s, u, w) BY DEF TxDma, TxIx, TxPk
<1>6. TxChain(s, u)' BY <1>2, <1>3, <1>4, <1>5 DEF TxShape, TxChain
<1>. QED BY <1>1, <1>6 DEF TxShape

(* Between calls the links from free_head on pass the free descriptors.    *)
LEMMA TxFreeWalk ==
  ASSUME TxIInv, pc = "idle", NEW s \in [0 .. N -> TxBD], NEW u \in 0 .. N, TxShape(s, u),
         NEW k \in 1 .. MaxLen, NEW z \in 0 .. N, z = u + k
  PROVE  /\ \A j \in u .. z - 1 : next[s[j]] = s[j + 1]
         /\ \A i \in 0 .. k : Tx!Walk(free_head, k)[i] = s[u + i]
<1>. USE TxNumbers
<1>1. Tx!TypeOK /\ TxLinks /\ next_bd_to_process \in TxBD BY DEF TxIInv, Tx!TypeOK
<1>2. TxOrder(s) /\ TxPackets(s, u) /\ TxRest(u) /\ free_head = s[u] BY DEF TxShape, TxChain
<1>3. z = u + k /\ u < z /\ u \in 0 .. N - 1 OBVIOUS
<1>4. \A i, j \in 0 .. N - 1 : s[i] = s[j] => i = j BY <1>1, <1>2, TxOrderFacts
<1>5. ASSUME NEW j \in u .. z - 1 PROVE next[s[j]] = s[j + 1]
  <2>0. j \in 0 .. N - 1 /\ j + 1 \in 0 .. N BY <1>3
  <2>1. s[j + 1] = TxAt(s[j], 1) BY <1>1, <1>2, <2>0, TxOrderFacts
  <2>2. s[j] \in TxBD /\ s[j] # NULL BY <2>0
  <2>3. tx[2] = NULL BY <1>2 DEF TxRest
  <2>4. ASSUME s[j] = active_tail PROVE FALSE
    <3>1. s[u] = s[j + 1] BY <1>2, <2>1, <2>2, <2>4 DEF TxRest
    <3>2. CASE j + 1 \in 0 .. N - 1 BY <1>3, <1>4, <3>1, <3>2
    <3>3. CASE j + 1 = N
      <4>1. s[u] = s[0] BY <1>1, <1>2, <3>1, <3>3, TxOrderFacts
      <4>2. u = 0 BY <1>3, <1>4, <4>1
      <4>. QED BY <1>3, <3>3, <4>2
    <3>. QED BY <2>0, <3>2, <3>3
  <2>. QED BY <1>1, <2>1, <2>2, <2>3, <2>4 DEF TxLinks
<1>6. \A i \in 0 .. k : Tx!Walk(free_head, k)[i] = s[u + i]
  <2>1. TxOpen(s, u, k)
    <3>1. \A i \in 0 .. k - 1 : u + i \in u .. z - 1 /\ u + i + 1 \in 0 .. N BY <1>3
    <3>2. \A i \in 0 .. k - 1 : next[s[u + i]] = s[u + i + 1] /\ s[u + i + 1] # NULL BY <1>5, <3>1
    <3>. QED BY <3>2 DEF TxOpen
  <2>2. k \in 0 .. N /\ k \in 0 .. k /\ u + k <= N BY <1>3
  <2>3. \A i \in 0 .. k : Tx!Walk(s[u], k)[i] = s[u + i] BY <1>1, <1>2, <2>1, <2>2, TxWalk
  <2>. QED BY <1>2, <2>3
<1>. QED BY <1>5, <1>6

(* A packet is put behind the last one, if the ring has room for it.       *)
LEMMA TxOutputStep ==
  ASSUME TxIInv, NEW p \in Packets, NEW k \in 1 .. MaxLen, Tx!Output(p, k), ~overrun'
  PROVE  TxIInv'
<1>. USE TxNumbers
<1>1. /\ pc = "idle" /\ cpu # "tx" /\ len[p] = 0 /\ overrun' = (overrun \/ used + k > N)
      /\ UNCHANGED <<active_tail, next_bd_to_process, hdp, pending, cpu, sent>>
      /\ queue' = Append(queue, p) /\ used' = used + k
      /\ len' = [len EXCEPT ![p] = k]
      /\ pc' = IF active_tail = NULL THEN "first" ELSE "eoq"
  BY DEF Tx!Output, Tx!Handed
<1>2. PICK s \in [0 .. N -> TxBD], u \in 0 .. N : TxShape(s, u) BY DEF TxIInv
<1>3. Tx!TypeOK /\ TxLinks /\ next_bd_to_process \in TxBD BY DEF TxIInv, Tx!TypeOK
<1>4. TxOrder(s) /\ TxPackets(s, u) /\ TxRest(u) /\ free_head = s[u] /\ u = used
  BY <1>1, <1>2 DEF TxShape, TxChain
<1>5. PICK z \in 0 .. N : z = u + k /\ z - 1 \in 0 .. N - 1 /\ u < z /\ u \in 0 .. N - 1 /\ z = used'
  <2>1. ~(used + k > N) BY <1>1
  <2>. QED BY <1>1, <1>4, <2>1
<1>6. \A i, j \in 0 .. N - 1 : s[i] = s[j] => i = j BY <1>3, <1>4, TxOrderFacts
<1>7. \A b \in TxBD : \E j \in 0 .. N - 1 : s[j] = b BY <1>3, <1>4, TxOrderFacts
<1>8. \A j \in u .. z - 1 : next[s[j]] = s[j + 1]
  <2>1. pc = "idle" /\ z = u + k BY <1>1, <1>5
  <2>. QED BY <1>2, <2>1, TxFreeWalk, Zenon
<1>9. PICK at : at = Tx!Walk(free_head, k) OBVIOUS
<1>10. \A i \in 0 .. k : at[i] = s[u + i] BY <1>1, <1>2, <1>5, <1>9, TxFreeWalk
<1>11. at[0] = s[u] /\ at[k - 1] = s[z - 1] /\ at[k] = s[z]
  <2>1. 0 \in 0 .. k /\ k - 1 \in 0 .. k /\ k \in 0 .. k /\ u + 0 = u /\ u + (k - 1) = z - 1 /\ u + k = z
    BY <1>5
  <2>. QED BY <1>10, <2>1
<1>12. PICK filled : filled = {at[i] : i \in 0 .. k - 1} OBVIOUS
<1>13. \A j \in 0 .. N - 1 : s[j] \in filled <=> j \in u .. z - 1
  <2>1. ASSUME NEW j \in 0 .. N - 1, s[j] \in filled PROVE j \in u .. z - 1
    <3>1. PICK i \in 0 .. k - 1 : s[j] = at[i] BY <1>12, <2>1
    <3>2. i \in 0 .. k /\ u + i \in 0 .. N - 1 /\ u + i \in u .. z - 1 BY <1>5
    <3>. QED BY <1>6, <1>10, <3>1, <3>2
  <2>2. ASSUME NEW j \in u .. z - 1 PROVE s[j] \in filled
    <3>1. j - u \in 0 .. k - 1 /\ j - u \in 0 .. k /\ u + (j - u) = j BY <1>5
    <3>2. at[j - u] = s[j] BY <1>10, <3>1
    <3>. QED BY <1>12, <3>1, <3>2
  <2>. QED BY <2>1, <2>2
<1>14. /\ buf' = [b \in TxBD |-> IF b \in filled THEN <<p, CHOOSE i \in 1 .. k : at[i - 1] = b>> ELSE buf[b]]
       /\ flags' = [b \in TxBD |-> (IF b = s[u] THEN {"SOP", "OWNER"} ELSE flags[b])
                                     \cup (IF b = s[z - 1] THEN {"EOP"} ELSE {})]
       /\ next' = [next EXCEPT ![s[z - 1]] = NULL]
       /\ free_head' = s[z] /\ tx' = <<s[u], s[z - 1]>>
  BY <1>9, <1>11, <1>12 DEF Tx!Output, Tx!FirstFlags
<1>15. ASSUME NEW j \in u .. z - 1 PROVE buf'[s[j]] = <<p, j - u + 1>>
  <2>1. j \in 0 .. N - 1 /\ s[j] \in TxBD BY <1>5
  <2>2. PICK c : c = CHOOSE i \in 1 .. k : at[i - 1] = s[j] OBVIOUS
  <2>3. PICK h \in 1 .. k : h - 1 \in 0 .. k /\ u + (h - 1) = j
    <3>1. j - u + 1 \in 1 .. k /\ j - u + 1 - 1 \in 0 .. k /\ u + (j - u + 1 - 1) = j BY <1>5
    <3>. QED BY <3>1
  <2>4. at[h - 1] = s[j] BY <1>10, <2>3
  <2>5. c \in 1 .. k /\ at[c - 1] = s[j] BY <2>2, <2>3, <2>4
  <2>6. c - 1 \in 0 .. k /\ u + (c - 1) \in 0 .. N - 1 BY <1>5, <2>5
  <2>7. s[u + (c - 1)] = s[j] BY <1>10, <2>5, <2>6
  <2>8. u + (c - 1) = j BY <1>6, <2>1, <2>6, <2>7
  <2>9. c = j - u + 1 BY <2>5, <2>8
  <2>10. buf'[s[j]] = <<p, c>> BY <1>13, <1>14, <2>1, <2>2
  <2>. QED BY <2>9, <2>10
<1>16. ASSUME NEW j \in 0 .. N - 1, j \notin u .. z - 1
       PROVE  buf'[s[j]] = buf[s[j]] /\ flags'[s[j]] = flags[s[j]] /\ next'[s[j]] = next[s[j]]
  <2>1. s[j] \in TxBD /\ s[j] # s[u] /\ s[j] # s[z - 1] BY <1>5, <1>6, <1>16
  <2>2. buf'[s[j]] = buf[s[j]] BY <1>13, <1>14, <1>16, <2>1
  <2>3. flags'[s[j]] = flags[s[j]] BY <1>14, <2>1
  <2>. QED BY <1>3, <1>14, <2>1, <2>2, <2>3 DEF Tx!TypeOK
<1>17. ASSUME NEW j \in u .. z - 1
       PROVE  /\ "SOP" \in flags'[s[j]] <=> j = u
              /\ "OWNER" \in flags'[s[j]] <=> j = u
              /\ "EOP" \in flags'[s[j]] <=> j = z - 1
              /\ next'[s[j]] = NULL <=> j = z - 1
  <2>1. j \in 0 .. N - 1 /\ s[j] \in TxBD /\ j \in u .. N - 1 /\ j + 1 \in 0 .. N BY <1>5
  <2>2. flags[s[j]] \subseteq {"EOQ"} BY <1>4, <2>1 DEF TxPackets
  <2>3. s[j] = s[u] <=> j = u BY <1>5, <1>6, <2>1
  <2>4. s[j] = s[z - 1] <=> j = z - 1 BY <1>5, <1>6, <2>1
  <2>5. flags'[s[j]] = (IF s[j] = s[u] THEN {"SOP", "OWNER"} ELSE flags[s[j]])
                         \cup (IF s[j] = s[z - 1] THEN {"EOP"} ELSE {})
    BY <1>14, <2>1
  <2>6. "SOP" \in flags'[s[j]] <=> j = u BY <2>2, <2>3, <2>5
  <2>7. "OWNER" \in flags'[s[j]] <=> j = u BY <2>2, <2>3, <2>5
  <2>8. "EOP" \in flags'[s[j]] <=> j = z - 1 BY <2>2, <2>4, <2>5
  <2>9. next'[s[j]] = IF s[j] = s[z - 1] THEN NULL ELSE next[s[j]] BY <1>3, <1>14, <2>1 DEF Tx!TypeOK
  <2>10. next[s[j]] # NULL BY <1>8, <2>1
  <2>. QED BY <2>4, <2>6, <2>7, <2>8, <2>9, <2>10
<1>18. \A q \in Packets : len'[q] = IF q = p THEN k ELSE len[q] BY <1>1, <1>3 DEF Tx!TypeOK
<1>19. ASSUME NEW j \in 0 .. u - 1
       PROVE  /\ j \in 0 .. N - 1 /\ j \notin u .. z - 1 /\ TxUsed(s, j)
              /\ TxPk(s, j) \in Packets /\ TxPk(s, j) # p /\ TxIx(s, j) \in 1 .. MaxLen
              /\ TxPk(s, j)' = TxPk(s, j) /\ TxIx(s, j)' = TxIx(s, j)
              /\ len'[TxPk(s, j)] = len[TxPk(s, j)]
  <2>1. j \in 0 .. N - 1 /\ j \notin u .. z - 1 /\ TxUsed(s, j) BY <1>4, <1>5 DEF TxPackets
  <2>2. TxPk(s, j) \in Packets /\ TxIx(s, j) \in 1 .. MaxLen BY <2>1 DEF TxUsed, TxPk, TxIx
  <2>3. TxPk(s, j) # p BY <1>1, <2>1, <2>2 DEF TxUsed
  <2>4. TxPk(s, j)' = TxPk(s, j) /\ TxIx(s, j)' = TxIx(s, j) BY <1>16, <2>1 DEF TxPk, TxIx
  <2>. QED BY <1>18, <2>1, <2>2, <2>3, <2>4
<1>20. ASSUME NEW j \in 0 .. u - 1
       PROVE  TxUsed(s, j)' /\ (TxIx(s, j)' = 1 => TxStart(s, z, j)')
  <2>1. buf'[s[j]] = buf[s[j]] /\ flags'[s[j]] = flags[s[j]] /\ next'[s[j]] = next[s[j]]
    BY <1>16, <1>19
  <2>2. tx[1] = NULL /\ s[j] # NULL /\ hdp' = hdp
    BY <1>1, <1>4, <1>19 DEF TxRest
  <2>3. TxUsed(s, j)'
    <3>1. PICK a, x : a = TxPk(s, j) /\ x = TxIx(s, j) OBVIOUS
    <3>2. TxPk(s, j)' = a /\ TxIx(s, j)' = x /\ len'[a] = len[a] BY <1>19, <3>1
    <3>3. /\ buf[s[j]] \in Packets \X (1 .. MaxLen) /\ x <= len[a]
          /\ "SOP" \in flags[s[j]] <=> x = 1
          /\ "EOP" \in flags[s[j]] <=> x = len[a]
          /\ next[s[j]] = NULL => x = len[a]
          /\ "OWNER" \in flags[s[j]] => s[j] \in {hdp, tx[1]}
      BY <1>19, <3>1 DEF TxUsed
    <3>4. "OWNER" \in flags'[s[j]] => s[j] = hdp' BY <2>1, <2>2, <3>3
    <3>. QED BY <2>1, <3>2, <3>3, <3>4 DEF TxUsed
  <2>4. ASSUME TxIx(s, j) = 1 PROVE TxStart(s, z, j)'
    <3>1. PICK q, L : TxWhole(s, u, j, q, L) BY <1>3, <1>4, <2>4, TxPacket
    <3>2. q = TxPk(s, j) /\ L = len[q] /\ L \in 1 .. MaxLen /\ j + L <= u BY <3>1 DEF TxWhole
    <3>3. TxPk(s, j)' = q /\ len'[q] = L BY <1>19, <3>2
    <3>4. j + L <= z BY <1>5, <3>2
    <3>5. "OWNER" \in flags'[s[j]] \/ q \in sent'
      BY <1>1, <1>4, <2>1, <2>4, <3>2 DEF TxPackets, TxStart
    <3>6. ASSUME NEW i \in 0 .. L - 1 PROVE buf'[s[j + i]] = <<q, i + 1>>
      <4>1. j + i \in 0 .. u - 1 BY <3>2
      <4>2. j + i \in 0 .. N - 1 /\ j + i \notin u .. z - 1 BY <1>19, <4>1
      <4>3. buf[s[j + i]] = <<q, i + 1>> BY <3>1 DEF TxWhole
      <4>. QED BY <1>16, <4>2, <4>3
    <3>7. ASSUME j + L < z PROVE buf'[s[j + L]][2] = 1
      <4>1. CASE j + L < u
        <5>1. TxIx(s, j + L) = 1 /\ j + L \in 0 .. u - 1 BY <3>1, <3>2, <4>1 DEF TxWhole
        <5>2. j + L \in 0 .. N - 1 /\ j + L \notin u .. z - 1 BY <1>19, <5>1
        <5>. QED BY <1>16, <5>1, <5>2 DEF TxIx
      <4>2. CASE j + L = u
        <5>1. u \in u .. z - 1 /\ u - u + 1 = 1 BY <1>5
        <5>2. buf'[s[u]] = <<p, 1>> BY <1>15, <5>1
        <5>. QED BY <4>2, <5>2
      <4>. QED BY <3>2, <4>1, <4>2
    <3>. QED BY <3>3, <3>4, <3>5, <3>6, <3>7 DEF TxStart
  <2>. QED BY <1>19, <2>3, <2>4
<1>21. ASSUME NEW j \in u .. z - 1
       PROVE  TxUsed(s, j)' /\ (TxIx(s, j)' = 1 => TxStart(s, z, j)')
  <2>1. PICK i \in 1 .. k : i = j - u + 1 BY <1>5
  <2>2. buf'[s[j]] = <<p, i>> BY <1>15, <2>1
  <2>3. TxPk(s, j)' = p /\ TxIx(s, j)' = i BY <2>2 DEF TxPk, TxIx
  <2>4. len'[p] = k BY <1>18
  <2>5. i = 1 <=> j = u BY <1>5, <2>1
  <2>6. i = k <=> j = z - 1 BY <1>5, <2>1
  <2>7. tx'[1] = s[u] BY <1>14
  <2>8. buf'[s[j]] \in Packets \X (1 .. MaxLen) BY <2>2
  <2>9. TxUsed(s, j)' BY <1>17, <2>3, <2>4, <2>5, <2>6, <2>7, <2>8 DEF TxUsed
  <2>10. ASSUME j = u PROVE TxStart(s, z, j)'
    <3>1. "OWNER" \in flags'[s[j]] /\ j + k = z BY <1>5, <1>17, <2>10
    <3>2. ASSUME NEW h \in 0 .. k - 1 PROVE buf'[s[j + h]] = <<p, h + 1>>
      <4>1. PICK g \in u .. z - 1 : g = j + h /\ g - u + 1 = h + 1 BY <1>5, <2>10
      <4>2. buf'[s[g]] = <<p, g - u + 1>> BY <1>15
      <4>. QED BY <4>1, <4>2
    <3>3. ~(j + k < z) /\ j + k <= z BY <1>5, <2>10
    <3>. QED BY <2>3, <2>4, <3>1, <3>2, <3>3 DEF TxStart
  <2>. QED BY <2>3, <2>5, <2>9, <2>10
<1>22. TxPackets(s, z)'
  <2>0. \A j \in 0 .. z - 1 : j \in 0 .. u - 1 \/ j \in u .. z - 1 BY <1>5
  <2>1. \A j \in 0 .. z - 1 : TxUsed(s, j)' /\ (TxIx(s, j)' = 1 => TxStart(s, z, j)')
    BY <1>20, <1>21, <2>0
  <2>2. TxIx(s, 0)' = 1
    <3>1. CASE u = 0
      <4>1. 0 \in u .. z - 1 /\ 0 - u + 1 = 1 BY <1>5, <3>1
      <4>. QED BY <1>15, <4>1 DEF TxIx
    <3>2. CASE u > 0
      <4>1. 0 \in 0 .. u - 1 BY <3>2
      <4>. QED BY <1>4, <1>19, <3>2, <4>1 DEF TxPackets
    <3>. QED BY <3>1, <3>2
  <2>3. ASSUME NEW i \in 0 .. z - 1, NEW j \in 0 .. z - 1, buf'[s[i]] = buf'[s[j]] PROVE i = j
    <3>1. CASE i \in 0 .. u - 1 /\ j \in 0 .. u - 1
      <4>1. buf[s[i]] = buf[s[j]] BY <1>16, <1>19, <2>3, <3>1
      <4>. QED BY <1>4, <3>1, <4>1 DEF TxPackets
    <3>2. CASE i \in u .. z - 1 /\ j \in u .. z - 1
      <4>1. i - u + 1 = j - u + 1 BY <1>15, <2>3, <3>2
      <4>. QED BY <1>5, <4>1
    <3>3. CASE i \in 0 .. u - 1 /\ j \in u .. z - 1
      <4>1. buf'[s[i]][1] # p BY <1>19, <3>3 DEF TxPk
      <4>2. buf'[s[j]] = <<p, j - u + 1>> BY <1>15, <3>3
      <4>. QED BY <2>3, <4>1, <4>2
    <3>4. CASE i \in u .. z - 1 /\ j \in 0 .. u - 1
      <4>1. buf'[s[j]][1] # p BY <1>19, <3>4 DEF TxPk
      <4>2. buf'[s[i]] = <<p, i - u + 1>> BY <1>15, <3>4
      <4>. QED BY <2>3, <4>1, <4>2
    <3>. QED BY <2>0, <3>1, <3>2, <3>3, <3>4
  <2>4. ASSUME NEW j \in z .. N - 1 PROVE flags'[s[j]] \subseteq {"EOQ"}
    <3>1. j \in 0 .. N - 1 /\ j \notin u .. z - 1 /\ j \in u .. N - 1 BY <1>5
    <3>. QED BY <1>4, <1>16, <3>1 DEF TxPackets
  <2>. QED BY <2>1, <2>2, <2>3, <2>4 DEF TxPackets
<1>23. ASSUME active_tail # NULL PROVE next'[active_tail] = NULL
  <2>1. next[active_tail] = NULL /\ active_tail \in TxBD
    BY <1>2, <1>3, <1>23 DEF TxShape, TxChain, Tx!TypeOK
  <2>. QED BY <1>3, <1>14, <2>1 DEF Tx!TypeOK
<1>24. TxNew(s, z, u)'
  <2>1. u \in u .. z - 1 /\ z - 1 \in u .. z - 1 /\ u - u + 1 = 1 BY <1>5
  <2>2. buf'[s[u]] = <<p, 1>> BY <1>15, <2>1
  <2>3. TxIx(s, u)' = 1 /\ TxPk(s, u)' = p BY <2>2 DEF TxIx, TxPk
  <2>4. "OWNER" \in flags'[s[u]] /\ next'[s[z - 1]] = NULL BY <1>17, <2>1
  <2>5. u + len'[p] = z BY <1>5, <1>18
  <2>6. active_tail' = NULL => u = 0 /\ hdp' = NULL BY <1>1, <1>4 DEF TxRest
  <2>7. active_tail' # NULL => s[u] = TxAt(active_tail, 1)' BY <1>1, <1>4 DEF TxRest, TxAt
  <2>. QED BY <1>14, <2>3, <2>4, <2>5, <2>6, <2>7 DEF TxNew
<1>25. ASSUME hdp # NULL PROVE \E w \in 0 .. u - 1 : TxDma(s, z, w)' /\ TxPk(s, w)' = buf[hdp][1] /\ hdp = s[w]
  <2>1. PICK w \in 0 .. u - 1 : TxDma(s, u, w) BY <1>2, <1>25 DEF TxShape, TxChain
  <2>2. /\ hdp = s[w] /\ TxIx(s, w) = 1 /\ "OWNER" \in flags[s[w]]
        /\ active_tail = s[w + len[TxPk(s, w)] - 1]
    BY <2>1 DEF TxDma
  <2>3. TxIx(s, w)' = 1 /\ "OWNER" \in flags'[s[w]] BY <1>16, <1>19, <2>2
  <2>4. active_tail' = s[w + len'[TxPk(s, w)'] - 1] BY <1>1, <1>19, <2>2
  <2>5. hdp' # tx'[1] BY <1>1, <1>5, <1>6, <1>14, <1>19, <2>2
  <2>6. TxDma(s, z, w)' BY <1>1, <2>2, <2>3, <2>4, <2>5 DEF TxDma
  <2>. QED BY <1>19, <2>2, <2>6 DEF TxPk
<1>26. TxShape(s, z)'
  <2>1. TxOrder(s)' BY <1>1, <1>4 DEF TxOrder, TxAt
  <2>2. pc' # "idle" BY <1>1
  <2>3. u \in 0 .. z - 1 /\ \A w \in 0 .. u - 1 : w \in 0 .. z - 1 BY <1>5
  <2>4. hdp' # NULL => \E w \in 0 .. z - 1 : TxDma(s, z, w)' BY <1>1, <1>25, <2>3
  <2>5. TxChain(s, z)' BY <1>1, <1>5, <1>14, <1>23, <1>24, <2>2, <2>3, <2>4 DEF TxChain
  <2>. QED BY <1>22, <2>1, <2>5 DEF TxShape
<1>27. TxLinks'
  <2>. SUFFICES ASSUME NEW b \in TxBD
                PROVE  next'[b] = TxAt(b, 1) \/ (next'[b] = NULL /\ b \in {active_tail', tx'[2]})
    BY DEF TxLinks, TxAt
  <2>1. CASE b = s[z - 1] BY <1>3, <1>14, <2>1 DEF Tx!TypeOK
  <2>2. CASE b # s[z - 1]
    <3>1. next'[b] = next[b] BY <1>3, <1>14, <2>2 DEF Tx!TypeOK
    <3>2. tx[2] = NULL /\ b # NULL BY <1>4 DEF TxRest
    <3>. QED BY <1>1, <1>3, <3>1, <3>2 DEF TxLinks
  <2>. QED BY <2>1, <2>2
<1>28. buf'[s[u]][1] = p
  <2>1. u \in u .. z - 1 BY <1>5
  <2>2. buf'[s[u]] = <<p, u - u + 1>> BY <1>15, <2>1
  <2>. QED BY <2>2
<1>29. TxLine'
  <2>1. tx'[1] = s[u] /\ pc' # "idle" BY <1>1, <1>14
  <2>2. CASE hdp = NULL
    <3>1. queue = << >> BY <1>1, <2>2 DEF TxIInv, TxLine
    <3>2. queue' = <<p>> BY <1>1, <3>1
    <3>. QED BY <1>1, <1>28, <2>1, <2>2, <3>2 DEF TxLine
  <2>3. CASE hdp # NULL
    <3>1. queue = <<buf[hdp][1]>> BY <1>1, <2>3 DEF TxIInv, TxLine
    <3>2. queue' = <<buf[hdp][1], p>> BY <1>1, <3>1, AppendPair
    <3>3. buf'[hdp][1] = buf[hdp][1] BY <1>25, <2>3 DEF TxPk
    <3>. QED BY <1>1, <1>28, <2>1, <2>3, <3>2, <3>3 DEF TxLine
  <2>. QED BY <2>2, <2>3
<1>30. Tx!TypeOK'
  <2>1. buf' \in [TxBD -> (Packets \X (1 .. MaxLen)) \cup {NULL}]
    <3>1. ASSUME NEW b \in TxBD PROVE buf'[b] \in (Packets \X (1 .. MaxLen)) \cup {NULL}
      <4>1. PICK j \in 0 .. N - 1 : s[j] = b BY <1>7
      <4>2. CASE j \in u .. z - 1
        <5>1. PICK i \in 1 .. MaxLen : i = j - u + 1 BY <1>5, <4>2
        <5>2. buf'[s[j]] = <<p, i>> BY <1>15, <4>2, <5>1
        <5>. QED BY <4>1, <5>2
      <4>3. CASE j \notin u .. z - 1 BY <1>3, <1>16, <4>1, <4>3 DEF Tx!TypeOK
      <4>. QED BY <4>2, <4>3
    <3>2. DOMAIN buf' = TxBD /\ buf' = [b \in TxBD |-> buf'[b]] BY <1>14
    <3>. QED BY <3>1, <3>2
  <2>2. flags' \in [TxBD -> SUBSET {"SOP", "EOP", "OWNER", "EOQ"}] BY <1>3, <1>14 DEF Tx!TypeOK, Tx!Flags
  <2>3. next' \in [TxBD -> TxBD \cup {NULL}] BY <1>3, <1>14 DEF Tx!TypeOK
  <2>4. len' \in [Packets -> 0 .. MaxLen] BY <1>1, <1>3 DEF Tx!TypeOK
  <2>5. used' \in 0 .. N /\ overrun' \in BOOLEAN
    <3>1. used' \in 0 .. N BY <1>5
    <3>2. overrun' \in BOOLEAN BY <1>1, Zenon
    <3>. QED BY <3>1, <3>2
  <2>6. free_head' \in TxBD BY <1>14
  <2>7. queue' \in Seq(Packets) BY <1>1, <1>3 DEF Tx!TypeOK
  <2>. QED BY <1>1, <1>3, <2>1, <2>2, <2>3, <2>4, <2>5, <2>6, <2>7 DEF Tx!TypeOK, Tx!Flags
<1>31. \A q \in sent' : len'[q] > 0 BY <1>1, <1>3, <1>18 DEF TxIInv, Tx!TypeOK
<1>. QED BY <1>26, <1>27, <1>29, <1>30, <1>31 DEF TxIInv

(* The DMA is started on the new packet, which is now the last one; a link *)
(* from the packet before it mends the ring.                               *)
LEMMA TxStartStep ==
  ASSUME TxIInv, Tx!StartFirst \/ Tx!StartNext
  PROVE  TxIInv'
<1>. USE TxNumbers
<1>1. /\ pc # "idle" /\ pc' = "idle" /\ hdp' = tx[1] /\ active_tail' = tx[2] /\ tx' = <<NULL, NULL>>
      /\ UNCHANGED <<flags, buf, free_head, next_bd_to_process, pending, cpu, len, queue, sent, used, overrun>>
  BY DEF Tx!StartFirst, Tx!StartNext, Tx!Start
<1>2. PICK s \in [0 .. N -> TxBD], u \in 0 .. N : TxShape(s, u) BY DEF TxIInv
<1>3. Tx!TypeOK /\ TxLinks /\ next_bd_to_process \in TxBD BY DEF TxIInv, Tx!TypeOK
<1>4. TxOrder(s) /\ TxPackets(s, u) /\ free_head = s[u] /\ u = used BY <1>2 DEF TxShape, TxChain
<1>5. PICK v \in 0 .. u - 1 : TxNew(s, u, v) BY <1>1, <1>2 DEF TxShape, TxChain
<1>6. /\ tx[1] = s[v] /\ tx[2] = s[u - 1] /\ next[s[u - 1]] = NULL
      /\ TxIx(s, v) = 1 /\ "OWNER" \in flags[s[v]] /\ v + len[TxPk(s, v)] = u
      /\ active_tail # NULL => s[v] = TxAt(active_tail, 1)
  BY <1>5 DEF TxNew
<1>7. hdp = NULL
  <2>1. CASE Tx!StartFirst BY <1>2, <1>5, <2>1 DEF Tx!StartFirst, TxShape, TxChain, TxNew
  <2>2. CASE Tx!StartNext BY <2>2 DEF Tx!StartNext
  <2>. QED BY <2>1, <2>2
<1>8. \A i, j \in 0 .. N - 1 : s[i] = s[j] => i = j BY <1>3, <1>4, TxOrderFacts
<1>9. v \in 0 .. N - 1 /\ u - 1 \in 0 .. N - 1 /\ s[u - 1] \in TxBD /\ s[v] \in TxBD /\ u \in 1 .. N
  <2>1. v \in 0 .. N - 1 /\ u - 1 \in 0 .. N - 1 /\ u - 1 \in 0 .. N /\ v \in 0 .. N /\ u \in 1 .. N OBVIOUS
  <2>. QED BY <2>1
<1>10. s[u] = TxAt(s[u - 1], 1)
  <2>1. u - 1 + 1 = u BY <1>9
  <2>2. \A j \in 0 .. N - 1 : s[j + 1] = TxAt(s[j], 1) BY <1>3, <1>4, TxOrderFacts
  <2>. QED BY <1>9, <2>1, <2>2
<1>11. len[TxPk(s, v)] \in 0 .. MaxLen
  <2>1. TxPk(s, v) \in Packets BY <1>4 DEF TxPackets, TxUsed, TxPk
  <2>. QED BY <1>3, <2>1 DEF Tx!TypeOK
<1>12. active_tail # s[u - 1]
  <2>. SUFFICES ASSUME active_tail = s[u - 1] PROVE FALSE OBVIOUS
  <2>1. s[u] = s[v] BY <1>6, <1>9, <1>10
  <2>2. CASE u \in 0 .. N - 1 BY <1>8, <1>9, <2>1, <2>2
  <2>3. CASE u = N
    <3>0. 0 \in 0 .. N - 1 OBVIOUS
    <3>1. s[N] = s[0] BY <1>3, <1>4, TxOrderFacts
    <3>2. v = 0 BY <1>8, <1>9, <2>1, <2>3, <3>0, <3>1
    <3>. QED BY <1>6, <1>11, <2>3, <3>2
  <2>. QED BY <1>9, <2>2, <2>3
<1>13. ASSUME NEW b \in TxBD
       PROVE  IF b = active_tail THEN next'[b] = TxAt(b, 1) ELSE next'[b] = next[b]
  <2>1. CASE Tx!StartFirst
    <3>1. active_tail = NULL /\ next' = next BY <1>2, <2>1 DEF Tx!StartFirst, TxShape, TxChain
    <3>. QED BY <3>1
  <2>2. CASE Tx!StartNext
    <3>1. next' = [next EXCEPT ![active_tail] = tx[1]] BY <2>2 DEF Tx!StartNext, Tx!Link
    <3>. QED BY <1>3, <1>6, <3>1 DEF Tx!TypeOK
  <2>. QED BY <2>1, <2>2
<1>14. \A b \in TxBD : TxAt(b, 1) \in TxBD
  <2>1. 1 \in 0 .. N OBVIOUS
  <2>. QED BY <2>1, TxAtFacts
<1>15. \A b \in TxBD : next'[b] = NULL => next[b] = NULL /\ b # active_tail BY <1>13, <1>14
<1>16. next'[s[u - 1]] = NULL BY <1>6, <1>9, <1>12, <1>13
<1>17. ASSUME NEW j \in 0 .. u - 1
       PROVE  /\ TxUsed(s, j)' /\ (TxIx(s, j)' = 1 => TxStart(s, u, j)')
              /\ TxIx(s, j)' = TxIx(s, j) /\ TxPk(s, j)' = TxPk(s, j)
  <2>1. TxIx(s, j)' = TxIx(s, j) /\ TxPk(s, j)' = TxPk(s, j) BY <1>1 DEF TxIx, TxPk
  <2>2. TxUsed(s, j) /\ s[j] \in TxBD /\ s[j] # NULL
    <3>1. j \in 0 .. N OBVIOUS
    <3>. QED BY <1>4, <3>1 DEF TxPackets
  <2>3. "OWNER" \in flags'[s[j]] => s[j] = hdp' BY <1>1, <1>7, <2>2 DEF TxUsed
  <2>4. next'[s[j]] = NULL => TxIx(s, j) = len[TxPk(s, j)] BY <1>15, <2>2 DEF TxUsed
  <2>5. TxUsed(s, j)' BY <1>1, <2>1, <2>2, <2>3, <2>4 DEF TxUsed
  <2>6. TxIx(s, j) = 1 => TxStart(s, u, j) BY <1>4 DEF TxPackets
  <2>7. TxStart(s, u, j)' <=> TxStart(s, u, j) BY <1>1, <2>1 DEF TxStart
  <2>. QED BY <2>1, <2>5, <2>6, <2>7
<1>18. TxPackets(s, u)'
  <2>1. u > 0 => TxIx(s, 0)' = 1 BY <1>1, <1>4 DEF TxPackets, TxIx
  <2>2. \A i, j \in 0 .. u - 1 : buf'[s[i]] = buf'[s[j]] => i = j BY <1>1, <1>4 DEF TxPackets
  <2>3. \A j \in u .. N - 1 : flags'[s[j]] \subseteq {"EOQ"} BY <1>1, <1>4 DEF TxPackets
  <2>. QED BY <1>17, <2>1, <2>2, <2>3 DEF TxPackets
<1>19. TxDma(s, u, v)'
  <2>1. v + len[TxPk(s, v)] - 1 = u - 1 BY <1>6, <1>11
  <2>2. len'[TxPk(s, v)'] = len[TxPk(s, v)] BY <1>1, <1>17
  <2>3. active_tail' = s[v + len'[TxPk(s, v)'] - 1] BY <1>1, <1>6, <2>1, <2>2
  <2>4. hdp' = s[v] /\ hdp' # tx'[1] BY <1>1, <1>6, <1>9
  <2>. QED BY <1>1, <1>6, <1>17, <2>3, <2>4 DEF TxDma
<1>20. TxRest(u)' BY <1>1, <1>4, <1>6, <1>9, <1>10 DEF TxRest, TxAt
<1>21. TxChain(s, u)' BY <1>1, <1>4, <1>6, <1>9, <1>16, <1>19, <1>20 DEF TxChain
<1>22. TxShape(s, u)'
  <2>1. TxOrder(s)' BY <1>1, <1>4 DEF TxOrder, TxAt
  <2>. QED BY <1>18, <1>21, <2>1 DEF TxShape
<1>23. TxLinks'
  <2>. SUFFICES ASSUME NEW b \in TxBD
                PROVE  next'[b] = TxAt(b, 1) \/ (next'[b] = NULL /\ b \in {active_tail', tx'[2]})
    BY DEF TxLinks, TxAt
  <2>1. CASE b = active_tail BY <1>13, <2>1
  <2>2. CASE b # active_tail BY <1>1, <1>3, <1>13, <2>2 DEF TxLinks
  <2>. QED BY <2>1, <2>2
<1>24. TxLine'
  <2>1. queue = <<buf[tx[1]][1]>> BY <1>1, <1>7 DEF TxIInv, TxLine
  <2>. QED BY <1>1, <1>6, <1>9, <2>1 DEF TxLine
<1>25. Tx!TypeOK'
  <2>1. next' \in [TxBD -> TxBD \cup {NULL}]
    <3>1. CASE Tx!StartFirst BY <1>3, <3>1 DEF Tx!StartFirst, Tx!TypeOK
    <3>2. CASE Tx!StartNext
      <4>1. next' = [next EXCEPT ![active_tail] = tx[1]] BY <3>2 DEF Tx!StartNext, Tx!Link
      <4>. QED BY <1>3, <1>6, <1>9, <4>1 DEF Tx!TypeOK
    <3>. QED BY <3>1, <3>2
  <2>2. hdp' \in TxBD /\ active_tail' \in TxBD BY <1>1, <1>6, <1>9
  <2>. QED BY <1>1, <1>3, <2>1, <2>2 DEF Tx!TypeOK
<1>26. \A p \in sent' : len'[p] > 0 BY <1>1 DEF TxIInv
<1>. QED BY <1>22, <1>23, <1>24, <1>25, <1>26 DEF TxIInv

(* The DMA sends its packet and comes to the end of the chain.  It is the  *)
(* first in line.                                                          *)
LEMMA TxDmaStep ==
  ASSUME TxIInv, Tx!Dma
  PROVE  /\ TxIInv'
         /\ \E q \in Packets :
              /\ sent' = sent \cup {q}
              /\ \/ queue = <<q>> /\ queue' = << >>
                 \/ \E p \in Packets : queue = <<q, p>> /\ queue' = <<p>>
<1>. USE TxNumbers
<1>1. hdp # NULL /\ pending' = TRUE
      /\ UNCHANGED <<next, buf, free_head, active_tail, next_bd_to_process, cpu, pc, tx, len, used, overrun>>
  BY DEF Tx!Dma
<1>2. PICK s \in [0 .. N -> TxBD], u \in 0 .. N : TxShape(s, u) BY DEF TxIInv
<1>3. Tx!TypeOK /\ TxLinks /\ next_bd_to_process \in TxBD BY DEF TxIInv, Tx!TypeOK
<1>4. TxOrder(s) /\ TxPackets(s, u) /\ TxChain(s, u) BY <1>2 DEF TxShape
<1>5. PICK w \in 0 .. u - 1 : TxDma(s, u, w) BY <1>1, <1>4 DEF TxChain
<1>6. /\ hdp = s[w] /\ TxIx(s, w) = 1 /\ "OWNER" \in flags[s[w]]
      /\ active_tail = s[w + len[TxPk(s, w)] - 1] /\ hdp # tx[1]
  BY <1>5 DEF TxDma
<1>7. PICK q, L : TxWhole(s, u, w, q, L) BY <1>3, <1>4, <1>6, TxPacket
<1>8. q \in Packets /\ L \in 1 .. MaxLen /\ q = TxPk(s, w) /\ L = len[q] /\ w + L <= u BY <1>7 DEF TxWhole
<1>9. PICK e : e = Tx!PacketEnd(hdp) OBVIOUS
<1>10. e.bd = s[w + L - 1] BY <1>3, <1>4, <1>6, <1>7, <1>9, TxEnd
<1>11. e.bd = active_tail BY <1>6, <1>8, <1>10
<1>12. active_tail \in TxBD
  <2>1. w + L - 1 \in 0 .. N BY <1>8
  <2>. QED BY <1>10, <1>11, <2>1
<1>13. next[active_tail] = NULL BY <1>4, <1>12 DEF TxChain
<1>14. /\ flags' = [b \in TxBD |-> (IF b = hdp THEN flags[b] \ {"OWNER"} ELSE flags[b])
                                     \cup (IF b = e.bd /\ next[b] = NULL THEN {"EOQ"} ELSE {})]
       /\ hdp' = next[e.bd] /\ queue' = Tx!Without(q) /\ sent' = sent \cup {q}
  BY <1>6, <1>8, <1>9 DEF Tx!Dma, TxPk
<1>15. hdp' = NULL BY <1>11, <1>13, <1>14
<1>16. ASSUME NEW b \in TxBD
       PROVE  /\ "SOP" \in flags'[b] <=> "SOP" \in flags[b]
              /\ "EOP" \in flags'[b] <=> "EOP" \in flags[b]
              /\ "OWNER" \in flags'[b] <=> ("OWNER" \in flags[b] /\ b # hdp)
              /\ flags[b] \subseteq {"EOQ"} => flags'[b] \subseteq {"EOQ"}
  <2>1. PICK E \in {{}, {"EOQ"}} : flags'[b] = (IF b = hdp THEN flags[b] \ {"OWNER"} ELSE flags[b]) \cup E
    BY <1>14
  <2>. QED BY <2>1
<1>17. ASSUME NEW j \in 0 .. u - 1
       PROVE  /\ TxUsed(s, j)' /\ (TxIx(s, j)' = 1 => TxStart(s, u, j)')
              /\ TxIx(s, j)' = TxIx(s, j) /\ TxPk(s, j)' = TxPk(s, j)
  <2>1. TxIx(s, j)' = TxIx(s, j) /\ TxPk(s, j)' = TxPk(s, j) BY <1>1 DEF TxIx, TxPk
  <2>2. TxUsed(s, j) /\ s[j] \in TxBD /\ j \in 0 .. N - 1
    <3>1. j \in 0 .. N /\ j \in 0 .. N - 1 OBVIOUS
    <3>. QED BY <1>4, <3>1 DEF TxPackets
  <2>3. TxUsed(s, j)'
    <3>1. "SOP" \in flags'[s[j]] <=> TxIx(s, j)' = 1 BY <1>16, <2>1, <2>2 DEF TxUsed
    <3>2. "EOP" \in flags'[s[j]] <=> TxIx(s, j)' = len'[TxPk(s, j)'] BY <1>1, <1>16, <2>1, <2>2 DEF TxUsed
    <3>3. "OWNER" \in flags'[s[j]] => s[j] \in {hdp', tx'[1]} BY <1>1, <1>16, <2>2 DEF TxUsed
    <3>. QED BY <1>1, <2>1, <2>2, <3>1, <3>2, <3>3 DEF TxUsed
  <2>4. ASSUME TxIx(s, j) = 1 PROVE TxStart(s, u, j)'
    <3>1. TxStart(s, u, j) BY <1>4, <2>4 DEF TxPackets
    <3>2. "OWNER" \in flags'[s[j]] \/ TxPk(s, j)' \in sent'
      <4>1. CASE s[j] = hdp BY <1>6, <1>8, <1>14, <2>1, <4>1 DEF TxPk
      <4>2. CASE s[j] # hdp BY <1>14, <1>16, <2>1, <2>2, <3>1, <4>2 DEF TxStart
      <4>. QED BY <4>1, <4>2
    <3>. QED BY <1>1, <2>1, <3>1, <3>2 DEF TxStart
  <2>. QED BY <2>1, <2>3, <2>4
<1>18. TxPackets(s, u)'
  <2>1. u > 0 => TxIx(s, 0)' = 1 BY <1>1, <1>4 DEF TxPackets, TxIx
  <2>2. \A i, j \in 0 .. u - 1 : buf'[s[i]] = buf'[s[j]] => i = j BY <1>1, <1>4 DEF TxPackets
  <2>3. ASSUME NEW j \in u .. N - 1 PROVE flags'[s[j]] \subseteq {"EOQ"}
    <3>1. j \in 0 .. N OBVIOUS
    <3>. QED BY <1>4, <1>16, <3>1 DEF TxPackets
  <2>. QED BY <1>17, <2>1, <2>2, <2>3 DEF TxPackets
<1>19. pc = "idle" => TxRest(u)'
  <2>1. pc = "idle" => TxRest(u) BY <1>4 DEF TxChain
  <2>. QED BY <1>1, <1>12, <2>1 DEF TxRest, TxAt
<1>20. ASSUME pc # "idle" PROVE \E v \in 0 .. u - 1 : TxNew(s, u, v)' /\ tx[1] = s[v]
  <2>1. PICK v \in 0 .. u - 1 : TxNew(s, u, v) BY <1>4, <1>20 DEF TxChain
  <2>2. tx[1] = s[v] /\ s[v] \in TxBD /\ s[v] # hdp
    <3>1. v \in 0 .. N OBVIOUS
    <3>. QED BY <1>6, <2>1, <3>1 DEF TxNew
  <2>3. "OWNER" \in flags'[s[v]] BY <1>16, <2>1, <2>2 DEF TxNew
  <2>4. s[v] = TxAt(active_tail, 1) BY <1>12, <2>1 DEF TxNew
  <2>5. s[v] = TxAt(active_tail, 1)' BY <1>1, <2>4 DEF TxAt
  <2>6. TxNew(s, u, v)' BY <1>1, <1>12, <1>17, <2>1, <2>3, <2>5 DEF TxNew
  <2>. QED BY <2>2, <2>6
<1>21. TxChain(s, u)' BY <1>1, <1>4, <1>15, <1>19, <1>20 DEF TxChain
<1>22. TxShape(s, u)'
  <2>1. TxOrder(s)' BY <1>1, <1>4 DEF TxOrder, TxAt
  <2>. QED BY <1>18, <1>21, <2>1 DEF TxShape
<1>23. TxLinks' BY <1>1, <1>3 DEF TxLinks, TxAt
<1>24. q = buf[hdp][1] BY <1>6, <1>8 DEF TxPk
<1>25. /\ TxLine' /\ queue' \in Seq(Packets)
       /\ \/ queue = <<q>> /\ queue' = << >>
          \/ \E p \in Packets : queue = <<q, p>> /\ queue' = <<p>>
  <2>1. CASE pc = "idle"
    <3>1. queue = <<q>> BY <1>1, <1>24, <2>1 DEF TxIInv, TxLine
    <3>2. queue' = << >> BY <1>14, <3>1, TxWithoutOne
    <3>3. TxLine' BY <1>1, <1>15, <2>1, <3>2 DEF TxLine
    <3>. QED BY <3>1, <3>2, <3>3
  <2>2. CASE pc # "idle"
    <3>1. PICK v \in 0 .. u - 1 : tx[1] = s[v] BY <1>20, <2>2
    <3>2. PICK p : p = buf[tx[1]][1] OBVIOUS
    <3>3. p \in Packets BY <1>4, <3>1, <3>2 DEF TxPackets, TxUsed
    <3>4. queue = <<q, p>> BY <1>1, <1>24, <2>2, <3>2 DEF TxIInv, TxLine
    <3>5. queue' = <<p>> BY <1>14, <3>4, TxWithoutTwo
    <3>6. TxLine' BY <1>1, <1>15, <2>2, <3>2, <3>5 DEF TxLine
    <3>7. <<p>> \in Seq(Packets) BY <3>3
    <3>. QED BY <3>3, <3>4, <3>5, <3>6, <3>7
  <2>. QED BY <2>1, <2>2
<1>26. Tx!TypeOK'
  <2>1. flags' \in [TxBD -> SUBSET {"SOP", "EOP", "OWNER", "EOQ"}] BY <1>3, <1>14 DEF Tx!TypeOK, Tx!Flags
  <2>2. sent' \subseteq Packets BY <1>3, <1>8, <1>14 DEF Tx!TypeOK
  <2>. QED BY <1>1, <1>3, <1>15, <1>25, <2>1, <2>2 DEF Tx!TypeOK, Tx!Flags
<1>27. \A p \in sent' : len'[p] > 0 BY <1>1, <1>8, <1>14 DEF TxIInv
<1>28. TxIInv' BY <1>22, <1>23, <1>25, <1>26, <1>27 DEF TxIInv
<1>. QED BY <1>8, <1>14, <1>25, <1>28

(* The interrupt gives back the first packet of the ring, which has been   *)
(* sent.                                                                   *)
LEMMA TxIntPacketStep ==
  ASSUME TxIInv, Tx!TxIntPacket
  PROVE  /\ TxIInv'
         /\ \E q \in sent : sent' = sent \ {q} /\ len' = [len EXCEPT ![q] = 0] /\ used' = used - len[q]
         /\ UNCHANGED <<queue, overrun>>
<1>. USE TxNumbers
<1>1. /\ cpu = "tx" /\ "SOP" \in flags[next_bd_to_process] /\ "OWNER" \notin flags[next_bd_to_process]
      /\ UNCHANGED <<next, buf, free_head, active_tail, hdp, pending, cpu, pc, tx, queue, overrun>>
  BY DEF Tx!TxIntPacket, Tx!OwnerClear
<1>2. PICK s \in [0 .. N -> TxBD], u \in 0 .. N : TxShape(s, u) BY DEF TxIInv
<1>3. Tx!TypeOK /\ TxLinks /\ next_bd_to_process \in TxBD BY DEF TxIInv, Tx!TypeOK
<1>4. TxOrder(s) /\ TxPackets(s, u) /\ TxChain(s, u) BY <1>2 DEF TxShape
<1>5. pc = "idle" /\ TxRest(u) BY <1>1, <1>4 DEF TxChain
<1>6. tx[1] = NULL /\ tx[2] = NULL BY <1>5 DEF TxRest
<1>7. s[0] = next_bd_to_process /\ s[N] = s[0] BY <1>3, <1>4, TxOrderFacts
<1>8. \A i, j \in 0 .. N - 1 : s[i] = s[j] => i = j BY <1>3, <1>4, TxOrderFacts
<1>9. u > 0 /\ 0 \in 0 .. u - 1 /\ TxIx(s, 0) = 1
  <2>1. u # 0
    <3>. SUFFICES ASSUME u = 0 PROVE FALSE OBVIOUS
    <3>1. 0 \in u .. N - 1 OBVIOUS
    <3>2. flags[s[0]] \subseteq {"EOQ"} BY <1>4, <3>1 DEF TxPackets
    <3>. QED BY <1>1, <1>7, <3>2
  <2>. QED BY <1>4, <2>1 DEF TxPackets
<1>10. PICK q, L : TxWhole(s, u, 0, q, L) BY <1>3, <1>4, <1>9, TxPacket
<1>11. L \in Nat /\ 1 <= L /\ L <= MaxLen /\ L <= u BY <1>10 DEF TxWhole
<1>12. q \in Packets /\ q = TxPk(s, 0) /\ L = len[q] BY <1>10 DEF TxWhole
<1>13. L < u => TxIx(s, L) = 1
  <2>1. 0 + L = L BY <1>11
  <2>. QED BY <1>10, <2>1 DEF TxWhole
<1>14. ASSUME NEW i \in 0 .. L - 1
       PROVE  /\ buf[s[i]] = <<q, i + 1>>
              /\ "SOP" \in flags[s[i]] <=> i = 0
              /\ "EOP" \in flags[s[i]] <=> i = L - 1
  <2>1. 0 + i = i BY <1>11
  <2>2. /\ buf[s[0 + i]] = <<q, i + 1>>
        /\ "SOP" \in flags[s[0 + i]] <=> i = 0
        /\ "EOP" \in flags[s[0 + i]] <=> i = L - 1
    BY <1>10 DEF TxWhole
  <2>. QED BY <2>1, <2>2
<1>15. \A i, j \in 0 .. N : i + j <= N => TxAt(s[i], j) = s[i + j] BY <1>3, <1>4, TxOrderFacts
<1>16. PICK e : e = Tx!PacketEnd(next_bd_to_process) OBVIOUS
<1>17. e.bd = s[L - 1]
  <2>1. e.bd = s[0 + L - 1] BY <1>3, <1>4, <1>7, <1>9, <1>10, <1>16, TxEnd
  <2>2. 0 + L - 1 = L - 1 BY <1>11
  <2>. QED BY <2>1, <2>2
<1>18. L - 1 \in 0 .. L - 1 /\ L - 1 \in 0 .. N - 1 /\ L \in 0 .. N /\ s[L - 1] \in TxBD
  <2>1. L - 1 \in 0 .. L - 1 /\ L - 1 \in 0 .. N - 1 /\ L \in 0 .. N /\ L - 1 \in 0 .. N BY <1>11
  <2>. QED BY <2>1
<1>19. buf[e.bd][1] = q BY <1>14, <1>17, <1>18
<1>20. /\ flags' = [c \in TxBD |-> flags[c] \ ((IF c = s[0] THEN {"SOP"} ELSE {})
                                                  \cup (IF c = s[L - 1] THEN {"EOP"} ELSE {}))]
       /\ next_bd_to_process' = Tx!AfterPacket(s[L - 1])
       /\ sent' = sent \ {q} /\ len' = [len EXCEPT ![q] = 0] /\ used' = used - len[q]
  BY <1>7, <1>16, <1>17, <1>19 DEF Tx!TxIntPacket
<1>21. next_bd_to_process' = s[L]
  <2>1. TxAt(s[L - 1], 1) = s[L]
    <3>1. L - 1 + 1 = L BY <1>11
    <3>2. \A j \in 0 .. N - 1 : s[j + 1] = TxAt(s[j], 1) BY <1>3, <1>4, TxOrderFacts
    <3>. QED BY <1>18, <3>1, <3>2
  <2>2. CASE next[s[L - 1]] = NULL
    <3>1. s[L] \in TxBD BY <1>18
    <3>2. s[L - 1] = active_tail BY <1>3, <1>6, <1>18, <2>1, <2>2, <3>1 DEF TxLinks
    <3>3. free_head = s[L] BY <1>5, <1>18, <2>1, <3>2 DEF TxRest
    <3>. QED BY <1>20, <2>2, <3>3 DEF Tx!AfterPacket
  <2>3. CASE next[s[L - 1]] # NULL
    <3>1. next[s[L - 1]] = s[L] BY <1>3, <1>18, <2>1, <2>3 DEF TxLinks
    <3>. QED BY <1>20, <2>3, <3>1 DEF Tx!AfterPacket
  <2>. QED BY <2>2, <2>3
<1>22. PICK r : r = [j \in 0 .. N |-> TxAt(s[L], j)] OBVIOUS
<1>23. ASSUME NEW j \in 0 .. N, L + j <= N PROVE r[j] = s[L + j]
  <2>1. TxAt(s[L], j) = s[L + j] BY <1>15, <1>18, <1>23
  <2>. QED BY <1>22, <2>1
<1>24. ASSUME NEW j \in 0 .. N, L + j > N
       PROVE  L + j - N \in 0 .. L /\ r[j] = s[L + j - N]
  <2>1. PICK a \in 0 .. N, d \in 0 .. N : a = N - L /\ d = L + j - N /\ a + d = j /\ d \in 0 .. L
    <3>1. N - L \in 0 .. N BY <1>11
    <3>2. L + j - N \in 0 .. L BY <1>11, <1>24
    <3>3. L + j - N \in 0 .. N BY <1>11, <3>2
    <3>4. N - L + (L + j - N) = j BY <1>11
    <3>. QED BY <3>1, <3>2, <3>3, <3>4
  <2>2. TxAt(s[L], a) = s[N]
    <3>1. L + a = N BY <1>11, <2>1
    <3>2. L + a <= N BY <3>1
    <3>3. TxAt(s[L], a) = s[L + a] BY <1>15, <1>18, <3>2
    <3>. QED BY <3>1, <3>3
  <2>3. TxAt(s[0], d) = s[d]
    <3>1. 0 \in 0 .. N /\ 0 + d <= N /\ 0 + d = d BY <2>1
    <3>2. TxAt(s[0], d) = s[0 + d] BY <1>15, <3>1
    <3>. QED BY <3>1, <3>2
  <2>4. s[L] \in TxBD /\ a + d <= N BY <1>18, <2>1
  <2>5. TxAt(TxAt(s[L], a), d) = TxAt(s[L], a + d)
    <3>1. PICK b \in TxBD : b = s[L] BY <2>4
    <3>2. \A i, k \in 0 .. N : i + k <= N => TxAt(TxAt(b, i), k) = TxAt(b, i + k) BY TxAtFacts
    <3>. QED BY <2>4, <3>1, <3>2
  <2>6. TxAt(s[L], j) = s[d] BY <1>7, <2>1, <2>2, <2>3, <2>5
  <2>. QED BY <1>22, <2>1, <2>6
<1>25. r \in [0 .. N -> TxBD] /\ TxOrder(r)'
  <2>1. s[L] \in TxBD BY <1>18
  <2>2. \A j \in 0 .. N : TxAt(s[L], j) \in TxBD BY <2>1, TxAtFacts
  <2>3. TxOrder(r)' BY <1>21, <1>22 DEF TxOrder, TxAt
  <2>. QED BY <1>22, <2>2, <2>3
<1>26. PICK t \in 0 .. N : t = u - L /\ L + t = u /\ t <= u BY <1>11
<1>27. ASSUME NEW j \in 0 .. t - 1
       PROVE  /\ L + j \in 0 .. u - 1 /\ L + j \in 0 .. N - 1 /\ r[j] = s[L + j] /\ s[L + j] \in TxBD
              /\ flags'[r[j]] = flags[s[L + j]]
              /\ TxUsed(s, L + j) /\ TxPk(s, L + j) \in Packets
              /\ TxPk(s, L + j) # q /\ len'[TxPk(s, L + j)] = len[TxPk(s, L + j)]
              /\ TxPk(r, j)' = TxPk(s, L + j) /\ TxIx(r, j)' = TxIx(s, L + j)
  <2>1. PICK g \in 0 .. u - 1 : g = L + j /\ g \in 0 .. N - 1 /\ g \in 0 .. N /\ g >= L
    <3>1. L + j \in 0 .. u - 1 /\ L + j \in 0 .. N - 1 /\ L + j \in 0 .. N /\ L + j >= L BY <1>11, <1>26
    <3>. QED BY <3>1
  <2>2. j \in 0 .. N /\ L + j <= N BY <2>1
  <2>3. r[j] = s[g] /\ s[g] \in TxBD BY <1>23, <2>1, <2>2
  <2>4. TxUsed(s, g) BY <1>4 DEF TxPackets
  <2>5. TxPk(s, g) \in Packets /\ TxIx(s, g) \in 1 .. MaxLen /\ buf[s[g]] = <<TxPk(s, g), TxIx(s, g)>>
    BY <2>4 DEF TxUsed, TxPk, TxIx
  <2>6. TxPk(s, g) # q
    <3>. SUFFICES ASSUME TxPk(s, g) = q PROVE FALSE OBVIOUS
    <3>1. PICK x \in 1 .. L : x = TxIx(s, g) BY <1>11, <1>12, <2>4, <2>5 DEF TxUsed
    <3>2. x - 1 \in 0 .. L - 1 /\ x - 1 + 1 = x /\ x - 1 \in 0 .. u - 1 BY <1>11, <3>1
    <3>3. buf[s[x - 1]] = <<q, x - 1 + 1>> BY <1>14, <3>2
    <3>4. buf[s[x - 1]] = buf[s[g]] BY <2>5, <3>1, <3>2, <3>3
    <3>5. x - 1 = g BY <1>4, <3>2, <3>4 DEF TxPackets
    <3>. QED BY <1>11, <2>1, <3>2, <3>5
  <2>7. len'[TxPk(s, g)] = len[TxPk(s, g)] BY <1>3, <1>20, <2>5, <2>6 DEF Tx!TypeOK
  <2>8. TxPk(r, j)' = TxPk(s, g) /\ TxIx(r, j)' = TxIx(s, g) BY <1>1, <2>3 DEF TxPk, TxIx
  <2>9. flags'[s[g]] = flags[s[g]]
    <3>1. s[g] # s[0] /\ s[g] # s[L - 1]
      <4>1. 0 \in 0 .. N - 1 /\ g # 0 /\ g # L - 1 BY <1>11, <2>1
      <4>. QED BY <1>8, <1>18, <2>1, <4>1
    <3>. QED BY <1>20, <2>3, <3>1
  <2>. QED BY <2>1, <2>3, <2>4, <2>5, <2>6, <2>7, <2>8, <2>9
<1>28. ASSUME NEW j \in 0 .. t - 1
       PROVE  TxUsed(r, j)' /\ (TxIx(r, j)' = 1 => TxStart(r, t, j)')
  <2>1. PICK g \in 0 .. u - 1 : g = L + j BY <1>27
  <2>2. /\ r[j] = s[g] /\ flags'[r[j]] = flags[s[g]] /\ TxUsed(s, g)
        /\ len'[TxPk(s, g)] = len[TxPk(s, g)] /\ TxPk(s, g) # q
        /\ TxPk(r, j)' = TxPk(s, g) /\ TxIx(r, j)' = TxIx(s, g)
    BY <1>27, <2>1
  <2>3. TxUsed(r, j)'
    <3>1. PICK a, x : a = TxPk(s, g) /\ x = TxIx(s, g) OBVIOUS
    <3>2. /\ buf[s[g]] \in Packets \X (1 .. MaxLen) /\ x <= len[a]
          /\ "SOP" \in flags[s[g]] <=> x = 1
          /\ "EOP" \in flags[s[g]] <=> x = len[a]
          /\ next[s[g]] = NULL => x = len[a]
          /\ "OWNER" \in flags[s[g]] => s[g] \in {hdp, tx[1]}
      BY <2>2, <3>1 DEF TxUsed
    <3>3. TxPk(r, j)' = a /\ TxIx(r, j)' = x /\ len'[a] = len[a] BY <2>2, <3>1
    <3>. QED BY <1>1, <2>2, <3>2, <3>3 DEF TxUsed
  <2>4. ASSUME TxIx(s, g) = 1 PROVE TxStart(r, t, j)'
    <3>1. PICK a, M : TxWhole(s, u, g, a, M) BY <1>3, <1>4, <2>4, TxPacket
    <3>2. /\ a = TxPk(s, g) /\ M = len[a]
          /\ g + M < u => TxIx(s, g + M) = 1
      BY <3>1 DEF TxWhole
    <3>3. TxPk(r, j)' = a /\ len'[a] = M /\ a # q BY <2>2, <3>2
    <3>4. M \in Nat /\ 1 <= M /\ g + M <= u BY <3>1 DEF TxWhole
    <3>5. j + M <= t BY <1>11, <1>26, <2>1, <3>4
    <3>6. "OWNER" \in flags'[r[j]] \/ a \in sent'
      BY <1>4, <1>20, <2>2, <2>4, <3>2, <3>3 DEF TxPackets, TxStart
    <3>7. ASSUME NEW i \in 0 .. M - 1 PROVE buf'[r[j + i]] = <<a, i + 1>>
      <4>1. PICK h \in 0 .. t - 1 : h = j + i /\ L + h = g + i
        <5>1. j + i \in 0 .. t - 1 /\ L + (j + i) = g + i BY <1>11, <2>1, <3>5, <3>4
        <5>. QED BY <5>1
      <4>2. r[h] = s[g + i] BY <1>27, <4>1
      <4>3. buf[s[g + i]] = <<a, i + 1>> BY <3>1 DEF TxWhole
      <4>. QED BY <1>1, <4>1, <4>2, <4>3
    <3>8. ASSUME j + M < t PROVE buf'[r[j + M]][2] = 1
      <4>1. PICK h \in 0 .. t - 1 : h = j + M /\ L + h = g + M /\ g + M < u
        <5>1. j + M \in 0 .. t - 1 /\ L + (j + M) = g + M /\ g + M < u BY <1>11, <1>26, <2>1, <3>8, <3>4
        <5>. QED BY <5>1
      <4>2. r[h] = s[g + M] BY <1>27, <4>1
      <4>3. buf[s[g + M]][2] = 1 BY <3>2, <4>1 DEF TxIx
      <4>. QED BY <1>1, <4>1, <4>2, <4>3
    <3>. QED BY <3>3, <3>5, <3>6, <3>7, <3>8 DEF TxStart
  <2>. QED BY <2>2, <2>3, <2>4
<1>29. ASSUME hdp # NULL PROVE \E w \in 0 .. t - 1 : TxDma(r, t, w)'
  <2>1. PICK v \in 0 .. u - 1 : TxDma(s, u, v) BY <1>4, <1>29 DEF TxChain
  <2>2. /\ hdp = s[v] /\ TxIx(s, v) = 1 /\ "OWNER" \in flags[s[v]]
        /\ active_tail = s[v + len[TxPk(s, v)] - 1]
    BY <2>1 DEF TxDma
  <2>3. v >= L
    <3>. SUFFICES ASSUME v < L PROVE FALSE BY <1>11
    <3>1. v \in 0 .. L - 1 BY <1>11
    <3>2. buf[s[v]] = <<q, v + 1>> BY <1>14, <3>1
    <3>3. v + 1 = 1 BY <2>2, <3>2 DEF TxIx
    <3>4. v = 0 BY <3>1, <3>3
    <3>. QED BY <1>1, <1>7, <2>2, <3>4
  <2>4. PICK w \in 0 .. t - 1 : L + w = v
    <3>1. v - L \in 0 .. t - 1 /\ L + (v - L) = v BY <1>11, <1>26, <2>3
    <3>. QED BY <3>1
  <2>5. /\ r[w] = s[v] /\ flags'[r[w]] = flags[s[v]] /\ TxPk(s, v) \in Packets
        /\ len'[TxPk(s, v)] = len[TxPk(s, v)]
        /\ TxPk(r, w)' = TxPk(s, v) /\ TxIx(r, w)' = TxIx(s, v)
    BY <1>27, <2>4
  <2>6. PICK a, M : TxWhole(s, u, v, a, M) BY <1>3, <1>4, <2>2, TxPacket
  <2>7. a = TxPk(s, v) /\ M = len[a] BY <2>6 DEF TxWhole
  <2>8. M \in Nat /\ 1 <= M /\ v + M <= u BY <2>6 DEF TxWhole
  <2>9. r[w + M - 1] = s[v + M - 1]
    <3>1. PICK h \in 0 .. t - 1 : h = w + M - 1 /\ L + h = v + M - 1
      <4>1. w + M - 1 \in 0 .. t - 1 /\ L + (w + M - 1) = v + M - 1 BY <1>11, <1>26, <2>4, <2>8
      <4>. QED BY <4>1
    <3>. QED BY <1>27, <3>1
  <2>10. active_tail' = r[w + len'[TxPk(r, w)'] - 1] BY <1>1, <2>2, <2>5, <2>7, <2>9
  <2>11. hdp' # tx'[1] BY <1>1, <1>6, <1>29
  <2>12. TxDma(r, t, w)' BY <1>1, <2>2, <2>5, <2>10, <2>11 DEF TxDma
  <2>. QED BY <2>12
<1>30. ASSUME NEW i \in 0 .. L - 1 PROVE flags'[s[i]] \subseteq {"EOQ"}
  <2>1. i \in 0 .. N - 1 /\ i \in 0 .. N /\ i \in 0 .. u - 1 /\ 0 \in 0 .. N - 1 BY <1>11
  <2>2. s[i] \in TxBD BY <2>1
  <2>3. s[i] = s[0] <=> i = 0 BY <1>8, <2>1
  <2>4. s[i] = s[L - 1] <=> i = L - 1 BY <1>8, <1>18, <2>1
  <2>5. "OWNER" \notin flags[s[i]]
    <3>. SUFFICES ASSUME "OWNER" \in flags[s[i]] PROVE FALSE OBVIOUS
    <3>1. TxUsed(s, i) BY <1>4, <2>1 DEF TxPackets
    <3>2. hdp = s[i] /\ hdp # NULL BY <1>6, <2>2, <3>1 DEF TxUsed
    <3>3. PICK v \in 0 .. u - 1 : TxDma(s, u, v) BY <1>4, <3>2 DEF TxChain
    <3>4. s[v] = s[i] /\ buf[s[v]][2] = 1 /\ v \in 0 .. N - 1 BY <3>2, <3>3 DEF TxDma, TxIx
    <3>5. buf[s[i]] = <<q, i + 1>> BY <1>14
    <3>6. i + 1 = 1 BY <3>4, <3>5
    <3>7. i = 0 BY <2>1, <3>6
    <3>. QED BY <1>1, <1>7, <3>7
  <2>6. flags[s[i]] \subseteq {"SOP", "EOP", "OWNER", "EOQ"} BY <1>3, <2>2 DEF Tx!TypeOK, Tx!Flags
  <2>7. "SOP" \notin flags'[s[i]]
    <3>1. CASE i = 0 BY <1>20, <2>2, <2>3, <3>1
    <3>2. CASE i # 0 BY <1>14, <1>20, <2>2, <3>2
    <3>. QED BY <3>1, <3>2
  <2>8. "EOP" \notin flags'[s[i]]
    <3>1. CASE i = L - 1 BY <1>20, <2>2, <2>4, <3>1
    <3>2. CASE i # L - 1 BY <1>14, <1>20, <2>2, <3>2
    <3>. QED BY <3>1, <3>2
  <2>9. flags'[s[i]] \subseteq flags[s[i]] BY <1>20, <2>2
  <2>. QED BY <2>5, <2>6, <2>7, <2>8, <2>9
<1>31. TxPackets(r, t)'
  <2>1. t > 0 => TxIx(r, 0)' = 1
    <3>. SUFFICES ASSUME t > 0 PROVE TxIx(r, 0)' = 1 OBVIOUS
    <3>1. 0 \in 0 .. t - 1 /\ L + 0 = L /\ L < u BY <1>11, <1>26
    <3>2. TxIx(r, 0)' = TxIx(s, L + 0) BY <1>27, <3>1
    <3>. QED BY <1>13, <3>1, <3>2
  <2>2. ASSUME NEW i \in 0 .. t - 1, NEW j \in 0 .. t - 1, buf'[r[i]] = buf'[r[j]] PROVE i = j
    <3>1. PICK g \in 0 .. u - 1, h \in 0 .. u - 1 : g = L + i /\ h = L + j BY <1>27
    <3>2. buf[s[g]] = buf[s[h]] BY <1>1, <1>27, <2>2, <3>1
    <3>3. g = h BY <1>4, <3>2 DEF TxPackets
    <3>. QED BY <1>11, <3>1, <3>3
  <2>3. ASSUME NEW j \in t .. N - 1 PROVE flags'[r[j]] \subseteq {"EOQ"}
    <3>1. j \in 0 .. N OBVIOUS
    <3>2. CASE L + j < N
      <4>1. PICK g \in u .. N - 1 : g = L + j /\ g \in 0 .. N
        <5>1. L + j \in u .. N - 1 /\ L + j \in 0 .. N BY <1>11, <1>26, <3>1, <3>2
        <5>. QED BY <5>1
      <4>2. r[j] = s[g] /\ s[g] \in TxBD BY <1>23, <3>1, <3>2, <4>1
      <4>3. flags[s[g]] \subseteq {"EOQ"} BY <1>4 DEF TxPackets
      <4>. QED BY <1>20, <4>2, <4>3
    <3>3. CASE L + j = N
      <4>1. r[j] = s[0] BY <1>7, <1>23, <3>1, <3>3
      <4>2. 0 \in 0 .. L - 1 BY <1>11
      <4>. QED BY <1>30, <4>1, <4>2
    <3>4. CASE L + j > N
      <4>1. PICK i \in 0 .. L - 1 : i = L + j - N BY <1>11, <3>1, <3>4
      <4>2. r[j] = s[i] BY <1>24, <3>1, <3>4, <4>1
      <4>. QED BY <1>30, <4>2
    <3>. QED BY <1>11, <3>1, <3>2, <3>3, <3>4
  <2>. QED BY <1>28, <2>1, <2>2, <2>3 DEF TxPackets
<1>32. TxChain(r, t)'
  <2>1. free_head' = r[t] /\ t = used'
    <3>1. free_head = s[u] /\ u = used BY <1>4 DEF TxChain
    <3>2. r[t] = s[u] BY <1>23, <1>26
    <3>3. t = used' BY <1>11, <1>12, <1>20, <1>26, <3>1
    <3>. QED BY <1>1, <3>1, <3>2, <3>3
  <2>2. active_tail # NULL BY <1>5, <1>9 DEF TxRest
  <2>3. free_head = TxAt(active_tail, 1) BY <1>5, <2>2 DEF TxRest
  <2>4. TxRest(t)' BY <1>1, <1>5, <2>2, <2>3 DEF TxRest, TxAt
  <2>. QED BY <1>1, <1>4, <1>5, <1>29, <2>1, <2>2, <2>4 DEF TxChain
<1>33. TxLinks' /\ TxLine' BY <1>1 DEF TxIInv, TxLinks, TxAt, TxLine
<1>34. Tx!TypeOK'
  <2>0. used' \in 0 .. N BY <1>11, <1>12, <1>20, <1>26, <1>4 DEF TxChain
  <2>1. flags' \in [TxBD -> SUBSET {"SOP", "EOP", "OWNER", "EOQ"}] BY <1>3, <1>20 DEF Tx!TypeOK, Tx!Flags
  <2>2. next_bd_to_process' \in TxBD BY <1>18, <1>21
  <2>3. len' \in [Packets -> 0 .. MaxLen]
    <3>1. 0 \in 0 .. MaxLen OBVIOUS
    <3>. QED BY <1>3, <1>20, <3>1 DEF Tx!TypeOK
  <2>4. sent' \subseteq Packets BY <1>3, <1>20 DEF Tx!TypeOK
  <2>. QED BY <1>1, <1>3, <2>0, <2>1, <2>2, <2>3, <2>4 DEF Tx!TypeOK, Tx!Flags
<1>35. \A p \in sent' : len'[p] > 0
  <2>1. \A p \in sent' : p \in Packets /\ p # q /\ p \in sent BY <1>3, <1>20 DEF Tx!TypeOK
  <2>. QED BY <1>3, <1>20, <2>1 DEF TxIInv, Tx!TypeOK
<1>36. q \in sent
  <2>1. TxStart(s, u, 0) BY <1>4, <1>9 DEF TxPackets
  <2>. QED BY <1>1, <1>7, <1>12, <2>1 DEF TxStart
<1>37. TxShape(r, t)' BY <1>25, <1>31, <1>32 DEF TxShape
<1>38. TxIInv' BY <1>25, <1>33, <1>34, <1>35, <1>37 DEF TxIInv
<1>. QED BY <1>1, <1>20, <1>36, <1>38

(* hdkif_init links the free descriptors in a ring.                        *)
LEMMA TxInitial == Tx!Init => TxIInv
<1>. USE TxNumbers
<1>. SUFFICES ASSUME Tx!Init PROVE TxIInv OBVIOUS
<1>1. /\ next = [b \in TxBD |-> (b + 1) % N] /\ flags = [b \in TxBD |-> {}]
      /\ buf = [b \in TxBD |-> NULL]
      /\ free_head = 0 /\ next_bd_to_process = 0 /\ active_tail = NULL /\ hdp = NULL /\ pending = FALSE
      /\ cpu = "main" /\ pc = "idle" /\ tx = <<NULL, NULL>> /\ len = [p \in Packets |-> 0]
      /\ queue = << >> /\ sent = {} /\ used = 0 /\ overrun = FALSE
  BY DEF Tx!Init
<1>2. 0 \in TxBD /\ 1 \in 0 .. N BY DEF TxBD
<1>3. TxLinks
  <2>1. \A b \in TxBD : next[b] = TxAt(b, 1) BY <1>1, TxSucc
  <2>. QED BY <2>1 DEF TxLinks
<1>4. Tx!TypeOK
  <2>1. \A b \in TxBD : TxAt(b, 1) \in TxBD BY <1>2, TxAtFacts
  <2>2. next \in [TxBD -> TxBD \cup {NULL}] BY <1>1, <2>1, TxSucc
  <2>3. flags \in [TxBD -> SUBSET {"SOP", "EOP", "OWNER", "EOQ"}] BY <1>1
  <2>4. len \in [Packets -> 0 .. MaxLen]
    <3>1. 0 \in 0 .. MaxLen OBVIOUS
    <3>. QED BY <1>1, <3>1
  <2>5. buf \in [TxBD -> (Packets \X (1 .. MaxLen)) \cup {NULL}] BY <1>1
  <2>6. used \in 0 .. N BY <1>1
  <2>7. overrun \in BOOLEAN BY <1>1, Zenon
  <2>8. queue \in Seq(Packets) BY <1>1
  <2>. QED BY <1>1, <1>2, <2>2, <2>3, <2>4, <2>5, <2>6, <2>7, <2>8 DEF Tx!TypeOK, Tx!Flags
<1>5. PICK s : s = [j \in 0 .. N |-> TxAt(0, j)] OBVIOUS
<1>6. s \in [0 .. N -> TxBD]
  <2>1. \A j \in 0 .. N : TxAt(0, j) \in TxBD BY <1>2, TxAtFacts
  <2>. QED BY <1>5, <2>1
<1>7. TxPackets(s, 0)
  <2>1. 0 .. 0 - 1 = {} OBVIOUS
  <2>2. ASSUME NEW j \in 0 .. N - 1 PROVE flags[s[j]] \subseteq {"EOQ"}
    <3>1. s[j] \in TxBD BY <1>6
    <3>. QED BY <1>1, <3>1
  <2>. QED BY <2>1, <2>2 DEF TxPackets
<1>8. s[0] = 0
  <2>1. 0 \in 0 .. N OBVIOUS
  <2>. QED BY <1>2, <1>5, <2>1, TxAtFacts
<1>9. TxChain(s, 0) BY <1>1, <1>8 DEF TxChain, TxRest
<1>10. TxShape(s, 0) BY <1>1, <1>5, <1>7, <1>9 DEF TxShape, TxOrder
<1>11. TxLine BY <1>1 DEF TxLine
<1>12. 0 \in 0 .. N OBVIOUS
<1>13. \A p \in sent : len[p] > 0 BY <1>1
<1>. QED BY <1>3, <1>4, <1>6, <1>10, <1>11, <1>12, <1>13 DEF TxIInv

(* The steps that move only the processor.                                 *)
LEMMA TxProcessorStep ==
  ASSUME TxIInv, Tx!WaitEoq \/ Tx!RxBegin \/ Tx!RxEnd \/ Tx!TxIntBegin \/ Tx!TxIntEnd
  PROVE  TxIInv' /\ UNCHANGED <<queue, sent, len, used, overrun>>
<1>. USE TxNumbers
<1>1. /\ UNCHANGED <<next, flags, buf, free_head, active_tail, next_bd_to_process, hdp, tx, len, queue, sent>>
      /\ UNCHANGED <<used, overrun>>
      /\ pc' = pc \/ (pc = "eoq" /\ pc' = "hdp")
      /\ cpu' \in {"main", "rx", "tx"} /\ pending' \in {pending, FALSE}
      /\ cpu' = cpu \/ pc' = "idle" \/ cpu = "tx"
  BY DEF Tx!WaitEoq, Tx!RxBegin, Tx!RxEnd, Tx!TxIntBegin, Tx!TxIntEnd, Tx!ring, TxIInv, Tx!TypeOK
<1>2. PICK s \in [0 .. N -> TxBD], u \in 0 .. N : TxShape(s, u) BY DEF TxIInv
<1>3. Tx!TypeOK BY DEF TxIInv
<1>4. pc # "idle" => cpu # "tx" BY <1>2 DEF TxShape, TxChain
<1>5. pc' # "idle" => cpu' # "tx" BY <1>1, <1>4
<1>6. TxShape(s, u)' BY <1>1, <1>2, <1>5, TxShapeKept
<1>7. TxLinks' BY <1>1 DEF TxIInv, TxLinks, TxAt
<1>8. TxLine' BY <1>1 DEF TxIInv, TxLine
<1>9. Tx!TypeOK'
  <2>1. pc' \in {"idle", "first", "eoq", "hdp"} BY <1>1, <1>3 DEF Tx!TypeOK
  <2>2. pending' \in BOOLEAN BY <1>1, <1>3 DEF Tx!TypeOK
  <2>. QED BY <1>1, <1>3, <2>1, <2>2 DEF Tx!TypeOK
<1>10. \A p \in sent' : len'[p] > 0 BY <1>1 DEF TxIInv
<1>. QED BY <1>1, <1>2, <1>6, <1>7, <1>8, <1>9, <1>10 DEF TxIInv

(* The invariant is more than TxSound.                                     *)
LEMMA TxImplied ==
  ASSUME TxIInv
  PROVE  Tx!TypeOK /\ Tx!RingIntact /\ Tx!DescriptorsWhole
<1>. USE TxNumbers
<1>1. PICK s \in [0 .. N -> TxBD], u \in 0 .. N : TxShape(s, u) BY DEF TxIInv
<1>2. Tx!TypeOK /\ TxLinks /\ next_bd_to_process \in TxBD BY DEF TxIInv, Tx!TypeOK
<1>3. TxOrder(s) /\ TxPackets(s, u) /\ TxChain(s, u) BY <1>1 DEF TxShape
<1>4. Tx!RingIntact BY <1>2, TxSucc DEF TxLinks, Tx!RingIntact
<1>5. ASSUME hdp # NULL PROVE "OWNER" \in flags[hdp] /\ Tx!Whole(hdp)
  <2>1. PICK w \in 0 .. u - 1 : TxDma(s, u, w) BY <1>3, <1>5 DEF TxChain
  <2>2. hdp = s[w] /\ TxIx(s, w) = 1 /\ "OWNER" \in flags[s[w]] BY <2>1 DEF TxDma
  <2>3. PICK q, L : TxWhole(s, u, w, q, L) BY <1>2, <1>3, <2>2, TxPacket
  <2>4. PICK e : e = Tx!PacketEnd(hdp) OBVIOUS
  <2>5. /\ e.found /\ e.last = L - 1 /\ \A i \in 0 .. L - 1 : e.at[i] = s[w + i]
    BY <1>2, <1>3, <2>2, <2>3, <2>4, TxEnd
  <2>6. q \in Packets /\ L = len[q] /\ e.last + 1 = L BY <2>3, <2>5 DEF TxWhole
  <2>7. \A i \in 0 .. L - 1 : buf[s[w + i]] = <<q, i + 1>> BY <2>3 DEF TxWhole
  <2>8. Tx!Whole(hdp)
    <3>1. \A i \in 0 .. e.last : buf[e.at[i]] = <<q, i + 1>> BY <2>5, <2>7
    <3>2. e.last + 1 = len[q] BY <2>6
    <3>3. \E p \in Packets : e.last + 1 = len[p] /\ \A i \in 0 .. e.last : buf[e.at[i]] = <<p, i + 1>>
      BY <2>6, <3>1, <3>2
    <3>. QED BY <2>4, <2>5, <3>3 DEF Tx!Whole
  <2>. QED BY <2>2, <2>8
<1>6. ASSUME "SOP" \in flags[next_bd_to_process]
      PROVE  /\ Tx!PacketEnd(next_bd_to_process).found
             /\ "OWNER" \notin flags[next_bd_to_process] => buf[next_bd_to_process][1] \in sent
  <2>1. s[0] = next_bd_to_process BY <1>2, <1>3, TxOrderFacts
  <2>2. u # 0
    <3>. SUFFICES ASSUME u = 0 PROVE FALSE OBVIOUS
    <3>1. 0 \in u .. N - 1 OBVIOUS
    <3>2. flags[s[0]] \subseteq {"EOQ"} BY <1>3, <3>1 DEF TxPackets
    <3>. QED BY <1>6, <2>1, <3>2
  <2>3. 0 \in 0 .. u - 1 /\ TxIx(s, 0) = 1 BY <1>3, <2>2 DEF TxPackets
  <2>4. PICK q, L : TxWhole(s, u, 0, q, L) BY <1>2, <1>3, <2>3, TxPacket
  <2>5. Tx!PacketEnd(s[0]).found BY <1>2, <1>3, <2>3, <2>4, TxEnd
  <2>6. TxStart(s, u, 0) BY <1>3, <2>3 DEF TxPackets
  <2>. QED BY <2>1, <2>5, <2>6 DEF TxStart, TxPk
<1>7. Tx!DescriptorsWhole BY <1>5, <1>6 DEF Tx!DescriptorsWhole
<1>. QED BY <1>2, <1>4, <1>7

(* While the ring has room the processor does not go past the end of a     *)
(* chain.                                                                  *)
LEMMA TxNoFault ==
  ASSUME TxIInv
  PROVE  ~Tx!TxIntFault /\ \A p \in Packets, k \in 1 .. MaxLen : Tx!OutputFault(p, k) => used + k > N
<1>. USE TxNumbers
<1>1. ~Tx!TxIntFault
  <2>1. next_bd_to_process \in TxBD /\ next_bd_to_process # NULL BY DEF TxIInv, Tx!TypeOK
  <2>2. "SOP" \in flags[next_bd_to_process] => Tx!PacketEnd(next_bd_to_process).found
    BY TxImplied DEF Tx!DescriptorsWhole
  <2>. QED BY <2>1, <2>2 DEF Tx!TxIntFault
<1>2. ASSUME NEW p \in Packets, NEW k \in 1 .. MaxLen, Tx!OutputFault(p, k), ~(used + k > N)
      PROVE  FALSE
  <2>1. PICK s \in [0 .. N -> TxBD], u \in 0 .. N : TxShape(s, u) BY DEF TxIInv
  <2>2. pc = "idle" /\ u = used BY <1>2, <2>1 DEF Tx!OutputFault, Tx!Handed, TxShape, TxChain
  <2>3. \A i \in 0 .. k : Tx!Walk(free_head, k)[i] = s[u + i]
    <3>1. PICK z \in 0 .. N : z = u + k BY <1>2, <2>2
    <3>. QED BY <2>1, <2>2, <3>1, TxFreeWalk
  <2>4. PICK i \in 0 .. k - 1 : Tx!Walk(free_head, k)[i] = NULL BY <1>2 DEF Tx!OutputFault
  <2>5. i \in 0 .. k /\ u + i \in 0 .. N BY <1>2, <2>2
  <2>6. s[u + i] \in TxBD /\ s[u + i] = NULL BY <2>3, <2>4, <2>5
  <2>. QED BY <2>6
<1>. QED BY <1>1, <1>2

(* Every step of the transmit side keeps the invariant, until the ring is  *)
(* overrun.                                                                *)
LEMMA TxStep ==
  ASSUME TxIInv, [Tx!Next]_(Tx!vars), ~overrun'
  PROVE  TxIInv'
<1>1. CASE \E p \in Packets, k \in 1 .. MaxLen : Tx!Output(p, k) BY <1>1, TxOutputStep
<1>2. CASE Tx!StartFirst \/ Tx!StartNext BY <1>2, TxStartStep
<1>3. CASE Tx!Dma BY <1>3, TxDmaStep
<1>4. CASE Tx!TxIntPacket BY <1>4, TxIntPacketStep
<1>5. CASE Tx!WaitEoq \/ Tx!RxBegin \/ Tx!RxEnd \/ Tx!TxIntBegin \/ Tx!TxIntEnd BY <1>5, TxProcessorStep
<1>6. CASE UNCHANGED Tx!vars
  <2>1. UNCHANGED <<next, flags, buf, free_head, active_tail, next_bd_to_process, hdp, pending, cpu, pc,
                    tx, len, queue, sent, used, overrun>>
    BY <1>6 DEF Tx!vars, Tx!ring
  <2>2. PICK s \in [0 .. N -> TxBD], u \in 0 .. N : TxShape(s, u) BY DEF TxIInv
  <2>3. pc' # "idle" => cpu' # "tx" BY <2>1, <2>2 DEF TxShape, TxChain
  <2>4. TxShape(s, u)' BY <2>1, <2>2, <2>3, TxShapeKept
  <2>5. TxLinks' /\ TxLine' BY <2>1 DEF TxIInv, TxLinks, TxAt, TxLine
  <2>6. Tx!TypeOK' /\ \A p \in sent' : len'[p] > 0 BY <2>1 DEF TxIInv, Tx!TypeOK
  <2>. QED BY <2>2, <2>4, <2>5, <2>6 DEF TxIInv
<1>7. \A p \in Packets, k \in 1 .. MaxLen : ~Tx!OutputFault(p, k) BY DEF Tx!OutputFault
<1>8. ~Tx!TxIntFault BY TxNoFault
<1>. QED BY <1>1, <1>2, <1>3, <1>4, <1>5, <1>6, <1>7, <1>8 DEF Tx!Next

(* An overrun is remembered.                                               *)
LEMMA TxOverrunStays ==
  ASSUME overrun \in BOOLEAN, [Tx!Next]_(Tx!vars)
  PROVE  overrun' \in BOOLEAN /\ (overrun => overrun')
BY DEF Tx!Next, Tx!vars, Tx!Output, Tx!OutputFault, Tx!StartFirst, Tx!StartNext, Tx!Start, Tx!WaitEoq, Tx!Dma,
       Tx!RxBegin, Tx!RxEnd, Tx!TxIntBegin, Tx!TxIntPacket, Tx!TxIntEnd, Tx!TxIntFault

-----------------------------------------------------------------------------
(* A step of the driver is a step of the transmit side or leaves it alone. *)
LEMMA TxOfDriver ==
  ASSUME [Next]_vars
  PROVE  [Tx!Next]_(Tx!vars)
<1>1. CASE Tx!Next BY <1>1
<1>2. CASE UNCHANGED txVars BY <1>2 DEF txVars, Tx!vars, Tx!ring
<1>. QED BY <1>1, <1>2 DEF Next, vars

TxInv == overrun \in BOOLEAN /\ (overrun \/ TxIInv)

(* The invariant of the transmit side is inductive until a packet is put   *)
(* into a ring without room for it.                                        *)
THEOREM TxInvariance == Spec => []TxInv
<1>1. Init => TxInv
  <2>1. Tx!Init => overrun = FALSE BY DEF Tx!Init
  <2>. QED BY <2>1, TxInitial DEF Init, TxInv
<1>2. TxInv /\ [Next]_vars => TxInv'
  <2>. SUFFICES ASSUME TxInv, [Next]_vars PROVE TxInv' OBVIOUS
  <2>1. [Tx!Next]_(Tx!vars) BY TxOfDriver
  <2>2. overrun' \in BOOLEAN /\ (overrun => overrun') BY <2>1, TxOverrunStays DEF TxInv
  <2>3. CASE overrun' BY <2>2, <2>3 DEF TxInv
  <2>4. CASE ~overrun'
    <3>1. TxIInv BY <2>2, <2>4 DEF TxInv
    <3>2. TxIInv' BY <2>1, <2>4, <3>1, TxStep
    <3>. QED BY <2>2, <3>2 DEF TxInv
  <2>. QED BY <2>3, <2>4
<1>. QED BY <1>1, <1>2, PTL DEF Spec

(* The transmit ring, for any number of descriptors and packets and any    *)
(* length of packets: with the DMA running next to hdkif_transmit, the     *)
(* ring is broken only behind the last packet, the DMA finds only whole    *)
(* packets, and the interrupt gives back only what was sent, as long as    *)
(* every packet found as many descriptors given back as it has pbufs.      *)
(* hdkif_output does not test that.                                        *)
THEOREM TxSoundCorrect == Spec => []TxSound
<1>1. Spec => []TxInv BY TxInvariance
<1>2. TxInv => TxSound BY TxImplied DEF TxInv, TxSound
<1>. QED BY <1>1, <1>2, PTL

(* Each step of the driver, seen by its callers.                           *)
LEMMA TxQueueStep ==
  ASSUME TxIInv, ~overrun, [Tx!Next]_(Tx!vars)
  PROVE  [Tx!TxQ!Next]_(Tx!TxQ!queueVars)
<1>. USE TxNumbers
<1>1. ASSUME NEW p \in Packets, NEW k \in 1 .. MaxLen, Tx!Output(p, k)
      PROVE  Tx!TxQ!Output(p, k) \/ Tx!TxQ!Overfill(k)
  <2>1. /\ len[p] = 0 /\ queue' = Append(queue, p) /\ sent' = sent /\ pc = "idle"
        /\ len' = [len EXCEPT ![p] = k] /\ used' = used + k /\ overrun' = (overrun \/ used + k > N)
    BY <1>1 DEF Tx!Output, Tx!Handed
  <2>2. p \notin sent BY <2>1 DEF TxIInv
  <2>3. ASSUME NEW i \in DOMAIN queue PROVE queue[i] # p
    <3>2. CASE hdp = NULL BY <2>1, <3>2 DEF TxIInv, TxLine
    <3>3. CASE hdp # NULL
      <4>1. queue = <<buf[hdp][1]>> BY <2>1, <3>3 DEF TxIInv, TxLine
      <4>2. queue[i] = buf[hdp][1] BY <4>1
      <4>3. PICK s \in [0 .. N -> TxBD], u \in 0 .. N : TxShape(s, u) BY DEF TxIInv
      <4>4. PICK w \in 0 .. u - 1 : TxDma(s, u, w) BY <3>3, <4>3 DEF TxShape, TxChain
      <4>5. PICK q, L : TxWhole(s, u, w, q, L) BY <4>3, <4>4, TxPacket DEF TxShape, TxDma, TxIInv
      <4>6. q = buf[hdp][1] /\ L = len[q] /\ L # 0 BY <4>4, <4>5 DEF TxWhole, TxDma, TxPk
      <4>. QED BY <2>1, <4>2, <4>6
    <3>. QED BY <3>2, <3>3
  <2>4. used \in Nat BY DEF TxIInv, Tx!TypeOK
  <2>5. CASE used + k > N BY <2>1, <2>5 DEF Tx!TxQ!Overfill
  <2>6. CASE used + k <= N
    <3>1. ~(used + k > N) BY <2>4, <2>6
    <3>2. overrun' = overrun
      <4>1. overrun \in BOOLEAN BY DEF TxIInv, Tx!TypeOK
      <4>2. overrun = FALSE BY <4>1
      <4>3. overrun' = FALSE BY <2>1, <3>1, <4>2, Zenon
      <4>. QED BY <4>2, <4>3
    <3>. QED BY <2>1, <2>2, <2>3, <2>6, <3>2 DEF Tx!TxQ!Output
  <2>. QED BY <2>4, <2>5, <2>6
<1>2. CASE Tx!StartFirst \/ Tx!StartNext
  BY <1>2 DEF Tx!StartFirst, Tx!StartNext, Tx!Start, Tx!TxQ!queueVars
<1>3. CASE Tx!Dma
  <2>1. PICK q \in Packets :
          /\ sent' = sent \cup {q}
          /\ \/ queue = <<q>> /\ queue' = << >>
             \/ \E p \in Packets : queue = <<q, p>> /\ queue' = <<p>>
    BY <1>3, TxDmaStep
  <2>2. queue # << >> /\ Head(queue) = q /\ queue' = Tail(queue)
    <3>1. CASE queue = <<q>> /\ queue' = << >> BY <3>1
    <3>2. ASSUME NEW p \in Packets, queue = <<q, p>>, queue' = <<p>>
          PROVE  queue # << >> /\ Head(queue) = q /\ queue' = Tail(queue)
      BY <3>2
    <3>. QED BY <2>1, <3>1, <3>2
  <2>3. UNCHANGED <<len, used, overrun>> BY <1>3 DEF Tx!Dma
  <2>4. Tx!TxQ!Transmit BY <2>1, <2>2, <2>3 DEF Tx!TxQ!Transmit
  <2>. QED BY <2>4 DEF Tx!TxQ!Next
<1>4. CASE Tx!TxIntPacket
  <2>1. PICK q \in sent : /\ sent' = sent \ {q} /\ len' = [len EXCEPT ![q] = 0] /\ used' = used - len[q]
                          /\ queue' = queue /\ overrun' = overrun
    BY <1>4, TxIntPacketStep
  <2>2. q \in Packets BY DEF TxIInv, Tx!TypeOK
  <2>3. Tx!TxQ!Release(q) BY <2>1 DEF Tx!TxQ!Release
  <2>. QED BY <2>2, <2>3 DEF Tx!TxQ!Next
<1>5. CASE Tx!WaitEoq \/ Tx!RxBegin \/ Tx!RxEnd \/ Tx!TxIntBegin \/ Tx!TxIntEnd
  BY <1>5, TxProcessorStep DEF Tx!TxQ!queueVars
<1>6. CASE UNCHANGED Tx!vars BY <1>6 DEF Tx!vars, Tx!TxQ!queueVars
<1>7. CASE \E p \in Packets, k \in 1 .. MaxLen : Tx!Output(p, k) BY <1>1, <1>7 DEF Tx!TxQ!Next
<1>8. ASSUME NEW p \in Packets, NEW k \in 1 .. MaxLen, Tx!OutputFault(p, k) PROVE Tx!TxQ!Overfill(k)
  <2>1. used + k > N BY <1>8, TxNoFault
  <2>2. overrun' = TRUE BY <1>8 DEF Tx!OutputFault
  <2>. QED BY <2>1, <2>2 DEF Tx!TxQ!Overfill
<1>9. CASE \E p \in Packets, k \in 1 .. MaxLen : Tx!OutputFault(p, k) BY <1>8, <1>9 DEF Tx!TxQ!Next
<1>10. ~Tx!TxIntFault BY TxNoFault
<1>. QED BY <1>2, <1>3, <1>4, <1>5, <1>6, <1>7, <1>9, <1>10 DEF Tx!Next

(* The safety part of ImplementsTxQueue, for any number of descriptors and *)
(* packets: what is handed to hdkif_output goes out once and in order, and *)
(* the interrupt releases it once, after it was sent, until a packet finds *)
(* fewer free descriptors than it has pbufs.  That all of it does happen   *)
(* is for the runs.                                                        *)
THEOREM TxQueueRefined == Spec => Tx!TxQ!Init /\ [][Tx!TxQ!Next]_(Tx!TxQ!queueVars)
<1>1. Init => Tx!TxQ!Init BY DEF Init, Tx!Init, Tx!TxQ!Init
<1>2. TxInv /\ [Next]_vars => [Tx!TxQ!Next]_(Tx!TxQ!queueVars)
  <2>. SUFFICES ASSUME TxInv, [Next]_vars PROVE [Tx!TxQ!Next]_(Tx!TxQ!queueVars) OBVIOUS
  <2>1. [Tx!Next]_(Tx!vars) BY TxOfDriver
  <2>2. CASE overrun
    <3>1. overrun' = TRUE BY <2>1, <2>2, TxOverrunStays DEF TxInv
    <3>. QED BY <2>2, <3>1 DEF Tx!TxQ!Next, Tx!TxQ!Anything
  <2>3. CASE ~overrun BY <2>1, <2>3, TxQueueStep DEF TxInv
  <2>. QED BY <2>2, <2>3
<1>3. Spec => []TxInv BY TxInvariance
<1>. QED BY <1>1, <1>2, <1>3, PTL DEF Spec
=============================================================================
