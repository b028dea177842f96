---------------------------- MODULE NetifListProofs ----------------------------
(***************************************************************************)
(* Proofs about what is built on the order of netif_list: the alias        *)
(* filter, for any number of aliases, addresses and masks; and the         *)
(* terminal, for any number of aliases, sockets, addresses and ports, and  *)
(* whatever is typed.                                                      *)
(***************************************************************************)
EXTENDS AliasFilter, Terminal, FiniteSetTheorems, SequenceTheorems, WellFoundedInduction, TLAPS

(* The list of interfaces: the physical one is last, and none is twice.    *)
IsList(l) ==
  /\ l \in Seq(Netifs) /\ l # << >>
  /\ \A i, j \in 1 .. Len(l) : l[i] = l[j] => i = j
  /\ l[Len(l)] = PHYS

In(l) == {l[i] : i \in 1 .. Len(l)}

(* The list of the model is one.                                           *)
LEMMA ListFacts ==
  ASSUME NEW l, IsList(l)
  PROVE  /\ l \in Seq(Netifs) /\ IsInjective(l) /\ l # << >> /\ Last(l) = PHYS
         /\ Range(l) = In(l) /\ DOMAIN l = 1 .. Len(l) /\ Len(l) \in Nat
         /\ In(l) \subseteq Netifs /\ PHYS \in In(l)
<1>1. l \in Seq(Netifs) /\ l # << >> /\ l[Len(l)] = PHYS BY DEF IsList
<1>2. DOMAIN l = 1 .. Len(l) /\ Len(l) \in Nat BY <1>1, LenProperties
<1>3. IsInjective(l) BY <1>2 DEF IsList, IsInjective
<1>4. Range(l) = In(l) BY <1>2 DEF Range, In
<1>5. In(l) \subseteq Netifs BY <1>1, ElementOfSeq DEF In
<1>6. PHYS \in In(l)
  <2>1. Len(l) # 0 BY <1>1, EmptySeq
  <2>2. Len(l) \in 1 .. Len(l) BY <1>2, <2>1
  <2>. QED BY <1>1, <2>2 DEF In
<1>. QED BY <1>1, <1>2, <1>3, <1>4, <1>5, <1>6 DEF Last

(* netif_add puts an interface at the head.                                *)
LEMMA Prepended ==
  ASSUME NEW l, IsList(l), NEW m \in Netifs, m \notin In(l)
  PROVE  IsList(<<m>> \o l) /\ In(<<m>> \o l) = In(l) \cup {m}
<1>1. l \in Seq(Netifs) /\ Len(l) \in Nat /\ Len(l) # 0 BY EmptySeq, LenProperties DEF IsList
<1>2. PICK k \in Nat : k = Len(l) /\ k # 0 BY <1>1
<1>3. PICK h \in Seq(Netifs) : h = <<m>> /\ Len(h) = 1 /\ h[1] = m
  <2>1. <<m>> \in Seq(Netifs) /\ Len(<<m>>) = 1 /\ <<m>>[1] = m OBVIOUS
  <2>. QED BY <2>1
<1>4. PICK r \in Seq(Netifs) :
        /\ r = h \o l /\ Len(r) = 1 + k
        /\ \A i \in 1 .. 1 + k : r[i] = IF i <= 1 THEN h[i] ELSE l[i - 1]
  <2>1. /\ h \o l \in Seq(Netifs) /\ Len(h \o l) = Len(h) + Len(l)
        /\ \A i \in 1 .. Len(h) + Len(l) :
             (h \o l)[i] = IF i <= Len(h) THEN h[i] ELSE l[i - Len(h)]
    BY <1>1, ConcatProperties
  <2>. QED BY <1>2, <1>3, <2>1
<1>5. r[1] = m BY <1>2, <1>3, <1>4
<1>6. ASSUME NEW i \in 1 .. k PROVE r[i + 1] = l[i]
  <2>1. i + 1 \in 1 .. 1 + k /\ ~(i + 1 <= 1) /\ (i + 1) - 1 = i BY <1>2
  <2>. QED BY <1>4, <2>1
<1>7. \A i \in 1 .. 1 + k : i = 1 \/ \E j \in 1 .. k : i = j + 1
  <2>1. ASSUME NEW i \in 1 .. 1 + k, i # 1 PROVE i - 1 \in 1 .. k /\ i = (i - 1) + 1 BY <1>2, <2>1
  <2>. QED BY <2>1
<1>8. \A i \in 1 .. k : l[i] # m BY <1>2 DEF In
<1>9. ASSUME NEW i \in 1 .. 1 + k, NEW j \in 1 .. 1 + k, r[i] = r[j] PROVE i = j
  <2>1. CASE i = 1 /\ j = 1 BY <2>1
  <2>2. CASE i = 1 /\ j # 1 BY <1>5, <1>6, <1>7, <1>8, <1>9, <2>2
  <2>3. CASE i # 1 /\ j = 1 BY <1>5, <1>6, <1>7, <1>8, <1>9, <2>3
  <2>4. CASE i # 1 /\ j # 1
    <3>1. PICK a \in 1 .. k, b \in 1 .. k : i = a + 1 /\ j = b + 1 BY <1>7, <2>4
    <3>2. l[a] = l[b] BY <1>6, <1>9, <3>1
    <3>3. a = b BY <1>2, <3>2 DEF IsList
    <3>. QED BY <3>1, <3>3
  <2>. QED BY <2>1, <2>2, <2>3, <2>4
<1>10. r[1 + k] = PHYS
  <2>1. k \in 1 .. k /\ k + 1 = 1 + k BY <1>2
  <2>. QED BY <1>2, <1>6, <2>1 DEF IsList
<1>11. r # << >> BY <1>2, <1>4
<1>12. IsList(r) BY <1>4, <1>9, <1>10, <1>11 DEF IsList
<1>13. In(r) = In(l) \cup {m}
  <2>1. \A x \in In(r) : x \in In(l) \cup {m} BY <1>2, <1>4, <1>5, <1>6, <1>7 DEF In
  <2>2. ASSUME NEW x \in In(l) PROVE x \in In(r)
    <3>1. PICK i \in 1 .. k : x = l[i] BY <1>2 DEF In
    <3>2. i + 1 \in 1 .. 1 + k BY <1>2
    <3>. QED BY <1>4, <1>6, <3>1, <3>2 DEF In
  <2>3. m \in In(r)
    <3>1. 1 \in 1 .. 1 + k BY <1>2
    <3>. QED BY <1>4, <1>5, <3>1 DEF In
  <2>. QED BY <2>1, <2>2, <2>3
<1>. QED BY <1>3, <1>4, <1>12, <1>13

(* netif_remove takes one out that is not the last.                        *)
LEMMA Removed ==
  ASSUME NEW l, IsList(l), NEW k \in 1 .. Len(l), l[k] # PHYS
  PROVE  IsList(RemoveAt(l, k)) /\ In(RemoveAt(l, k)) = In(l) \ {l[k]}
<1>1. l \in Seq(Netifs) /\ Len(l) \in Nat BY LenProperties DEF IsList
<1>2. PICK c \in Nat : c = Len(l) BY <1>1
<1>3. k \in 1 .. c - 1 BY <1>2 DEF IsList
<1>4. \A i \in 1 .. c : l[i] \in Netifs BY <1>1, <1>2, ElementOfSeq
<1>5. PICK a \in Seq(Netifs) : a = SubSeq(l, 1, k - 1) /\ Len(a) = k - 1
                               /\ \A i \in 1 .. k - 1 : a[i] = l[i]
  <2>1. 1 \in Int /\ k - 1 \in Int /\ \A i \in 1 .. k - 1 : l[i] \in Netifs BY <1>2, <1>3, <1>4
  <2>2. /\ SubSeq(l, 1, k - 1) \in Seq(Netifs)
        /\ Len(SubSeq(l, 1, k - 1)) = (IF 1 <= k - 1 THEN (k - 1) - 1 + 1 ELSE 0)
        /\ \A i \in 1 .. (k - 1) - 1 + 1 : SubSeq(l, 1, k - 1)[i] = l[1 + i - 1]
    BY <2>1, SubSeqProperties
  <2>3. (k - 1) - 1 + 1 = k - 1 /\ (IF 1 <= k - 1 THEN (k - 1) - 1 + 1 ELSE 0) = k - 1 BY <1>3
  <2>4. \A i \in 1 .. k - 1 : 1 + i - 1 = i BY <1>3
  <2>. QED BY <2>2, <2>3, <2>4
<1>6. PICK b \in Seq(Netifs) : b = SubSeq(l, k + 1, Len(l)) /\ Len(b) = c - k
                               /\ \A i \in 1 .. c - k : b[i] = l[k + i]
  <2>1. k + 1 \in Int /\ c \in Int /\ \A i \in k + 1 .. c : l[i] \in Netifs BY <1>2, <1>3, <1>4
  <2>2. /\ SubSeq(l, k + 1, c) \in Seq(Netifs)
        /\ Len(SubSeq(l, k + 1, c)) = (IF k + 1 <= c THEN c - (k + 1) + 1 ELSE 0)
        /\ \A i \in 1 .. c - (k + 1) + 1 : SubSeq(l, k + 1, c)[i] = l[(k + 1) + i - 1]
    BY <2>1, SubSeqProperties
  <2>3. \A i \in 1 .. c - k : (k + 1) + i - 1 = k + i BY <1>3
  <2>4. c - (k + 1) + 1 = c - k /\ (IF k + 1 <= c THEN c - (k + 1) + 1 ELSE 0) = c - k
    BY <1>2, <1>3
  <2>5. SubSeq(l, k + 1, c) \in Seq(Netifs) /\ Len(SubSeq(l, k + 1, c)) = c - k BY <2>2, <2>4
  <2>6. \A i \in 1 .. c - k : SubSeq(l, k + 1, c)[i] = l[k + i] BY <2>2, <2>3, <2>4
  <2>. QED BY <1>2, <2>5, <2>6
<1>7. PICK r \in Seq(Netifs) :
        /\ r = RemoveAt(l, k) /\ Len(r) = c - 1
        /\ \A i \in 1 .. c - 1 : r[i] = IF i <= k - 1 THEN a[i] ELSE b[i - (k - 1)]
  <2>1. /\ a \o b \in Seq(Netifs) /\ Len(a \o b) = Len(a) + Len(b)
        /\ \A i \in 1 .. Len(a) + Len(b) :
             (a \o b)[i] = IF i <= Len(a) THEN a[i] ELSE b[i - Len(a)]
    BY ConcatProperties
  <2>2. Len(a) = k - 1 /\ Len(a) + Len(b) = c - 1 BY <1>2, <1>3, <1>5, <1>6
  <2>3. a \o b = RemoveAt(l, k) BY <1>5, <1>6 DEF RemoveAt
  <2>. QED BY <2>1, <2>2, <2>3
<1>. DEFINE At(i) == IF i < k THEN i ELSE i + 1
<1>8. ASSUME NEW i \in 1 .. c - 1 PROVE r[i] = l[At(i)] /\ At(i) \in 1 .. c /\ At(i) # k
  <2>1. CASE i < k
    <3>1. i \in 1 .. k - 1 /\ i <= k - 1 BY <1>3, <2>1
    <3>. QED BY <1>2, <1>5, <1>7, <2>1, <3>1
  <2>2. CASE ~(i < k)
    <3>1. i - (k - 1) \in 1 .. c - k /\ ~(i <= k - 1) /\ k + (i - (k - 1)) = i + 1 BY <1>2, <1>3, <2>2
    <3>2. r[i] = l[k + (i - (k - 1))] BY <1>6, <1>7, <3>1
    <3>. QED BY <1>2, <1>3, <2>2, <3>1, <3>2
  <2>. QED BY <2>1, <2>2
<1>9. \A i, j \in 1 .. c - 1 : At(i) = At(j) => i = j BY <1>2, <1>3
<1>10. \A i \in 1 .. c : i # k => \E j \in 1 .. c - 1 : At(j) = i
  <2>1. ASSUME NEW i \in 1 .. c, i # k PROVE \E j \in 1 .. c - 1 : At(j) = i
    <3>1. CASE i < k
      <4>1. i \in 1 .. c - 1 BY <1>2, <1>3, <3>1
      <4>. QED BY <3>1, <4>1
    <3>2. CASE i > k
      <4>1. i - 1 \in 1 .. c - 1 /\ ~(i - 1 < k) /\ (i - 1) + 1 = i BY <1>2, <1>3, <3>2
      <4>. QED BY <4>1
    <3>. QED BY <1>2, <2>1, <3>1, <3>2
  <2>. QED BY <2>1
<1>. HIDE DEF At
<1>11. ASSUME NEW i \in 1 .. c - 1, NEW j \in 1 .. c - 1, r[i] = r[j] PROVE i = j
  BY <1>2, <1>8, <1>9, <1>11 DEF IsList
<1>12. r[c - 1] = PHYS
  <2>1. c - 1 \in 1 .. c - 1 /\ At(c - 1) = c BY <1>2, <1>3 DEF At
  <2>. QED BY <1>2, <1>8, <2>1 DEF IsList
<1>13. r # << >> BY <1>3, <1>7
<1>14. IsList(r) BY <1>7, <1>11, <1>12, <1>13 DEF IsList
<1>15. In(r) = In(l) \ {l[k]}
  <2>1. ASSUME NEW x \in In(r) PROVE x \in In(l) \ {l[k]}
    <3>1. PICK i \in 1 .. c - 1 : x = r[i] BY <1>7 DEF In
    <3>2. x = l[At(i)] /\ At(i) \in 1 .. c /\ At(i) # k BY <1>8, <3>1
    <3>. QED BY <1>2, <3>2 DEF In, IsList
  <2>2. ASSUME NEW x \in In(l), x # l[k] PROVE x \in In(r)
    <3>1. PICK i \in 1 .. c : x = l[i] BY <1>2 DEF In
    <3>2. PICK j \in 1 .. c - 1 : At(j) = i BY <1>10, <2>2, <3>1
    <3>3. x = r[j] BY <1>8, <3>1, <3>2
    <3>. QED BY <1>7, <3>3 DEF In
  <2>. QED BY <2>1, <2>2
<1>. QED BY <1>7, <1>14, <1>15

(* A set of numbers that is not empty has a least one.                     *)
LEMMA LeastOf ==
  ASSUME NEW S, S \subseteq Nat, S # {}
  PROVE  Min(S) \in S /\ \A k \in S : Min(S) <= k
<1>1. PICK R : R = OpToRel(<, Nat) OBVIOUS
<1>2. IsWellFoundedOn(R, Nat) BY <1>1, NatLessThanWellFounded
<1>3. PICK m \in S : \A k \in S : ~(<<k, m>> \in R) BY <1>2, WFMin
<1>4. ASSUME NEW k \in S PROVE m <= k
  <2>1. k \in Nat /\ m \in Nat OBVIOUS
  <2>2. k < m => <<k, m>> \in R BY <1>1, <2>1 DEF OpToRel
  <2>. QED BY <1>3, <2>1, <2>2
<1>. QED BY <1>4 DEF Min

-----------------------------------------------------------------------------
(* The alias filter.                                                       *)

Full == {"up", "link"}

(* The calls of lwIPAliasAdd under way: which netif they are about.        *)
Adding ==
  /\ used \subseteq Aliases
  /\ add_pc \in {"idle", "link", "setup"} /\ alias \in Netifs
  /\ add_pc # "idle" => alias \in Aliases \ used

(* hdkif_alias_init has given an interface the flags of the physical one   *)
(* before netif_add links it, and nothing takes them away while it is      *)
(* listed.                                                                 *)
FlagsFull ==
  /\ \A m \in Listed : flags[m] = Full
  /\ add_pc = "link" => flags[alias] = Full

FilterIInv == FilterTypes /\ netif_list # << >> /\ Adding /\ FlagsFull

-----------------------------------------------------------------------------
(* What IsList and In say of the list of the model.                        *)
LEMMA FilterListFacts ==
  /\ FilterIInv => IsList(netif_list)
  /\ netif_list \in Seq(Netifs) => Listed = In(netif_list)
  /\ IsList(netif_list) => /\ netif_list \in Seq(Netifs) /\ IsInjective(netif_list)
                           /\ Last(netif_list) = PHYS /\ netif_list # << >>
<1>1. netif_list \in Seq(Netifs) => DOMAIN netif_list = 1 .. Len(netif_list) OBVIOUS
<1>2. FilterIInv => IsList(netif_list)
  BY <1>1 DEF FilterIInv, FilterTypes, IsList, IsInjective, Last
<1>3. netif_list \in Seq(Netifs) => Listed = In(netif_list) BY <1>1 DEF Listed, Range, In
<1>4. IsList(netif_list) => IsInjective(netif_list) BY <1>1 DEF IsList, IsInjective
<1>5. IsList(netif_list) => Last(netif_list) = PHYS BY DEF IsList, Last
<1>. QED BY <1>2, <1>3, <1>4, <1>5 DEF IsList

(* The filter gives the physical interface, or a listed one that has the   *)
(* address.                                                                *)
LEMMA FilterChoice ==
  ASSUME FilterIInv, NEW d \in Addresses
  PROVE  /\ PHYS \in Listed
         /\ LET m == netif_alias_route_filter(d) IN
            \/ m = PHYS
            \/ m \in Listed /\ ip_addr[m] = d
         /\ (~IsBroadcast(d) /\ d \notin Multicast /\ \E m \in Listed : ip_addr[m] = d)
              => ip_addr[netif_alias_route_filter(d)] = d
<1>1. IsList(netif_list) /\ Listed = In(netif_list) BY FilterListFacts DEF FilterIInv, FilterTypes
<1>2. DOMAIN netif_list = 1 .. Len(netif_list) /\ Len(netif_list) \in Nat BY <1>1 DEF IsList
<1>3. PHYS \in Listed
  <2>1. Len(netif_list) \in 1 .. Len(netif_list) BY <1>1, <1>2, EmptySeq DEF IsList
  <2>. QED BY <1>1, <2>1 DEF IsList, In
<1>4. ASSUME Matches(d) # {}
      PROVE  /\ netif_list[Min(Matches(d))] \in Listed
             /\ ip_addr[netif_list[Min(Matches(d))]] = d
  <2>1. Matches(d) \subseteq Nat BY <1>2 DEF Matches
  <2>2. PICK k \in Matches(d) : k = Min(Matches(d)) BY <1>4, <2>1, LeastOf
  <2>3. k \in 1 .. Len(netif_list) /\ ip_addr[netif_list[k]] = d BY <1>2, <2>2 DEF Matches
  <2>. QED BY <1>1, <2>2, <2>3 DEF In
<1>5. ASSUME NEW m \in Listed, ip_addr[m] = d PROVE Matches(d) # {}
  <2>1. PICK k \in 1 .. Len(netif_list) : netif_list[k] = m BY <1>1 DEF In
  <2>2. flags[m] = {"up", "link"} BY DEF FilterIInv, FlagsFull, Full
  <2>3. k \in Matches(d) BY <1>2, <1>5, <2>1, <2>2 DEF Matches
  <2>. QED BY <2>3
<1>. QED BY <1>3, <1>4, <1>5 DEF netif_alias_route_filter

(* FilterSound is a consequence of the inductive invariant.                *)
LEMMA FilterImplied == FilterIInv => FilterSound
<1>. SUFFICES ASSUME FilterIInv PROVE Steered /\ OnlyListed BY DEF FilterSound, FilterIInv
<1>1. Steered
  <2>. SUFFICES ASSUME NEW d \in Addresses, d \in {ip_addr[m] : m \in Listed},
                       ~IsBroadcast(d), d \notin Multicast
                PROVE  ForUs(d)
    BY DEF Steered
  <2>1. \E m \in Listed : ip_addr[m] = d OBVIOUS
  <2>2. ip_addr[netif_alias_route_filter(d)] = d BY <2>1, FilterChoice
  <2>3. d # 0 BY DEF IsBroadcast
  <2>. QED BY <2>2, <2>3 DEF ForUs
<1>2. OnlyListed
  <2>. SUFFICES ASSUME NEW d \in Addresses, ForUs(d)
                PROVE  \E m \in Listed : ip_addr[m] = d
    BY DEF OnlyListed
  <2>1. PICK m : m = netif_alias_route_filter(d) OBVIOUS
  <2>2. ip_addr[m] = d BY <2>1 DEF ForUs
  <2>3. m \in Listed BY <2>1, FilterChoice
  <2>. QED BY <2>2, <2>3
<1>. QED BY <1>1, <1>2

-----------------------------------------------------------------------------
(* Every step of lwIPAliasAdd, lwIPAliasRemove and cmd_netif_set keeps the *)
(* list, the pool and the flags together.                                  *)
LEMMA FilterStep ==
  ASSUME FilterIInv, [FilterNext]_filterVars
  PROVE  FilterIInv'
<1>. USE FilterAssumption, NetifAssumption
<1>0. IsList(netif_list) /\ Listed = In(netif_list) BY FilterListFacts DEF FilterIInv, FilterTypes
<1>1. ASSUME IsList(netif_list')
      PROVE  /\ netif_list' \in Seq(Netifs) /\ IsInjective(netif_list')
             /\ Last(netif_list') = PHYS /\ netif_list' # << >>
             /\ Listed' = In(netif_list')
  <2>1. PICK l : l = netif_list' OBVIOUS
  <2>2. l \in Seq(Netifs) /\ l # << >> /\ DOMAIN l = 1 .. Len(l) BY <1>1, <2>1 DEF IsList
  <2>3. IsInjective(l) /\ Last(l) = PHYS BY <1>1, <2>1, <2>2 DEF IsList, IsInjective, Last
  <2>4. Listed' = In(l) BY <2>1, <2>2 DEF Listed, Range, In
  <2>. QED BY <2>1, <2>2, <2>3, <2>4
<1>2. ASSUME NEW m \in Netifs, NEW ip \in Addresses, SetAddress(m, ip) PROVE FilterIInv'
  BY <1>2 DEF SetAddress, FilterIInv, FilterTypes, Adding, FlagsFull, Listed
<1>3. ASSUME NEW m \in Netifs, NEW hb \in HostBits, SetMask(m, hb) PROVE FilterIInv'
  BY <1>3 DEF SetMask, FilterIInv, FilterTypes, Adding, FlagsFull, Listed
<1>4. ASSUME NEW m \in Aliases, NEW ip \in Addresses, NEW hb \in HostBits, netif_add(m, ip, hb)
      PROVE  FilterIInv'
  <2>1. PHYS \in Listed /\ InitFlags = Full
    <3>1. PHYS \in Listed
      <4>1. Len(netif_list) \in 1 .. Len(netif_list) BY <1>0, EmptySeq DEF IsList
      <4>. QED BY <1>0, <4>1 DEF IsList, In
    <3>. QED BY <3>1 DEF InitFlags, FilterIInv, FlagsFull
  <2>2. m \in Netifs /\ m # PHYS /\ m \notin Listed /\ Listed' = Listed
    BY <1>4 DEF netif_add, Netifs, FilterIInv, FilterTypes, Listed
  <2>3. FilterTypes' BY <1>4, <2>1, <2>2 DEF netif_add, FilterIInv, FilterTypes, Full, Listed
  <2>4. FlagsFull' BY <1>4, <2>1, <2>2 DEF netif_add, FilterIInv, FilterTypes, FlagsFull
  <2>. QED BY <1>4, <2>2, <2>3, <2>4 DEF netif_add, FilterIInv, Adding
<1>5. ASSUME Link PROVE FilterIInv'
  <2>1. alias \in Netifs /\ alias # PHYS /\ alias \in Aliases \ used BY <1>5 DEF Link, FilterIInv, Adding, Netifs
  <2>2. alias \notin In(netif_list) BY <1>0, <1>5, <2>1 DEF Link, FilterIInv, FilterTypes
  <2>3. IsList(netif_list') /\ In(netif_list') = Listed \cup {alias}
    BY <1>0, <1>5, <2>1, <2>2, Prepended DEF Link, Linked
  <2>4. Listed' = Listed \cup {alias} BY <1>1, <2>3
  <2>5. FilterTypes' BY <1>1, <1>5, <2>1, <2>3, <2>4 DEF Link, FilterIInv, FilterTypes
  <2>6. FlagsFull' BY <1>5, <2>4 DEF Link, FilterIInv, FlagsFull
  <2>. QED BY <1>1, <1>5, <2>1, <2>3, <2>5, <2>6 DEF Link, FilterIInv, Adding
<1>6. ASSUME netif_set_up PROVE FilterIInv'
  <2>1. alias \in Aliases \ used /\ alias \in Listed /\ Listed' = Listed /\ alias # PHYS
    BY <1>6 DEF netif_set_up, FilterIInv, Adding, FilterTypes, Listed
  <2>2. flags[alias] = Full BY <2>1 DEF FilterIInv, FlagsFull
  <2>3. flags' = flags BY <1>6, <2>1, <2>2 DEF netif_set_up, FilterIInv, FilterTypes, Full
  <2>4. FilterTypes' BY <1>6, <2>1, <2>3 DEF netif_set_up, FilterIInv, FilterTypes
  <2>5. FlagsFull' BY <1>6, <2>1, <2>3 DEF netif_set_up, FilterIInv, FlagsFull
  <2>. QED BY <1>6, <2>1, <2>4, <2>5 DEF netif_set_up, FilterIInv, Adding, Netifs
<1>7. ASSUME NEW m \in Aliases, lwIPAliasRemove(m) PROVE FilterIInv'
  <2>1. m \in Listed /\ m # PHYS BY <1>7 DEF lwIPAliasRemove, FilterIInv, FilterTypes
  <2>2. DOMAIN netif_list = 1 .. Len(netif_list) BY <1>0 DEF IsList
  <2>3. PICK k \in 1 .. Len(netif_list) :
          netif_list[k] = m /\ netif_list' = RemoveAt(netif_list, k)
    <3>1. \E k \in DOMAIN netif_list : netif_list[k] = m BY <1>0, <2>1, <2>2 DEF In
    <3>2. PICK k \in DOMAIN netif_list :
            k = (CHOOSE j \in DOMAIN netif_list : netif_list[j] = m) /\ netif_list[k] = m
      BY <3>1
    <3>. QED BY <1>7, <2>2, <3>2 DEF lwIPAliasRemove, Unlinked
  <2>4. IsList(netif_list') /\ In(netif_list') = Listed \ {m} BY <1>0, <2>1, <2>3, Removed
  <2>5. Listed' = Listed \ {m} BY <1>1, <2>4
  <2>6. FilterTypes' BY <1>1, <1>7, <2>1, <2>4, <2>5 DEF lwIPAliasRemove, FilterIInv, FilterTypes
  <2>7. FlagsFull' BY <1>7, <2>5 DEF lwIPAliasRemove, FilterIInv, FlagsFull, FilterTypes
  <2>. QED BY <1>1, <1>7, <2>4, <2>6, <2>7 DEF lwIPAliasRemove, FilterIInv, Adding
<1>8. ASSUME UNCHANGED filterVars PROVE FilterIInv'
  BY <1>8 DEF filterVars, FilterIInv, FilterTypes, Adding, FlagsFull, Listed
<1>. QED BY <1>2, <1>3, <1>4, <1>5, <1>6, <1>7, <1>8 DEF FilterNext

(* The pool, the list and the flags agree in every reachable state.        *)
THEOREM FilterInvariance == FilterSpec => []FilterIInv
<1>1. FilterInit => FilterIInv
  <2>. SUFFICES ASSUME FilterInit PROVE FilterIInv OBVIOUS
  <2>1. PHYS \in Netifs /\ 0 \in Addresses BY FilterAssumption DEF Netifs
  <2>2. netif_list = <<PHYS>> /\ netif_list \in Seq(Netifs) /\ DOMAIN netif_list = {1}
        /\ Len(netif_list) = 1 /\ netif_list[1] = PHYS
    BY <2>1 DEF FilterInit
  <2>3. Listed = {PHYS} /\ IsInjective(netif_list) /\ Last(netif_list) = PHYS
    BY <2>2 DEF Listed, Range, IsInjective, Last
  <2>4. FilterTypes BY <2>1, <2>2, <2>3, FilterAssumption DEF FilterInit, FilterTypes
  <2>. QED BY <2>1, <2>2, <2>3, <2>4 DEF FilterInit, FilterIInv, Adding, FlagsFull, Full
<1>2. FilterIInv /\ [FilterNext]_filterVars => FilterIInv' BY FilterStep
<1>. QED BY <1>1, <1>2, PTL DEF FilterSpec

(* netif_alias_route_filter answers for exactly the addresses of the       *)
(* listed interfaces, between any two steps of lwIPAliasAdd too.           *)
THEOREM FilterSoundCorrect == FilterSpec => []FilterSound
BY FilterInvariance, FilterImplied, PTL

-----------------------------------------------------------------------------
(* The terminal.                                                           *)

Socket == [netif : Netifs \cup {NULL}, port : 0 .. PortMod - 1, ip : IPs]

Used(L, s) == L[s].netif # NULL

(* No two sockets have one port at addresses that overlap.                 *)
Apart(L) ==
  \A s, t \in Slots : Used(L, s) /\ Used(L, t) /\ Overlap(L[s].ip, L[t].ip)
                       /\ L[s].port = L[t].port => s = t

(* None has the locator's port, which could not move with its interface.   *)
Ported(L) == \A s \in Slots : Used(L, s) => L[s].port # LocatorPort

(* No socket outlives its interface.                                       *)
On(L, l) == \A s \in Slots : Used(L, s) => L[s].netif \in In(l)

BoardSound(l, a, L) ==
  /\ IsList(l) /\ a \in [Netifs -> IPs] /\ L \in [Slots -> Socket]
  /\ Apart(L) /\ Ported(L) /\ On(L, l)

AnswerOK(a) == a \in {"OK", "done", "ERR", "none"}

(* A prompt that works on an interface has one that is listed.             *)
PromptSound ==
  /\ pc \in {"option", "address", "port", "which", "removing", "from"} => n \in In(netif_list)
  /\ chosen \in Netifs \cup {NULL}

IInv == BoardSound(netif_list, ip_addr, s_listeners) /\ AnswerOK(answer) /\ PromptSound

-----------------------------------------------------------------------------
(* What the assumption says of the sizes.                                  *)
LEMMA Numbers ==
  /\ UDP_MAX_LISTENERS \in Nat /\ UDP_MAX_LISTENERS > 0
  /\ PortMod \in Nat /\ PortMod > 1 /\ LocatorPort \in Ports
  /\ NULL \notin Netifs /\ PHYS \in Netifs /\ PHYS_IP \in IPs /\ ANY \in IPs
  /\ Slots = 0 .. UDP_MAX_LISTENERS - 1 /\ Slots \subseteq Nat
  /\ Ports = 1 .. PortMod - 1
BY TerminalAssumption, NetifAssumption DEF Slots, Netifs, Ports

-----------------------------------------------------------------------------
(* Each call keeps the board sound and does what BoardConfig says of the   *)
(* request.                                                                *)

Same == BoardSound(netif_list', ip_addr', s_listeners') /\ AnswerOK(answer')

Kept == Same /\ [Config!Next]_(Config!vars)

(* The answers that refuse.                                                *)
Refuses(a) == a = "ERR" \/ (a = "none" /\ request'.by = "menu")

(* The sockets that BoardConfig sees.                                      *)
Socks(L) == {L[s] : s \in {t \in Slots : Used(L, t)}}

(* The addresses that BoardConfig sees.                                    *)
Addr(l, a) == [m \in In(l) |-> a[m]]

(* The two sides of the mapping, now and after a step.                     *)
LEMMA Seen ==
  ASSUME BoardSound(netif_list, ip_addr, s_listeners),
         BoardSound(netif_list', ip_addr', s_listeners')
  PROVE  /\ [m \in Range(netif_list) |-> ip_addr[m]] = Addr(netif_list, ip_addr)
         /\ {s_listeners[s] : s \in Slots \ UsedBy(NULL)} = Socks(s_listeners)
         /\ [m \in Range(netif_list') |-> ip_addr'[m]] = Addr(netif_list', ip_addr')
         /\ {s_listeners'[s] : s \in Slots \ UsedBy(NULL)'} = Socks(s_listeners')
<1>1. Range(netif_list) = In(netif_list) /\ Range(netif_list') = In(netif_list')
  BY ListFacts DEF BoardSound
<1>2. Slots \ UsedBy(NULL) = {t \in Slots : Used(s_listeners, t)} BY DEF UsedBy, Used
<1>3. Slots \ UsedBy(NULL)' = {t \in Slots : Used(s_listeners', t)} BY DEF UsedBy, Used
<1>. QED BY <1>1, <1>2, <1>3 DEF Addr, Socks

(* A call that fails, ...                                                  *)
LEMMA Refusal ==
  ASSUME IInv, NEW a, Refuses(a), NoChange(a)
  PROVE  Same /\ Config!Refuse
<1>1. UNCHANGED <<netif_list, ip_addr, s_listeners>> /\ answer' = a BY DEF NoChange, board
<1>2. Same BY <1>1 DEF IInv, Same, AnswerOK, Refuses
<1>3. UsedBy(NULL)' = UsedBy(NULL) BY <1>1 DEF UsedBy
<1>4. Config!Refused BY <1>1 DEF Refuses, Config!Refused, Config!Silent, Config!Said
<1>. QED BY <1>1, <1>2, <1>3, <1>4 DEF Config!Refuse

(* A step that does what BoardConfig says of the request.                  *)
LEMMA Carry ==
  ASSUME NEW r, r = request', Config!Carried(r), Same
  PROVE  Kept
BY DEF Kept, Config!Next

(* ... one that is about something else, ...                               *)
LEMMA OtherKept ==
  ASSUME IInv, NEW r, r = request', r.op = "other", NEW a \in {"done", "ERR", "none"}, NoChange(a)
  PROVE  Kept
<1>1. UNCHANGED <<netif_list, ip_addr, s_listeners>> /\ answer' = a BY DEF NoChange, board
<1>2. Same BY <1>1 DEF IInv, Same, AnswerOK
<1>3. Config!Other BY <1>1 DEF Config!Other, UsedBy
<1>. QED BY <1>2, <1>3, Carry DEF Config!Carried

(* ... and one about an interface that is not there.                       *)
LEMMA NobodyKept ==
  ASSUME IInv, NEW r, r = request', r.op \in {"del", "set", "open"}, r.netif = NULL, NoChange("ERR")
  PROVE  Kept
<1>1. Same /\ Config!Refuse BY Refusal DEF Refuses
<1>2. NULL \notin Range(netif_list)
  BY Numbers, ListFacts DEF IInv, BoardSound
<1>3. NULL \notin DOMAIN [m \in Range(netif_list) |-> ip_addr[m]] BY <1>2
<1>4. CASE r.op = "del"
  <2>1. Config!DeleteNetif(r.netif) BY <1>1, <1>3 DEF Config!DeleteNetif
  <2>. QED BY <1>1, <1>4, <2>1, Carry DEF Config!Carried
<1>5. CASE r.op = "set"
  <2>1. Config!SetAddress(r.netif, r.ip) BY <1>1, <1>3 DEF Config!SetAddress
  <2>. QED BY <1>1, <1>5, <2>1, Carry DEF Config!Carried
<1>6. CASE r.op = "open"
  <2>1. Config!OpenSocket(r.netif, r.port) BY <1>1, <1>3 DEF Config!OpenSocket
  <2>. QED BY <1>1, <1>6, <2>1, Carry DEF Config!Carried
<1>. QED BY <1>4, <1>5, <1>6

(* net_if_add.                                                             *)
LEMMA AddKept ==
  ASSUME IInv, NEW r, r = request', NEW ip \in IPs, r.op = "add", r.ip = ip,
         NEW failed, Refuses(failed), net_if_add(ip, failed)
  PROVE  Kept
<1>1. CASE Aliases \ Range(netif_list) = {} /\ NoChange(failed)
  <2>1. Same /\ Config!Refuse BY <1>1, Refusal
  <2>2. Aliases \subseteq DOMAIN [m \in Range(netif_list) |-> ip_addr[m]] BY <1>1
  <2>3. Config!AddNetif(r.ip) BY <2>1, <2>2 DEF Config!AddNetif
  <2>. QED BY <2>1, <2>3, Carry DEF Config!Carried
<1>2. CASE \E m \in Aliases \ Range(netif_list) :
             /\ netif_list' = <<m>> \o netif_list /\ ip_addr' = [ip_addr EXCEPT ![m] = ip]
             /\ answer' = IF ip = ANY THEN failed ELSE "OK"
             /\ UNCHANGED s_listeners
  <2>1. BoardSound(netif_list, ip_addr, s_listeners) BY DEF IInv
  <2>2. PICK m \in Aliases : /\ m \notin Range(netif_list) /\ netif_list' = <<m>> \o netif_list
                             /\ ip_addr' = [ip_addr EXCEPT ![m] = ip]
                             /\ answer' = IF ip = ANY THEN failed ELSE "OK"
                             /\ s_listeners' = s_listeners
    BY <1>2
  <2>3. m \in Netifs /\ m \notin In(netif_list) BY <2>1, <2>2, ListFacts DEF BoardSound, Netifs
  <2>4. IsList(netif_list') /\ In(netif_list') = In(netif_list) \cup {m}
    BY <2>1, <2>2, <2>3, Prepended DEF BoardSound
  <2>5. ip_addr' \in [Netifs -> IPs] BY <2>1, <2>2 DEF BoardSound
  <2>6. On(s_listeners', netif_list') BY <2>1, <2>2, <2>4 DEF BoardSound, On
  <2>7. BoardSound(netif_list', ip_addr', s_listeners') BY <2>1, <2>2, <2>4, <2>5, <2>6 DEF BoardSound
  <2>8. In(netif_list) \subseteq Netifs /\ ip_addr \in [Netifs -> IPs]
    BY <2>1, ListFacts DEF BoardSound
  <2>9. Addr(netif_list', ip_addr')
          = [x \in In(netif_list) \cup {m} |-> IF x = m THEN ip ELSE Addr(netif_list, ip_addr)[x]]
    BY <2>2, <2>3, <2>4, <2>8 DEF Addr
  <2>10. DOMAIN Addr(netif_list, ip_addr) = In(netif_list) BY DEF Addr
  <2>11. Same BY <2>2, <2>7 DEF Same, AnswerOK, Refuses
  <2>12. Config!AddNetif(r.ip)
    <3>1. PICK A : A = [x \in Range(netif_list) |-> ip_addr[x]] OBVIOUS
    <3>2. A = Addr(netif_list, ip_addr) BY <2>1, <2>7, <3>1, Seen
    <3>3. [x \in Range(netif_list') |-> ip_addr'[x]]
            = [x \in DOMAIN A \cup {m} |-> IF x = m THEN ip ELSE A[x]]
      BY <2>1, <2>7, <2>9, <2>10, <3>2, Seen
    <3>4. m \in Aliases \ DOMAIN A BY <2>3, <2>10, <3>2
    <3>5. UsedBy(NULL)' = UsedBy(NULL) BY <2>2 DEF UsedBy
    <3>6. IF ip = ANY THEN Config!Refused ELSE Config!Said("OK")
      BY <2>2 DEF Refuses, Config!Refused, Config!Silent, Config!Said
    <3>. QED BY <2>2, <3>1, <3>3, <3>4, <3>5, <3>6 DEF Config!AddNetif
  <2>. QED BY <2>11, <2>12, Carry DEF Config!Carried
<1>. QED BY <1>1, <1>2 DEF net_if_add, Linked

(* udp_source_remove_listener.                                             *)
LEMMA CloseKept ==
  ASSUME IInv, NEW r, r = request', NEW s \in Slots, Used(s_listeners, s), udp_source_remove_listener(s),
         r.op = "close", r.socket = s_listeners[s]
  PROVE  Kept
<1>. USE Numbers
<1>1. BoardSound(netif_list, ip_addr, s_listeners) BY DEF IInv
<1>2. /\ s_listeners' = [s_listeners EXCEPT ![s] = Free] /\ answer' = "OK"
      /\ netif_list' = netif_list /\ ip_addr' = ip_addr
  BY DEF udp_source_remove_listener
<1>3. Free \in Socket /\ Free.netif = NULL BY DEF Free, Socket
<1>4. \A t \in Slots : s_listeners'[t] = IF t = s THEN Free ELSE s_listeners[t]
  BY <1>1, <1>2 DEF BoardSound
<1>5. \A t \in Slots : Used(s_listeners', t) <=> Used(s_listeners, t) /\ t # s
  BY <1>3, <1>4 DEF Used
<1>6. Apart(s_listeners') /\ Ported(s_listeners') /\ On(s_listeners', netif_list')
  <2>1. Apart(s_listeners') BY <1>1, <1>4, <1>5 DEF BoardSound, Apart
  <2>2. Ported(s_listeners') BY <1>1, <1>4, <1>5 DEF BoardSound, Ported
  <2>3. On(s_listeners', netif_list') BY <1>1, <1>2, <1>4, <1>5 DEF BoardSound, On
  <2>. QED BY <2>1, <2>2, <2>3
<1>7. s_listeners' \in [Slots -> Socket] BY <1>1, <1>2, <1>3 DEF BoardSound
<1>8. BoardSound(netif_list', ip_addr', s_listeners') BY <1>1, <1>2, <1>6, <1>7 DEF BoardSound
<1>9. PICK x : x = s_listeners[s] OBVIOUS
<1>10. \A t \in Slots : Used(s_listeners, t) /\ s_listeners[t] = x => t = s
  BY <1>1, <1>9 DEF BoardSound, Apart, Overlap
<1>11. x \in Socks(s_listeners) /\ Socks(s_listeners') = Socks(s_listeners) \ {x}
  BY <1>4, <1>5, <1>9, <1>10 DEF Socks
<1>12. x \in {s_listeners[t] : t \in Slots \ UsedBy(NULL)} BY <1>1, <1>8, <1>11, Seen
<1>13. {s_listeners'[t] : t \in Slots \ UsedBy(NULL)'}
         = {s_listeners[t] : t \in Slots \ UsedBy(NULL)} \ {x}
  BY <1>1, <1>8, <1>11, Seen
<1>14. Config!CloseSocket(r.socket)
  BY <1>2, <1>9, <1>12, <1>13 DEF Config!CloseSocket, Config!Said
<1>15. Same BY <1>2, <1>8 DEF Same, AnswerOK
<1>. QED BY <1>9, <1>14, <1>15, Carry DEF Config!Carried

(* net_if_remove.                                                          *)
LEMMA RemoveKept ==
  ASSUME IInv, NEW r, r = request', NEW m \in In(netif_list), net_if_remove(m),
         r.op = "del", r.netif = m
  PROVE  Kept
<1>. USE Numbers
<1>1. CASE m = PHYS
  <2>1. Same /\ Config!Refuse BY <1>1, Refusal DEF net_if_remove, Removable, Refuses
  <2>2. Config!DeleteNetif(r.netif) BY <1>1, <2>1 DEF Config!DeleteNetif
  <2>. QED BY <2>1, <2>2, Carry DEF Config!Carried
<1>2. CASE m # PHYS
  <2>1. BoardSound(netif_list, ip_addr, s_listeners) BY DEF IInv
  <2>2. /\ s_listeners' = Cascaded(m) /\ netif_list' = Unlinked(m)
        /\ answer' = "OK" /\ ip_addr' = ip_addr
    BY <1>2 DEF net_if_remove, Removable
  <2>3. /\ IsList(netif_list) /\ DOMAIN netif_list = 1 .. Len(netif_list)
        /\ In(netif_list) \subseteq Netifs
    BY <2>1, ListFacts DEF BoardSound
  <2>4. PICK k \in 1 .. Len(netif_list) :
          /\ netif_list[k] = m /\ netif_list' = RemoveAt(netif_list, k)
    <3>1. PICK j : j = CHOOSE i \in DOMAIN netif_list : netif_list[i] = m OBVIOUS
    <3>2. \E i \in DOMAIN netif_list : netif_list[i] = m BY <2>3 DEF In
    <3>3. j \in DOMAIN netif_list /\ netif_list[j] = m BY <3>1, <3>2
    <3>. QED BY <2>2, <2>3, <3>1, <3>3 DEF Unlinked
  <2>5. IsList(netif_list') /\ In(netif_list') = In(netif_list) \ {m}
    BY <1>2, <2>3, <2>4, Removed
  <2>6. Free \in Socket /\ Free.netif = NULL BY DEF Free, Socket
  <2>7. \A s \in Slots : s_listeners'[s] = IF s_listeners[s].netif = m THEN Free ELSE s_listeners[s]
    BY <2>2 DEF Cascaded, UsedBy
  <2>8. s_listeners' \in [Slots -> Socket] BY <2>1, <2>2, <2>6 DEF Cascaded, BoardSound
  <2>9. \A s \in Slots : Used(s_listeners', s) => Used(s_listeners, s) /\ s_listeners[s].netif # m
                                                 /\ s_listeners'[s] = s_listeners[s]
    BY <2>6, <2>7 DEF Used
  <2>10. \A s \in Slots : Used(s_listeners, s) /\ s_listeners[s].netif # m => Used(s_listeners', s)
    BY <2>7 DEF Used
  <2>11. Apart(s_listeners') BY <2>1, <2>9 DEF BoardSound, Apart
  <2>12. Ported(s_listeners') BY <2>1, <2>9 DEF BoardSound, Ported
  <2>13. On(s_listeners', netif_list') BY <2>1, <2>5, <2>9 DEF BoardSound, On
  <2>14. BoardSound(netif_list', ip_addr', s_listeners')
    BY <2>1, <2>2, <2>5, <2>8, <2>11, <2>12, <2>13 DEF BoardSound
  <2>15. Socks(s_listeners') = Socks(s_listeners) \ {x \in Socks(s_listeners) : x.netif = m}
    BY <2>9, <2>10 DEF Socks
  <2>16. Config!DeleteNetif(r.netif)
    <3>1. PICK A : A = [x \in Range(netif_list) |-> ip_addr[x]] OBVIOUS
    <3>2. A = Addr(netif_list, ip_addr) BY <2>1, <2>14, <3>1, Seen
    <3>3. DOMAIN A = In(netif_list) /\ \A x \in In(netif_list) : A[x] = ip_addr[x] BY <3>2 DEF Addr
    <3>4. [x \in Range(netif_list') |-> ip_addr'[x]] = [x \in DOMAIN A \ {m} |-> A[x]]
      <4>1. Addr(netif_list', ip_addr') = [x \in In(netif_list) \ {m} |-> ip_addr[x]]
        BY <2>2, <2>5 DEF Addr
      <4>. QED BY <2>1, <2>14, <3>3, <4>1, Seen
    <3>5. PICK S : S = {s_listeners[s] : s \in Slots \ UsedBy(NULL)} OBVIOUS
    <3>6. {s_listeners'[s] : s \in Slots \ UsedBy(NULL)'} = S \ {x \in S : x.netif = m}
      BY <2>1, <2>14, <2>15, <3>5, Seen
    <3>7. m \in DOMAIN A \ {PHYS} BY <1>2, <3>3
    <3>. QED BY <2>2, <3>1, <3>4, <3>5, <3>6, <3>7
             DEF Config!DeleteNetif, Config!SocketsOf, Config!Said
  <2>17. Same BY <2>2, <2>14 DEF Same, AnswerOK
  <2>. QED BY <2>16, <2>17, Carry DEF Config!Carried
<1>. QED BY <1>1, <1>2

(* The slots are UDP_MAX_LISTENERS.                                        *)
LEMMA SlotsFinite == IsFiniteSet(Slots) /\ Cardinality(Slots) = UDP_MAX_LISTENERS
<1>. USE Numbers
<1>1. 0 \in Int /\ UDP_MAX_LISTENERS - 1 \in Int OBVIOUS
<1>2. /\ IsFiniteSet(0 .. UDP_MAX_LISTENERS - 1)
      /\ Cardinality(0 .. UDP_MAX_LISTENERS - 1)
           = IF 0 > UDP_MAX_LISTENERS - 1 THEN 0 ELSE (UDP_MAX_LISTENERS - 1) - 0 + 1
  BY <1>1, FS_Interval
<1>3. (IF 0 > UDP_MAX_LISTENERS - 1 THEN 0 ELSE (UDP_MAX_LISTENERS - 1) - 0 + 1) = UDP_MAX_LISTENERS
  OBVIOUS
<1>. QED BY <1>2, <1>3

(* There are as many sockets as slots in use.                              *)
LEMMA SocketCount ==
  ASSUME NEW L, L \in [Slots -> Socket], Apart(L)
  PROVE  /\ Cardinality(Socks(L)) \in Nat
         /\ Cardinality(Socks(L)) <= UDP_MAX_LISTENERS
         /\ Cardinality(Socks(L)) = UDP_MAX_LISTENERS <=> \A s \in Slots : Used(L, s)
<1>. USE Numbers
<1>1. PICK U : U = {t \in Slots : Used(L, t)} OBVIOUS
<1>2. PICK f : f = [s \in U |-> L[s]] OBVIOUS
<1>3. f \in [U -> Socks(L)] /\ \A x \in Socks(L) : \E s \in U : f[s] = x BY <1>1, <1>2 DEF Socks
<1>4. \A s, t \in U : f[s] = f[t] => s = t
  <2>1. \A s, t \in U : L[s] = L[t] => s = t BY <1>1 DEF Apart, Overlap
  <2>. QED BY <1>2, <2>1
<1>5. f \in Bijection(U, Socks(L))
  BY <1>3, <1>4 DEF Bijection, Injection, Surjection, IsInjective
<1>6. IsFiniteSet(Slots) /\ Cardinality(Slots) = UDP_MAX_LISTENERS BY SlotsFinite
<1>7. U \in SUBSET Slots BY <1>1
<1>8. /\ IsFiniteSet(U) /\ Cardinality(U) <= Cardinality(Slots)
      /\ Cardinality(Slots) = Cardinality(U) => Slots = U
  BY <1>6, <1>7, FS_Subset
<1>9. Cardinality(Socks(L)) = Cardinality(U) BY <1>5, <1>8, FS_Bijection DEF ExistsBijection
<1>10. Cardinality(U) \in Nat BY <1>8, FS_CardinalityType
<1>11. U = Slots <=> \A s \in Slots : Used(L, s) BY <1>1
<1>. QED BY <1>6, <1>8, <1>9, <1>10, <1>11

(* Cardinality as BoardConfig imports it.                                  *)
LEMMA ConfigCardinality == \A S : Config!Cardinality(S) = Cardinality(S)
BY DEF Config!Cardinality, Cardinality

(* udp_source_add_listener.                                                *)
LEMMA OpenKept ==
  ASSUME IInv, NEW r, r = request', NEW m \in In(netif_list), NEW port, udp_source_add_listener(m, port),
         r.op = "open", r.netif = m, NEW x0, r.port = x0,
         x0 \in Ports => port = x0, x0 \in Ports \/ request'.by = "menu"
  PROVE  Kept
<1>. USE Numbers
<1>0. PICK bound : bound = {q \in Ports : IF port = 0
                              THEN \A ip \in IPs : ~InUse(s_listeners, ip, q)
                              ELSE q = port /\ ~InUse(s_listeners, ip_addr[m], q)}
  OBVIOUS
<1>1. CASE NoChange("ERR") /\ (UsedBy(NULL) = {} \/ bound = {})
  <2>1. Same /\ Config!Refuse BY <1>1, Refusal DEF Refuses
  <2>2. BoardSound(netif_list, ip_addr, s_listeners) BY DEF IInv
  <2>3. BoardSound(netif_list', ip_addr', s_listeners') BY <2>1 DEF Same
  <2>4. PICK A : A = [y \in Range(netif_list) |-> ip_addr[y]] OBVIOUS
  <2>5. A = Addr(netif_list, ip_addr) BY <2>2, <2>3, <2>4, Seen
  <2>6. m \in DOMAIN A /\ A[m] = ip_addr[m] BY <2>5 DEF Addr
  <2>7. PICK S : S = {s_listeners[s] : s \in Slots \ UsedBy(NULL)} OBVIOUS
  <2>8. S = Socks(s_listeners) BY <2>2, <2>3, <2>7, Seen
  <2>9. \/ x0 \notin Ports
        \/ x0 = LocatorPort \/ \E y \in S : y.port = x0 /\ (y.ip = A[m] \/ y.ip = ANY \/ A[m] = ANY)
        \/ Cardinality(S) = UDP_MAX_LISTENERS
    <3>1. CASE UsedBy(NULL) = {}
      <4>1. \A s \in Slots : Used(s_listeners, s) BY <3>1 DEF UsedBy, Used
      <4>2. Cardinality(Socks(s_listeners)) = UDP_MAX_LISTENERS
        BY <2>2, <4>1, SocketCount DEF BoardSound
      <4>. QED BY <2>8, <4>2
    <3>2. CASE bound = {} /\ x0 \in Ports
      <4>1. port = x0 /\ port # 0 BY <3>2
      <4>2. InUse(s_listeners, ip_addr[m], x0) BY <1>0, <3>2, <4>1
      <4>3. CASE x0 = LocatorPort BY <4>3
      <4>4. CASE x0 # LocatorPort
        <5>1. PICK s \in Slots : /\ Used(s_listeners, s) /\ s_listeners[s].port = x0
                                 /\ Overlap(s_listeners[s].ip, ip_addr[m])
          BY <4>2, <4>4 DEF InUse, Used
        <5>2. s_listeners[s] \in S BY <2>8, <5>1 DEF Socks
        <5>. QED BY <2>6, <5>1, <5>2 DEF Overlap
      <4>. QED BY <4>3, <4>4
    <3>. QED BY <1>1, <3>1, <3>2
  <2>10. Config!OpenSocket(m, x0)
    <3>1. m \in DOMAIN [y \in Range(netif_list) |-> ip_addr[y]] BY <2>4, <2>6
    <3>2. CASE x0 \notin Ports BY <2>1, <3>2 DEF Config!OpenSocket
    <3>3. CASE Cardinality(S) = UDP_MAX_LISTENERS
      <4>1. Config!Cardinality({s_listeners[s] : s \in Slots \ UsedBy(NULL)}) = UDP_MAX_LISTENERS
        BY <2>7, <3>3, ConfigCardinality
      <4>. QED BY <2>1, <4>1, Zenon DEF Config!OpenSocket
    <3>4. CASE x0 = LocatorPort
            \/ \E y \in S : y.port = x0 /\ (y.ip = A[m] \/ y.ip = ANY \/ A[m] = ANY)
      <4>1. Config!Taken([y \in Range(netif_list) |-> ip_addr[y]][m], x0)
        BY <2>4, <2>7, <3>4 DEF Config!Taken, Config!Overlap
      <4>. QED BY <2>1, <3>1, <4>1 DEF Config!OpenSocket
    <3>. QED BY <2>9, <3>2, <3>3, <3>4
  <2>. QED BY <2>1, <2>10, Carry DEF Config!Carried
<1>2. CASE ~(NoChange("ERR") /\ (UsedBy(NULL) = {} \/ bound = {}))
  <2>1. BoardSound(netif_list, ip_addr, s_listeners) /\ m \in Netifs /\ ip_addr[m] \in IPs
    BY ListFacts DEF IInv, BoardSound
  <2>2. PICK f, q : /\ f = Min(UsedBy(NULL)) /\ UsedBy(NULL) # {} /\ q \in Ports
                    /\ ~InUse(s_listeners, ip_addr[m], q) /\ (x0 \in Ports => q = x0)
                    /\ s_listeners' = [s_listeners EXCEPT ![f] =
                                         [netif |-> m, port |-> q, ip |-> ip_addr[m]]]
                    /\ answer' = "OK" /\ netif_list' = netif_list /\ ip_addr' = ip_addr
    BY <1>0, <1>2, <2>1 DEF udp_source_add_listener
  <2>3. f \in Slots /\ ~Used(s_listeners, f)
    <3>1. UsedBy(NULL) \subseteq Nat BY DEF UsedBy
    <3>. QED BY <2>2, <3>1, LeastOf DEF UsedBy, Used
  <2>4. PICK x \in Socket : x = [netif |-> m, port |-> q, ip |-> ip_addr[m]]
    <3>1. q \in 0 .. PortMod - 1 /\ m \in Netifs \cup {NULL} BY <2>1, <2>2
    <3>2. [netif |-> m, port |-> q, ip |-> ip_addr[m]] \in Socket BY <2>1, <3>1 DEF Socket
    <3>. QED BY <3>2
  <2>5. /\ s_listeners' \in [Slots -> Socket]
        /\ \A t \in Slots : s_listeners'[t] = IF t = f THEN x ELSE s_listeners[t]
    BY <2>1, <2>2, <2>3, <2>4 DEF BoardSound
  <2>6. x.netif = m /\ x.port = q /\ x.ip = ip_addr[m] /\ m # NULL BY <2>1, <2>4
  <2>7. \A t \in Slots : Used(s_listeners', t) <=> t = f \/ Used(s_listeners, t)
    BY <2>5, <2>6 DEF Used
  <2>8. q # LocatorPort
        /\ \A t \in Slots : Used(s_listeners, t) =>
             ~(Overlap(s_listeners[t].ip, ip_addr[m]) /\ s_listeners[t].port = q)
    BY <2>2 DEF InUse, Used
  <2>9. Apart(s_listeners') BY <2>1, <2>3, <2>5, <2>6, <2>7, <2>8 DEF BoardSound, Apart, Overlap
  <2>10. Ported(s_listeners') BY <2>1, <2>3, <2>5, <2>6, <2>7, <2>8 DEF BoardSound, Ported
  <2>11. On(s_listeners', netif_list') BY <2>1, <2>2, <2>3, <2>5, <2>6, <2>7 DEF BoardSound, On
  <2>12. BoardSound(netif_list', ip_addr', s_listeners')
    BY <2>1, <2>2, <2>5, <2>9, <2>10, <2>11 DEF BoardSound
  <2>13. Socks(s_listeners') = Socks(s_listeners) \cup {x}
    BY <2>3, <2>5, <2>7 DEF Socks
  <2>14. \A y \in Socks(s_listeners) :
           ~(y.port = q /\ (y.ip = ip_addr[m] \/ y.ip = ANY \/ ip_addr[m] = ANY))
    BY <2>8 DEF Socks, Overlap
  <2>15. Config!Opens(m, q)
    <3>1. PICK A : A = [y \in Range(netif_list) |-> ip_addr[y]] OBVIOUS
    <3>2. A = Addr(netif_list, ip_addr) BY <2>1, <2>12, <3>1, Seen
    <3>3. m \in DOMAIN A /\ A[m] = ip_addr[m] BY <3>2 DEF Addr
    <3>4. PICK S : S = {s_listeners[s] : s \in Slots \ UsedBy(NULL)} OBVIOUS
    <3>5. {s_listeners'[s] : s \in Slots \ UsedBy(NULL)'} = S \cup {[netif |-> m, port |-> q, ip |-> A[m]]}
      BY <2>1, <2>4, <2>12, <2>13, <3>3, <3>4, Seen
    <3>6. \A y \in S : ~(y.port = q /\ (y.ip = A[m] \/ y.ip = ANY \/ A[m] = ANY))
      BY <2>1, <2>12, <2>14, <3>3, <3>4, Seen
    <3>7. Cardinality(S) < UDP_MAX_LISTENERS
      <4>1. S = Socks(s_listeners) BY <2>1, <2>12, <3>4, Seen
      <4>2. PICK c \in Nat : c = Cardinality(Socks(s_listeners)) /\ c <= UDP_MAX_LISTENERS
                             /\ c # UDP_MAX_LISTENERS
        BY <2>1, <2>3, SocketCount DEF BoardSound
      <4>. QED BY <4>1, <4>2
    <3>8. m \in DOMAIN [y \in Range(netif_list) |-> ip_addr[y]] BY <3>1, <3>3
    <3>9. ~Config!Taken([y \in Range(netif_list) |-> ip_addr[y]][m], q)
      BY <2>8, <3>1, <3>4, <3>6 DEF Config!Taken, Config!Overlap
    <3>10. {s_listeners'[s] : s \in Slots \ UsedBy(NULL)'}
             = {s_listeners[s] : s \in Slots \ UsedBy(NULL)}
                 \cup {[netif |-> m, port |-> q,
                        ip |-> [y \in Range(netif_list) |-> ip_addr[y]][m]]}
      BY <3>1, <3>4, <3>5
    <3>11. Config!Cardinality({s_listeners[s] : s \in Slots \ UsedBy(NULL)}) < UDP_MAX_LISTENERS
      BY <3>4, <3>7, ConfigCardinality
    <3>12. UNCHANGED [y \in Range(netif_list) |-> ip_addr[y]] /\ Config!Said("OK")
      BY <2>2 DEF Config!Said
    <3>. QED BY <3>8, <3>9, <3>10, <3>11, <3>12, Zenon DEF Config!Opens
  <2>16. Same BY <2>2, <2>12 DEF Same, AnswerOK
  <2>17. Config!OpenSocket(r.netif, r.port)
    <3>1. CASE x0 \in Ports
      <4>1. Config!Opens(r.netif, r.port) BY <2>2, <2>15, <3>1
      <4>. QED BY <3>1, <4>1 DEF Config!OpenSocket
    <3>2. CASE x0 \notin Ports
      <4>1. Config!Opens(r.netif, q) BY <2>15
      <4>. QED BY <2>2, <3>2, <4>1 DEF Config!OpenSocket
    <3>. QED BY <3>1, <3>2
  <2>. QED BY <2>16, <2>17, Carry DEF Config!Carried
<1>. QED BY <1>1, <1>2

-----------------------------------------------------------------------------
(* udp_source_netif_ip_changed: what the pass over the slots leaves.       *)

(* One pass, slot by slot.                                                 *)
Pass(g, k, m, ip) ==
  \A j \in 0 .. k : g[j] = IF j = 0 THEN s_listeners ELSE RebindSlot(g[j - 1], j - 1, m, ip)

(* There is a pass over all slots, and Rebound is where it ends.           *)
LEMMA PassExists ==
  ASSUME NEW m, NEW ip, NEW k \in Nat
  PROVE  \E g : Pass(g, k, m, ip)
<1>1. PICK S : S = {j \in Nat : ~\E g : Pass(g, j, m, ip)} OBVIOUS
<1>. SUFFICES ASSUME S # {} PROVE FALSE BY <1>1
<1>2. PICK c \in S : \A j \in S : c <= j BY <1>1, LeastOf
<1>3. c \in Nat /\ ~\E g : Pass(g, c, m, ip) BY <1>1
<1>4. CASE c = 0
  <2>1. PICK g : g = [j \in {0} |-> s_listeners] OBVIOUS
  <2>2. \A j \in 0 .. 0 : j = 0 OBVIOUS
  <2>3. Pass(g, 0, m, ip) BY <2>1, <2>2 DEF Pass
  <2>. QED BY <1>3, <1>4, <2>3
<1>5. CASE c # 0
  <2>1. PICK d \in Nat : d = c - 1 BY <1>3, <1>5
  <2>2. d \notin S BY <1>2, <1>3, <2>1
  <2>3. PICK g : Pass(g, d, m, ip) BY <1>1, <2>2
  <2>4. PICK h : h = [j \in 0 .. c |-> IF j <= d THEN g[j] ELSE RebindSlot(g[d], d, m, ip)] OBVIOUS
  <2>5. ASSUME NEW j \in 0 .. c
        PROVE  h[j] = IF j = 0 THEN s_listeners ELSE RebindSlot(h[j - 1], j - 1, m, ip)
    <3>1. CASE j = 0
      <4>1. j <= d /\ j \in 0 .. d BY <2>1, <3>1
      <4>. QED BY <2>3, <2>4, <3>1, <4>1 DEF Pass
    <3>2. CASE j # 0 /\ j <= d
      <4>1. PICK i \in 0 .. d : i = j - 1 /\ i \in 0 .. c /\ j \in 0 .. d BY <1>3, <2>1, <3>2
      <4>2. h[j] = g[j] /\ h[i] = g[i] BY <2>4, <3>2, <4>1
      <4>3. g[j] = RebindSlot(g[j - 1], j - 1, m, ip) BY <2>3, <3>2, <4>1 DEF Pass
      <4>. QED BY <3>2, <4>1, <4>2, <4>3
    <3>3. CASE j # 0 /\ ~(j <= d)
      <4>1. j - 1 = d /\ d \in 0 .. c BY <1>3, <2>1, <3>3
      <4>2. h[j] = RebindSlot(g[d], d, m, ip) /\ h[d] = g[d] BY <2>1, <2>4, <3>3, <4>1
      <4>. QED BY <3>3, <4>1, <4>2
    <3>. QED BY <3>1, <3>2, <3>3
  <2>6. Pass(h, c, m, ip) BY <2>5 DEF Pass
  <2>. QED BY <1>3, <2>6
<1>. QED BY <1>4, <1>5

(* Rebound is the last state of such a pass.                               *)
LEMMA ReboundIs ==
  ASSUME NEW m, NEW ip
  PROVE  \E g : Pass(g, UDP_MAX_LISTENERS, m, ip) /\ Rebound(m, ip) = g[UDP_MAX_LISTENERS]
<1>. USE Numbers
<1>1. PICK g : Pass(g, UDP_MAX_LISTENERS, m, ip) BY PassExists
<1>2. PICK h : h = [k \in 0 .. UDP_MAX_LISTENERS |-> g[k]] OBVIOUS
<1>3. ASSUME NEW k \in 0 .. UDP_MAX_LISTENERS
      PROVE  h[k] = IF k = 0 THEN s_listeners ELSE RebindSlot(h[k - 1], k - 1, m, ip)
  <2>1. CASE k = 0 BY <1>1, <1>2, <2>1 DEF Pass
  <2>2. CASE k # 0
    <3>1. PICK i \in 0 .. UDP_MAX_LISTENERS : i = k - 1 BY <2>2
    <3>2. g[k] = RebindSlot(g[k - 1], k - 1, m, ip) BY <1>1, <2>2 DEF Pass
    <3>3. h[k] = g[k] /\ h[i] = g[i] BY <1>2
    <3>. QED BY <2>2, <3>1, <3>2, <3>3
  <2>. QED BY <2>1, <2>2
<1>4. \E f : f = [k \in 0 .. UDP_MAX_LISTENERS |->
                    IF k = 0 THEN s_listeners ELSE RebindSlot(f[k - 1], k - 1, m, ip)]
  <2>1. h = [k \in 0 .. UDP_MAX_LISTENERS |->
               IF k = 0 THEN s_listeners ELSE RebindSlot(h[k - 1], k - 1, m, ip)]
    BY <1>2, <1>3
  <2>. QED BY <2>1
<1>5. PICK f : f = CHOOSE w : w = [k \in 0 .. UDP_MAX_LISTENERS |->
                    IF k = 0 THEN s_listeners ELSE RebindSlot(w[k - 1], k - 1, m, ip)]
  OBVIOUS
<1>6. f = [k \in 0 .. UDP_MAX_LISTENERS |->
             IF k = 0 THEN s_listeners ELSE RebindSlot(f[k - 1], k - 1, m, ip)]
  BY <1>4, <1>5
<1>7. Rebound(m, ip) = f[UDP_MAX_LISTENERS] BY <1>5 DEF Rebound
<1>8. Pass(f, UDP_MAX_LISTENERS, m, ip) BY <1>6 DEF Pass
<1>. QED BY <1>7, <1>8

(* After k slots: a socket has moved or stayed, and one of the first k     *)
(* stayed only because another has its port at the new address.            *)
PassSound(L, k, m, ip) ==
  /\ L \in [Slots -> Socket] /\ Apart(L)
  /\ \A s \in Slots : /\ L[s].netif = s_listeners[s].netif /\ L[s].port = s_listeners[s].port
                      /\ L[s].ip = s_listeners[s].ip \/ (L[s].ip = ip /\ L[s].netif = m)
  /\ \A s \in Slots : s < k /\ L[s].netif = m /\ L[s].ip # ip =>
       \E t \in Slots : t # s /\ Used(L, t) /\ Overlap(L[t].ip, ip) /\ L[t].port = L[s].port

(* One slot of the pass.                                                   *)
LEMMA RebindSound ==
  ASSUME Ported(s_listeners), NEW m \in Netifs, NEW ip \in IPs, NEW L, NEW k \in Slots,
         PassSound(L, k, m, ip)
  PROVE  PassSound(RebindSlot(L, k, m, ip), k + 1, m, ip)
<1>. USE Numbers
<1>1. L \in [Slots -> Socket] /\ Apart(L) BY DEF PassSound
<1>2. PICK E : E = [L EXCEPT ![k] = Free] OBVIOUS
<1>3. \A t \in Slots : E[t] = IF t = k THEN Free ELSE L[t] BY <1>1, <1>2
<1>4. Free.netif = NULL BY DEF Free
<1>5. L[k].netif = m => Used(L, k) /\ L[k].port # LocatorPort
  <2>1. L[k].netif = s_listeners[k].netif /\ L[k].port = s_listeners[k].port BY DEF PassSound
  <2>2. s_listeners[k].netif # NULL => s_listeners[k].port # LocatorPort BY DEF Ported, Used
  <2>. QED BY <2>1, <2>2 DEF Used
<1>6. CASE L[k].netif = m /\ ~InUse(E, ip, L[k].port)
  <2>1. \A t \in Slots : t # k /\ Used(L, t) => ~(Overlap(L[t].ip, ip) /\ L[t].port = L[k].port)
    BY <1>3, <1>6 DEF InUse, Used
  <2>2. PICK M : M = [L EXCEPT ![k].ip = ip] /\ RebindSlot(L, k, m, ip) = M
    BY <1>2, <1>6 DEF RebindSlot
  <2>3. /\ M \in [Slots -> Socket]
        /\ \A t \in Slots : t # k => M[t] = L[t]
        /\ M[k].netif = L[k].netif /\ M[k].port = L[k].port /\ M[k].ip = ip
    <3>1. PICK x \in Socket : x = L[k] BY <1>1
    <3>2. PICK y \in Socket : y = [x EXCEPT !.ip = ip] /\ y.netif = x.netif /\ y.port = x.port /\ y.ip = ip
      <4>1. PICK y : y = [x EXCEPT !.ip = ip] OBVIOUS
      <4>2. y \in Socket BY <4>1 DEF Socket
      <4>3. y.netif = x.netif /\ y.port = x.port /\ y.ip = ip BY <4>1 DEF Socket
      <4>. QED BY <4>1, <4>2, <4>3
    <3>3. M = [L EXCEPT ![k] = y] BY <2>2, <3>1, <3>2
    <3>. QED BY <1>1, <3>1, <3>2, <3>3
  <2>4. \A t \in Slots : Used(M, t) <=> Used(L, t) BY <2>3 DEF Used
  <2>5. Apart(M) BY <1>1, <2>1, <2>3, <2>4 DEF Apart, Overlap
  <2>6. ASSUME NEW s \in Slots
        PROVE  /\ M[s].netif = s_listeners[s].netif /\ M[s].port = s_listeners[s].port
               /\ M[s].ip = s_listeners[s].ip \/ (M[s].ip = ip /\ M[s].netif = m)
    <3>1. CASE s = k BY <1>6, <2>3, <3>1 DEF PassSound
    <3>2. CASE s # k BY <2>3, <3>2 DEF PassSound
    <3>. QED BY <3>1, <3>2
  <2>7. ASSUME NEW s \in Slots, s < k + 1, M[s].netif = m, M[s].ip # ip
        PROVE  \E t \in Slots : /\ t # s /\ Used(M, t) /\ Overlap(M[t].ip, ip)
                                 /\ M[t].port = M[s].port
    <3>1. s # k /\ s < k BY <2>3, <2>7
    <3>2. PICK t \in Slots : t # s /\ Used(L, t) /\ Overlap(L[t].ip, ip) /\ L[t].port = L[s].port
      BY <2>3, <2>7, <3>1 DEF PassSound
    <3>3. Overlap(M[t].ip, ip) /\ M[t].port = L[t].port BY <2>3, <3>2 DEF Overlap
    <3>. QED BY <2>3, <2>4, <3>1, <3>2, <3>3
  <2>8. PassSound(M, k + 1, m, ip) BY <2>3, <2>5, <2>6, <2>7 DEF PassSound
  <2>. QED BY <2>2, <2>8
<1>7. CASE ~(L[k].netif = m /\ ~InUse(E, ip, L[k].port))
  <2>1. RebindSlot(L, k, m, ip) = L BY <1>2, <1>7 DEF RebindSlot
  <2>2. ASSUME NEW s \in Slots, s < k + 1, L[s].netif = m, L[s].ip # ip
        PROVE  \E t \in Slots : /\ t # s /\ Used(L, t) /\ Overlap(L[t].ip, ip)
                                 /\ L[t].port = L[s].port
    <3>1. CASE s < k BY <2>2, <3>1 DEF PassSound
    <3>2. CASE s = k
      <4>1. InUse(E, ip, L[k].port) /\ L[k].port # LocatorPort BY <1>5, <1>7, <2>2, <3>2
      <4>2. PICK t \in Slots : E[t].netif # NULL /\ Overlap(E[t].ip, ip) /\ E[t].port = L[k].port
        BY <4>1 DEF InUse
      <4>. QED BY <1>3, <1>4, <3>2, <4>2 DEF Used
    <3>. QED BY <2>2, <3>1, <3>2
  <2>3. PassSound(L, k + 1, m, ip) BY <2>2 DEF PassSound
  <2>. QED BY <2>1, <2>3
<1>. QED BY <1>6, <1>7

(* The whole pass.                                                         *)
LEMMA ReboundSound ==
  ASSUME s_listeners \in [Slots -> Socket], Apart(s_listeners), Ported(s_listeners),
         NEW m \in Netifs, NEW ip \in IPs
  PROVE  PassSound(Rebound(m, ip), UDP_MAX_LISTENERS, m, ip)
<1>. USE Numbers
<1>1. PICK g : Pass(g, UDP_MAX_LISTENERS, m, ip) /\ Rebound(m, ip) = g[UDP_MAX_LISTENERS] BY ReboundIs
<1>2. PICK S : S = {k \in 0 .. UDP_MAX_LISTENERS : ~PassSound(g[k], k, m, ip)} OBVIOUS
<1>3. S = {}
  <2>. SUFFICES ASSUME S # {} PROVE FALSE OBVIOUS
  <2>1. PICK c \in S : \A k \in S : c <= k
    <3>1. S \subseteq Nat BY <1>2
    <3>. QED BY <3>1, LeastOf
  <2>2. c \in 0 .. UDP_MAX_LISTENERS /\ ~PassSound(g[c], c, m, ip) BY <1>2
  <2>3. CASE c = 0
    <3>1. g[0] = s_listeners BY <1>1 DEF Pass
    <3>2. \A s \in Slots : ~(s < 0) OBVIOUS
    <3>3. PassSound(s_listeners, 0, m, ip) BY <3>2 DEF PassSound
    <3>. QED BY <2>2, <2>3, <3>1, <3>3
  <2>4. CASE c # 0
    <3>1. PICK d \in Slots : d = c - 1 /\ d \in 0 .. UDP_MAX_LISTENERS /\ d + 1 = c BY <2>2, <2>4
    <3>2. d \notin S BY <2>1, <2>2, <3>1
    <3>3. PassSound(g[d], d, m, ip) BY <1>2, <3>1, <3>2
    <3>4. g[c] = RebindSlot(g[c - 1], c - 1, m, ip) BY <1>1, <2>2, <2>4 DEF Pass
    <3>5. g[c] = RebindSlot(g[d], d, m, ip) BY <3>1, <3>4
    <3>6. PassSound(g[c], d + 1, m, ip) BY <3>3, <3>5, RebindSound
    <3>. QED BY <2>2, <3>1, <3>6
  <2>. QED BY <2>3, <2>4
<1>4. UDP_MAX_LISTENERS \in 0 .. UDP_MAX_LISTENERS OBVIOUS
<1>. QED BY <1>1, <1>2, <1>3, <1>4

(* The pass, as BoardConfig sees it: S are the sockets before, T after,    *)
(* and V those that are at the new address now.                            *)
Moves(S, T, V, m, ip) ==
  LET rest == S \ V
      there == {[x EXCEPT !.ip = ip] : x \in V} IN
  /\ V \subseteq {x \in S : x.netif = m}
  /\ \A x, t \in V : x.port = t.port => x = t
  /\ rest \cap there = {} /\ T = rest \cup there
  /\ \A x \in {y \in S : y.netif = m} \ V :
       \E t \in T \ {x} : t.port = x.port /\ Overlap(t.ip, ip)
  /\ \A x, t \in T : x.port = t.port /\ Overlap(x.ip, t.ip) => x = t

(* A pass that is sound moves sockets the way BoardConfig says.            *)
LEMMA PassMoves ==
  ASSUME s_listeners \in [Slots -> Socket], Apart(s_listeners), NEW m \in Netifs, NEW ip \in IPs,
         NEW L, PassSound(L, UDP_MAX_LISTENERS, m, ip)
  PROVE  \E V : Moves(Socks(s_listeners), Socks(L), V, m, ip)
<1>. USE Numbers
<1>1. PICK O : O = s_listeners OBVIOUS
<1>2. O \in [Slots -> Socket] /\ Apart(O) /\ L \in [Slots -> Socket] /\ Apart(L) BY <1>1 DEF PassSound
<1>3. PICK I : I = {s \in Slots : O[s].netif = m /\ L[s].ip = ip} OBVIOUS
<1>4. PICK V, T : V = {O[s] : s \in I} /\ T = {L[s] : s \in I} OBVIOUS
<1>5. \A s \in Slots : Used(L, s) <=> Used(O, s) BY <1>1 DEF PassSound, Used
<1>6. \A s \in I : s \in Slots /\ Used(O, s) BY <1>3 DEF Used
<1>7. ASSUME NEW s \in I PROVE [O[s] EXCEPT !.ip = ip] = L[s]
  <2>1. O[s] \in Socket /\ L[s] \in Socket BY <1>2, <1>6
  <2>2. L[s].netif = O[s].netif /\ L[s].port = O[s].port /\ L[s].ip = ip
    BY <1>1, <1>3 DEF PassSound
  <2>. QED BY <2>1, <2>2 DEF Socket
<1>8. ASSUME NEW s \in Slots \ I, Used(O, s) PROVE L[s] = O[s]
  <2>1. O[s] \in Socket /\ L[s] \in Socket BY <1>2
  <2>2. /\ L[s].netif = O[s].netif /\ L[s].port = O[s].port
        /\ L[s].ip = O[s].ip \/ (L[s].ip = ip /\ L[s].netif = m)
    BY <1>1 DEF PassSound
  <2>3. L[s].ip = O[s].ip BY <1>3, <2>2
  <2>4. PICK x \in Socket, y \in Socket : x = L[s] /\ y = O[s] BY <2>1
  <2>5. x.netif = y.netif /\ x.port = y.port /\ x.ip = y.ip BY <2>2, <2>3, <2>4
  <2>6. x = y BY <2>5 DEF Socket
  <2>. QED BY <2>4, <2>6
<1>9. {[x EXCEPT !.ip = ip] : x \in V} = T
  <2>1. \A x \in V : [x EXCEPT !.ip = ip] \in T BY <1>4, <1>7
  <2>2. ASSUME NEW y \in T PROVE \E x \in V : y = [x EXCEPT !.ip = ip]
    <3>1. PICK s \in I : y = L[s] BY <1>4
    <3>2. PICK x : x = O[s] OBVIOUS
    <3>3. x \in V /\ y = [x EXCEPT !.ip = ip] BY <1>4, <1>7, <3>1, <3>2
    <3>. QED BY <3>3
  <2>. QED BY <2>1, <2>2
<1>10. \A s, t \in Slots : Used(O, s) /\ Used(O, t) /\ O[s] = O[t] => s = t
  BY <1>2 DEF Apart, Overlap
<1>11. \A s, t \in Slots : Used(L, s) /\ Used(L, t) /\ L[s] = L[t] => s = t
  BY <1>2 DEF Apart, Overlap
<1>12. Socks(O) \ V = {O[s] : s \in {t \in Slots \ I : Used(O, t)}}
  BY <1>4, <1>6, <1>10 DEF Socks
<1>13. Socks(O) \ V = {L[s] : s \in {t \in Slots \ I : Used(O, t)}} BY <1>8, <1>12
<1>14. Socks(L) = (Socks(O) \ V) \cup T BY <1>4, <1>5, <1>6, <1>13 DEF Socks
<1>15. (Socks(O) \ V) \cap T = {} BY <1>4, <1>5, <1>6, <1>11, <1>13
<1>16. \A x, y \in V : x.port = y.port => x = y
  <2>1. ASSUME NEW s \in I, NEW t \in I, O[s].port = O[t].port PROVE s = t
    <3>1. L[s].ip = ip /\ L[t].ip = ip /\ Used(L, s) /\ Used(L, t) BY <1>3, <1>5, <1>6
    <3>2. L[s].port = L[t].port BY <1>1, <1>6, <2>1 DEF PassSound
    <3>. QED BY <1>2, <1>6, <3>1, <3>2 DEF Apart, Overlap
  <2>. QED BY <1>4, <2>1
<1>17. V \subseteq {x \in Socks(O) : x.netif = m} BY <1>3, <1>4, <1>6 DEF Socks
<1>18. ASSUME NEW x \in Socks(O), x.netif = m, x \notin V
       PROVE  \E t \in Socks(L) \ {x} : t.port = x.port /\ Overlap(t.ip, ip)
  <2>1. PICK s \in Slots : Used(O, s) /\ x = O[s] BY DEF Socks
  <2>2. s \notin I BY <1>4, <1>18, <2>1
  <2>3. s < UDP_MAX_LISTENERS /\ L[s].netif = m /\ L[s].ip # ip /\ L[s].port = x.port
    BY <1>1, <1>3, <1>18, <2>1, <2>2 DEF PassSound
  <2>4. PICK t \in Slots : t # s /\ Used(L, t) /\ Overlap(L[t].ip, ip) /\ L[t].port = L[s].port
    BY <2>3 DEF PassSound
  <2>5. L[s] = x BY <1>8, <2>1, <2>2
  <2>6. L[t] \in Socks(L) BY <2>4 DEF Socks
  <2>7. L[t] # x BY <1>5, <1>11, <2>1, <2>4, <2>5
  <2>. QED BY <2>3, <2>4, <2>6, <2>7
<1>19. \A x, t \in Socks(L) : x.port = t.port /\ Overlap(x.ip, t.ip) => x = t
  BY <1>2 DEF Socks, Apart
<1>20. Moves(Socks(O), Socks(L), V, m, ip)
  BY <1>9, <1>14, <1>15, <1>16, <1>17, <1>18, <1>19 DEF Moves
<1>. QED BY <1>1, <1>20

(* udp_source_netif_ip_changed, after the new address is stored.           *)
LEMMA SetIpKept ==
  ASSUME IInv, NEW r, r = request', NEW m \in In(netif_list), NEW ip \in IPs, SetIp(m, ip, answer'),
         r.op = "set", r.netif = m, r.ip = ip,
         answer' = "OK" \/ (request'.by = "menu" /\ answer' = "none")
  PROVE  Kept
<1>. USE Numbers
<1>1. BoardSound(netif_list, ip_addr, s_listeners) /\ m \in Netifs BY ListFacts DEF IInv, BoardSound
<1>2. /\ ip_addr' = [ip_addr EXCEPT ![m] = ip] /\ s_listeners' = Rebound(m, ip)
      /\ netif_list' = netif_list
  BY DEF SetIp
<1>3. PassSound(s_listeners', UDP_MAX_LISTENERS, m, ip) BY <1>1, <1>2, ReboundSound DEF BoardSound
<1>4. /\ s_listeners' \in [Slots -> Socket] /\ Apart(s_listeners')
      /\ \A s \in Slots : /\ s_listeners'[s].netif = s_listeners[s].netif
                          /\ s_listeners'[s].port = s_listeners[s].port
  BY <1>3 DEF PassSound
<1>5. Ported(s_listeners') /\ On(s_listeners', netif_list')
  <2>1. Ported(s_listeners') BY <1>1, <1>4 DEF BoardSound, Ported, Used
  <2>2. On(s_listeners', netif_list') BY <1>1, <1>2, <1>4 DEF BoardSound, On, Used
  <2>. QED BY <2>1, <2>2
<1>6. BoardSound(netif_list', ip_addr', s_listeners') BY <1>1, <1>2, <1>4, <1>5 DEF BoardSound
<1>7. PICK V : Moves(Socks(s_listeners), Socks(s_listeners'), V, m, ip)
  BY <1>1, <1>3, PassMoves DEF BoardSound
<1>8. Config!SetAddress(m, ip)
  <2>1. PICK A : A = [x \in Range(netif_list) |-> ip_addr[x]] OBVIOUS
  <2>2. A = Addr(netif_list, ip_addr) BY <1>1, <1>6, <2>1, Seen
  <2>3. DOMAIN A = In(netif_list) /\ In(netif_list) \subseteq Netifs
    BY <1>1, <2>2, ListFacts DEF Addr, BoardSound
  <2>4. [x \in Range(netif_list') |-> ip_addr'[x]] = [A EXCEPT ![m] = ip]
    <3>1. Addr(netif_list', ip_addr') = [x \in In(netif_list) |-> IF x = m THEN ip ELSE ip_addr[x]]
      BY <1>1, <1>2, <2>3 DEF Addr, BoardSound
    <3>2. [A EXCEPT ![m] = ip] = [x \in In(netif_list) |-> IF x = m THEN ip ELSE ip_addr[x]]
      BY <2>2, <2>3 DEF Addr
    <3>. QED BY <1>1, <1>6, <3>1, <3>2, Seen
  <2>5. Moves({s_listeners[s] : s \in Slots \ UsedBy(NULL)},
              {s_listeners'[s] : s \in Slots \ UsedBy(NULL)'}, V, m, ip)
    BY <1>1, <1>6, <1>7, Seen
  <2>6. m \in DOMAIN A BY <2>3
  <2>7. V \in SUBSET {x \in {s_listeners[s] : s \in Slots \ UsedBy(NULL)} : x.netif = m}
    BY <2>5 DEF Moves
  <2>8. Config!Said("OK") \/ Config!Silent BY DEF Config!Said, Config!Silent
  <2>9. m \in DOMAIN [x \in Range(netif_list) |-> ip_addr[x]] BY <2>1, <2>6
  <2>10. [x \in Range(netif_list') |-> ip_addr'[x]]
           = [[x \in Range(netif_list) |-> ip_addr[x]] EXCEPT ![m] = ip]
    BY <2>1, <2>4
  <2>11. \E moved \in SUBSET {x \in {s_listeners[s] : s \in Slots \ UsedBy(NULL)} : x.netif = m} :
          LET rest == {s_listeners[s] : s \in Slots \ UsedBy(NULL)} \ moved
              there == {[s EXCEPT !.ip = ip] : s \in moved} IN
          /\ \A s, t \in moved : s.port = t.port => s = t
          /\ rest \cap there = {}
          /\ {s_listeners'[s] : s \in Slots \ UsedBy(NULL)'} = rest \cup there
          /\ \A s \in {x \in {s_listeners[s] : s \in Slots \ UsedBy(NULL)} : x.netif = m} \ moved :
               \E t \in {s_listeners'[s2] : s2 \in Slots \ UsedBy(NULL)'} \ {s} :
                 t.port = s.port /\ Config!Overlap(t.ip, ip)
          /\ \A s, t \in {s_listeners'[s2] : s2 \in Slots \ UsedBy(NULL)'} :
               s.port = t.port /\ Config!Overlap(s.ip, t.ip) => s = t
    BY <2>5, <2>7, Zenon DEF Moves, Overlap, Config!Overlap
  <2>. QED BY <2>8, <2>9, <2>10, <2>11, Zenon DEF Config!SetAddress, Config!SocketsOf
<1>9. Same BY <1>6 DEF Same, AnswerOK
<1>. QED BY <1>8, <1>9, Carry DEF Config!Carried

-----------------------------------------------------------------------------
(* The number of a socket: how many of the set lie below it.               *)

Below(S, s) == {t \in S : t < s}

(* A number is less than the size of the set.                              *)
LEMMA Ranks ==
  ASSUME NEW S, S \subseteq Nat, IsFiniteSet(S), NEW s \in S
  PROVE  Cardinality(Below(S, s)) \in 0 .. Cardinality(S) - 1
<1>1. Below(S, s) \in SUBSET S /\ s \notin Below(S, s) BY DEF Below
<1>2. Cardinality(Below(S, s)) <= Cardinality(S) /\ Cardinality(Below(S, s)) # Cardinality(S)
  BY <1>1, FS_Subset
<1>3. Cardinality(Below(S, s)) \in Nat /\ Cardinality(S) \in Nat
  BY <1>1, FS_Subset, FS_CardinalityType
<1>. QED BY <1>2, <1>3

(* No two members have one number.                                         *)
LEMMA RanksDiffer ==
  ASSUME NEW S, S \subseteq Nat, IsFiniteSet(S), NEW s \in S, NEW t \in S,
         Cardinality(Below(S, s)) = Cardinality(Below(S, t))
  PROVE  s = t
<1>1. ASSUME NEW a \in S, NEW b \in S, a < b PROVE Cardinality(Below(S, a)) # Cardinality(Below(S, b))
  <2>1. a \in Nat /\ b \in Nat BY <1>1
  <2>2. \A x \in S : x < a => x < b BY <1>1, <2>1
  <2>3. Below(S, b) \in SUBSET S BY DEF Below
  <2>4. Below(S, a) \in SUBSET Below(S, b) BY <2>2 DEF Below
  <2>5. a \in Below(S, b) /\ a \notin Below(S, a) BY <1>1, <2>1 DEF Below
  <2>6. IsFiniteSet(Below(S, b)) BY <2>3, FS_Subset
  <2>. QED BY <2>4, <2>5, <2>6, FS_Subset
<1>2. s \in Nat /\ t \in Nat OBVIOUS
<1>3. s < t \/ t < s \/ s = t BY <1>2
<1>. QED BY <1>1, <1>3

(* Every number up to the size of the set is that of a member.             *)
LEMMA RankTaken ==
  ASSUME NEW S, S \subseteq Nat, IsFiniteSet(S), NEW k \in 0 .. Cardinality(S) - 1
  PROVE  \E s \in S : Cardinality(Below(S, s)) = k
<1>1. PICK c \in Nat : c = Cardinality(S) BY FS_CardinalityType
<1>2. PICK f : f = [s \in S |-> Cardinality(Below(S, s))] OBVIOUS
<1>3. PICK T : T = 0 .. c - 1 OBVIOUS
<1>4. IsFiniteSet(T) /\ Cardinality(T) = c
  <2>1. 0 \in Int /\ c - 1 \in Int BY <1>1
  <2>2. IsFiniteSet(0 .. c - 1) /\ Cardinality(0 .. c - 1) = IF 0 > c - 1 THEN 0 ELSE (c - 1) - 0 + 1
    BY <2>1, FS_Interval
  <2>3. (IF 0 > c - 1 THEN 0 ELSE (c - 1) - 0 + 1) = c BY <1>1
  <2>. QED BY <1>3, <2>2, <2>3
<1>5. f \in [S -> T] BY <1>1, <1>2, <1>3, Ranks
<1>6. \A s, t \in S : f[s] = f[t] => s = t BY <1>2, RanksDiffer
<1>7. f \in Injection(S, T) BY <1>5, <1>6 DEF Injection, IsInjective
<1>8. f \in Surjection(S, T) BY <1>1, <1>4, <1>7, FS_Injection
<1>9. PICK s \in S : f[s] = k BY <1>1, <1>3, <1>8 DEF Surjection
<1>. QED BY <1>2, <1>9

(* The slots of an interface.                                              *)
LEMMA SlotsOf ==
  ASSUME NEW m
  PROVE  UsedBy(m) \subseteq Nat /\ IsFiniteSet(UsedBy(m)) /\ Cardinality(UsedBy(m)) <= UDP_MAX_LISTENERS
<1>. USE Numbers
<1>1. UsedBy(m) \in SUBSET Slots BY DEF UsedBy
<1>2. IsFiniteSet(Slots) /\ Cardinality(Slots) = UDP_MAX_LISTENERS BY SlotsFinite
<1>3. UsedBy(m) \subseteq Nat BY <1>1
<1>. QED BY <1>1, <1>2, <1>3, FS_Subset

(* A number that is accepted finds a socket of the interface.              *)
LEMMA SocketFound ==
  ASSUME NEW m, NEW nth, Position(m, nth)
  PROVE  udp_source_get_socket(m, nth - 1) \in UsedBy(m)
<1>1. PICK S : S = UsedBy(m) OBVIOUS
<1>2. S \subseteq Nat /\ IsFiniteSet(S) /\ Cardinality(S) \in Nat BY <1>1, SlotsOf, FS_CardinalityType
<1>3. nth \in 1 .. Cardinality(S) BY <1>1 DEF Position
<1>4. nth - 1 \in 0 .. Cardinality(S) - 1 BY <1>2, <1>3
<1>5. \E s \in S : Cardinality({t \in S : t < s}) = nth - 1 BY <1>2, <1>4, RankTaken DEF Below
<1>6. PICK j : j = CHOOSE s \in S : Cardinality({t \in S : t < s}) = nth - 1 OBVIOUS
<1>7. j \in S BY <1>5, <1>6
<1>8. udp_source_get_socket(m, nth - 1) = j BY <1>1, <1>6 DEF udp_source_get_socket
<1>. QED BY <1>1, <1>7, <1>8

(* Every socket of an interface has a number that finds it.                *)
LEMMA SocketNumbered ==
  ASSUME NEW m, NEW s \in UsedBy(m)
  PROVE  \E nth \in 1 .. UDP_MAX_LISTENERS :
           Position(m, nth) /\ udp_source_get_socket(m, nth - 1) = s
<1>1. PICK S : S = UsedBy(m) OBVIOUS
<1>2. /\ S \subseteq Nat /\ IsFiniteSet(S) /\ Cardinality(S) \in Nat
      /\ Cardinality(S) <= UDP_MAX_LISTENERS
  BY <1>1, SlotsOf, FS_CardinalityType
<1>3. PICK k : k = Cardinality(Below(S, s)) OBVIOUS
<1>4. k \in 0 .. Cardinality(S) - 1 BY <1>1, <1>2, <1>3, Ranks
<1>5. PICK h : h = k + 1 OBVIOUS
<1>6. h \in 1 .. Cardinality(S) /\ h \in 1 .. UDP_MAX_LISTENERS /\ h - 1 = k
  BY <1>2, <1>4, <1>5, Numbers
<1>7. PICK j : j = CHOOSE t \in S : Cardinality({u \in S : u < t}) = k OBVIOUS
<1>8. j \in S /\ Cardinality(Below(S, j)) = k
  <2>1. s \in S /\ Cardinality({u \in S : u < s}) = k BY <1>1, <1>3 DEF Below
  <2>. QED BY <1>7, <2>1 DEF Below
<1>9. j = s BY <1>1, <1>2, <1>3, <1>8, RanksDiffer
<1>10. udp_source_get_socket(m, h - 1) = s BY <1>1, <1>6, <1>7, <1>9 DEF udp_source_get_socket
<1>11. Position(m, h) BY <1>1, <1>6 DEF Position
<1>. QED BY <1>6, <1>10, <1>11

(* The list is no longer than there are interfaces.                        *)
LEMMA ListShort ==
  ASSUME NEW l, IsList(l)
  PROVE  Len(l) \in Nat /\ Len(l) <= Cardinality(Aliases) + 1 /\ Cardinality(Aliases) \in Nat
<1>1. l \in Seq(Netifs) /\ Len(l) \in Nat /\ DOMAIN l = 1 .. Len(l) BY ListFacts
<1>2. l \in Injection(1 .. Len(l), Netifs)
  <2>1. l \in [1 .. Len(l) -> Netifs] BY <1>1
  <2>. QED BY <1>1, <2>1, ListFacts DEF Injection
<1>3. IsFiniteSet(Aliases) /\ PHYS \notin Aliases BY TerminalAssumption, NetifAssumption
<1>4. IsFiniteSet(Netifs) /\ Cardinality(Netifs) = Cardinality(Aliases) + 1
  BY <1>3, FS_AddElement DEF Netifs
<1>5. Cardinality(1 .. Len(l)) <= Cardinality(Netifs) BY <1>2, <1>4, FS_Injection
<1>6. Cardinality(1 .. Len(l)) = Len(l)
  <2>1. 1 \in Int /\ Len(l) \in Int BY <1>1
  <2>2. Cardinality(1 .. Len(l)) = IF 1 > Len(l) THEN 0 ELSE Len(l) - 1 + 1 BY <2>1, FS_Interval
  <2>3. (IF 1 > Len(l) THEN 0 ELSE Len(l) - 1 + 1) = Len(l) BY <1>1
  <2>. QED BY <2>2, <2>3
<1>7. Cardinality(Aliases) \in Nat BY <1>3, FS_CardinalityType
<1>. QED BY <1>1, <1>4, <1>5, <1>6, <1>7

(* A key as terminal_select_netif takes it, for a list of c interfaces: an *)
(* unsigned number of W values, so a key below '1' is beyond the last.     *)
LEMMA KeyIndex ==
  ASSUME NEW W \in Nat, W > 0, NEW c \in Nat, NEW key \in Int, key <= W, key >= c + 1 - W
  PROVE  IF key \in 1 .. c THEN (key - 1) % W < c /\ ((key - 1) % W) + 1 = key
                           ELSE ~((key - 1) % W < c)
<1>1. CASE key >= 1
  <2>1. key - 1 \in 0 .. W - 1 BY <1>1
  <2>2. (key - 1) % W = key - 1 BY <2>1
  <2>. QED BY <1>1, <2>1, <2>2
<1>2. CASE key < 1
  <2>1. key - 1 + W \in 0 .. W - 1 /\ key - 1 + W >= c BY <1>2
  <2>2. (key - 1) % W = key - 1 + W BY <1>2, <2>1
  <2>3. key \notin 1 .. c BY <1>2
  <2>. QED BY <2>1, <2>2, <2>3
<1>. QED BY <1>1, <1>2

(* So the menu and the channel number the interfaces alike.                *)
LEMMA SameNumbers ==
  ASSUME IsList(netif_list), NEW key \in Keys
  PROVE  Selected(key) = cmd_netif_by_index(key)
<1>1. PICK c \in Nat : c = Len(netif_list) /\ c <= Cardinality(Aliases) + 1 /\ Cardinality(Aliases) \in Nat
  BY ListShort
<1>2. /\ WordMod \in Nat /\ WordMod > 0 /\ key \in Int
      /\ key \in Cardinality(Aliases) + 2 - WordMod .. WordMod
  BY TerminalAssumption
<1>3. key <= WordMod /\ key >= c + 1 - WordMod BY <1>1, <1>2
<1>4. IF key \in 1 .. c THEN (key - 1) % WordMod < c /\ ((key - 1) % WordMod) + 1 = key
                        ELSE ~((key - 1) % WordMod < c)
  BY <1>2, <1>3, KeyIndex
<1>5. PICK x : x = (key - 1) % WordMod OBVIOUS
<1>6. Selected(key) = IF x < c THEN netif_list[x + 1] ELSE NULL BY <1>1, <1>5 DEF Selected
<1>7. cmd_netif_by_index(key) = IF key \in 1 .. c THEN netif_list[key] ELSE NULL
  BY <1>1 DEF cmd_netif_by_index
<1>8. CASE key \in 1 .. c
  <2>1. x < c /\ x + 1 = key BY <1>4, <1>5, <1>8
  <2>. QED BY <1>6, <1>7, <1>8, <2>1
<1>9. CASE key \notin 1 .. c
  <2>1. ~(x < c) BY <1>4, <1>5, <1>9
  <2>. QED BY <1>6, <1>7, <1>9, <2>1
<1>. QED BY <1>8, <1>9

(* A number names a listed interface or none.                              *)
LEMMA Named ==
  ASSUME NEW i
  PROVE  cmd_netif_by_index(i) = NULL \/ cmd_netif_by_index(i) \in In(netif_list)
BY DEF cmd_netif_by_index, In

-----------------------------------------------------------------------------
(* The inductive invariant gives the one that the run checks.              *)

(* Prompts, sockets and keys.                                              *)
LEMMA Implied ==
  ASSUME IInv
  PROVE  NumbersSound
<1>. USE Numbers
<1>1. BoardSound(netif_list, ip_addr, s_listeners) /\ AnswerOK(answer) /\ PromptSound BY DEF IInv
<1>2. IsList(netif_list) BY <1>1 DEF BoardSound
<1>3. TypeOK
  <2>1. /\ netif_list \in Seq(Netifs) /\ IsInjective(netif_list)
        /\ netif_list # << >> /\ Last(netif_list) = PHYS /\ Range(netif_list) = In(netif_list)
    BY <1>2, ListFacts
  <2>2. s_listeners \in [Slots -> [netif : Netifs \cup {NULL}, port : 0 .. PortMod - 1, ip : IPs]]
    BY <1>1 DEF BoardSound, Socket
  <2>. QED BY <1>1, <2>1, <2>2, Zenon DEF TypeOK, BoardSound, AnswerOK, PromptSound
<1>4. AllReachable
  <2>1. ASSUME NEW s \in Slots, s_listeners[s].netif # NULL
        PROVE  \E i \in 1 .. Len(netif_list), nth \in 1 .. UDP_MAX_LISTENERS :
                 /\ cmd_netif_by_index(i) = s_listeners[s].netif
                 /\ Position(cmd_netif_by_index(i), nth)
                 /\ udp_source_get_socket(cmd_netif_by_index(i), nth - 1) = s
    <3>1. PICK m : m = s_listeners[s].netif OBVIOUS
    <3>2. m \in In(netif_list) BY <1>1, <2>1, <3>1 DEF BoardSound, On, Used
    <3>3. PICK i \in 1 .. Len(netif_list) : netif_list[i] = m BY <3>2 DEF In
    <3>4. cmd_netif_by_index(i) = m BY <3>3 DEF cmd_netif_by_index
    <3>5. s \in UsedBy(m) BY <3>1 DEF UsedBy
    <3>6. PICK nth \in 1 .. UDP_MAX_LISTENERS :
            Position(m, nth) /\ udp_source_get_socket(m, nth - 1) = s
      BY <3>5, SocketNumbered
    <3>. QED BY <3>1, <3>3, <3>4, <3>6
  <2>. QED BY <2>1, Zenon DEF AllReachable
<1>5. KeysAgree BY <1>2, SameNumbers DEF KeysAgree
<1>. QED BY <1>3, <1>4, <1>5 DEF NumbersSound

(* A socket that is closed by its number, or that is not there.            *)
LEMMA PlaceCloseKept ==
  ASSUME IInv, NEW r, r = request', NEW m, NEW nth, r.op = "close", r.socket = SocketAt(m, nth),
         IF ~PlaceOK(m, nth) THEN NoChange("ERR") ELSE Close(m, nth)
  PROVE  Kept
<1>1. CASE ~PlaceOK(m, nth)
  <2>1. Same /\ Config!Refuse BY <1>1, Refusal DEF Refuses
  <2>2. r.socket.netif = NULL BY <1>1 DEF SocketAt, Free
  <2>3. \A s \in Slots \ UsedBy(NULL) : s_listeners[s].netif # NULL BY DEF UsedBy
  <2>4. r.socket \notin {s_listeners[s] : s \in Slots \ UsedBy(NULL)} BY <2>2, <2>3
  <2>5. Config!CloseSocket(r.socket) BY <2>1, <2>4 DEF Config!CloseSocket
  <2>. QED BY <2>1, <2>5, Carry DEF Config!Carried
<1>2. CASE PlaceOK(m, nth)
  <2>1. m # NULL /\ Position(m, nth) BY <1>2 DEF PlaceOK
  <2>2. PICK s : s = udp_source_get_socket(m, nth - 1) OBVIOUS
  <2>3. s \in UsedBy(m) BY <2>1, <2>2, SocketFound
  <2>4. s \in Slots /\ Used(s_listeners, s) BY <2>1, <2>3 DEF UsedBy, Used
  <2>5. r.socket = s_listeners[s] BY <1>2, <2>2 DEF SocketAt
  <2>6. udp_source_remove_listener(s) BY <1>2, <2>2 DEF Close
  <2>. QED BY <2>4, <2>5, <2>6, CloseKept
<1>. QED BY <1>1, <1>2

-----------------------------------------------------------------------------
(* Every step keeps the invariant and is a change of BoardConfig or none.  *)

(* The board comes up with the physical interface and no socket.           *)
LEMMA InitSound == Init => IInv /\ Config!Init
<1>. USE Numbers
<1>. SUFFICES ASSUME Init PROVE IInv /\ Config!Init OBVIOUS
<1>1. /\ netif_list = <<PHYS>> /\ ip_addr = [m \in Netifs |-> PHYS_IP]
      /\ s_listeners = [s \in Slots |-> Free] /\ answer = "none"
      /\ pc = "loop" /\ chosen = NULL
  BY DEF Init
<1>2. /\ netif_list \in Seq(Netifs) /\ Len(netif_list) = 1 /\ netif_list[1] = PHYS
      /\ netif_list # << >>
  BY <1>1
<1>3. IsList(netif_list)
  <2>1. \A i \in 1 .. 1 : i = 1 OBVIOUS
  <2>. QED BY <1>2, <2>1 DEF IsList
<1>4. Free \in Socket /\ Free.netif = NULL BY DEF Free, Socket
<1>5. s_listeners \in [Slots -> Socket] /\ \A s \in Slots : ~Used(s_listeners, s)
  BY <1>1, <1>4 DEF Used
<1>6. Apart(s_listeners) /\ Ported(s_listeners) /\ On(s_listeners, netif_list)
  BY <1>5 DEF Apart, Ported, On
<1>7. BoardSound(netif_list, ip_addr, s_listeners) BY <1>1, <1>3, <1>5, <1>6 DEF BoardSound
<1>8. IInv BY <1>1, <1>7 DEF IInv, AnswerOK, PromptSound
<1>9. [m \in Range(netif_list) |-> ip_addr[m]] \in [{PHYS} -> IPs]
  <2>1. Range(netif_list) = In(netif_list) BY <1>3, ListFacts
  <2>2. In(netif_list) = {PHYS}
    <3>1. 1 .. 1 = {1} OBVIOUS
    <3>. QED BY <1>2, <3>1 DEF In
  <2>. QED BY <1>1, <2>1, <2>2
<1>10. {s_listeners[s] : s \in Slots \ UsedBy(NULL)} = {} BY <1>5 DEF UsedBy, Used
<1>. QED BY <1>1, <1>8, <1>9, <1>10 DEF Config!Init

(* cmd_dispatch.                                                           *)
LEMMA CommandKept ==
  ASSUME IInv, cmd_dispatch
  PROVE  Kept /\ PromptSound'
<1>1. PromptSound'
  <2>1. pc = "loop" /\ pc' = pc /\ chosen' = chosen BY DEF cmd_dispatch, menu
  <2>. QED BY <2>1 DEF PromptSound, IInv
<1>2. ASSUME NEW ip \in IPs, cmd_netif_add(ip) PROVE Kept
  <2>1. PICK r : r = request' /\ r.op = "add" /\ r.ip = ip /\ net_if_add(ip, "ERR")
    BY <1>2 DEF cmd_netif_add
  <2>. QED BY <2>1, AddKept DEF Refuses
<1>3. ASSUME NEW i \in Typed, cmd_netif_del(i) PROVE Kept
  <2>1. PICK m : m = cmd_netif_by_index(i) OBVIOUS
  <2>2. PICK r : /\ r = request' /\ r.op = "del" /\ r.netif = m
                 /\ IF m = NULL THEN NoChange("ERR") ELSE net_if_remove(m)
    BY <1>3, <2>1 DEF cmd_netif_del
  <2>3. m = NULL \/ m \in In(netif_list) BY <2>1, Named
  <2>. QED BY <2>2, <2>3, NobodyKept, RemoveKept
<1>4. ASSUME NEW i \in Typed, NEW ip \in IPs, cmd_netif_set(i, ip) PROVE Kept
  <2>1. PICK m : m = cmd_netif_by_index(i) OBVIOUS
  <2>2. PICK r : /\ r = request' /\ r.op = "set" /\ r.netif = m /\ r.ip = ip
                 /\ IF m = NULL THEN NoChange("ERR") ELSE SetIp(m, ip, "OK")
    BY <1>4, <2>1 DEF cmd_netif_set
  <2>3. m = NULL \/ m \in In(netif_list) BY <2>1, Named
  <2>4. CASE m = NULL BY <2>2, <2>4, NobodyKept
  <2>5. CASE m # NULL
    <3>1. answer' = "OK" /\ SetIp(m, ip, answer') BY <2>2, <2>5 DEF SetIp
    <3>. QED BY <2>2, <2>3, <2>5, <3>1, SetIpKept
  <2>. QED BY <2>4, <2>5
<1>5. ASSUME NEW i \in Typed, cmd_netif_set_other(i) PROVE Kept
  <2>1. PICK r : r = request' /\ r.op = "other" BY <1>5 DEF cmd_netif_set_other, Nothing
  <2>2. PICK a \in {"ERR", "done"} : NoChange(a) BY <1>5 DEF cmd_netif_set_other
  <2>. QED BY <2>1, <2>2, OtherKept
<1>6. ASSUME NEW i \in Typed, NEW k \in Typed, cmd_sock_open(i, k) PROVE Kept
  <2>1. PICK m : m = cmd_netif_by_index(i) OBVIOUS
  <2>2. PICK r : /\ r = request' /\ r.op = "open" /\ r.netif = m /\ r.port = k
                 /\ IF k \notin Ports \/ m = NULL THEN NoChange("ERR") ELSE udp_source_add_listener(m, k)
    BY <1>6, <2>1 DEF cmd_sock_open
  <2>3. m = NULL \/ m \in In(netif_list) BY <2>1, Named
  <2>4. CASE m = NULL BY <2>2, <2>4, NobodyKept
  <2>5. CASE k \notin Ports
    <3>1. Same /\ Config!Refuse BY <2>2, <2>5, Refusal DEF Refuses
    <3>2. Config!OpenSocket(r.netif, r.port) BY <2>2, <2>5, <3>1 DEF Config!OpenSocket
    <3>. QED BY <2>2, <3>1, <3>2, Carry DEF Config!Carried
  <2>6. CASE m # NULL /\ k \in Ports BY <2>2, <2>3, <2>6, OpenKept
  <2>. QED BY <2>4, <2>5, <2>6
<1>7. ASSUME NEW i \in Typed, NEW k \in Typed, cmd_sock_close(i, k) PROVE Kept
  <2>1. PICK m : m = cmd_netif_by_index(i) OBVIOUS
  <2>2. PICK r : /\ r = request' /\ r.op = "close" /\ r.socket = SocketAt(m, k)
                 /\ IF ~PlaceOK(m, k) THEN NoChange("ERR") ELSE Close(m, k)
    BY <1>7, <2>1 DEF cmd_sock_close
  <2>. QED BY <2>2, PlaceCloseKept
<1>8. ASSUME NEW i \in Typed, NEW k \in Typed, cmd_udp_send(i, k) PROVE Kept
  <2>1. PICK r : r = request' /\ r.op = "other" /\ (NoChange("ERR") \/ NoChange("done"))
    BY <1>8 DEF cmd_udp_send, Nothing
  <2>. QED BY <2>1, OtherKept
<1>. QED BY <1>1, <1>2, <1>3, <1>4, <1>5, <1>6, <1>7, <1>8 DEF cmd_dispatch

(* The menu, prompt by prompt.                                             *)
LEMMA MenuKept ==
  ASSUME IInv, Menu
  PROVE  Kept /\ PromptSound'
<1>. USE Numbers
<1>1. Leave => PromptSound' BY DEF Leave, PromptSound
<1>2. JustKeys => Kept /\ netif_list' = netif_list
  <2>. SUFFICES ASSUME JustKeys PROVE Kept /\ netif_list' = netif_list OBVIOUS
  <2>1. PICK r : r = request' /\ r.op = "other" /\ NoChange("none") BY DEF JustKeys, Nothing
  <2>2. netif_list' = netif_list BY <2>1 DEF NoChange, board
  <2>. QED BY <2>1, <2>2, OtherKept
<1>3. ASSUME NEW at, Goto(at), JustKeys,
             \/ at \notin {"option", "address", "port", "which", "removing", "from"}
             \/ pc = "option"
      PROVE  PromptSound'
  <2>1. pc' = at /\ n' = n /\ chosen' = chosen /\ netif_list' = netif_list
    BY <1>2, <1>3 DEF Goto
  <2>. QED BY <1>3, <2>1 DEF IInv, PromptSound
<1>4. CASE read_terminal_line
  <2>1. JustKeys BY <1>4 DEF read_terminal_line
  <2>2. PromptSound' BY <1>1, <1>3, <1>4, <2>1 DEF read_terminal_line
  <2>. QED BY <1>2, <2>1, <2>2
<1>5. CASE Option
  <2>1. JustKeys BY <1>5 DEF Option
  <2>2. PromptSound' BY <1>1, <1>3, <1>5, <2>1 DEF Option
  <2>. QED BY <1>2, <2>1, <2>2
<1>6. CASE Address
  <2>1. pc = "address" /\ Leave BY <1>6 DEF Address
  <2>2. n \in In(netif_list) BY <2>1 DEF IInv, PromptSound
  <2>3. PICK ip \in IPs : /\ request' = [op |-> "set", by |-> "menu", netif |-> n, ip |-> ip]
                          /\ SetIp(n, ip, "none")
    BY <1>6 DEF Address
  <2>4. PICK r : r = request' /\ r.op = "set" /\ r.by = "menu" /\ r.netif = n /\ r.ip = ip
    BY <2>3
  <2>5. answer' = "none" /\ SetIp(n, ip, answer') BY <2>3 DEF SetIp
  <2>6. Kept BY <2>2, <2>4, <2>5, SetIpKept
  <2>. QED BY <1>1, <2>1, <2>6
<1>7. CASE AddOrDelete
  <2>1. JustKeys BY <1>7 DEF AddOrDelete
  <2>2. PromptSound' BY <1>1, <1>3, <1>7, <2>1 DEF AddOrDelete
  <2>. QED BY <1>2, <2>1, <2>2
<1>8. CASE Add
  <2>1. Leave BY <1>8 DEF Add
  <2>2. CASE JustKeys BY <1>1, <1>2, <2>1, <2>2
  <2>3. ASSUME NEW ip \in IPs, request' = [op |-> "add", by |-> "menu", ip |-> ip],
               net_if_add(ip, "none")
        PROVE  Kept
    <3>1. PICK r : r = request' /\ r.op = "add" /\ r.by = "menu" /\ r.ip = ip BY <2>3
    <3>. QED BY <2>3, <3>1, AddKept DEF Refuses
  <2>. QED BY <1>1, <1>8, <2>1, <2>2, <2>3 DEF Add
<1>9. CASE Removing
  <2>1. PICK r : /\ r = request' /\ pc = "removing" /\ Leave /\ net_if_remove(n)
                 /\ r.op = "del" /\ r.netif = n
    BY <1>9 DEF Removing
  <2>2. n \in In(netif_list) BY <2>1 DEF IInv, PromptSound
  <2>3. Kept BY <2>1, <2>2, RemoveKept
  <2>. QED BY <1>1, <2>1, <2>3
<1>10. ASSUME NEW key \in Keys, SelectNetif(key) PROVE Kept /\ PromptSound'
  <2>1. JustKeys /\ Kept /\ netif_list' = netif_list BY <1>2, <1>10 DEF SelectNetif
  <2>2. CASE Leave BY <1>1, <2>1, <2>2
  <2>3. CASE ~Leave
    <3>1. PICK m : m = Selected(key) OBVIOUS
    <3>2. m # NULL /\ n' = m /\ chosen' \in {m, chosen}
      BY <1>10, <2>3, <3>1 DEF SelectNetif
    <3>3. IsList(netif_list) BY DEF IInv, BoardSound
    <3>4. m \in In(netif_list) /\ In(netif_list) \subseteq Netifs
      BY <3>1, <3>2, <3>3, SameNumbers, Named, ListFacts
    <3>5. PromptSound' BY <2>1, <3>2, <3>4 DEF IInv, PromptSound
    <3>. QED BY <2>1, <3>5
  <2>. QED BY <2>2, <2>3
<1>11. ASSUME NEW x \in Typed, OpenPort(x) PROVE Kept /\ PromptSound'
  <2>1. PICK r : /\ r = request' /\ pc = "port" /\ Leave /\ udp_source_add_listener(n, PortOf(x))
                 /\ r.op = "open" /\ r.by = "menu" /\ r.netif = n /\ r.port = x
    BY <1>11 DEF OpenPort
  <2>2. n \in In(netif_list) BY <2>1 DEF IInv, PromptSound
  <2>3. x \in Ports => PortOf(x) = x BY DEF PortOf
  <2>4. Kept BY <2>1, <2>2, <2>3, OpenKept
  <2>. QED BY <1>1, <2>1, <2>4
<1>12. ASSUME NEW x \in Typed, Which(x) PROVE Kept /\ PromptSound'
  <2>1. PICK r : /\ r = request' /\ Leave /\ r.op = "close" /\ r.socket = SocketAt(n, x)
                 /\ IF ~PlaceOK(n, x) THEN NoChange("ERR") ELSE Close(n, x)
    BY <1>12 DEF Which
  <2>2. Kept BY <2>1, PlaceCloseKept
  <2>. QED BY <1>1, <2>1, <2>2
<1>13. ASSUME NEW x \in Typed, From(x) PROVE Kept /\ PromptSound'
  <2>1. PICK r : /\ r = request' /\ Leave /\ r.op = "other"
                 /\ (NoChange("none") \/ NoChange("done"))
    BY <1>13 DEF From, Nothing
  <2>2. Kept BY <2>1, OtherKept
  <2>. QED BY <1>1, <2>1, <2>2
<1>. QED BY <1>4, <1>5, <1>6, <1>7, <1>8, <1>9, <1>10, <1>11, <1>12, <1>13 DEF Menu

(* A step of either, or none.                                              *)
LEMMA StepKept ==
  ASSUME IInv, [Next]_vars
  PROVE  IInv' /\ [Config!Next]_(Config!vars)
<1>1. CASE Next
  <2>1. Kept /\ PromptSound' BY <1>1, CommandKept, MenuKept DEF Next
  <2>. QED BY <2>1 DEF Kept, Same, IInv, BoardSound, AnswerOK
<1>2. CASE UNCHANGED vars
  <2>1. /\ UNCHANGED <<netif_list, ip_addr, s_listeners, request, answer>>
        /\ UNCHANGED <<pc, n, chosen>>
    BY <1>2 DEF vars, board, menu
  <2>2. IInv' BY <2>1 DEF IInv, PromptSound
  <2>3. UNCHANGED Config!vars BY <2>1 DEF Config!vars, UsedBy
  <2>. QED BY <2>2, <2>3
<1>. QED BY <1>1, <1>2

(* The prompts of terminal_interface.c work on listed interfaces, every    *)
(* open socket has a number that closes it, and the menu and the channel   *)
(* agree on which interface a number is, for any number of interfaces and  *)
(* sockets and whatever is typed.                                          *)
THEOREM NumbersSoundCorrect == Spec => []NumbersSound
<1>1. Init => IInv BY InitSound
<1>2. IInv /\ [Next]_vars => IInv' BY StepKept
<1>3. IInv => NumbersSound BY Implied
<1>. QED BY <1>1, <1>2, <1>3, PTL DEF Spec

(* The commands and the menu together implement BoardConfig: OK means that *)
(* what was asked for has been done, to the interface, address, port and   *)
(* socket that were named, and an error that nothing was, for a reason,    *)
(* but for 0.0.0.0 and for what is no port at the menu.                    *)
THEOREM ImplementsConfigCorrect == Spec => ImplementsConfig
<1>1. Init => IInv /\ Config!Init BY InitSound
<1>2. IInv /\ [Next]_vars => IInv' /\ [Config!Next]_(Config!vars) BY StepKept
<1>. QED BY <1>1, <1>2, PTL DEF Spec, ImplementsConfig, Config!Spec
================================================================================
