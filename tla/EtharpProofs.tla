---------------------------- MODULE EtharpProofs ----------------------------
(***************************************************************************)
(* Proofs about Etharp: the ARP table for any size, any hosts, any number  *)
(* of packets and messages.                                                *)
(***************************************************************************)
EXTENDS Etharp, FiniteSetTheorems, WellFoundedInduction, TLAPS

Entries == [state : {"empty", "pending", "stable"}, ip : Hosts \cup {0},
            netif : Netifs \cup {NULL}, mac : Hosts \cup {0},
            q : Packets \cup {NULL}]
Fates == {"none", "busy", "sent", "queued", "dropped"}

(* An entry that etharp_find_entry takes for host h.                       *)
Has(T, s, h) == T[s].state # "empty" /\ T[s].ip = h

(* What the sweep over a table T remembers after s entries; the numbers    *)
(* are of entries, and one is remembered as soon as s is not 0.            *)
Notes(s) == [hit : 0 .. s, empty : 0 .. s, stable : 0 .. s, pending : 0 .. s, queue : 0 .. s]

NoteTyped(T, r, s) ==
  /\ r \in Notes(s)
  /\ s > 0 => \E k \in {r.hit, r.empty, r.stable, r.pending, r.queue} : k # 0
  /\ r.hit # 0 => T[r.hit].state # "empty"

(* If the table did not change meanwhile it is the truth about host h.     *)
NoteTrue(T, r, s, h) ==
  /\ r.hit # 0 => Has(T, r.hit, h)
  /\ r.hit = 0 => \A t \in 1 .. s : ~Has(T, t, h)
  /\ r.empty # 0 => T[r.empty].state = "empty"
  /\ \A k \in {r.stable, r.pending, r.queue} : k # 0 => T[k].state # "empty" /\ T[k].ip # h

-----------------------------------------------------------------------------
(* Types, whatever the interrupts do: what the main loop has in hand.      *)
InCall == {"lookup", "find", "setip", "mark", "output", "deliver", "drop", "store", "wait"}

EntryOK(e) ==
  /\ e \in Entries
  /\ e.state # "empty" => e.ip # 0
  /\ e.state = "empty" => e.q = NULL
  /\ e.state = "stable" => e.netif \in Netifs

TableOK(T) == T \in [Slots -> Entries] /\ \A s \in Slots : EntryOK(T[s])

Calls == [op : {NULL, "send", "scan", "reset"}, netif : Netifs \cup {NULL},
          host : Hosts \cup {0}, pkt : Packets \cup {NULL}, left : SUBSET Netifs]

Typed ==
  /\ TableOK(arp_table)
  /\ pc \in InCall \cup {"idle", "clean"}
  /\ slot \in Slots \cup {0} /\ i \in 0 .. ARP_TABLE_SIZE + 1 /\ cur \in Calls
  /\ fate \in [Packets -> Fates] /\ dest \in [Packets -> Hosts \cup {0}]
  /\ up \subseteq Hosts /\ reported \subseteq Hosts
  /\ answered \in BOOLEAN /\ quiet \in BOOLEAN /\ missent \in BOOLEAN /\ raced \in BOOLEAN

CallTyped ==
  /\ pc \in InCall => cur.op \in {"send", "scan"} /\ cur.host \in Hosts
  /\ pc \in {"lookup", "output", "deliver", "drop", "store"} => cur.pkt \in Packets
  /\ pc = "find" => i # 0 /\ NoteTyped(arp_table, found, i - 1)
  /\ pc # "find" => found = Nothing
  /\ pc \in {"setip", "mark", "output", "deliver", "drop", "store"} => slot \in Slots
  /\ pc = "mark" => arp_table[slot].ip # 0
  /\ pc \in {"drop", "store"} => arp_table[slot].state # "empty"
  /\ pc = "clean" => i # 0 /\ (cur.op = "scan" => cur.host \in Hosts)

(* The entry the call of the main loop works on, as long as no interrupt   *)
(* changes the table inside the call.                                      *)
SlotTrue ==
  /\ pc = "find" => NoteTrue(arp_table, found, i - 1, cur.host)
  /\ pc = "setip" => /\ arp_table[slot].state = "empty"
                     /\ \A s \in Slots : ~Has(arp_table, s, cur.host)
  /\ pc = "mark" => /\ arp_table[slot].ip = cur.host
                    /\ \A s \in Slots : Has(arp_table, s, cur.host) => s = slot
  /\ pc = "output" => arp_table[slot].state = "stable" /\ arp_table[slot].ip = cur.host
  /\ pc = "deliver" => Has(arp_table, slot, cur.host)
  /\ pc \in {"drop", "store"} => arp_table[slot].state = "pending" /\ arp_table[slot].ip = cur.host

(* The packets: those in the table T are the queued ones of f, each of     *)
(* them once, on a pending entry of its host.  An entry in X still names a *)
(* packet that was freed: etharp_query is about to replace it.             *)
Kept(T, f, d, X) ==
  /\ \A s \in Slots : T[s].q # NULL =>
       IF s \in X THEN f[T[s].q] = "dropped"
       ELSE /\ f[T[s].q] = "queued" /\ T[s].state = "pending" /\ T[s].ip = d[T[s].q]
            /\ \A t \in Slots : T[t].q = T[s].q => t = s
  /\ \A p \in Packets : f[p] = "queued" => \E s \in Slots \ X : T[s].q = p

Slack == IF pc = "store" THEN {slot} ELSE {}

(* And the packet in hand is nowhere else.                                 *)
InHand ==
  pc \in InCall /\ cur.pkt # NULL => fate[cur.pkt] = "busy" /\ dest[cur.pkt] = cur.host

(* While the scan waits for its target, undisturbed, the target has an     *)
(* entry, stable once it has answered.                                     *)
TargetListed ==
  pc = "wait" /\ quiet =>
    \E s \in Slots : Has(arp_table, s, cur.host) /\ (answered => arp_table[s].state = "stable")

(* A reset has only to go where a stable entry was learned.                *)
StillToClean ==
  pc = "clean" /\ cur.op = "reset" =>
    \A s \in Slots : arp_table[s].state = "stable" =>
      arp_table[s].netif \in cur.left \/ (arp_table[s].netif = cur.netif /\ s >= i)

Calm ==
  /\ SlotTrue /\ Kept(arp_table, fate, dest, Slack) /\ InHand /\ TargetListed /\ StillToClean
  /\ OneEntryEach /\ StableHaveSpoken /\ SentToOwner /\ ReportedHaveSpoken

IInv == Typed /\ CallTyped /\ (~raced => Calm)

-----------------------------------------------------------------------------
(* etharp_find_entry, one entry at a time.                                 *)

(* The five things an entry can be to the sweep for h.                     *)
LEMMA NoteCases ==
  ASSUME NEW e \in Entries, NEW r, NEW s, NEW h
  PROVE  \/ e.state = "empty" /\ Note(r, e, s, h) = IF r.empty = 0 THEN [r EXCEPT !.empty = s] ELSE r
         \/ e.state # "empty" /\ e.ip = h /\ Note(r, e, s, h) = [r EXCEPT !.hit = s]
         \/ e.state # "empty" /\ e.ip # h /\ Note(r, e, s, h) = [r EXCEPT !.stable = s]
         \/ e.state # "empty" /\ e.ip # h /\ Note(r, e, s, h) = [r EXCEPT !.pending = s]
         \/ e.state # "empty" /\ e.ip # h /\ Note(r, e, s, h) = [r EXCEPT !.queue = s]
<1>1. e.state \in {"empty", "pending", "stable"} BY DEF Entries
<1>2. CASE e.state = "empty" BY <1>2 DEF Note
<1>3. CASE e.state # "empty" /\ e.ip = h BY <1>3 DEF Note
<1>4. CASE e.state = "stable" /\ e.ip # h BY <1>4 DEF Note
<1>5. CASE e.state = "pending" /\ e.ip # h
  <2>1. Note(r, e, s, h) = [r EXCEPT ![PendingClass(e)] = s] BY <1>5 DEF Note
  <2>2. CASE e.q = NULL
    <3>1. PendingClass(e) = "pending" BY <2>2 DEF PendingClass
    <3>. QED BY <1>5, <2>1, <3>1
  <2>3. CASE e.q # NULL
    <3>1. PendingClass(e) = "queue" BY <2>3 DEF PendingClass
    <3>. QED BY <1>5, <2>1, <3>1
  <2>. QED BY <2>2, <2>3
<1>. QED BY <1>1, <1>2, <1>3, <1>4, <1>5

(* etharp_find_entry notes one more entry of the table.                    *)
LEMMA NoteStep ==
  ASSUME NEW T \in [Slots -> Entries], NEW s \in Slots, NEW r, NEW h,
         NoteTyped(T, r, s - 1), r.hit = 0
  PROVE  /\ NoteTyped(T, Note(r, T[s], s, h), s)
         /\ NoteTrue(T, r, s - 1, h) => NoteTrue(T, Note(r, T[s], s, h), s, h)
<1>. DEFINE x == Note(r, T[s], s, h)
<1>1. s \in Nat /\ s > 0 /\ \A t \in 1 .. s : t = s \/ t \in 1 .. s - 1 BY EtharpAssumption DEF Slots
<1>2. r \in Notes(s) /\ r \in Notes(s - 1) BY <1>1 DEF NoteTyped, Notes
<1>3. T[s] \in Entries OBVIOUS
<1>. DEFINE Good == /\ x \in Notes(s)
                    /\ \E k \in {x.hit, x.empty, x.stable, x.pending, x.queue} : k # 0
                    /\ x.hit # 0 => T[x.hit].state # "empty"
                    /\ NoteTrue(T, r, s - 1, h) => NoteTrue(T, x, s, h)
<1>4. ASSUME T[s].state = "empty" /\ x = (IF r.empty = 0 THEN [r EXCEPT !.empty = s] ELSE r)
      PROVE  Good
  <2>1. ~Has(T, s, h) BY <1>4 DEF Has
  <2>2. x.hit = 0 /\ x.stable = r.stable /\ x.pending = r.pending /\ x.queue = r.queue /\ x \in Notes(s)
    BY <1>1, <1>2, <1>4 DEF Notes
  <2>3. x.empty # 0 /\ (x.empty = s \/ x.empty = r.empty) BY <1>1, <1>2, <1>4 DEF Notes
  <2>4. NoteTrue(T, r, s - 1, h) => NoteTrue(T, x, s, h) BY <1>1, <1>4, <2>1, <2>2, <2>3 DEF NoteTrue
  <2>. QED BY <2>2, <2>3, <2>4
<1>5. ASSUME T[s].state # "empty" /\ T[s].ip = h /\ x = [r EXCEPT !.hit = s]
      PROVE  Good
  <2>1. Has(T, s, h) BY <1>5 DEF Has
  <2>2. x.hit = s /\ x.empty = r.empty /\ x.stable = r.stable /\ x.pending = r.pending
        /\ x.queue = r.queue /\ x \in Notes(s)
    BY <1>1, <1>2, <1>5 DEF Notes
  <2>3. NoteTrue(T, r, s - 1, h) => NoteTrue(T, x, s, h) BY <1>1, <2>1, <2>2 DEF NoteTrue
  <2>. QED BY <1>1, <1>5, <2>2, <2>3
<1>6. ASSUME T[s].state # "empty" /\ T[s].ip # h /\ x = [r EXCEPT !.stable = s]
      PROVE  Good
  <2>1. ~Has(T, s, h) BY <1>6 DEF Has
  <2>2. x.hit = 0 /\ x.empty = r.empty /\ x.stable = s /\ x.pending = r.pending
        /\ x.queue = r.queue /\ x \in Notes(s)
    BY <1>1, <1>2, <1>6 DEF Notes
  <2>3. NoteTrue(T, r, s - 1, h) => NoteTrue(T, x, s, h) BY <1>1, <1>6, <2>1, <2>2 DEF NoteTrue
  <2>. QED BY <1>1, <2>2, <2>3
<1>7. ASSUME T[s].state # "empty" /\ T[s].ip # h /\ x = [r EXCEPT !.pending = s]
      PROVE  Good
  <2>1. ~Has(T, s, h) BY <1>7 DEF Has
  <2>2. x.hit = 0 /\ x.empty = r.empty /\ x.stable = r.stable /\ x.pending = s
        /\ x.queue = r.queue /\ x \in Notes(s)
    BY <1>1, <1>2, <1>7 DEF Notes
  <2>3. NoteTrue(T, r, s - 1, h) => NoteTrue(T, x, s, h) BY <1>1, <1>7, <2>1, <2>2 DEF NoteTrue
  <2>. QED BY <1>1, <2>2, <2>3
<1>8. ASSUME T[s].state # "empty" /\ T[s].ip # h /\ x = [r EXCEPT !.queue = s]
      PROVE  Good
  <2>1. ~Has(T, s, h) BY <1>8 DEF Has
  <2>2. x.hit = 0 /\ x.empty = r.empty /\ x.stable = r.stable /\ x.pending = r.pending
        /\ x.queue = s /\ x \in Notes(s)
    BY <1>1, <1>2, <1>8 DEF Notes
  <2>3. NoteTrue(T, r, s - 1, h) => NoteTrue(T, x, s, h) BY <1>1, <1>8, <2>1, <2>2 DEF NoteTrue
  <2>. QED BY <1>1, <2>2, <2>3
<1>9. Good
  <2>. HIDE DEF Good, x
  <2>1. \/ T[s].state = "empty" /\ x = (IF r.empty = 0 THEN [r EXCEPT !.empty = s] ELSE r)
        \/ T[s].state # "empty" /\ T[s].ip = h /\ x = [r EXCEPT !.hit = s]
        \/ T[s].state # "empty" /\ T[s].ip # h /\ x = [r EXCEPT !.stable = s]
        \/ T[s].state # "empty" /\ T[s].ip # h /\ x = [r EXCEPT !.pending = s]
        \/ T[s].state # "empty" /\ T[s].ip # h /\ x = [r EXCEPT !.queue = s]
    BY <1>3, NoteCases DEF x
  <2>. QED BY <2>1, <1>4, <1>5, <1>6, <1>7, <1>8
<1>. HIDE DEF x
<1>. QED BY <1>9 DEF NoteTyped, x

(* The entry chosen exists; it is host h's, or free, or another's, and     *)
(* unless it is the first there is none of host h.                         *)
LEMMA ChoiceFacts ==
  ASSUME NEW T \in [Slots -> Entries], NEW r, NEW h, NoteTyped(T, r, ARP_TABLE_SIZE)
  PROVE  /\ Choice(r) \in Slots
         /\ r.hit \in Slots \cup {0}
         /\ NoteTrue(T, r, ARP_TABLE_SIZE, h) =>
              /\ r.hit # 0 => Choice(r) = r.hit /\ Has(T, r.hit, h)
              /\ r.hit = 0 => \A t \in Slots : ~Has(T, t, h)
              /\ r.hit = 0 /\ r.empty # 0 => T[Choice(r)].state = "empty"
              /\ Recycles(r) => T[Choice(r)].state # "empty"
<1>1. ARP_TABLE_SIZE \in Nat /\ ARP_TABLE_SIZE > 0 BY EtharpAssumption
<1>2. /\ {r.hit, r.empty, r.stable, r.pending, r.queue} \subseteq Slots \cup {0}
      /\ \E k \in {r.hit, r.empty, r.stable, r.pending, r.queue} : k # 0
  BY <1>1 DEF NoteTyped, Notes, Slots
<1>3. Choice(r) \in Slots BY <1>2 DEF Choice
<1>4. ASSUME NoteTrue(T, r, ARP_TABLE_SIZE, h)
      PROVE  /\ r.hit # 0 => Choice(r) = r.hit /\ Has(T, r.hit, h)
             /\ r.hit = 0 => \A t \in Slots : ~Has(T, t, h)
             /\ r.hit = 0 /\ r.empty # 0 => T[Choice(r)].state = "empty"
             /\ Recycles(r) => T[Choice(r)].state # "empty"
  <2>1. (r.hit # 0 => Has(T, r.hit, h)) /\ (r.hit = 0 => \A t \in Slots : ~Has(T, t, h))
    BY <1>4 DEF NoteTrue, Slots
  <2>2. r.hit # 0 => Choice(r) = r.hit BY DEF Choice
  <2>3. r.hit = 0 /\ r.empty # 0 => T[Choice(r)].state = "empty" BY <1>4 DEF NoteTrue, Choice
  <2>4. Recycles(r) => T[Choice(r)].state # "empty" BY <1>2, <1>4 DEF NoteTrue, Choice, Recycles
  <2>. QED BY <2>1, <2>2, <2>3, <2>4
<1>. QED BY <1>2, <1>3, <1>4

(* Before the first entry nothing is noted.                                *)
LEMMA NothingNoted ==
  ASSUME NEW T, NEW h
  PROVE  NoteTyped(T, Nothing, 0) /\ NoteTrue(T, Nothing, 0, h) /\ Nothing.hit = 0
<1>1. Nothing.hit = 0 /\ Nothing.empty = 0 /\ Nothing.stable = 0 /\ Nothing.pending = 0
      /\ Nothing.queue = 0 /\ Nothing \in Notes(0)
  BY DEF Nothing, Notes
<1>2. \A t \in 1 .. 0 : FALSE OBVIOUS
<1>. QED BY <1>1, <1>2 DEF NoteTyped, NoteTrue

-----------------------------------------------------------------------------
(* The sweep of the interrupt, in one piece.                               *)

(* A set of numbers that is not empty has a least one.                     *)
LEMMA LeastOf ==
  ASSUME NEW S, S \subseteq Nat, S # {}
  PROVE  \E m \in S : \A k \in S : m <= k
<1>1. PICK R : R = OpToRel(<, Nat) OBVIOUS
<1>2. IsWellFoundedOn(R, Nat) BY <1>1, NatLessThanWellFounded
<1>3. PICK m \in S : \A k \in S : ~(<<k, m>> \in R) BY <1>2, WFMin
<1>4. ASSUME NEW k \in S PROVE m <= k
  <2>1. k \in Nat /\ m \in Nat OBVIOUS
  <2>2. k < m => <<k, m>> \in R BY <1>1, <2>1 DEF OpToRel
  <2>. QED BY <1>3, <2>1, <2>2
<1>. QED BY <1>4

(* One entry of the sweep; f remembers what there was before each.         *)
At(T, h, f, s) ==
  IF s = 0 THEN Nothing
  ELSE IF f[s - 1].hit # 0 THEN f[s - 1] ELSE Note(f[s - 1], T[s], s, h)

(* The sweep over the first n entries is well defined, for every n.        *)
LEMMA SweepDefined ==
  ASSUME NEW T, NEW h
  PROVE  \A n \in Nat : \E f : f = [s \in 0 .. n |-> At(T, h, f, s)]
<1>. DEFINE P(n) == \E f : f = [s \in 0 .. n |-> At(T, h, f, s)]
            B == {n \in Nat : ~P(n)}
<1>. SUFFICES ASSUME B # {} PROVE FALSE OBVIOUS
<1>1. PICK m \in B : \A k \in B : m <= k BY LeastOf
<1>2. m \in Nat /\ ~P(m) OBVIOUS
<1>3. CASE m = 0
  <2>1. PICK f : f = [s \in 0 .. m |-> Nothing] OBVIOUS
  <2>2. f = [s \in 0 .. m |-> At(T, h, f, s)] BY <1>3, <2>1 DEF At
  <2>. QED BY <1>2, <2>2
<1>4. CASE m > 0
  <2>1. m - 1 \in Nat /\ m - 1 \notin B BY <1>1, <1>2, <1>4
  <2>2. PICK g : g = [s \in 0 .. m - 1 |-> At(T, h, g, s)] BY <2>1
  <2>3. PICK f : f = [s \in 0 .. m |-> IF s < m THEN g[s] ELSE At(T, h, g, m)] OBVIOUS
  <2>4. ASSUME NEW s \in 0 .. m PROVE f[s] = At(T, h, f, s)
    <3>1. ASSUME s # 0 PROVE f[s - 1] = g[s - 1]
      <4>1. s - 1 \in 0 .. m /\ s - 1 < m BY <1>2, <3>1
      <4>. QED BY <2>3, <4>1
    <3>2. At(T, h, f, s) = At(T, h, g, s) BY <3>1 DEF At
    <3>3. CASE s < m
      <4>1. s \in 0 .. m - 1 BY <1>2, <3>3
      <4>2. g[s] = At(T, h, g, s) BY <2>2, <4>1
      <4>. QED BY <2>3, <3>2, <3>3, <4>2
    <3>4. CASE s = m BY <2>3, <3>2, <3>4
    <3>. QED BY <1>2, <3>3, <3>4
  <2>5. f = [s \in 0 .. m |-> At(T, h, f, s)] BY <2>3, <2>4
  <2>. QED BY <1>2, <2>5
<1>. QED BY <1>2, <1>3, <1>4

(* What it remembers in the end is the truth about the whole table.        *)
LEMMA SweepFacts ==
  ASSUME arp_table \in [Slots -> Entries], NEW h
  PROVE  /\ NoteTyped(arp_table, Sweep(h), ARP_TABLE_SIZE)
         /\ NoteTrue(arp_table, Sweep(h), ARP_TABLE_SIZE, h)
<1>0. PICK T, N : T = arp_table /\ N = ARP_TABLE_SIZE OBVIOUS
<1>1. N \in Nat /\ T \in [Slots -> Entries] BY <1>0, EtharpAssumption
<1>2. PICK f : f = [s \in 0 .. N |-> At(T, h, f, s)] /\ Sweep(h) = f[N]
  <2>. DEFINE F == CHOOSE f : f = [s \in 0 .. N |->
                     IF s = 0 THEN Nothing
                     ELSE IF f[s - 1].hit # 0 THEN f[s - 1]
                     ELSE Note(f[s - 1], T[s], s, h)]
  <2>1. \E f : f = [s \in 0 .. N |->
                     IF s = 0 THEN Nothing
                     ELSE IF f[s - 1].hit # 0 THEN f[s - 1]
                     ELSE Note(f[s - 1], T[s], s, h)]
    <3>1. \E f : f = [s \in 0 .. N |-> At(T, h, f, s)] BY <1>1, SweepDefined
    <3>. QED BY <3>1 DEF At
  <2>2. F = [s \in 0 .. N |-> At(T, h, F, s)] BY <2>1 DEF At
  <2>3. Sweep(h) = F[N] BY <1>0 DEF Sweep
  <2>. QED BY <2>2, <2>3
<1>. DEFINE Good(s) == NoteTyped(T, f[s], s) /\ NoteTrue(T, f[s], s, h)
            B == {s \in 0 .. N : ~Good(s)}
<1>3. B = {}
  <2>. SUFFICES ASSUME B # {} PROVE FALSE OBVIOUS
  <2>1. B \subseteq Nat BY <1>1
  <2>2. PICK m \in B : \A k \in B : m <= k BY <2>1, LeastOf
  <2>3. m \in 0 .. N /\ ~Good(m) OBVIOUS
  <2>4. CASE m = 0
    <3>1. f[0] = Nothing BY <1>1, <1>2 DEF At
    <3>. QED BY <2>3, <2>4, <3>1, NothingNoted
  <2>5. CASE m # 0
    <3>1. m - 1 \in 0 .. N /\ m \in Slots BY <1>0, <1>1, <2>3, <2>5 DEF Slots
    <3>2. ~(m <= m - 1) BY <1>1, <2>3
    <3>3. Good(m - 1) BY <2>2, <3>1, <3>2
    <3>4. f[m] = At(T, h, f, m) BY <1>2, <2>3
    <3>5. CASE f[m - 1].hit = 0
      <4>1. f[m] = Note(f[m - 1], T[m], m, h) BY <2>5, <3>4, <3>5 DEF At
      <4>. QED BY <1>1, <2>3, <3>1, <3>3, <3>5, <4>1, NoteStep
    <3>6. CASE f[m - 1].hit # 0
      <4>1. PICK r : r = f[m] /\ r = f[m - 1] BY <2>5, <3>4, <3>6 DEF At
      <4>2. NoteTyped(T, r, m)
        <5>1. r \in Notes(m) BY <1>1, <3>1, <3>3, <4>1 DEF NoteTyped, Notes
        <5>. QED BY <3>3, <3>6, <4>1, <5>1 DEF NoteTyped
      <4>3. NoteTrue(T, r, m, h) BY <3>3, <3>6, <4>1 DEF NoteTrue
      <4>. QED BY <2>3, <4>1, <4>2, <4>3
    <3>. QED BY <3>5, <3>6
  <2>. QED BY <2>4, <2>5
<1>4. Good(N) BY <1>1, <1>3
<1>. QED BY <1>0, <1>2, <1>4

-----------------------------------------------------------------------------
(* Changes of one entry, and of the fate of one packet.                    *)

(* An entry is replaced by a sound one.                                    *)
LEMMA TableUpdate ==
  ASSUME NEW T, TableOK(T), NEW s \in Slots, NEW e, EntryOK(e)
  PROVE  TableOK([T EXCEPT ![s] = e])
BY DEF TableOK, EntryOK

(* Freeing and sending give a packet one of the fates.                     *)
LEMMA FateUpdate ==
  ASSUME fate \in [Packets -> Fates], NEW q \in Packets \cup {NULL}
  PROVE  Free(fate, q) \in [Packets -> Fates] /\ Sent(fate, q) \in [Packets -> Fates]
BY DEF Free, Sent, Fates

(* free_entry empties an entry and keeps its address.                      *)
LEMMA EmptiedOK ==
  ASSUME NEW e \in Entries
  PROVE  EntryOK(Emptied(e)) /\ Emptied(e).state = "empty" /\ Emptied(e).q = NULL /\ Emptied(e).ip = e.ip
BY DEF EntryOK, Entries, Emptied

Learned(n, h) == [state |-> "stable", ip |-> h, netif |-> n, mac |-> h, q |-> NULL]

(* etharp_update_arp_entry changes nothing, or one entry: host h's, whose  *)
(* packet it sends, or, when host h has none, another, whose packet is     *)
(* freed.                                                                  *)
LEMMA UpdateEffect ==
  ASSUME Typed, NEW n, NEW h, NEW tryHard \in BOOLEAN, Update(n, h, tryHard)
  PROVE  \/ /\ \A t \in Slots : ~Has(arp_table, t, h)
            /\ UNCHANGED <<arp_table, fate, missent>>
         \/ \E s \in Slots :
              /\ arp_table' = [arp_table EXCEPT ![s] = Learned(n, h)]
              /\ \/ /\ Has(arp_table, s, h)
                    /\ fate' = Sent(fate, arp_table[s].q)
                    /\ missent' = (missent \/ Wrong(arp_table[s].q, h))
                 \/ /\ \A t \in Slots : ~Has(arp_table, t, h)
                    /\ fate' = Free(fate, arp_table[s].q)
                    /\ missent' = missent
<1>1. arp_table \in [Slots -> Entries] BY DEF Typed, TableOK
<1>2. PICK r : r = Sweep(h) /\ NoteTyped(arp_table, r, ARP_TABLE_SIZE)
               /\ NoteTrue(arp_table, r, ARP_TABLE_SIZE, h)
  BY <1>1, SweepFacts
<1>3. /\ Choice(r) \in Slots /\ r.hit \in Slots \cup {0}
      /\ r.hit # 0 => Choice(r) = r.hit /\ Has(arp_table, r.hit, h)
      /\ r.hit = 0 => \A t \in Slots : ~Has(arp_table, t, h)
      /\ r.hit = 0 /\ r.empty # 0 => arp_table[Choice(r)].state = "empty"
  BY <1>1, <1>2, ChoiceFacts
<1>4. PICK s : s = IF tryHard THEN Choice(r) ELSE r.hit OBVIOUS
<1>5. CASE s = 0
  <2>1. r.hit = 0 BY <1>3, <1>4, <1>5, EtharpAssumption DEF Slots
  <2>. QED BY <1>2, <1>3, <1>4, <1>5, <2>1 DEF Update
<1>6. CASE s # 0
  <2>1. s \in Slots BY <1>3, <1>4, <1>6
  <2>2. arp_table' = [arp_table EXCEPT ![s] = Learned(n, h)] BY <1>2, <1>4, <1>6 DEF Update, Learned
  <2>3. CASE r.hit # 0
    <3>1. s = r.hit /\ ~Recycles(r) BY <1>3, <1>4, <2>3 DEF Recycles
    <3>2. fate' = Sent(fate, arp_table[s].q) /\ missent' = (missent \/ Wrong(arp_table[s].q, h))
      BY <1>2, <1>4, <1>6, <3>1 DEF Update
    <3>. QED BY <1>3, <2>1, <2>2, <2>3, <3>1, <3>2
  <2>4. CASE r.hit = 0 /\ r.empty # 0
    <3>1. s = Choice(r) /\ ~Recycles(r) BY <1>4, <1>6, <2>4 DEF Recycles
    <3>2. arp_table[s].q = NULL BY <1>3, <2>1, <2>4, <3>1 DEF Typed, TableOK, EntryOK
    <3>3. fate' = Sent(fate, NULL) /\ missent' = (missent \/ Wrong(NULL, h))
      BY <1>2, <1>4, <1>6, <3>1, <3>2 DEF Update
    <3>4. fate' = Free(fate, NULL) /\ missent' = missent BY <3>3 DEF Sent, Free, Wrong, Typed
    <3>. QED BY <1>3, <2>1, <2>2, <2>4, <3>2, <3>4
  <2>5. CASE Recycles(r)
    <3>1. fate' = Free(fate, arp_table[s].q) /\ missent' = (missent \/ Wrong(NULL, h))
      BY <1>2, <1>4, <1>6, <2>5 DEF Update
    <3>2. missent' = missent BY <3>1 DEF Wrong, Typed
    <3>3. r.hit = 0 BY <2>5 DEF Recycles
    <3>. QED BY <1>3, <2>1, <2>2, <3>1, <3>2, <3>3
  <2>. QED BY <2>3, <2>4, <2>5 DEF Recycles
<1>. QED BY <1>5, <1>6

Waiting(e, p, h) == [e EXCEPT !.state = "pending", !.ip = h, !.q = p]

(* A reply goes out, or is queued on the one entry its host has, which is  *)
(* pending, or on one made for it; or it is dropped, and such an entry is  *)
(* made all the same.                                                      *)
LEMMA ReplyEffect ==
  ASSUME Typed, NEW p \in Packets, NEW h \in Hosts, Reply(p, h)
  PROVE  \/ \E t \in Stable(h) : /\ fate' = [fate EXCEPT ![p] = "sent"]
                                 /\ missent' = (missent \/ h # arp_table[t].mac)
                                 /\ UNCHANGED arp_table
         \/ /\ Stable(h) = {}
            /\ \E s \in Slots :
                 /\ arp_table' = [arp_table EXCEPT ![s] = Waiting(arp_table[s], p, h)]
                 /\ fate' = [Free(fate, arp_table[s].q) EXCEPT ![p] = "queued"]
                 /\ Has(arp_table, s, h) \/ \A t \in Slots : ~Has(arp_table, t, h)
                 /\ UNCHANGED missent
         \/ /\ fate' = [fate EXCEPT ![p] = "dropped"]
            /\ UNCHANGED <<arp_table, missent>>
         \/ /\ Stable(h) = {}
            /\ \E s \in Slots :
                 /\ arp_table' = [arp_table EXCEPT ![s] = Waiting(arp_table[s], NULL, h)]
                 /\ fate' = [Free(fate, arp_table[s].q) EXCEPT ![p] = "dropped"]
                 /\ \A t \in Slots : ~Has(arp_table, t, h)
                 /\ UNCHANGED missent
<1>1. arp_table \in [Slots -> Entries] BY DEF Typed, TableOK
<1>2. PICK r : r = Sweep(h) /\ NoteTyped(arp_table, r, ARP_TABLE_SIZE)
               /\ NoteTrue(arp_table, r, ARP_TABLE_SIZE, h)
  BY <1>1, SweepFacts
<1>3. /\ Choice(r) \in Slots
      /\ r.hit # 0 => Choice(r) = r.hit /\ Has(arp_table, r.hit, h)
      /\ r.hit = 0 => \A t \in Slots : ~Has(arp_table, t, h)
  BY <1>1, <1>2, ChoiceFacts
<1>4. r.hit = 0 /\ r.empty # 0 => arp_table[Choice(r)].state = "empty" BY <1>1, <1>2, ChoiceFacts
<1>5. PICK s \in Slots : s = Choice(r) BY <1>3
<1>6. CASE \E t \in Stable(h) : /\ fate' = [fate EXCEPT ![p] = "sent"]
                                /\ missent' = (missent \/ h # arp_table[t].mac)
                                /\ UNCHANGED arp_table
  BY <1>6
<1>7. CASE /\ Stable(h) = {} /\ UNCHANGED missent
           /\ arp_table' = [arp_table EXCEPT ![s] = Waiting(arp_table[s], p, h)]
           /\ fate' = [Free(fate, arp_table[s].q) EXCEPT ![p] = "queued"]
  BY <1>3, <1>5, <1>7
<1>8. CASE /\ Stable(h) = {} /\ UNCHANGED missent
           /\ arp_table' = [arp_table EXCEPT
                ![s] = Waiting(arp_table[s], IF Recycles(r) THEN NULL ELSE arp_table[s].q, h)]
           /\ fate' = [IF Recycles(r) THEN Free(fate, arp_table[s].q) ELSE fate EXCEPT ![p] = "dropped"]
  <2>1. CASE r.hit # 0
    <3>1. ~Recycles(r) /\ Has(arp_table, s, h) BY <1>3, <1>5, <2>1 DEF Recycles
    <3>2. arp_table[s].state = "pending" /\ arp_table[s].ip = h
      BY <1>1, <1>8, <3>1 DEF Stable, Has, Entries
    <3>3. Waiting(arp_table[s], arp_table[s].q, h) = arp_table[s] BY <1>1, <3>2 DEF Waiting, Entries
    <3>4. arp_table' = [arp_table EXCEPT ![s] = arp_table[s]] BY <1>8, <3>1, <3>3
    <3>5. arp_table' = arp_table BY <1>1, <3>4
    <3>. QED BY <1>8, <3>1, <3>5
  <2>2. CASE r.hit = 0 /\ r.empty # 0
    <3>1. arp_table[s].q = NULL /\ ~Recycles(r)
      BY <1>4, <1>5, <2>2 DEF Typed, TableOK, EntryOK, Recycles
    <3>2. Free(fate, arp_table[s].q) = fate BY <3>1 DEF Free
    <3>. QED BY <1>3, <1>8, <2>2, <3>1, <3>2
  <2>3. CASE Recycles(r) BY <1>3, <1>8, <2>3 DEF Recycles
  <2>. QED BY <2>1, <2>2, <2>3 DEF Recycles
<1>. QED BY <1>2, <1>5, <1>6, <1>7, <1>8 DEF Reply, Waiting

-----------------------------------------------------------------------------
(* Types are kept, with interrupts anywhere.                               *)

(* The table has entries, and 0 and NULL are none of the names.            *)
LEMMA NumberFacts ==
  /\ ARP_TABLE_SIZE \in Nat /\ ARP_TABLE_SIZE > 0
  /\ Slots = 1 .. ARP_TABLE_SIZE /\ 0 \notin Slots
  /\ 0 \notin Hosts /\ Hosts \subseteq Nat
  /\ NULL \notin Packets /\ NULL \notin Nat
BY EtharpAssumption DEF Slots, Hosts, Packets

(* An interrupt leaves the entries in use, and what the main loop knows.   *)
LEMMA InterruptTyped ==
  ASSUME Typed, CallTyped, UNCHANGED main, TableOK(arp_table'),
         \A s \in Slots : arp_table[s].state # "empty" => arp_table'[s].state # "empty",
         \A s \in Slots : arp_table[s].ip # 0 => arp_table'[s].ip # 0
  PROVE  CallTyped'
<1>1. ASSUME pc = "find" PROVE NoteTyped(arp_table', found, i - 1)
  <2>1. i \in 1 .. ARP_TABLE_SIZE + 1 /\ NoteTyped(arp_table, found, i - 1)
    BY <1>1, NumberFacts DEF Typed, CallTyped
  <2>2. found.hit # 0 => found.hit \in Slots BY <2>1, NumberFacts DEF NoteTyped, Notes
  <2>. QED BY <2>1, <2>2 DEF NoteTyped
<1>. QED BY <1>1 DEF CallTyped, main

(* Every step keeps the types of the table and of the call under way.      *)
LEMMA TypedStep ==
  ASSUME Typed, CallTyped, [Next]_vars
  PROVE  Typed' /\ CallTyped'
<1>. USE NumberFacts
<1>a. arp_table \in [Slots -> Entries] /\ \A s \in Slots : EntryOK(arp_table[s]) BY DEF Typed, TableOK
<1>b. Idle \in Calls /\ Idle.pkt = NULL /\ Idle.host = 0 BY DEF Idle, Calls
<1>1. ASSUME NEW p \in Packets, NEW n \in Netifs, NEW h \in Hosts, Send(p, n, h)
      PROVE  Typed' /\ CallTyped'
  <2>1. cur' \in Calls /\ cur'.op = "send" /\ cur'.host = h /\ cur'.pkt = p
    BY <1>1, <1>b DEF Send, Calls, Idle
  <2>. QED BY <1>1, <2>1 DEF Send, NewPacket, Typed, CallTyped, InCall, Fates, net, scan
<1>2. ASSUME Lookup PROVE Typed' /\ CallTyped'
  <2>1. CASE Stable(cur.host) # {} BY <1>2, <2>1 DEF Lookup, Typed, CallTyped, InCall, Stable, net, scan
  <2>2. CASE Stable(cur.host) = {}
    <3>1. NoteTyped(arp_table, Nothing, 0) BY NothingNoted
    <3>2. found' = Nothing /\ i' = 1 /\ i' - 1 = 0 /\ arp_table' = arp_table
      BY <1>2, <2>2 DEF Lookup, CallTyped
    <3>. QED BY <1>2, <2>2, <3>1, <3>2 DEF Lookup, Typed, CallTyped, InCall, net, scan
  <2>. QED BY <2>1, <2>2
<1>3. ASSUME Find PROVE Typed' /\ CallTyped'
  <2>1. i \in Slots /\ NoteTyped(arp_table, found, i - 1) /\ found.hit = 0 BY <1>3 DEF Find, CallTyped
  <2>2. NoteTyped(arp_table, found', i) BY <1>3, <1>a, <2>1, NoteStep DEF Find
  <2>3. i' \in 0 .. ARP_TABLE_SIZE + 1 /\ i' # 0 /\ i' - 1 = i BY <1>3, <2>1 DEF Find
  <2>. QED BY <1>3, <2>2, <2>3 DEF Find, Typed, CallTyped, InCall, net, scan
<1>4. ASSUME Select PROVE Typed' /\ CallTyped'
  <2>1. slot' \in Slots /\ (found.hit # 0 => arp_table[slot'].state # "empty")
    <3>1. NoteTyped(arp_table, found, i - 1) /\ i \in 1 .. ARP_TABLE_SIZE + 1
      BY <1>4 DEF Select, Typed, CallTyped
    <3>2. CASE found.hit # 0
      <4>1. slot' = found.hit BY <1>4, <3>2 DEF Select, Choice
      <4>2. found.hit \in Slots BY <3>1, <3>2 DEF NoteTyped, Notes
      <4>. QED BY <3>1, <3>2, <4>1, <4>2 DEF NoteTyped
    <3>3. CASE found.hit = 0
      <4>1. i - 1 = ARP_TABLE_SIZE BY <1>4, <3>1, <3>3 DEF Select
      <4>2. Choice(found) \in Slots BY <1>a, <3>1, <4>1, ChoiceFacts
      <4>. QED BY <1>4, <3>3, <4>2 DEF Select
    <3>. QED BY <3>2, <3>3
  <2>2. TableOK(arp_table') /\ fate' \in [Packets -> Fates]
    <3>1. CASE Recycles(found)
      <4>1. arp_table[slot'] \in Entries /\ arp_table[slot'].q \in Packets \cup {NULL}
        BY <1>a, <2>1 DEF Entries
      <4>2. arp_table' = [arp_table EXCEPT ![slot'] = Emptied(arp_table[slot'])]
            /\ fate' = Free(fate, arp_table[slot'].q)
        BY <1>4, <3>1 DEF Select
      <4>. QED BY <2>1, <4>1, <4>2, EmptiedOK, TableUpdate, FateUpdate DEF Typed
    <3>2. CASE ~Recycles(found) BY <1>4, <3>2 DEF Select, Typed
    <3>. QED BY <3>1, <3>2
  <2>3. found.hit # 0 => arp_table'[slot'].ip # 0
    <3>1. found.hit # 0 => ~Recycles(found) BY DEF Recycles
    <3>. QED BY <1>4, <1>a, <2>1, <3>1 DEF Select, EntryOK
  <2>. QED BY <1>4, <2>1, <2>2, <2>3 DEF Select, Typed, CallTyped, InCall, net, scan
<1>5. ASSUME SetIp PROVE Typed' /\ CallTyped'
  <2>1. slot \in Slots /\ cur.host \in Hosts BY <1>5 DEF SetIp, CallTyped, InCall
  <2>2. PICK e : e = [arp_table[slot] EXCEPT !.ip = cur.host] OBVIOUS
  <2>3. EntryOK(e) BY <1>a, <2>1, <2>2, SMTT(30) DEF EntryOK, Entries
  <2>4. arp_table' = [arp_table EXCEPT ![slot] = e] BY <1>5, <2>2 DEF SetIp
  <2>5. TableOK(arp_table') BY <2>1, <2>3, <2>4, TableUpdate DEF Typed
  <2>6. arp_table'[slot].ip # 0 BY <1>a, <2>1, <2>2, <2>4 DEF Entries
  <2>. QED BY <1>5, <2>1, <2>5, <2>6 DEF SetIp, Typed, CallTyped, InCall, net, scan
<1>6. ASSUME Mark PROVE Typed' /\ CallTyped'
  <2>1. slot \in Slots /\ arp_table[slot].ip # 0 BY <1>6 DEF Mark, CallTyped
  <2>2. PICK e : e = [arp_table[slot] EXCEPT !.state = Marked(arp_table[slot].state)] OBVIOUS
  <2>3. EntryOK(e) BY <1>a, <2>1, <2>2, SMTT(30) DEF EntryOK, Entries, Marked
  <2>4. arp_table' = [arp_table EXCEPT ![slot] = e] BY <1>6, <2>2 DEF Mark
  <2>5. TableOK(arp_table') BY <2>1, <2>3, <2>4, TableUpdate DEF Typed
  <2>. QED BY <1>6, <2>1, <2>5 DEF Mark, Typed, CallTyped, InCall, Calls, net, scan
<1>7. ASSUME Return, UNCHANGED <<arp_table, i, found, dest, up, reported, answered, quiet, raced>>,
             fate' \in [Packets -> Fates], missent' \in BOOLEAN, found = Nothing
      PROVE  Typed' /\ CallTyped'
  BY <1>7, <1>b DEF Return, Typed, CallTyped, InCall
<1>8. ASSUME Deliver PROVE Typed' /\ CallTyped'
  <2>1. cur.pkt \in Packets /\ found = Nothing BY <1>8 DEF Deliver, CallTyped
  <2>2. fate' \in [Packets -> Fates] BY <1>8, <2>1, FateUpdate DEF Deliver, Typed
  <2>3. missent' \in BOOLEAN BY <1>8 DEF Deliver, Typed
  <2>. QED BY <1>7, <1>8, <2>1, <2>2, <2>3 DEF Deliver, net, scan
<1>9. ASSUME NoMemory PROVE Typed' /\ CallTyped'
  <2>1. cur.pkt \in Packets /\ found = Nothing BY <1>9 DEF NoMemory, CallTyped
  <2>2. fate' \in [Packets -> Fates] BY <1>9, <2>1, FateUpdate DEF NoMemory, Typed
  <2>. QED BY <1>7, <1>9, <2>1, <2>2 DEF NoMemory, net, scan, Typed
<1>10. ASSUME Copy PROVE Typed' /\ CallTyped'
  BY <1>10 DEF Copy, Typed, CallTyped, InCall, net, scan
<1>11. ASSUME Drop PROVE Typed' /\ CallTyped'
  <2>1. slot \in Slots /\ arp_table[slot].q \in Packets \cup {NULL} BY <1>11, <1>a DEF Drop, CallTyped, Entries
  <2>2. fate' \in [Packets -> Fates] BY <1>11, <2>1, FateUpdate DEF Drop, Replaced, Typed
  <2>. QED BY <1>11, <2>2 DEF Drop, Typed, CallTyped, InCall, net, scan
<1>12. ASSUME Store PROVE Typed' /\ CallTyped'
  <2>1. slot \in Slots /\ cur.pkt \in Packets /\ arp_table[slot].state # "empty" /\ found = Nothing
    BY <1>12 DEF Store, CallTyped
  <2>2. PICK e : e = [arp_table[slot] EXCEPT !.q = cur.pkt] OBVIOUS
  <2>3. EntryOK(e) BY <1>a, <2>1, <2>2, SMTT(30) DEF EntryOK, Entries
  <2>4. arp_table' = [arp_table EXCEPT ![slot] = e] BY <1>12, <2>2 DEF Store
  <2>5. TableOK(arp_table') BY <2>1, <2>3, <2>4, TableUpdate DEF Typed
  <2>6. fate' \in [Packets -> Fates] BY <1>12, <2>1 DEF Store, Typed, Fates
  <2>. QED BY <1>12, <1>b, <2>1, <2>5, <2>6 DEF Store, Return, Typed, CallTyped, InCall, net, scan
<1>13. ASSUME Clean PROVE Typed' /\ CallTyped'
  <2>1. i \in Slots /\ i' \in 0 .. ARP_TABLE_SIZE + 1 /\ i' # 0 BY <1>13 DEF Clean
  <2>2. TableOK(arp_table') /\ fate' \in [Packets -> Fates]
    <3>1. CASE Cleaned(arp_table[i])
      <4>1. arp_table[i] \in Entries /\ arp_table[i].q \in Packets \cup {NULL} BY <1>a, <2>1 DEF Entries
      <4>2. arp_table' = [arp_table EXCEPT ![i] = Emptied(arp_table[i])]
            /\ fate' = Free(fate, arp_table[i].q)
        BY <1>13, <3>1 DEF Clean
      <4>. QED BY <2>1, <4>1, <4>2, EmptiedOK, TableUpdate, FateUpdate DEF Typed
    <3>2. CASE ~Cleaned(arp_table[i]) BY <1>13, <3>2 DEF Clean, Typed
    <3>. QED BY <3>1, <3>2
  <2>. QED BY <1>13, <2>1, <2>2 DEF Clean, Typed, CallTyped, InCall, net, scan
<1>14. ASSUME NEW n \in Netifs, NEW left \in SUBSET Netifs, CleanNetif(n, left), found = Nothing
       PROVE  Typed' /\ CallTyped'
  <2>1. cur' \in Calls /\ cur'.op = "reset" BY <1>14 DEF CleanNetif, Idle, Calls
  <2>. QED BY <1>14, <2>1 DEF CleanNetif, Typed, CallTyped, InCall, net, scan
<1>15. ASSUME NEW n \in Netifs, Reset(n) PROVE Typed' /\ CallTyped'
  BY <1>14, <1>15 DEF Reset, CallTyped
<1>16. ASSUME NEW n \in Netifs, ResetNext(n) PROVE Typed' /\ CallTyped'
  <2>1. Left \in SUBSET Netifs BY DEF Left, Typed, Calls
  <2>. QED BY <1>14, <1>16, <2>1 DEF ResetNext, CallTyped
<1>17. ASSUME ResetDone PROVE Typed' /\ CallTyped'
  BY <1>17, <1>b DEF ResetDone, Return, Typed, CallTyped, InCall, net, scan
<1>18. ASSUME NEW n \in Netifs \cup {NULL}, NEW h \in Nat, h >= 1, h # Own, Query(n, h), found = Nothing,
              UNCHANGED <<arp_table, found, slot, dest, fate, up, answered, quiet, missent, raced>>,
              reported' \subseteq Hosts
       PROVE  Typed' /\ CallTyped'
  <2>1. CASE h > LastHost BY <1>18, <1>b, <2>1 DEF Query, Typed, CallTyped, InCall
  <2>2. CASE ~(h > LastHost)
    <3>1. h \in Hosts BY <1>18, <2>2, EtharpAssumption DEF Hosts
    <3>2. cur' \in Calls /\ cur'.op = "scan" /\ cur'.host = h BY <1>18, <2>2, <3>1 DEF Query, Idle, Calls
    <3>3. NoteTyped(arp_table, Nothing, 0) BY NothingNoted
    <3>4. i' = 1 /\ i' - 1 = 0 /\ pc' = "find" BY <1>18, <2>2 DEF Query
    <3>. QED BY <1>18, <3>1, <3>2, <3>3, <3>4 DEF Typed, CallTyped, InCall
  <2>. QED BY <2>1, <2>2
<1>c. \A h \in Nat : Target(h) \in Nat /\ Target(h) >= h /\ Target(h) # Own BY EtharpAssumption DEF Target
<1>19. ASSUME NEW n \in Netifs, Scan(n) PROVE Typed' /\ CallTyped'
  <2>1. Target(1) \in Nat /\ Target(1) >= 1 /\ Target(1) # Own BY <1>c
  <2>2. Query(n, Target(1)) /\ found = Nothing BY <1>19 DEF Scan, CallTyped
  <2>. QED BY <1>18, <1>19, <2>1, <2>2 DEF Scan, net
<1>20. ASSUME Report PROVE Typed' /\ CallTyped'
  <2>1. cur.host \in Hosts /\ found = Nothing BY <1>20 DEF Report, CallTyped, InCall
  <2>2. reported' \subseteq Hosts BY <1>20, <2>1 DEF Report, Typed
  <2>3. i' \in 0 .. ARP_TABLE_SIZE + 1 /\ i' # 0 BY <1>20 DEF Report
  <2>. QED BY <1>20, <2>1, <2>2, <2>3 DEF Report, Typed, CallTyped, InCall, net
<1>21. ASSUME ScanNext PROVE Typed' /\ CallTyped'
  <2>1. cur.host \in Nat /\ cur.netif \in Netifs \cup {NULL} /\ found = Nothing
    BY <1>21 DEF ScanNext, CallTyped, Typed, Calls
  <2>2. PICK h \in Nat : h = Target(cur.host + 1) /\ h >= 1 /\ h # Own
    <3>1. cur.host + 1 \in Nat /\ cur.host + 1 >= 1 BY <2>1
    <3>2. Target(cur.host + 1) \in Nat /\ Target(cur.host + 1) # Own
          /\ Target(cur.host + 1) >= cur.host + 1
      BY <1>c, <3>1
    <3>. HIDE DEF Target
    <3>. QED BY <3>1, <3>2
  <2>3. Query(cur.netif, h) BY <1>21, <2>2 DEF ScanNext
  <2>4. UNCHANGED <<arp_table, found, slot, dest, fate, up, answered, quiet, missent, raced>>
        /\ reported' \subseteq Hosts
    BY <1>21 DEF ScanNext, net, scan, Typed
  <2>. QED BY <1>18, <2>1, <2>2, <2>3, <2>4
<1>22. ASSUME NEW n \in Netifs, NEW h \in Hosts, NEW forUs \in BOOLEAN, ArpInput(n, h, forUs)
       PROVE  Typed' /\ CallTyped'
  <2>1. Update(n, h, forUs) /\ UNCHANGED main BY <1>22 DEF ArpInput
  <2>2. /\ TableOK(arp_table') /\ fate' \in [Packets -> Fates] /\ missent' \in BOOLEAN
        /\ \A s \in Slots : arp_table[s].state # "empty" => arp_table'[s].state # "empty"
        /\ \A s \in Slots : arp_table[s].ip # 0 => arp_table'[s].ip # 0
    <3>1. CASE UNCHANGED <<arp_table, fate, missent>> BY <3>1 DEF Typed
    <3>2. ASSUME NEW s \in Slots, arp_table' = [arp_table EXCEPT ![s] = Learned(n, h)],
                 fate' \in {Sent(fate, arp_table[s].q), Free(fate, arp_table[s].q)},
                 missent' \in BOOLEAN
          PROVE  /\ TableOK(arp_table') /\ fate' \in [Packets -> Fates]
                 /\ \A t \in Slots : arp_table[t].state # "empty" => arp_table'[t].state # "empty"
                 /\ \A t \in Slots : arp_table[t].ip # 0 => arp_table'[t].ip # 0
      <4>1. EntryOK(Learned(n, h)) BY DEF EntryOK, Entries, Learned
      <4>2. TableOK(arp_table') BY <3>2, <4>1, TableUpdate DEF Typed
      <4>3. arp_table[s].q \in Packets \cup {NULL} BY <1>a DEF Entries
      <4>4. fate' \in [Packets -> Fates] BY <3>2, <4>3, FateUpdate DEF Typed
      <4>5. ASSUME NEW t \in Slots
            PROVE  /\ arp_table[t].state # "empty" => arp_table'[t].state # "empty"
                   /\ arp_table[t].ip # 0 => arp_table'[t].ip # 0
        BY <1>a, <3>2 DEF Learned
      <4>. QED BY <4>2, <4>4, <4>5
    <3>3. missent' \in BOOLEAN BY <2>1 DEF Update, Typed
    <3>. QED BY <2>1, <3>1, <3>2, <3>3, UpdateEffect
  <2>3. CallTyped' BY <2>1, <2>2, InterruptTyped
  <2>4. quiet' \in BOOLEAN /\ raced' \in BOOLEAN /\ answered' \in BOOLEAN
    BY <1>22 DEF ArpInput, Noticed, Typed
  <2>. QED BY <1>22, <2>2, <2>3, <2>4 DEF ArpInput, Typed, main
<1>23. ASSUME NEW p \in Packets, NEW h \in Hosts, Reply(p, h) PROVE Typed' /\ CallTyped'
  <2>1. UNCHANGED main /\ dest' = [dest EXCEPT ![p] = h] BY <1>23 DEF Reply, NewPacket
  <2>2. /\ TableOK(arp_table') /\ fate' \in [Packets -> Fates] /\ missent' \in BOOLEAN
        /\ \A s \in Slots : arp_table[s].state # "empty" => arp_table'[s].state # "empty"
        /\ \A s \in Slots : arp_table[s].ip # 0 => arp_table'[s].ip # 0
    <3>1. ASSUME NEW t \in Stable(h), fate' = [fate EXCEPT ![p] = "sent"],
                 missent' = (missent \/ h # arp_table[t].mac), UNCHANGED arp_table
          PROVE  TableOK(arp_table') /\ fate' \in [Packets -> Fates] /\ missent' \in BOOLEAN
      BY <3>1 DEF Typed, Fates
    <3>2. ASSUME NEW s \in Slots, UNCHANGED missent, NEW q \in {p, NULL},
                 arp_table' = [arp_table EXCEPT ![s] = Waiting(arp_table[s], q, h)],
                 NEW x \in Fates, fate' = [Free(fate, arp_table[s].q) EXCEPT ![p] = x]
          PROVE  /\ TableOK(arp_table') /\ fate' \in [Packets -> Fates] /\ missent' \in BOOLEAN
                 /\ \A t \in Slots : arp_table[t].state # "empty" => arp_table'[t].state # "empty"
                 /\ \A t \in Slots : arp_table[t].ip # 0 => arp_table'[t].ip # 0
      <4>1. EntryOK(Waiting(arp_table[s], q, h)) BY <1>a, ZenonT(30) DEF EntryOK, Entries, Waiting
      <4>2. TableOK(arp_table') BY <3>2, <4>1, TableUpdate DEF Typed
      <4>3. arp_table[s].q \in Packets \cup {NULL} BY <1>a DEF Entries
      <4>4. fate' \in [Packets -> Fates] BY <3>2, <4>3, FateUpdate DEF Typed, Fates
      <4>5. ASSUME NEW t \in Slots
            PROVE  /\ arp_table[t].state # "empty" => arp_table'[t].state # "empty"
                   /\ arp_table[t].ip # 0 => arp_table'[t].ip # 0
        BY <1>a, <3>2 DEF Waiting, Entries
      <4>. QED BY <3>2, <4>2, <4>4, <4>5 DEF Typed
    <3>3. ASSUME fate' = [fate EXCEPT ![p] = "dropped"], UNCHANGED <<arp_table, missent>>
          PROVE  TableOK(arp_table') /\ fate' \in [Packets -> Fates] /\ missent' \in BOOLEAN
      BY <3>3 DEF Typed, Fates
    <3>4. "queued" \in Fates /\ "dropped" \in Fates BY DEF Fates
    <3>. QED BY <1>23, <3>1, <3>2, <3>3, <3>4, ReplyEffect
  <2>3. CallTyped' BY <2>1, <2>2, InterruptTyped
  <2>4. quiet' \in BOOLEAN /\ raced' \in BOOLEAN BY <1>23 DEF Reply, Noticed, Typed
  <2>. QED BY <1>23, <2>1, <2>2, <2>3, <2>4 DEF Reply, Typed, main, net
<1>24. ASSUME NEW h \in Hosts, HostDown(h) PROVE Typed' /\ CallTyped'
  BY <1>24 DEF HostDown, Typed, CallTyped, InCall, main, scan
<1>25. ASSUME UNCHANGED vars PROVE Typed' /\ CallTyped'
  BY <1>25 DEF vars, Typed, CallTyped, InCall, main, scan, net
<1>. QED BY <1>1, <1>2, <1>3, <1>4, <1>5, <1>6, <1>8, <1>9, <1>10, <1>11, <1>12, <1>13, <1>15,
         <1>16, <1>17, <1>19, <1>20, <1>21, <1>22, <1>23, <1>24, <1>25 DEF Next

-----------------------------------------------------------------------------
(* What the packets of a table need, when one of them changes.             *)

(* A packet that is on no entry may change its fate.                       *)
LEMMA OtherFate ==
  ASSUME NEW T \in [Slots -> Entries], NEW f \in [Packets -> Fates], NEW d, NEW X,
         Kept(T, f, d, X), NEW p \in Packets, f[p] \notin {"queued", "dropped"},
         NEW x, x # "queued"
  PROVE  Kept(T, [f EXCEPT ![p] = x], d, X)
<1>1. \A s \in Slots : T[s].q # NULL => T[s].q \in Packets /\ T[s].q # p BY DEF Kept, Entries
<1>. QED BY <1>1 DEF Kept

(* A packet that is on no entry may be given a destination.                *)
LEMMA OtherDest ==
  ASSUME NEW T \in [Slots -> Entries], NEW f \in [Packets -> Fates],
         NEW d \in [Packets -> Hosts \cup {0}], NEW X,
         Kept(T, f, d, X), NEW p \in Packets, f[p] \notin {"queued", "dropped"}, NEW h
  PROVE  Kept(T, f, [d EXCEPT ![p] = h], X)
<1>1. \A s \in Slots : T[s].q # NULL => T[s].q \in Packets /\ T[s].q # p BY DEF Kept, Entries
<1>. QED BY <1>1 DEF Kept

(* The packet of one entry is freed or sent.                               *)
Gone(f, q, x) == IF q = NULL THEN f ELSE [f EXCEPT ![q] = x]

(* An entry gives up its packet, which is then no longer queued.           *)
LEMMA Detach ==
  ASSUME NEW T \in [Slots -> Entries], NEW f \in [Packets -> Fates], NEW d,
         Kept(T, f, d, {}), NEW s \in Slots, NEW e, e.q = NULL, NEW x, x # "queued",
         NEW U, U = [T EXCEPT ![s] = e], NEW g, g = Gone(f, T[s].q, x)
  PROVE  Kept(U, g, d, {})
<1>0. g = IF T[s].q = NULL THEN f ELSE [f EXCEPT ![T[s].q] = x] BY DEF Gone
<1>1. U = [T EXCEPT ![s] = e] OBVIOUS
<1>2. U[s].q = NULL /\ \A t \in Slots : t # s => U[t] = T[t] BY <1>1
<1>4. \A t \in Slots : T[t].q # NULL => T[t].q \in Packets BY DEF Entries
<1>5. ASSUME NEW t \in Slots, U[t].q # NULL
      PROVE  /\ t # s /\ U[t] = T[t] /\ U[t].q # T[s].q
             /\ f[U[t].q] = "queued" /\ g[U[t].q] = "queued"
             /\ U[t].state = "pending" /\ U[t].ip = d[U[t].q]
             /\ \A v \in Slots : U[v].q = U[t].q => v = t
  <2>1. t # s /\ U[t] = T[t] BY <1>2, <1>5
  <2>2. f[T[t].q] = "queued" /\ T[t].state = "pending" /\ T[t].ip = d[T[t].q]
        /\ \A v \in Slots : T[v].q = T[t].q => v = t
    BY <1>5, <2>1 DEF Kept
  <2>3. T[t].q # T[s].q BY <2>1, <2>2
  <2>4. g[T[t].q] = f[T[t].q] BY <1>0, <1>4, <1>5, <2>1, <2>3
  <2>. QED BY <1>2, <1>5, <2>1, <2>2, <2>3, <2>4
<1>6. ASSUME NEW p \in Packets, g[p] = "queued" PROVE \E t \in Slots : U[t].q = p
  <2>1. f[p] = "queued" /\ p # T[s].q
    <3>1. CASE T[s].q = NULL BY <1>0, <1>6, <3>1, NumberFacts
    <3>2. CASE T[s].q # NULL BY <1>0, <1>4, <1>6, <3>2
    <3>. QED BY <3>1, <3>2
  <2>2. PICK t \in Slots : T[t].q = p BY <2>1 DEF Kept
  <2>. QED BY <1>2, <2>1, <2>2
<1>7. Kept(U, g, d, {}) BY <1>5, <1>6 DEF Kept
<1>. QED BY <1>7

(* Giving up a packet leaves the fate of the others.                       *)
LEMMA DetachFates ==
  ASSUME NEW T \in [Slots -> Entries], NEW f \in [Packets -> Fates], NEW d,
         Kept(T, f, d, {}), NEW s \in Slots, NEW x, NEW g, g = Gone(f, T[s].q, x),
         NEW p \in Packets, f[p] # "queued"
  PROVE  g[p] = f[p]
BY DEF Kept, Gone

(* A packet that is nowhere is queued.                                     *)
Attachable(T, f, d, X, s, p, e) ==
  /\ X \subseteq {s} /\ (T[s].q # NULL => s \in X)
  /\ f[p] \notin {"queued", "dropped"}
  /\ e.q = p /\ e.state = "pending" /\ e.ip = d[p]

(* A packet is queued on an entry for its destination.                     *)
LEMMA Attach ==
  ASSUME NEW T \in [Slots -> Entries], NEW f \in [Packets -> Fates], NEW d, NEW s \in Slots,
         NEW X, Kept(T, f, d, X), NEW p \in Packets, NEW e, Attachable(T, f, d, X, s, p, e),
         NEW U, U = [T EXCEPT ![s] = e], NEW g, g = [f EXCEPT ![p] = "queued"]
  PROVE  Kept(U, g, d, {})
<1>. USE DEF Attachable
<1>1. U = [T EXCEPT ![s] = e] /\ g = [f EXCEPT ![p] = "queued"] OBVIOUS
<1>2. U[s] = e /\ \A t \in Slots : t # s => U[t] = T[t] BY <1>1
<1>3. \A t \in Slots : T[t].q # NULL => T[t].q \in Packets /\ T[t].q # p BY DEF Kept, Entries
<1>4. g[p] = "queued" /\ \A o \in Packets : o # p => g[o] = f[o] BY <1>1
<1>5. ASSUME NEW t \in Slots, t # s, U[t].q # NULL
      PROVE  /\ g[U[t].q] = "queued" /\ U[t].state = "pending" /\ U[t].ip = d[U[t].q]
             /\ \A v \in Slots : U[v].q = U[t].q => v = t
  <2>1. U[t] = T[t] BY <1>2, <1>5
  <2>2. t \notin X BY <1>5
  <2>3. f[T[t].q] = "queued" /\ T[t].state = "pending" /\ T[t].ip = d[T[t].q]
        /\ \A v \in Slots : T[v].q = T[t].q => v = t
    BY <1>5, <2>1, <2>2 DEF Kept
  <2>. QED BY <1>2, <1>3, <1>4, <1>5, <2>1, <2>3
<1>6. \A v \in Slots : U[v].q = p => v = s BY <1>2, <1>3, NumberFacts
<1>7. ASSUME NEW o \in Packets, g[o] = "queued" PROVE \E t \in Slots : U[t].q = o
  <2>1. CASE o = p BY <1>2, <2>1
  <2>2. CASE o # p
    <3>1. f[o] = "queued" BY <1>4, <1>7, <2>2
    <3>2. PICK t \in Slots \ X : T[t].q = o BY <3>1 DEF Kept
    <3>3. t # s BY <3>2, NumberFacts
    <3>. QED BY <1>2, <3>2, <3>3
  <2>. QED BY <2>1, <2>2
<1>8. Kept(U, g, d, {}) BY <1>2, <1>4, <1>5, <1>6, <1>7 DEF Kept
<1>. QED BY <1>1, <1>8

-----------------------------------------------------------------------------
(* An interrupt inside a call that is not noticed changed nothing but the  *)
(* fate of a packet of its own.                                            *)
LEMMA ArpInside ==
  ASSUME IInv, ~raced', Inside, NEW n, NEW h, NEW forUs \in BOOLEAN, ArpInput(n, h, forUs)
  PROVE  UNCHANGED <<arp_table, fate, missent>>
<1>1. ~raced /\ arp_table' = arp_table /\ Update(n, h, forUs) BY DEF ArpInput, Noticed, IInv, Typed
<1>2. arp_table \in [Slots -> Entries] /\ Typed BY DEF IInv, Typed, TableOK
<1>3. ASSUME NEW s \in Slots, arp_table' = [arp_table EXCEPT ![s] = Learned(n, h)]
      PROVE  arp_table[s].q = NULL
  BY <1>1, <1>2, <1>3 DEF Learned
<1>4. \A q : q = NULL => Sent(fate, q) = fate /\ Free(fate, q) = fate /\ Wrong(q, h) = FALSE
  BY DEF Sent, Free, Wrong
<1>5. missent \in BOOLEAN BY DEF IInv, Typed
<1>. QED BY <1>1, <1>2, <1>3, <1>4, <1>5, UpdateEffect

(* An answer sent from the interrupt during a call uses a stable entry, or *)
(* is dropped for want of memory.                                          *)
LEMMA ReplyInside ==
  ASSUME IInv, ~raced', Inside, NEW p \in Packets, NEW h \in Hosts, Reply(p, h)
  PROVE  /\ UNCHANGED arp_table
         /\ \E x \in {"sent", "dropped"} : fate' = [fate EXCEPT ![p] = x]
<1>1. ~raced /\ arp_table' = arp_table /\ fate[p] = "none"
  BY DEF Reply, Noticed, NewPacket, IInv, Typed
<1>2. arp_table \in [Slots -> Entries] /\ Typed BY DEF IInv, Typed, TableOK
<1>3. ASSUME NEW s \in Slots, arp_table' = [arp_table EXCEPT ![s] = Waiting(arp_table[s], p, h)]
      PROVE  FALSE
  <2>1. arp_table[s].q = p BY <1>1, <1>2, <1>3 DEF Waiting, Entries
  <2>2. fate[p] \in {"queued", "dropped"} BY <1>1, <2>1, NumberFacts DEF IInv, Calm, Kept
  <2>. QED BY <1>1, <2>2
<1>4. ASSUME NEW s \in Slots, arp_table' = [arp_table EXCEPT ![s] = Waiting(arp_table[s], NULL, h)],
             ~Has(arp_table, s, h)
      PROVE  FALSE
  <2>1. arp_table[s].state = "pending" /\ arp_table[s].ip = h BY <1>1, <1>2, <1>4 DEF Waiting, Entries
  <2>. QED BY <1>4, <2>1 DEF Has
<1>. QED BY <1>1, <1>2, <1>3, <1>4, ReplyEffect

-----------------------------------------------------------------------------
(* The entries stay one to a host, and true.                               *)
OneEach(T) ==
  \A s, t \in Slots : /\ T[s].state # "empty" /\ T[t].state # "empty"
                      /\ T[s].ip = T[t].ip
                      => s = t
Spoken(T, S) == \A s \in Slots : T[s].state = "stable" => T[s].mac \in S /\ T[s].mac = T[s].ip

(* An entry for a host that has none leaves one entry for each host.       *)
LEMMA NewEntry ==
  ASSUME NEW T \in [Slots -> Entries], OneEach(T), NEW s \in Slots, NEW e, NEW h,
         e.ip = h, Has(T, s, h) \/ \A t \in Slots : ~Has(T, t, h)
  PROVE  OneEach([T EXCEPT ![s] = e])
<1>1. PICK U : U = [T EXCEPT ![s] = e] OBVIOUS
<1>2. U[s] = e /\ \A t \in Slots : t # s => U[t] = T[t] BY <1>1
<1>3. \A t \in Slots : t # s => ~Has(T, t, h) BY DEF OneEach, Has
<1>4. OneEach(U) BY <1>2, <1>3 DEF OneEach, Has
<1>. QED BY <1>1, <1>4

(* A table with fewer entries.                                             *)
LEMMA FewerEntries ==
  ASSUME NEW T, NEW U, NEW S, OneEach(T), Spoken(T, S),
         \A s \in Slots : U[s].state # "empty" => U[s] = T[s]
  PROVE  OneEach(U) /\ Spoken(U, S)
BY DEF OneEach, Spoken

(* A race is remembered.                                                   *)
LEMMA StillCalm ==
  ASSUME IInv, [Next]_vars, ~raced'
  PROVE  ~raced /\ Typed /\ CallTyped /\ Calm /\ arp_table \in [Slots -> Entries]
<1>1. ~raced
  BY DEF IInv, Typed, Next, vars, Send, Lookup, Find, Select, SetIp, Mark, Deliver, NoMemory, Copy, Drop,
         Store, Clean, ResetDone, Report, ScanNext, Reset, ResetNext, CleanNetif, Scan, ArpInput, Reply,
         Noticed, HostDown
<1>. QED BY <1>1 DEF IInv, Typed, TableOK

(* Without a race every step keeps one entry for each host.                *)
LEMMA EntriesStep ==
  ASSUME IInv, [Next]_vars, ~raced'
  PROVE  OneEach(arp_table') /\ Spoken(arp_table', spoke')
<1>. USE NumberFacts
<1>0. ~raced /\ Typed /\ CallTyped /\ Calm BY StillCalm
<1>a. arp_table \in [Slots -> Entries] BY StillCalm
<1>b. OneEach(arp_table) /\ Spoken(arp_table, spoke)
  BY <1>0 DEF Calm, OneEntryEach, StableHaveSpoken, OneEach, Spoken
<1>c. ASSUME \A s \in Slots : arp_table'[s].state # "empty" => arp_table'[s] = arp_table[s],
             spoke' = spoke
      PROVE  OneEach(arp_table') /\ Spoken(arp_table', spoke')
  <2>1. PICK T, U, S : T = arp_table /\ U = arp_table' /\ S = spoke OBVIOUS
  <2>2. \A s \in Slots : U[s].state # "empty" => U[s] = T[s] BY <1>c, <2>1
  <2>3. OneEach(U) /\ Spoken(U, S) BY <1>b, <2>1, <2>2, FewerEntries
  <2>. QED BY <1>c, <2>1, <2>3
<1>1. CASE UNCHANGED <<arp_table, spoke>> BY <1>1, <1>b
<1>2. CASE Select
  <2>1. CASE Recycles(found)
    <3>1. arp_table' = [arp_table EXCEPT ![slot'] = Emptied(arp_table[slot'])] /\ spoke' = spoke
      BY <1>2, <2>1 DEF Select, net
    <3>2. \A s \in Slots : arp_table'[s].state # "empty" => arp_table'[s] = arp_table[s]
      BY <1>a, <3>1, EmptiedOK
    <3>. QED BY <1>c, <3>1, <3>2
  <2>2. CASE ~Recycles(found) BY <1>1, <1>2, <2>2 DEF Select, net
  <2>. QED BY <2>1, <2>2
<1>3. CASE SetIp
  <2>1. slot \in Slots /\ arp_table[slot].state = "empty" BY <1>0, <1>3 DEF SetIp, CallTyped, Calm, SlotTrue
  <2>2. arp_table' = [arp_table EXCEPT ![slot].ip = cur.host] /\ spoke' = spoke BY <1>3 DEF SetIp, net
  <2>3. \A s \in Slots : arp_table'[s].state # "empty" => arp_table'[s] = arp_table[s]
    BY <1>a, <2>1, <2>2 DEF Entries
  <2>. QED BY <1>c, <2>2, <2>3
<1>4. CASE Mark
  <2>1. /\ slot \in Slots /\ arp_table[slot].ip = cur.host
        /\ \A s \in Slots : Has(arp_table, s, cur.host) => s = slot
    BY <1>0, <1>4 DEF Mark, CallTyped, Calm, SlotTrue
  <2>2. PICK e : e = [arp_table[slot] EXCEPT !.state = Marked(arp_table[slot].state)] OBVIOUS
  <2>3. arp_table' = [arp_table EXCEPT ![slot] = e] /\ spoke' = spoke BY <1>4, <2>2 DEF Mark, net
  <2>4. e.ip = cur.host /\ e.mac = arp_table[slot].mac /\ (e.state = "stable" => arp_table[slot].state = "stable")
    BY <1>a, <2>1, <2>2 DEF Entries, Marked
  <2>5. Has(arp_table, slot, cur.host) \/ \A t \in Slots : ~Has(arp_table, t, cur.host) BY <2>1
  <2>6. OneEach(arp_table') BY <1>a, <1>b, <2>1, <2>3, <2>4, <2>5, NewEntry
  <2>7. Spoken(arp_table', spoke') BY <1>a, <1>b, <2>1, <2>3, <2>4 DEF Spoken
  <2>. QED BY <2>6, <2>7
<1>5. CASE Store
  <2>1. slot \in Slots BY <1>0, <1>5 DEF Store, CallTyped
  <2>2. arp_table' = [arp_table EXCEPT ![slot].q = cur.pkt] /\ spoke' = spoke BY <1>5 DEF Store, net
  <2>3. \A s \in Slots : /\ arp_table'[s].state = arp_table[s].state
                         /\ arp_table'[s].ip = arp_table[s].ip /\ arp_table'[s].mac = arp_table[s].mac
    BY <1>a, <2>1, <2>2 DEF Entries
  <2>. QED BY <1>b, <2>2, <2>3 DEF OneEach, Spoken
<1>6. CASE Clean
  <2>1. i \in Slots BY <1>6 DEF Clean
  <2>2. CASE Cleaned(arp_table[i])
    <3>1. arp_table' = [arp_table EXCEPT ![i] = Emptied(arp_table[i])] /\ spoke' = spoke
      BY <1>6, <2>2 DEF Clean, net
    <3>2. \A s \in Slots : arp_table'[s].state # "empty" => arp_table'[s] = arp_table[s]
      BY <1>a, <2>1, <3>1, EmptiedOK
    <3>. QED BY <1>c, <3>1, <3>2
  <2>3. CASE ~Cleaned(arp_table[i]) BY <1>1, <1>6, <2>3 DEF Clean, net
  <2>. QED BY <2>2, <2>3
<1>7. ASSUME NEW n \in Netifs, NEW h \in Hosts, NEW forUs \in BOOLEAN, ArpInput(n, h, forUs)
      PROVE  OneEach(arp_table') /\ Spoken(arp_table', spoke')
  <2>1. Update(n, h, forUs) /\ spoke' = spoke \cup {h} BY <1>7 DEF ArpInput
  <2>2. Spoken(arp_table, spoke') BY <1>b, <2>1 DEF Spoken
  <2>3. ASSUME NEW s \in Slots, arp_table' = [arp_table EXCEPT ![s] = Learned(n, h)],
               Has(arp_table, s, h) \/ \A t \in Slots : ~Has(arp_table, t, h)
        PROVE  OneEach(arp_table') /\ Spoken(arp_table', spoke')
    <3>1. Learned(n, h).ip = h /\ Learned(n, h).mac = h BY DEF Learned
    <3>2. OneEach(arp_table') BY <1>a, <1>b, <2>3, <3>1, NewEntry
    <3>3. Spoken(arp_table', spoke') BY <1>a, <2>1, <2>2, <2>3, <3>1 DEF Spoken
    <3>. QED BY <3>2, <3>3
  <2>. QED BY <1>0, <1>b, <2>1, <2>2, <2>3, UpdateEffect
<1>8. ASSUME NEW p \in Packets, NEW h \in Hosts, Reply(p, h)
      PROVE  OneEach(arp_table') /\ Spoken(arp_table', spoke')
  <2>1. spoke' = spoke BY <1>8 DEF Reply, net
  <2>2. ASSUME NEW s \in Slots, NEW q, arp_table' = [arp_table EXCEPT ![s] = Waiting(arp_table[s], q, h)],
               Has(arp_table, s, h) \/ \A t \in Slots : ~Has(arp_table, t, h)
        PROVE  OneEach(arp_table') /\ Spoken(arp_table', spoke')
    <3>1. PICK e : e = Waiting(arp_table[s], q, h) OBVIOUS
    <3>2. e.ip = h /\ e.state = "pending" BY <1>a, <3>1 DEF Waiting, Entries
    <3>3. OneEach(arp_table') BY <1>a, <1>b, <2>2, <3>1, <3>2, NewEntry
    <3>4. Spoken(arp_table', spoke') BY <1>a, <1>b, <2>1, <2>2, <3>1, <3>2 DEF Spoken
    <3>. QED BY <3>3, <3>4
  <2>3. ASSUME UNCHANGED arp_table PROVE OneEach(arp_table') /\ Spoken(arp_table', spoke')
    BY <1>b, <2>1, <2>3
  <2>. QED BY <1>0, <1>8, <2>2, <2>3, ReplyEffect, ZenonT(60)
<1>9. \/ UNCHANGED <<arp_table, spoke>> \/ Select \/ SetIp \/ Mark \/ Store \/ Clean
      \/ \E n \in Netifs, h \in Hosts, forUs \in BOOLEAN : ArpInput(n, h, forUs)
      \/ \E p \in Packets, h \in Hosts : Reply(p, h)
  BY DEF Next, vars, net, Send, Lookup, Find, Deliver, NoMemory, Copy, Drop, ResetDone, Report, ScanNext,
         Reset, ResetNext, CleanNetif, Scan, HostDown
<1>. QED BY <1>1, <1>2, <1>3, <1>4, <1>5, <1>6, <1>7, <1>8, <1>9

-----------------------------------------------------------------------------
(* The entry in hand is what the call takes it for.                        *)
LEMMA SlotStep ==
  ASSUME IInv, [Next]_vars, ~raced'
  PROVE  SlotTrue'
<1>. USE NumberFacts
<1>0. ~raced /\ Typed /\ CallTyped /\ Calm /\ arp_table \in [Slots -> Entries] BY StillCalm
<1>a. OneEach(arp_table) BY <1>0 DEF Calm, OneEntryEach, OneEach
<1>1. CASE pc' \in {"idle", "lookup", "wait", "clean"} BY <1>1 DEF SlotTrue
<1>2. CASE UNCHANGED <<arp_table, main>>
  BY <1>0, <1>2 DEF Calm, SlotTrue, main
<1>3. CASE Lookup
  <2>1. CASE pc' = "output" BY <1>3, <2>1 DEF Lookup, Stable, SlotTrue
  <2>2. CASE pc' = "find" /\ i' = 1
    <3>1. found' = Nothing /\ i' - 1 = 0 BY <1>0, <1>3, <2>2 DEF Lookup, CallTyped
    <3>2. NoteTrue(arp_table', Nothing, 0, cur'.host) BY NothingNoted
    <3>. QED BY <2>2, <3>1, <3>2 DEF SlotTrue
  <2>. QED BY <1>3, <2>1, <2>2 DEF Lookup
<1>4. CASE Find
  <2>1. /\ i \in Slots /\ NoteTyped(arp_table, found, i - 1) /\ found.hit = 0
        /\ NoteTrue(arp_table, found, i - 1, cur.host)
    BY <1>0, <1>4 DEF Find, CallTyped, Calm, SlotTrue
  <2>2. NoteTrue(arp_table, Note(found, arp_table[i], i, cur.host), i, cur.host)
    BY <1>0, <2>1, NoteStep
  <2>3. i' - 1 = i /\ pc' = "find" BY <1>4, <2>1 DEF Find
  <2>. QED BY <1>4, <2>2, <2>3 DEF Find, SlotTrue
<1>5. CASE Select
  <2>1. /\ NoteTyped(arp_table, found, i - 1) /\ i \in 1 .. ARP_TABLE_SIZE + 1
        /\ NoteTrue(arp_table, found, i - 1, cur.host)
    BY <1>0, <1>5 DEF Select, Typed, CallTyped, Calm, SlotTrue
  <2>2. CASE found.hit # 0
    <3>1. slot' = found.hit /\ ~Recycles(found) BY <1>5, <2>2 DEF Select, Choice, Recycles
    <3>2. arp_table' = arp_table /\ pc' = "mark" /\ cur' = cur BY <1>5, <2>2, <3>1 DEF Select
    <3>3. found.hit \in Slots BY <2>1, <2>2 DEF NoteTyped, Notes
    <3>4. Has(arp_table, slot', cur.host) BY <2>1, <2>2, <3>1 DEF NoteTrue
    <3>5. \A s \in Slots : Has(arp_table, s, cur.host) => s = slot'
      BY <1>a, <3>1, <3>3, <3>4 DEF OneEach, Has
    <3>. QED BY <3>2, <3>4, <3>5 DEF SlotTrue, Has
  <2>3. CASE found.hit = 0
    <3>1. i - 1 = ARP_TABLE_SIZE BY <1>5, <2>1, <2>3 DEF Select
    <3>2. /\ Choice(found) \in Slots
          /\ \A t \in Slots : ~Has(arp_table, t, cur.host)
          /\ found.empty # 0 => arp_table[Choice(found)].state = "empty"
      BY <1>0, <2>1, <2>3, <3>1, ChoiceFacts
    <3>3. pc' = "setip" /\ cur' = cur /\ slot' = Choice(found) BY <1>5, <2>3 DEF Select
    <3>4. CASE Recycles(found)
      <4>1. arp_table' = [arp_table EXCEPT ![slot'] = Emptied(arp_table[slot'])] BY <1>5, <3>4 DEF Select
      <4>2. /\ arp_table'[slot'].state = "empty"
            /\ \A t \in Slots : t # slot' => arp_table'[t] = arp_table[t]
        BY <1>0, <3>2, <3>3, <4>1, EmptiedOK
      <4>3. \A t \in Slots : ~Has(arp_table', t, cur.host) BY <3>2, <4>2 DEF Has
      <4>. QED BY <3>3, <4>2, <4>3 DEF SlotTrue
    <3>5. CASE ~Recycles(found)
      <4>1. arp_table' = arp_table /\ found.empty # 0 BY <1>5, <2>3, <3>5 DEF Select, Recycles
      <4>. QED BY <3>2, <3>3, <4>1 DEF SlotTrue
    <3>. QED BY <3>4, <3>5
  <2>. QED BY <2>2, <2>3
<1>6. CASE SetIp
  <2>1. slot \in Slots /\ \A s \in Slots : ~Has(arp_table, s, cur.host)
    BY <1>0, <1>6 DEF SetIp, CallTyped, Calm, SlotTrue
  <2>2. arp_table' = [arp_table EXCEPT ![slot].ip = cur.host] /\ pc' = "mark" /\ UNCHANGED <<cur, slot>>
    BY <1>6 DEF SetIp
  <2>3. arp_table'[slot].ip = cur.host /\ \A t \in Slots : t # slot => arp_table'[t] = arp_table[t]
    BY <1>0, <2>1, <2>2 DEF Entries
  <2>4. \A s \in Slots : Has(arp_table', s, cur.host) => s = slot BY <2>1, <2>3 DEF Has
  <2>. QED BY <2>2, <2>3, <2>4 DEF SlotTrue
<1>7. CASE Mark /\ pc' = "deliver"
  <2>1. slot \in Slots /\ arp_table[slot].ip = cur.host BY <1>0, <1>7 DEF Mark, CallTyped, Calm, SlotTrue
  <2>2. arp_table' = [arp_table EXCEPT ![slot].state = Marked(arp_table[slot].state)]
        /\ cur' = cur /\ (pc' = "deliver" => slot' = slot)
    BY <1>7 DEF Mark
  <2>3. arp_table'[slot].ip = cur.host /\ arp_table'[slot].state # "empty"
    BY <1>0, <2>1, <2>2 DEF Entries, Marked
  <2>. QED BY <1>7, <2>2, <2>3 DEF SlotTrue, Has
<1>8. CASE Copy BY <1>0, <1>8 DEF Copy, Calm, SlotTrue, Has
<1>9. CASE Drop BY <1>0, <1>9 DEF Drop, Calm, SlotTrue
<1>10. ASSUME NEW n, NEW h, Query(n, h), UNCHANGED <<arp_table, found>>, found = Nothing
       PROVE  SlotTrue'
  <2>1. NoteTrue(arp_table', Nothing, 0, cur'.host) BY NothingNoted
  <2>. QED BY <1>1, <1>10, <2>1 DEF Query, SlotTrue
<1>11. CASE ScanNext BY <1>0, <1>10, <1>11 DEF ScanNext, CallTyped
<1>12. ASSUME NEW n \in Netifs, Scan(n) PROVE SlotTrue'
  BY <1>0, <1>10, <1>12 DEF Scan, CallTyped
<1>13. ASSUME NEW n \in Netifs, NEW h \in Hosts, NEW forUs \in BOOLEAN, ArpInput(n, h, forUs)
       PROVE  SlotTrue'
  <2>1. UNCHANGED main BY <1>13 DEF ArpInput
  <2>2. CASE Inside BY <1>2, <1>13, <2>1, <2>2, ArpInside
  <2>3. CASE ~Inside BY <1>1, <2>1, <2>3 DEF Inside, main
  <2>. QED BY <2>2, <2>3
<1>14. ASSUME NEW p \in Packets, NEW h \in Hosts, Reply(p, h) PROVE SlotTrue'
  <2>1. UNCHANGED main BY <1>14 DEF Reply
  <2>2. CASE Inside BY <1>2, <1>14, <2>1, <2>2, ReplyInside
  <2>3. CASE ~Inside BY <1>1, <2>1, <2>3 DEF Inside, main
  <2>. QED BY <2>2, <2>3
<1>15. \/ pc' \in {"idle", "lookup", "wait", "clean"} \/ UNCHANGED <<arp_table, main>>
       \/ Lookup \/ Find \/ Select \/ SetIp \/ (Mark /\ pc' = "deliver") \/ Copy \/ Drop \/ ScanNext
       \/ \E n \in Netifs : Scan(n)
       \/ \E n \in Netifs, h \in Hosts, forUs \in BOOLEAN : ArpInput(n, h, forUs)
       \/ \E p \in Packets, h \in Hosts : Reply(p, h)
  BY DEF Next, vars, Send, Mark, Deliver, NoMemory, Store, Return, Clean, ResetDone, Report,
         Reset, ResetNext, CleanNetif, HostDown
<1>. QED BY <1>1, <1>2, <1>3, <1>4, <1>5, <1>6, <1>7, <1>8, <1>9, <1>11, <1>12, <1>13, <1>14, <1>15

-----------------------------------------------------------------------------
(* No packet is lost, freed twice or left behind.                          *)
PacketsOK == Kept(arp_table, fate, dest, Slack) /\ InHand

(* The entry s loses its packet, which is freed or sent, outside "store".  *)
LEMMA EntryLosesPacket ==
  ASSUME IInv, ~raced, pc # "store", NEW s \in Slots, NEW e, e.q = NULL,
         arp_table' = [arp_table EXCEPT ![s] = e],
         fate' \in {Free(fate, arp_table[s].q), Sent(fate, arp_table[s].q)},
         dest' = dest, pc' # "store", UNCHANGED cur,
         pc' \in InCall => pc \in InCall
  PROVE  PacketsOK'
<1>1. /\ arp_table \in [Slots -> Entries] /\ fate \in [Packets -> Fates]
      /\ Kept(arp_table, fate, dest, {}) /\ InHand /\ cur.pkt \in Packets \cup {NULL}
  BY DEF IInv, Typed, TableOK, Calm, Slack, Calls
<1>2. PICK x : x # "queued" /\ fate' = Gone(fate, arp_table[s].q, x) BY DEF Free, Sent, Gone
<1>3. PICK U, g, d : U = arp_table' /\ g = fate' /\ d = dest OBVIOUS
<1>4. Kept(U, g, d, {}) /\ \A p \in Packets : fate[p] # "queued" => g[p] = fate[p]
  <2>1. U = [arp_table EXCEPT ![s] = e] /\ g = Gone(fate, arp_table[s].q, x) BY <1>2, <1>3
  <2>2. Kept(U, g, dest, {}) BY <1>1, <1>2, <2>1, Detach
  <2>3. ASSUME NEW p \in Packets, fate[p] # "queued" PROVE g[p] = fate[p]
    BY <1>1, <2>1, <2>3, DetachFates
  <2>. QED BY <1>3, <2>2, <2>3
<1>5. Kept(arp_table', fate', dest', Slack') BY <1>3, <1>4 DEF Slack
<1>6. InHand' BY <1>1, <1>3, <1>4 DEF InHand
<1>. QED BY <1>5, <1>6 DEF PacketsOK

(* Without a race every step keeps packets on the entries they wait for.   *)
LEMMA PacketsStep ==
  ASSUME IInv, [Next]_vars, ~raced'
  PROVE  PacketsOK'
<1>. USE NumberFacts
<1>0. /\ ~raced /\ Typed /\ CallTyped /\ Calm /\ arp_table \in [Slots -> Entries]
      /\ fate \in [Packets -> Fates] /\ dest \in [Packets -> Hosts \cup {0}]
      /\ cur.pkt \in Packets \cup {NULL}
  BY StillCalm DEF Typed, Calls
<1>a. Kept(arp_table, fate, dest, Slack) /\ InHand BY <1>0 DEF Calm
<1>b. pc # "store" => Slack = {} BY DEF Slack
<1>1. ASSUME UNCHANGED <<arp_table, fate, dest>>, pc # "store", pc' # "store",
             (pc' \in InCall /\ cur'.pkt # NULL) => (pc \in InCall /\ cur' = cur)
      PROVE  PacketsOK'
  <2>1. Slack' = {} /\ Slack = {} BY <1>1 DEF Slack
  <2>2. Kept(arp_table', fate', dest', Slack') BY <1>1, <1>a, <2>1
  <2>3. InHand' BY <1>1, <1>a DEF InHand
  <2>. QED BY <2>2, <2>3 DEF PacketsOK
<1>2. ASSUME UNCHANGED <<arp_table, fate, dest, pc, cur, slot>> PROVE PacketsOK'
  <2>1. Slack' = Slack BY <1>2 DEF Slack
  <2>2. InHand' BY <1>2, <1>a DEF InHand
  <2>. QED BY <1>2, <1>a, <2>1, <2>2 DEF PacketsOK
<1>3. ASSUME NEW p \in Packets, NEW n \in Netifs, NEW h \in Hosts, Send(p, n, h) PROVE PacketsOK'
  <2>1. /\ pc = "idle" /\ pc' = "lookup" /\ fate[p] = "none" /\ arp_table' = arp_table
        /\ fate' = [fate EXCEPT ![p] = "busy"] /\ dest' = [dest EXCEPT ![p] = h]
    BY <1>3 DEF Send, NewPacket
  <2>2. cur'.pkt = p /\ cur'.host = h BY <1>3 DEF Send, Idle
  <2>3. Kept(arp_table, fate, dest, {}) BY <1>a, <1>b, <2>1
  <2>4. Kept(arp_table, fate, [dest EXCEPT ![p] = h], {}) BY <1>0, <2>1, <2>3, OtherDest
  <2>5. Kept(arp_table, [fate EXCEPT ![p] = "busy"], [dest EXCEPT ![p] = h], {})
    BY <1>0, <2>1, <2>4, OtherFate
  <2>6. Slack' = {} BY <2>1 DEF Slack
  <2>7. Kept(arp_table', fate', dest', Slack') BY <2>1, <2>5, <2>6
  <2>8. InHand' BY <1>0, <2>1, <2>2 DEF InHand
  <2>. QED BY <2>7, <2>8 DEF PacketsOK
<1>4. CASE Select
  <2>1. pc = "find" /\ pc' \in {"mark", "setip"} /\ UNCHANGED <<cur, dest>> BY <1>4 DEF Select
  <2>2. CASE Recycles(found)
    <3>1. arp_table' = [arp_table EXCEPT ![slot'] = Emptied(arp_table[slot'])]
          /\ fate' = Free(fate, arp_table[slot'].q)
      BY <1>4, <2>2 DEF Select
    <3>2. slot' \in Slots
      <4>1. NoteTyped(arp_table, found, i - 1) /\ i \in 1 .. ARP_TABLE_SIZE + 1
        BY <1>0, <2>1 DEF Typed, CallTyped
      <4>2. i - 1 = ARP_TABLE_SIZE BY <1>4, <2>2, <4>1 DEF Select, Recycles
      <4>3. Choice(found) \in Slots BY <1>0, <4>1, <4>2, ChoiceFacts
      <4>. QED BY <1>4, <4>3 DEF Select
    <3>3. PICK sl, e : sl \in Slots /\ sl = slot' /\ e = Emptied(arp_table[sl]) /\ e.q = NULL
      BY <1>0, <3>2, EmptiedOK
    <3>4. arp_table' = [arp_table EXCEPT ![sl] = e] /\ fate' = Free(fate, arp_table[sl].q) BY <3>1, <3>3
    <3>. QED BY <1>0, <2>1, <3>3, <3>4, EntryLosesPacket DEF InCall
  <2>3. CASE ~Recycles(found) BY <1>1, <1>4, <2>1, <2>3 DEF Select, InCall
  <2>. QED BY <2>2, <2>3
<1>5. CASE SetIp
  <2>1. slot \in Slots /\ arp_table[slot].state = "empty" /\ arp_table[slot].q = NULL
    BY <1>0, <1>5 DEF SetIp, CallTyped, Calm, SlotTrue, Typed, TableOK, EntryOK
  <2>2. PICK e : e = [arp_table[slot] EXCEPT !.ip = cur.host] /\ e.q = NULL
    <3>1. arp_table[slot] \in Entries BY <1>0, <2>1
    <3>2. [arp_table[slot] EXCEPT !.ip = cur.host].q = NULL BY <2>1, <3>1 DEF Entries
    <3>. QED BY <3>2
  <2>3. arp_table' = [arp_table EXCEPT ![slot] = e] /\ pc' = "mark" /\ pc = "setip" BY <1>5, <2>2 DEF SetIp
  <2>4. fate' = Free(fate, arp_table[slot].q) BY <1>5, <2>1 DEF SetIp, Free
  <2>5. UNCHANGED <<cur, dest>> BY <1>5 DEF SetIp
  <2>. QED BY <1>0, <2>1, <2>2, <2>3, <2>4, <2>5, EntryLosesPacket DEF InCall
<1>6. CASE Mark
  <2>1. /\ slot \in Slots /\ pc = "mark" /\ pc' \in {"wait", "deliver"} /\ UNCHANGED <<cur, dest, fate>>
        /\ arp_table' = [arp_table EXCEPT ![slot].state = Marked(arp_table[slot].state)]
    BY <1>0, <1>6 DEF Mark, CallTyped
  <2>2. CASE arp_table[slot].state = "empty"
    <3>1. arp_table[slot].q = NULL BY <1>0, <2>1, <2>2 DEF Typed, TableOK, EntryOK
    <3>2. PICK e : e = [arp_table[slot] EXCEPT !.state = Marked(arp_table[slot].state)] /\ e.q = NULL
      BY <1>0, <2>1, <3>1 DEF Entries
    <3>3. arp_table' = [arp_table EXCEPT ![slot] = e] /\ fate' = Free(fate, arp_table[slot].q)
      BY <2>1, <3>1, <3>2 DEF Free
    <3>. QED BY <1>0, <2>1, <3>2, <3>3, EntryLosesPacket DEF InCall
  <2>3. CASE arp_table[slot].state # "empty"
    <3>1. arp_table' = arp_table BY <1>0, <2>1, <2>3 DEF Marked, Entries
    <3>. QED BY <1>1, <2>1, <3>1 DEF InCall
  <2>. QED BY <2>2, <2>3
<1>7. ASSUME Return, UNCHANGED <<arp_table, dest>>, pc # "store", pc \in InCall, cur.pkt \in Packets,
             NEW x, x # "queued", fate' = [fate EXCEPT ![cur.pkt] = x]
      PROVE  PacketsOK'
  <2>1. fate[cur.pkt] = "busy" BY <1>7, <1>a DEF InHand
  <2>2. Kept(arp_table, fate, dest, {}) BY <1>7, <1>a, <1>b
  <2>3. Kept(arp_table, [fate EXCEPT ![cur.pkt] = x], dest, {}) BY <1>0, <1>7, <2>1, <2>2, OtherFate
  <2>4. Slack' = {} /\ InHand' BY <1>7 DEF Return, Slack, InHand, InCall
  <2>. QED BY <1>7, <2>3, <2>4 DEF PacketsOK
<1>8. CASE Deliver
  <2>1. cur.pkt \in Packets /\ pc \in {"output", "deliver"} BY <1>0, <1>8 DEF Deliver, CallTyped
  <2>2. fate' = [fate EXCEPT ![cur.pkt] = "sent"] BY <1>8, <2>1 DEF Deliver, Sent
  <2>. QED BY <1>7, <1>8, <2>1, <2>2 DEF Deliver, InCall
<1>9. CASE NoMemory
  <2>1. cur.pkt \in Packets BY <1>0, <1>9 DEF NoMemory, CallTyped
  <2>2. fate' = [fate EXCEPT ![cur.pkt] = "dropped"] BY <1>9, <2>1 DEF NoMemory, Free
  <2>. QED BY <1>7, <1>9, <2>1, <2>2 DEF NoMemory, InCall
<1>10. CASE Drop
  <2>1. /\ slot \in Slots /\ cur.pkt \in Packets /\ pc = "drop" /\ pc' = "store"
        /\ fate' = Free(fate, arp_table[slot].q) /\ UNCHANGED <<arp_table, cur, slot, dest>>
    BY <1>0, <1>10 DEF Drop, Replaced, CallTyped
  <2>2. Kept(arp_table, fate, dest, {}) /\ fate[cur.pkt] = "busy" /\ dest[cur.pkt] = cur.host
    BY <1>a, <1>b, <2>1 DEF InHand, InCall
  <2>3. PICK q \in Packets \cup {NULL} : q = arp_table[slot].q BY <1>0, <2>1 DEF Entries
  <2>4. CASE q = NULL
    <3>1. fate' = fate BY <2>1, <2>3, <2>4 DEF Free
    <3>2. Kept(arp_table, fate, dest, {slot})
      <4>1. \A t \in Slots : arp_table[t].q # NULL => t # slot BY <2>3, <2>4
      <4>2. ASSUME NEW p \in Packets, fate[p] = "queued" PROVE \E t \in Slots \ {slot} : arp_table[t].q = p
        <5>1. PICK t \in Slots : arp_table[t].q = p BY <2>2, <4>2 DEF Kept
        <5>. QED BY <4>1, <5>1
      <4>. QED BY <2>2, <4>1, <4>2 DEF Kept
    <3>. QED BY <2>1, <2>2, <3>1, <3>2 DEF PacketsOK, Slack, InHand
  <2>5. CASE q # NULL
    <3>1. fate' = [fate EXCEPT ![q] = "dropped"] BY <2>1, <2>3, <2>5 DEF Free
    <3>2. fate[q] = "queued" /\ \A t \in Slots : arp_table[t].q = q => t = slot
      BY <2>1, <2>2, <2>3, <2>5 DEF Kept
    <3>3. \A t \in Slots : arp_table[t].q # NULL => arp_table[t].q \in Packets BY <1>0 DEF Entries
    <3>4. Kept(arp_table, [fate EXCEPT ![q] = "dropped"], dest, {slot})
      BY <1>0, <2>1, <2>2, <2>3, <2>5, <3>2, <3>3 DEF Kept
    <3>5. fate'[cur.pkt] = "busy" BY <1>0, <2>1, <2>2, <3>1, <3>2
    <3>. QED BY <2>1, <2>2, <3>1, <3>4, <3>5 DEF PacketsOK, Slack, InHand
  <2>. QED BY <2>4, <2>5
<1>11. CASE Store
  <2>1. /\ slot \in Slots /\ cur.pkt \in Packets /\ pc = "store" /\ pc' = "idle" /\ dest' = dest
        /\ arp_table' = [arp_table EXCEPT ![slot].q = cur.pkt]
        /\ fate' = [fate EXCEPT ![cur.pkt] = "queued"]
    BY <1>0, <1>11 DEF Store, Return, CallTyped
  <2>2. PICK e : /\ e = [arp_table[slot] EXCEPT !.q = cur.pkt] /\ e.q = cur.pkt
                 /\ e.state = arp_table[slot].state /\ e.ip = arp_table[slot].ip
    <3>1. arp_table[slot] \in Entries BY <1>0, <2>1
    <3>2. PICK e : e = [arp_table[slot] EXCEPT !.q = cur.pkt] OBVIOUS
    <3>3. e.q = cur.pkt /\ e.state = arp_table[slot].state /\ e.ip = arp_table[slot].ip
      BY <3>1, <3>2 DEF Entries
    <3>. QED BY <3>2, <3>3
  <2>3. fate[cur.pkt] = "busy" /\ dest[cur.pkt] = cur.host BY <1>a, <2>1 DEF InHand, InCall
  <2>4. e.state = "pending" /\ e.ip = dest[cur.pkt] BY <1>0, <2>1, <2>2, <2>3 DEF Calm, SlotTrue
  <2>5. Slack = {slot} BY <2>1 DEF Slack
  <2>6. PICK U, g : /\ U = arp_table' /\ U = [arp_table EXCEPT ![slot] = e]
                    /\ g = fate' /\ g = [fate EXCEPT ![cur.pkt] = "queued"]
    BY <2>1, <2>2
  <2>8. Attachable(arp_table, fate, dest, {slot}, slot, cur.pkt, e) BY <2>2, <2>3, <2>4 DEF Attachable
  <2>a. PICK T \in [Slots -> Entries] : T = arp_table BY <1>0
  <2>b. PICK f \in [Packets -> Fates] : f = fate BY <1>0
  <2>c. PICK p \in Packets : p = cur.pkt BY <2>1
  <2>d. PICK sl \in Slots : sl = slot BY <2>1
  <2>9. PICK d : d = dest OBVIOUS
  <2>10. Kept(U, g, dest, {})
    <3>. HIDE NumberFacts
    <3>1. Kept(T, f, d, {sl}) /\ Attachable(T, f, d, {sl}, sl, p, e) BY <1>a, <2>5, <2>8, <2>9, <2>a, <2>b, <2>c, <2>d
    <3>2. U = [T EXCEPT ![sl] = e] /\ g = [f EXCEPT ![p] = "queued"]
      BY <2>6, <2>b, <2>a, <2>c, <2>d
    <3>3. Kept(U, g, d, {}) BY <3>1, <3>2, Attach
    <3>. QED BY <2>9, <3>3
  <2>7. Slack' = {} /\ InHand' BY <2>1 DEF Slack, InHand, InCall
  <2>. QED BY <2>1, <2>6, <2>7, <2>10 DEF PacketsOK
<1>12. CASE Clean
  <2>1. i \in Slots /\ pc = "clean" /\ pc' = "clean" /\ UNCHANGED <<cur, dest>> BY <1>12 DEF Clean
  <2>2. CASE Cleaned(arp_table[i])
    <3>1. arp_table' = [arp_table EXCEPT ![i] = Emptied(arp_table[i])]
          /\ fate' = Free(fate, arp_table[i].q)
      BY <1>12, <2>2 DEF Clean
    <3>2. Emptied(arp_table[i]).q = NULL BY <1>0, <2>1, EmptiedOK
    <3>. QED BY <1>0, <2>1, <3>1, <3>2, EntryLosesPacket DEF InCall
  <2>3. CASE ~Cleaned(arp_table[i]) BY <1>1, <1>12, <2>1, <2>3 DEF Clean, InCall
  <2>. QED BY <2>2, <2>3
<1>13. ASSUME NEW n, NEW h, Query(n, h), UNCHANGED <<arp_table, fate, dest>>, pc # "store" PROVE PacketsOK'
  <2>1. pc' \in {"idle", "find"} /\ cur'.pkt = NULL
    <3>1. CASE h > LastHost BY <1>13, <3>1 DEF Query, Idle
    <3>2. CASE ~(h > LastHost) BY <1>13, <3>2 DEF Query, Idle
    <3>. QED BY <3>1, <3>2
  <2>. QED BY <1>1, <1>13, <2>1
<1>14. ASSUME NEW n \in Netifs, NEW h \in Hosts, NEW forUs \in BOOLEAN, ArpInput(n, h, forUs)
       PROVE  PacketsOK'
  <2>1. UNCHANGED <<pc, cur, slot, dest>> /\ Update(n, h, forUs) BY <1>14 DEF ArpInput, main
  <2>2. CASE Inside BY <1>2, <1>14, <2>1, <2>2, ArpInside
  <2>3. CASE ~Inside
    <3>1. pc # "store" BY <2>3 DEF Inside
    <3>2. Learned(n, h).q = NULL BY DEF Learned
    <3>3. ASSUME NEW s \in Slots, arp_table' = [arp_table EXCEPT ![s] = Learned(n, h)],
                 fate' \in {Free(fate, arp_table[s].q), Sent(fate, arp_table[s].q)}
          PROVE  PacketsOK'
      BY <1>0, <2>1, <3>1, <3>2, <3>3, EntryLosesPacket
    <3>. QED BY <1>0, <1>2, <2>1, <3>3, UpdateEffect
  <2>. QED BY <2>2, <2>3
<1>15. ASSUME NEW p \in Packets, NEW h \in Hosts, Reply(p, h) PROVE PacketsOK'
  <2>1. UNCHANGED <<pc, cur, slot>> /\ fate[p] = "none" /\ dest' = [dest EXCEPT ![p] = h]
    BY <1>15 DEF Reply, main, NewPacket
  <2>2. Slack' = Slack BY <2>1 DEF Slack
  <2>3. PICK d : d = [dest EXCEPT ![p] = h] OBVIOUS
  <2>4. Kept(arp_table, fate, d, Slack) BY <1>0, <1>a, <2>1, <2>3, OtherDest
  <2>5. ASSUME NEW o \in Packets, fate[o] = "busy" PROVE d[o] = dest[o] /\ o # p
    BY <1>0, <2>1, <2>3, <2>5
  <2>6. ASSUME UNCHANGED arp_table, NEW x \in {"sent", "dropped"}, fate' = [fate EXCEPT ![p] = x]
        PROVE  PacketsOK'
    <3>1. Kept(arp_table, [fate EXCEPT ![p] = x], d, Slack) BY <1>0, <2>1, <2>4, <2>6, OtherFate
    <3>2. InHand' BY <1>0, <1>a, <2>1, <2>3, <2>5, <2>6 DEF InHand
    <3>. QED BY <2>1, <2>2, <2>3, <2>6, <3>1, <3>2 DEF PacketsOK
  <2>7. ASSUME pc # "store", NEW s \in Slots,
               arp_table' = [arp_table EXCEPT ![s] = Waiting(arp_table[s], p, h)],
               fate' = [Free(fate, arp_table[s].q) EXCEPT ![p] = "queued"]
        PROVE  PacketsOK'
    <3>1. PICK e, e0, T0, f0 : /\ e = Waiting(arp_table[s], p, h) /\ e0 = [arp_table[s] EXCEPT !.q = NULL]
                               /\ T0 = [arp_table EXCEPT ![s] = e0] /\ f0 = Free(fate, arp_table[s].q)
      OBVIOUS
    <3>2. e.q = p /\ e.state = "pending" /\ e.ip = h /\ e0.q = NULL /\ e0 \in Entries
      <4>1. arp_table[s] \in Entries BY <1>0
      <4>2. e.q = p /\ e.state = "pending" /\ e.ip = h BY <3>1, <4>1 DEF Waiting, Entries
      <4>3. e0.q = NULL /\ e0 \in Entries BY <3>1, <4>1 DEF Entries
      <4>. QED BY <4>2, <4>3
    <3>3. Kept(arp_table, fate, d, {}) BY <1>b, <2>4, <2>7
    <3>4. PICK x : f0 = Gone(fate, arp_table[s].q, x) /\ x # "queued"
      <4>1. f0 = Gone(fate, arp_table[s].q, "dropped") /\ "dropped" # "queued" BY <3>1 DEF Free, Gone
      <4>. QED BY <4>1
    <3>5. Kept(T0, f0, d, {}) /\ \A o \in Packets : fate[o] # "queued" => f0[o] = fate[o]
      <4>. HIDE NumberFacts
      <4>1. PICK T \in [Slots -> Entries], f \in [Packets -> Fates] : T = arp_table /\ f = fate BY <1>0
      <4>2. Kept(T, f, d, {}) /\ e0.q = NULL /\ x # "queued" BY <3>2, <3>3, <3>4, <4>1
      <4>3. T0 = [T EXCEPT ![s] = e0] /\ f0 = Gone(f, T[s].q, x) BY <3>1, <3>4, <4>1
      <4>4. Kept(T0, f0, d, {}) BY <4>2, <4>3, Detach
      <4>5. ASSUME NEW o \in Packets, f[o] # "queued" PROVE f0[o] = f[o]
        BY <4>2, <4>3, <4>5, DetachFates
      <4>. QED BY <4>1, <4>4, <4>5
    <3>6. T0 \in [Slots -> Entries] /\ T0[s].q = NULL BY <1>0, <3>1, <3>2
    <3>7. f0 \in [Packets -> Fates]
      <4>1. arp_table[s].q \in Packets \cup {NULL} BY <1>0 DEF Entries
      <4>. QED BY <1>0, <3>1, <4>1, FateUpdate
    <3>8. f0[p] = "none" /\ d[p] = h BY <1>0, <2>1, <2>3, <3>5
    <3>9. ASSUME NEW U, U = [T0 EXCEPT ![s] = e], NEW g, g = [f0 EXCEPT ![p] = "queued"]
          PROVE  Kept(U, g, d, {})
      <4>1. Attachable(T0, f0, d, {}, s, p, e) BY <3>2, <3>6, <3>8 DEF Attachable
      <4>. HIDE NumberFacts
      <4>2. T0 \in [Slots -> Entries] /\ f0 \in [Packets -> Fates] /\ Kept(T0, f0, d, {})
        BY <3>5, <3>6, <3>7
      <4>. QED BY <3>9, <4>1, <4>2, Attach
    <3>10. arp_table' = [T0 EXCEPT ![s] = e] /\ fate' = [f0 EXCEPT ![p] = "queued"]
      BY <1>0, <2>7, <3>1
    <3>11. \A o \in Packets : fate[o] = "busy" => fate'[o] = "busy" BY <2>5, <3>5, <3>7, <3>10
    <3>12. InHand' BY <1>0, <1>a, <2>1, <2>3, <2>5, <3>11 DEF InHand
    <3>13. Slack' = {} BY <2>1, <2>7 DEF Slack
    <3>. QED BY <2>1, <2>3, <3>9, <3>10, <3>12, <3>13 DEF PacketsOK
  <2>8. ASSUME pc # "store", NEW s \in Slots,
               arp_table' = [arp_table EXCEPT ![s] = Waiting(arp_table[s], NULL, h)],
               fate' = [Free(fate, arp_table[s].q) EXCEPT ![p] = "dropped"]
        PROVE  PacketsOK'
    <3>1. PICK e, f0 : e = Waiting(arp_table[s], NULL, h) /\ f0 = Free(fate, arp_table[s].q) OBVIOUS
    <3>2. e.q = NULL /\ e \in Entries
      <4>1. arp_table[s] \in Entries BY <1>0
      <4>. QED BY <3>1, <4>1 DEF Waiting, Entries
    <3>3. Kept(arp_table, fate, d, {}) BY <1>b, <2>4, <2>8
    <3>4. PICK x : f0 = Gone(fate, arp_table[s].q, x) /\ x # "queued"
      <4>1. f0 = Gone(fate, arp_table[s].q, "dropped") /\ "dropped" # "queued" BY <3>1 DEF Free, Gone
      <4>. QED BY <4>1
    <3>5. Kept(arp_table', f0, d, {}) /\ \A o \in Packets : fate[o] # "queued" => f0[o] = fate[o]
      <4>. HIDE NumberFacts
      <4>1. PICK T \in [Slots -> Entries], f \in [Packets -> Fates] : T = arp_table /\ f = fate BY <1>0
      <4>2. Kept(T, f, d, {}) /\ e.q = NULL /\ x # "queued" BY <3>2, <3>3, <3>4, <4>1
      <4>3. arp_table' = [T EXCEPT ![s] = e] /\ f0 = Gone(f, T[s].q, x) BY <2>8, <3>1, <3>4, <4>1
      <4>4. Kept(arp_table', f0, d, {}) BY <3>2, <4>2, <4>3, Detach
      <4>5. ASSUME NEW o \in Packets, f[o] # "queued" PROVE f0[o] = f[o]
        BY <4>2, <4>3, <4>5, DetachFates
      <4>. QED BY <4>1, <4>4, <4>5
    <3>6. arp_table' \in [Slots -> Entries] BY <1>0, <2>8, <3>1, <3>2
    <3>7. f0 \in [Packets -> Fates] /\ f0[p] = "none"
      <4>1. arp_table[s].q \in Packets \cup {NULL} BY <1>0 DEF Entries
      <4>2. f0 \in [Packets -> Fates] BY <1>0, <3>1, <4>1, FateUpdate
      <4>. QED BY <2>1, <3>5, <4>2
    <3>8. Kept(arp_table', [f0 EXCEPT ![p] = "dropped"], d, {}) BY <3>5, <3>6, <3>7, OtherFate
    <3>9. fate' = [f0 EXCEPT ![p] = "dropped"] BY <2>8, <3>1
    <3>10. \A o \in Packets : fate[o] = "busy" => fate'[o] = "busy" BY <2>5, <3>5, <3>7, <3>9
    <3>11. InHand' BY <1>0, <1>a, <2>1, <2>3, <2>5, <3>10 DEF InHand
    <3>12. Slack' = {} BY <2>1, <2>8 DEF Slack
    <3>. QED BY <2>1, <2>3, <3>8, <3>9, <3>11, <3>12 DEF PacketsOK
  <2>9. CASE Inside BY <1>15, <2>6, <2>9, ReplyInside
  <2>10. CASE ~Inside
    <3>1. pc # "store" BY <2>10 DEF Inside
    <3>. QED BY <1>0, <1>15, <2>6, <2>7, <2>8, <3>1, ReplyEffect
  <2>. QED BY <2>9, <2>10
<1>16. CASE Lookup \/ Find \/ Copy \/ Report
  <2>1. UNCHANGED <<arp_table, fate, dest, cur>> /\ pc # "store" /\ pc' # "store" /\ pc \in InCall
    BY <1>16 DEF Lookup, Find, Copy, Report, InCall
  <2>. QED BY <1>1, <2>1
<1>17. ASSUME NEW n, NEW left, CleanNetif(n, left), pc # "store" PROVE PacketsOK'
  BY <1>1, <1>17 DEF CleanNetif, InCall
<1>18. CASE ResetDone BY <1>1, <1>18 DEF ResetDone, Return, InCall
<1>19. CASE ScanNext BY <1>13, <1>19 DEF ScanNext
<1>20. ASSUME NEW n, Scan(n) PROVE PacketsOK' BY <1>13, <1>20 DEF Scan
<1>21. ASSUME NEW n, Reset(n) \/ ResetNext(n) PROVE PacketsOK' BY <1>17, <1>21 DEF Reset, ResetNext
<1>22. ASSUME NEW h, HostDown(h) PROVE PacketsOK' BY <1>2, <1>22 DEF HostDown, main
<1>23. CASE UNCHANGED vars BY <1>2, <1>23 DEF vars, main
<1>. QED BY <1>3, <1>4, <1>5, <1>6, <1>8, <1>9, <1>10, <1>11, <1>12, <1>14, <1>15, <1>16, <1>18, <1>19,
         <1>20, <1>21, <1>22, <1>23 DEF Next

-----------------------------------------------------------------------------
(* What is sent, and what is reported.                                     *)
LEMMA SentStep ==
  ASSUME IInv, [Next]_vars, ~raced'
  PROVE  ~missent' /\ reported' \subseteq spoke'
<1>. USE NumberFacts
<1>0. ~raced /\ Typed /\ CallTyped /\ Calm /\ arp_table \in [Slots -> Entries] BY StillCalm
<1>a. ~missent /\ reported \subseteq spoke BY <1>0 DEF Calm, SentToOwner, ReportedHaveSpoken
<1>b. \A s \in Slots : arp_table[s].state = "stable" =>
        arp_table[s].mac \in spoke /\ arp_table[s].mac = arp_table[s].ip
  BY <1>0 DEF Calm, StableHaveSpoken
<1>1. CASE UNCHANGED <<missent, reported, spoke>> BY <1>1, <1>a
<1>2. CASE Deliver
  <2>1. slot \in Slots /\ cur.pkt \in Packets /\ pc \in InCall
    BY <1>0, <1>2 DEF Deliver, CallTyped, InCall
  <2>2. dest[cur.pkt] = cur.host BY <1>0, <2>1 DEF Calm, InHand
  <2>3. arp_table[slot].state = "stable" /\ arp_table[slot].ip = cur.host
    BY <1>0, <1>2 DEF Deliver, Calm, SlotTrue, Has
  <2>4. ~Wrong(cur.pkt, arp_table[slot].mac) BY <1>b, <2>1, <2>2, <2>3 DEF Wrong
  <2>. QED BY <1>2, <1>a, <2>4 DEF Deliver, net, scan
<1>3. CASE Report
  <2>1. NoteTyped(arp_table, Sweep(cur.host), ARP_TABLE_SIZE)
        /\ NoteTrue(arp_table, Sweep(cur.host), ARP_TABLE_SIZE, cur.host)
    BY <1>0, SweepFacts
  <2>2. PICK s : s = Sweep(cur.host).hit OBVIOUS
  <2>3. s # 0 => s \in Slots /\ arp_table[s].ip = cur.host
    BY <2>1, <2>2 DEF NoteTyped, NoteTrue, Notes, Has
  <2>4. IsUp(s) => cur.host \in spoke BY <1>b, <2>3 DEF IsUp
  <2>. QED BY <1>3, <1>a, <2>2, <2>4 DEF Report, net
<1>4. ASSUME NEW n \in Netifs, NEW h \in Hosts, NEW forUs \in BOOLEAN, ArpInput(n, h, forUs)
      PROVE  ~missent' /\ reported' \subseteq spoke'
  <2>1. Update(n, h, forUs) /\ spoke \subseteq spoke' /\ reported' = reported BY <1>4 DEF ArpInput
  <2>2. CASE Inside BY <1>4, <1>a, <2>1, <2>2, ArpInside
  <2>3. CASE ~Inside
    <3>1. Slack = {} BY <2>3 DEF Inside, Slack
    <3>2. ASSUME NEW s \in Slots, Has(arp_table, s, h) PROVE ~Wrong(arp_table[s].q, h)
      BY <1>0, <3>1, <3>2 DEF Calm, Kept, Has, Wrong
    <3>. QED BY <1>0, <1>a, <2>1, <3>2, UpdateEffect, ZenonT(30)
  <2>. QED BY <2>2, <2>3
<1>5. ASSUME NEW p \in Packets, NEW h \in Hosts, Reply(p, h)
      PROVE  ~missent' /\ reported' \subseteq spoke'
  <2>1. UNCHANGED <<spoke, reported>> BY <1>5 DEF Reply, net
  <2>2. \A t \in Stable(h) : arp_table[t].mac = h BY <1>b DEF Stable
  <2>3. ~missent' BY <1>0, <1>5, <1>a, <2>2, ReplyEffect
  <2>. QED BY <1>a, <2>1, <2>3
<1>6. ASSUME NEW n, Scan(n) PROVE ~missent' /\ reported' \subseteq spoke'
  BY <1>6, <1>a DEF Scan, net
<1>7. \/ UNCHANGED <<missent, reported, spoke>> \/ Deliver \/ Report
      \/ \E n \in Netifs, h \in Hosts, forUs \in BOOLEAN : ArpInput(n, h, forUs)
      \/ \E p \in Packets, h \in Hosts : Reply(p, h)
      \/ \E n \in Netifs : Scan(n)
  BY DEF Next, vars, net, scan, Send, Lookup, Find, Select, SetIp, Mark, NoMemory, Copy, Drop, Store, Clean,
         ResetDone, ScanNext, Reset, ResetNext, CleanNetif, HostDown
<1>. QED BY <1>1, <1>2, <1>3, <1>4, <1>5, <1>6, <1>7

(* The target of the scan keeps its entry, and a reset goes on with what   *)
(* it has not cleaned.                                                     *)
LEMMA WaitStep ==
  ASSUME IInv, [Next]_vars, ~raced'
  PROVE  TargetListed' /\ StillToClean'
<1>. USE NumberFacts
<1>0. ~raced /\ Typed /\ CallTyped /\ Calm /\ arp_table \in [Slots -> Entries] BY StillCalm
<1>a. TargetListed /\ StillToClean BY <1>0 DEF Calm
<1>b. \A s \in Slots : arp_table[s].state = "stable" => arp_table[s].netif \in Netifs
  BY <1>0 DEF Typed, TableOK, EntryOK
<1>1. CASE pc' \notin {"wait", "clean"} BY <1>1 DEF TargetListed, StillToClean
<1>2. CASE UNCHANGED vars BY <1>2, <1>a DEF vars, main, scan, TargetListed, StillToClean
<1>3. CASE Mark /\ pc' = "wait"
  <2>1. slot \in Slots /\ arp_table[slot].ip = cur.host BY <1>0, <1>3 DEF Mark, CallTyped, Calm, SlotTrue
  <2>2. arp_table' = [arp_table EXCEPT ![slot].state = Marked(arp_table[slot].state)]
        /\ cur' = cur /\ (pc' = "wait" => ~answered')
    BY <1>3 DEF Mark
  <2>3. arp_table'[slot].ip = cur.host /\ arp_table'[slot].state # "empty"
    BY <1>0, <2>1, <2>2 DEF Entries, Marked
  <2>4. Has(arp_table', slot, cur'.host) BY <2>2, <2>3 DEF Has
  <2>. QED BY <1>3, <2>1, <2>2, <2>4 DEF TargetListed, StillToClean
<1>4. CASE Report
  <2>1. cur.op \in {"send", "scan"} /\ pc' = "clean" /\ cur' = cur BY <1>0, <1>4 DEF Report, CallTyped, InCall
  <2>. QED BY <2>1 DEF TargetListed, StillToClean
<1>5. CASE Clean
  <2>1. i \in Slots /\ i' = i + 1 /\ pc = "clean" /\ pc' = "clean" /\ cur' = cur BY <1>5 DEF Clean
  <2>2. ASSUME cur.op = "reset", NEW s \in Slots, arp_table'[s].state = "stable"
        PROVE  arp_table'[s].netif \in cur.left \/ (arp_table'[s].netif = cur.netif /\ s >= i')
    <3>1. arp_table'[s] = arp_table[s] /\ (s = i => ~Cleaned(arp_table[i]))
      <4>1. CASE Cleaned(arp_table[i])
        <5>1. arp_table' = [arp_table EXCEPT ![i] = Emptied(arp_table[i])] BY <1>5, <4>1 DEF Clean
        <5>2. arp_table'[i].state = "empty" BY <1>0, <2>1, <5>1, EmptiedOK
        <5>. QED BY <1>0, <2>2, <5>1, <5>2
      <4>2. CASE ~Cleaned(arp_table[i]) BY <1>5, <4>2 DEF Clean
      <4>. QED BY <4>1, <4>2
    <3>2. arp_table[s].netif \in cur.left \/ (arp_table[s].netif = cur.netif /\ s >= i)
      BY <1>a, <2>1, <2>2, <3>1 DEF StillToClean
    <3>3. s = i => arp_table[s].netif # cur.netif BY <2>2, <3>1 DEF Cleaned
    <3>. QED BY <2>1, <3>1, <3>2, <3>3
  <2>. QED BY <2>1, <2>2 DEF TargetListed, StillToClean
<1>6. ASSUME NEW n \in Netifs, NEW left, CleanNetif(n, left),
             \A s \in Slots : arp_table[s].state = "stable" => arp_table[s].netif \in left
      PROVE  TargetListed' /\ StillToClean'
  <2>1. cur'.netif = n /\ cur'.left = left \ {n} /\ i' = 1 /\ arp_table' = arp_table /\ pc' = "clean"
    BY <1>6 DEF CleanNetif, Idle
  <2>. QED BY <1>6, <2>1 DEF TargetListed, StillToClean
<1>7. ASSUME NEW n \in Netifs, Reset(n) PROVE TargetListed' /\ StillToClean'
  BY <1>6, <1>7, <1>b DEF Reset
<1>8. ASSUME NEW n \in Netifs, ResetNext(n) PROVE TargetListed' /\ StillToClean'
  <2>1. i = ARP_TABLE_SIZE + 1 BY <1>0, <1>8 DEF ResetNext, Typed, CallTyped
  <2>2. \A s \in Slots : arp_table[s].state = "stable" => arp_table[s].netif \in Left
    BY <1>8, <1>a, <2>1 DEF ResetNext, StillToClean, Left
  <2>. QED BY <1>6, <1>8, <2>2 DEF ResetNext
<1>9. ASSUME NEW n \in Netifs, NEW h \in Hosts, NEW forUs \in BOOLEAN, ArpInput(n, h, forUs)
      PROVE  TargetListed' /\ StillToClean'
  <2>1. UNCHANGED main /\ Update(n, h, forUs) BY <1>9 DEF ArpInput
  <2>2. StillToClean'
    <3>1. CASE Inside BY <1>9, <1>a, <2>1, <3>1, ArpInside DEF StillToClean, main
    <3>2. CASE ~Inside BY <2>1, <3>2 DEF Inside, StillToClean, main
    <3>. QED BY <3>1, <3>2
  <2>3. ASSUME pc' = "wait", quiet'
        PROVE  \E s \in Slots : Has(arp_table', s, cur'.host)
                                /\ (answered' => arp_table'[s].state = "stable")
    <3>1. pc = "wait" /\ quiet /\ h = cur.host /\ cur' = cur
      BY <1>0, <1>9, <2>1, <2>3 DEF ArpInput, Noticed, main, Typed
    <3>2. PICK t \in Slots : Has(arp_table, t, h) BY <1>a, <3>1 DEF TargetListed
    <3>3. PICK s \in Slots : arp_table' = [arp_table EXCEPT ![s] = Learned(n, h)]
      BY <1>0, <2>1, <3>2, UpdateEffect
    <3>4. arp_table'[s].state = "stable" /\ arp_table'[s].ip = h BY <1>0, <3>3 DEF Learned
    <3>5. Has(arp_table', s, cur'.host) BY <3>1, <3>4 DEF Has
    <3>. QED BY <3>4, <3>5
  <2>. QED BY <2>2, <2>3 DEF TargetListed
<1>10. ASSUME NEW p \in Packets, NEW h \in Hosts, Reply(p, h) PROVE TargetListed' /\ StillToClean'
  <2>1. UNCHANGED main /\ answered' = answered BY <1>10 DEF Reply
  <2>2. StillToClean'
    <3>1. CASE Inside BY <1>10, <1>a, <2>1, <3>1, ReplyInside DEF StillToClean, main
    <3>2. CASE ~Inside BY <2>1, <3>2 DEF Inside, StillToClean, main
    <3>. QED BY <3>1, <3>2
  <2>3. ASSUME pc' = "wait", quiet'
        PROVE  \E s \in Slots : Has(arp_table', s, cur'.host)
                                /\ (answered' => arp_table'[s].state = "stable")
    <3>1. pc = "wait" /\ quiet /\ h = cur.host /\ cur' = cur
      BY <1>0, <1>10, <2>1, <2>3 DEF Reply, Noticed, main, Typed
    <3>2. PICK t \in Slots : Has(arp_table, t, h) /\ (answered => arp_table[t].state = "stable")
      BY <1>a, <3>1 DEF TargetListed
    <3>3. CASE UNCHANGED arp_table BY <2>1, <3>1, <3>2, <3>3
    <3>4. ASSUME Stable(h) = {}, NEW s \in Slots, NEW q,
                 arp_table' = [arp_table EXCEPT ![s] = Waiting(arp_table[s], q, h)]
          PROVE  Has(arp_table', s, cur'.host) /\ ~answered'
      <4>1. arp_table'[s].state = "pending" /\ arp_table'[s].ip = h BY <1>0, <3>4 DEF Waiting, Entries
      <4>2. ~answered BY <3>2, <3>4 DEF Stable, Has
      <4>. QED BY <2>1, <3>1, <4>1, <4>2 DEF Has
    <3>. QED BY <1>0, <1>10, <3>3, <3>4, ReplyEffect
  <2>. QED BY <2>2, <2>3 DEF TargetListed
<1>11. \/ pc' \notin {"wait", "clean"} \/ UNCHANGED vars \/ (Mark /\ pc' = "wait") \/ Report \/ Clean
       \/ \E n \in Netifs : Reset(n) \/ ResetNext(n)
       \/ \E n \in Netifs, h \in Hosts, forUs \in BOOLEAN : ArpInput(n, h, forUs)
       \/ \E p \in Packets, h \in Hosts : Reply(p, h)
  BY DEF Next, Send, Lookup, Find, Select, SetIp, Mark, Deliver, NoMemory, Copy, Drop, Store, Return,
         ResetDone, ScanNext, Scan, Query, HostDown, main
<1>. QED BY <1>1, <1>2, <1>3, <1>4, <1>5, <1>7, <1>8, <1>9, <1>10, <1>11

-----------------------------------------------------------------------------
(* The inductive invariant.                                                *)

(* Types hold whatever the interrupts do; everything the calls of the main *)
(* loop rely on holds until an interrupt changes the table inside a call.  *)
THEOREM Invariance == Spec => []IInv
<1>1. Init => IInv
  <2>. SUFFICES ASSUME Init PROVE IInv OBVIOUS
  <2>. USE NumberFacts
  <2>1. \A s \in Slots : /\ arp_table[s] = [state |-> "empty", ip |-> 0, netif |-> NULL, mac |-> 0, q |-> NULL]
                         /\ EntryOK(arp_table[s])
    BY DEF Init, EntryOK, Entries
  <2>2. TableOK(arp_table) BY <2>1 DEF TableOK, EntryOK, Init
  <2>3. Typed
    <3>1. cur \in Calls BY DEF Init, Idle, Calls
    <3>2. fate \in [Packets -> Fates] /\ dest \in [Packets -> Hosts \cup {0}] BY DEF Init, Fates
    <3>3. i \in 0 .. ARP_TABLE_SIZE + 1 BY DEF Init
    <3>. QED BY <2>2, <3>1, <3>2, <3>3 DEF Typed, Init
  <2>4. CallTyped BY DEF CallTyped, Init, InCall
  <2>5. \A s \in Slots : arp_table[s].state = "empty" /\ arp_table[s].q = NULL BY <2>1
  <2>6. Kept(arp_table, fate, dest, Slack) BY <2>5 DEF Kept, Init
  <2>7. SlotTrue /\ InHand /\ TargetListed /\ StillToClean
    BY DEF Init, SlotTrue, InHand, InCall, TargetListed, StillToClean
  <2>8. OneEntryEach /\ StableHaveSpoken /\ SentToOwner /\ ReportedHaveSpoken
    BY <2>5 DEF Init, OneEntryEach, StableHaveSpoken, SentToOwner, ReportedHaveSpoken
  <2>. QED BY <2>3, <2>4, <2>6, <2>7, <2>8 DEF IInv, Calm
<1>2. IInv /\ [Next]_vars => IInv'
  <2>. SUFFICES ASSUME IInv, [Next]_vars PROVE IInv' OBVIOUS
  <2>1. Typed' /\ CallTyped' BY TypedStep DEF IInv
  <2>2. ASSUME ~raced' PROVE Calm'
    <3>1. OneEntryEach' /\ StableHaveSpoken'
      BY <2>2, EntriesStep DEF OneEach, Spoken, OneEntryEach, StableHaveSpoken
    <3>2. SlotTrue' BY <2>2, SlotStep
    <3>3. Kept(arp_table, fate, dest, Slack)' /\ InHand' BY <2>2, PacketsStep DEF PacketsOK
    <3>4. SentToOwner' /\ ReportedHaveSpoken' BY <2>2, SentStep DEF SentToOwner, ReportedHaveSpoken
    <3>5. TargetListed' /\ StillToClean' BY <2>2, WaitStep
    <3>. QED BY <3>1, <3>2, <3>3, <3>4, <3>5 DEF Calm
  <2>. QED BY <2>1, <2>2 DEF IInv
<1>. QED BY <1>1, <1>2, PTL DEF Spec

(* The invariant says what TableSound does.                                *)
LEMMA Sound == IInv => TableSound
<1>. SUFFICES ASSUME IInv PROVE TableSound OBVIOUS
<1>. USE NumberFacts
<1>1. TypeOK
  <2>1. Typed /\ \A s \in Slots : EntryOK(arp_table[s]) BY DEF IInv, Typed, TableOK
  <2>2. arp_table \in [Slots -> Entries] BY DEF IInv, Typed, TableOK
  <2>. QED BY <2>1, <2>2 DEF TypeOK, Typed, EntryOK, Entries, Fates, InCall
<1>2. QueuesKept
  <2>. SUFFICES ASSUME ~raced, NEW p \in Packets
                PROVE  LET at == {s \in Slots : arp_table[s].q = p /\ ~(pc = "store" /\ s = slot)}
                       IN IF fate[p] = "queued"
                          THEN /\ Cardinality(at) = 1
                               /\ \A s \in at : arp_table[s].state = "pending"
                                                /\ arp_table[s].ip = dest[p]
                          ELSE fate[p] # "busy" => at = {}
    BY DEF QueuesKept
  <2>. DEFINE at == {s \in Slots : arp_table[s].q = p /\ ~(pc = "store" /\ s = slot)}
  <2>1. Kept(arp_table, fate, dest, Slack) BY DEF IInv, Calm
  <2>2. at = {s \in Slots \ Slack : arp_table[s].q = p} BY DEF Slack
  <2>3. ASSUME NEW s \in at
        PROVE  /\ fate[p] = "queued" /\ arp_table[s].state = "pending" /\ arp_table[s].ip = dest[p]
               /\ \A t \in at : t = s
    BY <2>1, <2>2 DEF Kept
  <2>4. ASSUME fate[p] = "queued" PROVE Cardinality(at) = 1
    <3>1. PICK s \in Slots \ Slack : arp_table[s].q = p BY <2>1, <2>4 DEF Kept
    <3>2. at = {s} BY <2>2, <2>3, <3>1
    <3>. QED BY <3>2, FS_Singleton
  <2>. QED BY <2>3, <2>4
<1>3. OneEntryEach /\ StableHaveSpoken /\ SentToOwner /\ ReportedHaveSpoken
  BY DEF IInv, Calm, OneEntryEach, StableHaveSpoken, SentToOwner, ReportedHaveSpoken
<1>. QED BY <1>1, <1>2, <1>3 DEF TableSound

(* etharp.c: a host has one entry, with the address it announced itself;   *)
(* every queued packet is on the pending entry of its host, exactly once,  *)
(* and goes nowhere else; the scan prints only hosts that spoke.  For any  *)
(* table and any traffic, unless an interrupt changed the table in the     *)
(* middle of a call of the main loop.                                      *)
THEOREM TableSoundCorrect == Spec => []TableSound
BY Invariance, Sound, PTL

(* ping.c, scan_network: a target that answered while the scan waited is   *)
(* found by etharp_find_addr and printed, if nothing else came in.         *)
THEOREM ScanFindsCorrect == Spec => ScanFinds
<1>1. ASSUME IInv, Report, answered, quiet, ~raced PROVE cur.host \in reported'
  <2>. USE NumberFacts
  <2>1. TargetListed /\ OneEach(arp_table) /\ arp_table \in [Slots -> Entries] /\ pc = "wait"
    BY <1>1 DEF IInv, Calm, OneEntryEach, OneEach, Typed, TableOK, Report
  <2>2. PICK s \in Slots : Has(arp_table, s, cur.host) /\ arp_table[s].state = "stable"
    BY <1>1, <2>1 DEF TargetListed
  <2>3. NoteTyped(arp_table, Sweep(cur.host), ARP_TABLE_SIZE)
        /\ NoteTrue(arp_table, Sweep(cur.host), ARP_TABLE_SIZE, cur.host)
    BY <2>1, SweepFacts
  <2>4. PICK t : t = Sweep(cur.host).hit OBVIOUS
  <2>5. t \in Slots /\ Has(arp_table, t, cur.host) BY <2>2, <2>3, <2>4 DEF NoteTyped, NoteTrue, Notes
  <2>6. t = s BY <2>1, <2>2, <2>5 DEF OneEach, Has
  <2>7. IsUp(t) BY <2>2, <2>5, <2>6 DEF IsUp
  <2>. QED BY <1>1, <2>4, <2>7 DEF Report
<1>2. IInv => [Report /\ answered /\ quiet /\ ~raced => cur.host \in reported']_vars BY <1>1
<1>. QED BY <1>2, Invariance, PTL DEF ScanFinds

(* The reset goes through every interface: at its end no stable entry is   *)
(* left, if no interrupt changed the table meanwhile.                      *)
THEOREM ResetForgetsCorrect == Spec => ResetForgets
<1>1. ASSUME IInv, ResetDone, ~raced PROVE \A s \in Slots : arp_table[s].state # "stable"
  <2>. USE NumberFacts
  <2>1. StillToClean /\ pc = "clean" /\ cur.op = "reset" /\ cur.left = {} /\ i \notin Slots
    BY <1>1 DEF IInv, Calm, ResetDone, Left
  <2>2. i = ARP_TABLE_SIZE + 1 BY <1>1, <2>1 DEF IInv, Typed, CallTyped
  <2>. QED BY <2>1, <2>2 DEF StillToClean
<1>2. IInv => [ResetDone /\ ~raced => \A s \in Slots : arp_table[s].state # "stable"]_vars BY <1>1
<1>. QED BY <1>2, Invariance, PTL DEF ResetForgets
=============================================================================
