------------------------------- MODULE Etharp -------------------------------
(***************************************************************************)
(* The ARP table (etharp.c) and the network scan (scan_network).           *)
(*                                                                         *)
(* The main loop sends packets, scans and resets the table with interrupts *)
(* on; the receive interrupt updates the same table and sends replies of   *)
(* its own.  An interrupt runs to its end; a call from the main loop is    *)
(* one step for each access another context can notice.                    *)
(*                                                                         *)
(* A host is the last byte of its address, and its MAC address; a packet's *)
(* host is its next hop, never a broadcast address.  Nothing calls         *)
(* etharp_tmr: no entry ages, so ctime is left out, and of several         *)
(* entries of a kind etharp_find_entry recycles the last.                  *)
(***************************************************************************)
EXTENDS Naturals, FiniteSets

CONSTANTS
  ARP_TABLE_SIZE,
  LastHost, Own,        \* hosts 1 .. LastHost, without the board's own
  CleanEvery,           \* the scan cleans the table every so many targets
  Netifs,
  Sessions,             \* ways to use the table: ops, of "send", "reply",
                        \* "scan", "reset", "off", and the number of packets
  MaxPackets, MaxArp,
  NULL

ASSUME EtharpAssumption ==
  /\ {ARP_TABLE_SIZE, CleanEvery} \subseteq Nat \ {0}
  /\ {LastHost, Own, MaxPackets, MaxArp} \subseteq Nat
  /\ NULL \notin Netifs \cup Nat

Slots == 1 .. ARP_TABLE_SIZE
Hosts == (1 .. LastHost) \ {Own}
Packets == 1 .. MaxPackets

VARIABLES
  arp_table,
  pc, cur, i, found, slot,   \* the call of the main loop and its variables
  dest, fate,                \* of each packet: its host, and what became of it
  up,                        \* hosts that answer
  spoke,                     \* hosts an ARP message ever came from
  answered, quiet,           \* the target answered; nothing else came in
  reported,                  \* hosts the scan under way has printed
  missent,                   \* a packet went to another host's MAC address
  raced,                     \* the table changed during a call
  arps,                      \* bound on ARP messages
  session                    \* how the table is used, chosen once

main == <<pc, cur, i, found, slot>>
scan == <<answered, quiet, reported>>
net == <<up, spoke, arps, session>>
vars == <<arp_table, main, dest, fate, net, scan, missent, raced>>

Idle == [op |-> NULL, netif |-> NULL, host |-> 0, pkt |-> NULL, left |-> {}]
Nothing == [hit |-> 0, empty |-> 0, stable |-> 0, pending |-> 0, queue |-> 0]

Init ==
  /\ arp_table = [s \in Slots |-> [state |-> "empty", ip |-> 0,
                                   netif |-> NULL, mac |-> 0, q |-> NULL]]
  /\ pc = "idle" /\ cur = Idle /\ i = 0 /\ found = Nothing /\ slot = 0
  /\ dest = [p \in Packets |-> 0] /\ fate = [p \in Packets |-> "none"]
  /\ up = Hosts /\ spoke = {} /\ arps = 0 /\ session \in Sessions
  /\ answered = FALSE /\ quiet = TRUE /\ reported = {}
  /\ missent = FALSE /\ raced = FALSE

-----------------------------------------------------------------------------
(* etharp_find_entry.                                                      *)

(* One entry of the sweep: r is what was remembered so far.                *)
PendingClass(e) == IF e.q = NULL THEN "pending" ELSE "queue"

Note(r, e, s, h) ==
  CASE e.state = "empty"   -> IF r.empty = 0 THEN [r EXCEPT !.empty = s] ELSE r
    [] e.state # "empty" /\ e.ip = h -> [r EXCEPT !.hit = s]
    [] e.state = "stable" /\ e.ip # h  -> [r EXCEPT !.stable = s]
    [] e.state = "pending" /\ e.ip # h -> [r EXCEPT ![PendingClass(e)] = s]

Sweep(h) ==
  LET f[s \in 0 .. ARP_TABLE_SIZE] ==
        IF s = 0 THEN Nothing
        ELSE IF f[s - 1].hit # 0 THEN f[s - 1]
        ELSE Note(f[s - 1], arp_table[s], s, h)
  IN f[ARP_TABLE_SIZE]

(* The entry to use, and whether it is taken from somebody else.           *)
ChoiceMut(r) ==
  IF r.empty # 0 THEN r.empty ELSE IF r.hit # 0 THEN r.hit
  ELSE IF r.stable # 0 THEN r.stable
  ELSE IF r.pending # 0 THEN r.pending ELSE r.queue
Choice(r) ==
  IF r.hit # 0 THEN r.hit ELSE IF r.empty # 0 THEN r.empty
  ELSE IF r.stable # 0 THEN r.stable
  ELSE IF r.pending # 0 THEN r.pending ELSE r.queue

Recycles(r) == r.hit = 0 /\ r.empty = 0

(* etharp_free_entry; the interface and the addresses stay.                *)
Emptied(e) == [e EXCEPT !.state = "empty", !.q = NULL]

(* The fates of packets after q is freed, or sent to m.                    *)
Free(f, q) == IF q = NULL THEN f ELSE [f EXCEPT ![q] = "dropped"]
Sent(f, q) == IF q = NULL THEN f ELSE [f EXCEPT ![q] = "sent"]
Wrong(q, m) == q # NULL /\ dest[q] # m

(* The entries etharp_output may use for h: the one it used last, if it is *)
(* one of these, or the first; there is only one, unless a race made two.  *)
Stable(h) == {s \in Slots : arp_table[s].state = "stable" /\ arp_table[s].ip = h}

-----------------------------------------------------------------------------
(* The main loop: etharp_output, etharp_query.                             *)

NewPacket(p, h) ==
  /\ p <= session.packets
  /\ fate[p] = "none" /\ \A o \in 1 .. p - 1 : fate[o] # "none"
  /\ dest' = [dest EXCEPT ![p] = h]

Send(p, n, h) ==
  /\ pc = "idle" /\ "send" \in session.ops /\ NewPacket(p, h)
  /\ fate' = [fate EXCEPT ![p] = "busy"]
  /\ cur' = [Idle EXCEPT !.op = "send", !.netif = n, !.host = h, !.pkt = p]
  /\ pc' = "lookup"
  /\ UNCHANGED <<arp_table, i, found, slot, net, scan, missent, raced>>

Lookup ==
  /\ pc = "lookup"
  /\ IF Stable(cur.host) # {}
     THEN pc' = "output" /\ slot' \in Stable(cur.host) /\ UNCHANGED i
     ELSE pc' = "find" /\ i' = 1 /\ UNCHANGED slot
  /\ UNCHANGED <<arp_table, cur, found, dest, fate, net, scan, missent, raced>>

Find ==
  /\ pc = "find" /\ i \in Slots /\ found.hit = 0
  /\ found' = Note(found, arp_table[i], i, cur.host)
  /\ i' = i + 1
  /\ UNCHANGED <<arp_table, pc, cur, slot, dest, fate, net, scan, missent,
                 raced>>

(* The least important entry is freed, with the packet it holds.           *)
Select ==
  /\ pc = "find" /\ (i \notin Slots \/ found.hit # 0)
  /\ slot' = Choice(found)
  /\ pc' = IF found.hit # 0 THEN "mark" ELSE "setip"
  /\ found' = Nothing /\ i' = 0
  /\ IF Recycles(found)
     THEN /\ fate' = Free(fate, arp_table[slot'].q)
          /\ arp_table' = [arp_table EXCEPT ![slot'] = Emptied(@)]
     ELSE UNCHANGED <<fate, arp_table>>
  /\ UNCHANGED <<cur, dest, net, scan, missent, raced>>

SetIp ==
  /\ pc = "setip"
  /\ arp_table' = [arp_table EXCEPT ![slot].ip = cur.host]
  /\ pc' = "mark"
  /\ UNCHANGED <<cur, i, found, slot, dest, fate, net, scan, missent, raced>>

(* A fresh entry becomes pending; the request goes out.                    *)
MarkedMutNever(st) == st
Marked(st) == IF st = "empty" THEN "pending" ELSE st

Mark ==
  /\ pc = "mark"
  /\ arp_table' = [arp_table EXCEPT ![slot].state = Marked(@)]
  /\ IF cur.pkt = NULL
     THEN pc' = "wait" /\ answered' = FALSE /\ quiet' = TRUE /\ slot' = 0
     ELSE pc' = "deliver" /\ UNCHANGED <<answered, quiet, slot>>
  /\ UNCHANGED <<cur, i, found, dest, fate, net, reported, missent, raced>>

Return == pc' = "idle" /\ cur' = Idle /\ slot' = 0

(* The packet goes to the address in the entry, which etharp_query tests   *)
(* again and etharp_output does not.                                       *)
Deliver ==
  /\ pc = "output" \/ (pc = "deliver" /\ arp_table[slot].state = "stable")
  /\ fate' = Sent(fate, cur.pkt)
  /\ missent' = (missent \/ Wrong(cur.pkt, arp_table[slot].mac))
  /\ Return
  /\ UNCHANGED <<arp_table, i, found, dest, net, scan, raced>>

(* Pending: the packet is copied, unless there is no memory.               *)
NoMemory ==
  /\ pc = "deliver" /\ arp_table[slot].state = "pending"
  /\ fate' = Free(fate, cur.pkt)
  /\ Return
  /\ UNCHANGED <<arp_table, i, found, dest, net, scan, missent, raced>>

Copy ==
  /\ pc = "deliver" /\ arp_table[slot].state = "pending"
  /\ pc' = "drop"
  /\ UNCHANGED <<arp_table, cur, i, found, slot, dest, fate, net, scan,
                 missent, raced>>

(* The packet queued before is freed, and the new one takes its place.     *)
Replaced(f, q) == Free(f, q)

Drop ==
  /\ pc = "drop"
  /\ fate' = Replaced(fate, arp_table[slot].q)
  /\ pc' = "store"
  /\ UNCHANGED <<arp_table, cur, i, found, slot, dest, net, scan, missent,
                 raced>>

Store ==
  /\ pc = "store"
  /\ arp_table' = [arp_table EXCEPT ![slot].q = cur.pkt]
  /\ fate' = [fate EXCEPT ![cur.pkt] = "queued"]
  /\ Return
  /\ UNCHANGED <<i, found, dest, net, scan, missent, raced>>

-----------------------------------------------------------------------------
(* ARPRESET and the scan.                                                  *)

(* etharp_cleanup_netif, one entry at a step: cur.netif is the interface.  *)
Cleaned(e) == e.state # "empty" /\ e.netif = cur.netif

Clean ==
  /\ pc = "clean" /\ i \in Slots
  /\ i' = i + 1
  /\ IF Cleaned(arp_table[i])
     THEN /\ fate' = Free(fate, arp_table[i].q)
          /\ arp_table' = [arp_table EXCEPT ![i] = Emptied(@)]
     ELSE UNCHANGED <<fate, arp_table>>
  /\ UNCHANGED <<pc, cur, found, slot, dest, net, scan, missent, raced>>

(* The reset goes through the interfaces, in the order of the list.        *)
CleanNetif(n, left) ==
  /\ cur' = [Idle EXCEPT !.op = "reset", !.netif = n, !.left = left \ {n}]
  /\ pc' = "clean" /\ i' = 1
  /\ UNCHANGED <<arp_table, found, slot, dest, fate, net, scan, missent, raced>>

Reset(n) ==
  /\ pc = "idle" /\ "reset" \in session.ops
  /\ CleanNetif(n, Netifs)

LeftMut == {}
Left == cur.left

ResetNext(n) ==
  /\ pc = "clean" /\ cur.op = "reset" /\ i \notin Slots /\ n \in Left
  /\ CleanNetif(n, Left)

ResetDone ==
  /\ pc = "clean" /\ cur.op = "reset" /\ i \notin Slots /\ Left = {}
  /\ Return /\ i' = 0
  /\ UNCHANGED <<arp_table, found, dest, fate, net, scan, missent, raced>>

(* scan_network: the next target, or the end.  The board's own address is  *)
(* passed over together with the cleaning that follows a target.           *)
Target(h) == IF h = Own THEN h + 1 ELSE h

Query(n, h) ==
  IF h > LastHost
  THEN pc' = "idle" /\ cur' = Idle /\ i' = 0
  ELSE /\ pc' = "find" /\ i' = 1
       /\ cur' = [Idle EXCEPT !.op = "scan", !.netif = n, !.host = h]

Scan(n) ==
  /\ pc = "idle" /\ "scan" \in session.ops
  /\ reported' = {}
  /\ Query(n, Target(1))
  /\ UNCHANGED <<arp_table, found, slot, dest, fate, net, answered, quiet,
                 missent, raced>>

(* After 50 ms: etharp_find_addr.                                          *)
IsUp(s) == s # 0 /\ arp_table[s].state = "stable"

Report ==
  /\ pc = "wait"
  /\ reported' = reported \cup (IF IsUp(Sweep(cur.host).hit) THEN {cur.host} ELSE {})
  /\ pc' = "clean"
  /\ i' = IF cur.host % CleanEvery = 0 THEN 1 ELSE ARP_TABLE_SIZE + 1
  /\ answered' = FALSE /\ quiet' = TRUE
  /\ UNCHANGED <<arp_table, cur, found, slot, dest, fate, net, missent, raced>>

ScanNext ==
  /\ pc = "clean" /\ cur.op = "scan" /\ i \notin Slots
  /\ Query(cur.netif, Target(cur.host + 1))
  /\ UNCHANGED <<arp_table, found, slot, dest, fate, net, scan, missent, raced>>

-----------------------------------------------------------------------------
(* The receive interrupt.                                                  *)

Inside == pc \notin {"idle", "wait"}

(* Ghosts: what an interrupt that concerns host h means to the main loop.  *)
Noticed(h) ==
  /\ raced' = (raced \/ (Inside /\ arp_table' # arp_table))
  /\ quiet' = (quiet /\ (pc # "wait" \/ h = cur.host))

(* etharp_update_arp_entry: the entry of h becomes stable, and the packet  *)
(* queued on it is sent, unless it was somebody else's and is recycled.    *)
Update(n, h, tryHard) ==
  LET r == Sweep(h)
      s == IF tryHard THEN Choice(r) ELSE r.hit
      q == IF s = 0 \/ Recycles(r) THEN NULL ELSE arp_table[s].q
  IN IF s = 0 THEN UNCHANGED <<arp_table, fate, missent>>
     ELSE /\ arp_table' = [arp_table EXCEPT ![s] =
               [state |-> "stable", ip |-> h, netif |-> n, mac |-> h,
                q |-> NULL]]
          /\ fate' = IF Recycles(r) THEN Free(fate, arp_table[s].q)
                     ELSE Sent(fate, q)
          /\ missent' = (missent \/ Wrong(q, h))

(* etharp_arp_input: an ARP message of host h, for us or not.              *)
ArpInput(n, h, forUs) ==
  /\ h \in up /\ arps < MaxArp
  /\ arps' = arps + 1
  /\ spoke' = spoke \cup {h}
  /\ Update(n, h, forUs)
  /\ answered' = (answered \/ (pc = "wait" /\ h = cur.host))
  /\ Noticed(h)
  /\ UNCHANGED <<main, dest, up, session, reported>>

(* A reply sent by the interrupt itself (ICMP echo, locator): etharp_output *)
(* in one piece.  It is copied if it has to wait, or dropped for want of   *)
(* memory; the entry is pending all the same.                              *)
Reply(p, h) ==
  LET r == Sweep(h)
      s == Choice(r)
      e == arp_table[s]
  IN /\ "reply" \in session.ops /\ NewPacket(p, h)
     /\ \/ \E t \in Stable(h) :
             /\ fate' = [fate EXCEPT ![p] = "sent"]
             /\ missent' = (missent \/ h # arp_table[t].mac)
             /\ UNCHANGED arp_table
        \/ /\ Stable(h) = {}
           /\ arp_table' = [arp_table EXCEPT ![s] =
                 [e EXCEPT !.state = "pending", !.ip = h, !.q = p]]
           /\ fate' = [Free(fate, e.q) EXCEPT ![p] = "queued"]
           /\ UNCHANGED missent
        \/ /\ Stable(h) = {}
           /\ LET q == IF Recycles(r) THEN NULL ELSE e.q
                  f == IF Recycles(r) THEN Free(fate, e.q) ELSE fate
              IN /\ arp_table' = [arp_table EXCEPT ![s] =
                       [e EXCEPT !.state = "pending", !.ip = h, !.q = q]]
                 /\ fate' = [f EXCEPT ![p] = "dropped"]
           /\ UNCHANGED missent
     /\ Noticed(h)
     /\ UNCHANGED <<main, net, answered, reported>>

(* A host is switched off.                                                 *)
HostDown(h) ==
  /\ "off" \in session.ops /\ h \in up /\ pc = "idle"
  /\ up' = up \ {h}
  /\ UNCHANGED <<arp_table, main, dest, fate, spoke, arps, session, scan, missent,
                 raced>>

-----------------------------------------------------------------------------
Next ==
  \/ \E p \in Packets, n \in Netifs, h \in Hosts : Send(p, n, h)
  \/ Lookup \/ Find \/ Select \/ SetIp \/ Mark
  \/ Deliver \/ NoMemory \/ Copy \/ Drop \/ Store
  \/ Clean \/ ResetDone \/ Report \/ ScanNext
  \/ \E n \in Netifs : Reset(n) \/ ResetNext(n) \/ Scan(n)
  \/ \E n \in Netifs, h \in Hosts, forUs \in BOOLEAN : ArpInput(n, h, forUs)
  \/ \E p \in Packets, h \in Hosts : Reply(p, h)
  \/ \E h \in Hosts : HostDown(h)

Spec == Init /\ [][Next]_vars

-----------------------------------------------------------------------------
(* Properties.                                                             *)

(* Types; an entry in use has an address, and a free one holds no packet.  *)
TypeOK ==
  /\ arp_table \in [Slots -> [state : {"empty", "pending", "stable"},
                              ip : Hosts \cup {0}, netif : Netifs \cup {NULL},
                              mac : Hosts \cup {0},
                              q : Packets \cup {NULL}]]
  /\ pc \in {"idle", "lookup", "find", "setip", "mark", "output",
             "deliver", "drop", "store", "wait", "clean"}
  /\ fate \in [Packets -> {"none", "busy", "sent", "queued", "dropped"}]
  /\ reported \subseteq Hosts /\ slot \in Slots \cup {0}
  /\ \A s \in Slots :
       /\ arp_table[s].state # "empty" => arp_table[s].ip # 0
       /\ arp_table[s].state = "empty" => arp_table[s].q = NULL

(* A host has at most one entry, unless the interrupt came in the middle   *)
(* of a call of the main loop.                                             *)
OneEntryEach ==
  raced \/ \A s, t \in Slots :
             /\ arp_table[s].state # "empty" /\ arp_table[t].state # "empty"
             /\ arp_table[s].ip = arp_table[t].ip
             => s = t

(* No packet goes to another host, under the same reservation.             *)
SentToOwner == raced \/ ~missent

(* A queued packet is in exactly one entry, that entry is its host's and   *)
(* still pending, and nothing else is in a queue: none is lost, freed      *)
(* twice or left behind when its host answers.                             *)
QueuesKept ==
  raced \/ \A p \in Packets :
    LET at == {s \in Slots : arp_table[s].q = p /\ ~(pc = "store" /\ s = slot)}
    IN IF fate[p] = "queued"
       THEN /\ Cardinality(at) = 1
            /\ \A s \in at : arp_table[s].state = "pending"
                             /\ arp_table[s].ip = dest[p]
       ELSE fate[p] # "busy" => at = {}

(* A stable entry has the MAC address its own host announced.              *)
StableHaveSpoken ==
  raced \/ \A s \in Slots :
    arp_table[s].state = "stable" => arp_table[s].mac \in spoke
                                     /\ arp_table[s].mac = arp_table[s].ip

(* The scan prints no host that never sent an ARP message.                 *)
ReportedHaveSpoken == raced \/ reported \subseteq spoke

(* What etharp.c keeps of its table, its queues and what is read from it   *)
(* when every call of the main loop runs undisturbed.                      *)
TableSound ==
  /\ TypeOK /\ OneEntryEach /\ QueuesKept /\ StableHaveSpoken
  /\ SentToOwner /\ ReportedHaveSpoken

(* The scan prints a host that answers within its 50 ms, if no other       *)
(* message comes in between and no interrupt came inside a call.           *)
ScanFinds ==
  [][Report /\ answered /\ quiet /\ ~raced => cur.host \in reported']_vars

(* etharp.c, at ethernet_input: "the ARP cache is protected from           *)
(* concurrent access".  Every stable entry has its own host's address.     *)
CacheProtected ==
  \A s \in Slots : arp_table[s].state = "stable" => arp_table[s].mac = arp_table[s].ip

(* etharp.c, in etharp_find_entry: "no queued packets should exist on      *)
(* stable entries".                                                        *)
NoQueueOnStable ==
  \A s \in Slots : arp_table[s].state = "stable" => arp_table[s].q = NULL

(* ping.c: scan_network prints the hosts that answer.  A host that is      *)
(* switched off is not printed.                                            *)
ScanPrintsAnswering == [][Report => reported' \subseteq up]_vars

(* A reset leaves no stable entry that an interface of the list learned,   *)
(* if no message came while it ran.                                        *)
ResetForgets ==
  [][ResetDone /\ ~raced => \A s \in Slots : arp_table[s].state # "stable"]_vars

(* README: ARPRESET clears "the ARP cache on all interfaces".              *)
ResetEmpties ==
  [][ResetDone /\ ~raced => \A s \in Slots : arp_table[s].state = "empty"]_vars
=============================================================================
