------------------------------ MODULE UdpPcbList ------------------------------
(***************************************************************************)
(* The list of UDP pcbs of lwIP (udp.c), link by link.  udp_input, in the  *)
(* receive interrupt, moves a pcb that matches source and destination to   *)
(* the front; udp_bind, called by udp_source_add_listener with interrupts  *)
(* on, walks the same list and links a pcb into it with two stores.        *)
(* udp_remove runs with interrupts off.                                    *)
(*                                                                         *)
(* LwipUdp has the list as a set and udp_bind as one step; this module is  *)
(* about what that leaves out.  A key is a local address and port.  Every  *)
(* listed pcb can be moved: the locator's has remote port 23, the others   *)
(* remote port 0, and a datagram may come from either.                     *)
(***************************************************************************)
EXTENDS Naturals, FiniteSets

CONSTANTS
  PCBs, LOC,     \* the pcbs; LOC is the locator's, bound for ever
  Keys, LocKey,
  MaxMoves, MaxOpens,
  NULL

ASSUME ListAssumption ==
  /\ IsFiniteSet(PCBs) /\ LOC \in PCBs /\ LocKey \in Keys
  /\ NULL \notin PCBs \cup Keys
  /\ MaxMoves \in Nat /\ MaxOpens \in Nat

VARIABLES
  udp_pcbs, next,
  key,           \* local_ip and local_port, or NULL
  live,          \* pcbs taken from the pool
  pc, pcb, want, ipcb,   \* udp_bind and its variables
  walkRaced,     \* a pcb was moved while udp_bind walked the list
  linkRaced,     \* ... or between its two stores
  moves, opens   \* bounds

bind == <<pc, pcb, want, ipcb>>
vars == <<udp_pcbs, next, key, live, bind, walkRaced, linkRaced, moves, opens>>

(* The pcbs met from p on, in order, and those on the list.                *)
ReachableIn(nx, p) ==
  LET at[i \in 0 .. Cardinality(PCBs)] ==
        IF i = 0 THEN p
        ELSE IF at[i - 1] = NULL THEN NULL ELSE nx[at[i - 1]]
  IN at

Listed ==
  LET at == ReachableIn(next, udp_pcbs)
  IN {at[i] : i \in 0 .. Cardinality(PCBs)} \ {NULL}

Init ==
  /\ udp_pcbs = LOC /\ next = [p \in PCBs |-> NULL]
  /\ key = [p \in PCBs |-> IF p = LOC THEN LocKey ELSE NULL]
  /\ live = {LOC}
  /\ pc = "idle" /\ pcb = NULL /\ want = NULL /\ ipcb = NULL
  /\ walkRaced = FALSE /\ linkRaced = FALSE /\ moves = 0 /\ opens = 0

-----------------------------------------------------------------------------
(* udp_source_add_listener: udp_new, then udp_bind step by step.           *)

(* memset: the pcb comes back from the pool with no link and no address.   *)
Zeroed(f, p) == [f EXCEPT ![p] = NULL]

udp_new(p, k) ==
  /\ pc = "idle" /\ p \notin live /\ opens < MaxOpens
  /\ opens' = opens + 1
  /\ live' = live \cup {p}
  /\ key' = Zeroed(key, p)
  /\ next' = Zeroed(next, p)
  /\ pcb' = p /\ want' = k /\ ipcb' = udp_pcbs /\ pc' = "walk"
  /\ UNCHANGED <<udp_pcbs, walkRaced, linkRaced, moves>>

InUse == key[ipcb] = want

BindWalk ==
  /\ pc = "walk" /\ ipcb # NULL /\ ~InUse
  /\ ipcb' = next[ipcb]
  /\ UNCHANGED <<udp_pcbs, next, key, live, pc, pcb, want, walkRaced,
                 linkRaced, moves, opens>>

(* ERR_USE: add_listener gives the pcb back.                               *)
BindInUse ==
  /\ pc = "walk" /\ ipcb # NULL /\ InUse
  /\ live' = live \ {pcb}
  /\ pc' = "idle" /\ pcb' = NULL /\ want' = NULL /\ ipcb' = NULL
  /\ UNCHANGED <<udp_pcbs, next, key, walkRaced, linkRaced, moves,
                 opens>>

BindKey ==
  /\ pc = "walk" /\ ipcb = NULL
  /\ key' = [key EXCEPT ![pcb] = want]
  /\ pc' = "link"
  /\ UNCHANGED <<udp_pcbs, next, live, pcb, want, ipcb, walkRaced,
                 linkRaced, moves, opens>>

(* pcb->next = udp_pcbs; udp_pcbs = pcb;                                   *)
NewNext == udp_pcbs

BindLink ==
  /\ pc = "link"
  /\ next' = [next EXCEPT ![pcb] = NewNext]
  /\ pc' = "head"
  /\ UNCHANGED <<udp_pcbs, key, live, pcb, want, ipcb, walkRaced,
                 linkRaced, moves, opens>>

BindHead ==
  /\ pc = "head"
  /\ udp_pcbs' = pcb
  /\ pc' = "idle" /\ pcb' = NULL /\ want' = NULL
  /\ UNCHANGED <<next, key, live, ipcb, walkRaced, linkRaced, moves,
                 opens>>

-----------------------------------------------------------------------------
(* udp_remove, in a critical section, for a pcb of the registry.           *)
Unlinked(p) ==
  [q \in PCBs |-> IF q \in Listed /\ next[q] = p THEN next[p] ELSE next[q]]

udp_remove(p) ==
  /\ pc = "idle" /\ p \in live \ {LOC}
  /\ IF udp_pcbs = p
     THEN udp_pcbs' = next[p] /\ UNCHANGED next
     ELSE next' = Unlinked(p) /\ UNCHANGED udp_pcbs
  /\ live' = live \ {p}
  /\ UNCHANGED <<key, bind, walkRaced, linkRaced, moves, opens>>

RelinksMut(p) == p # udp_pcbs
Relinks(p) == p \notin Listed

(* udp_source_netif_ip_changed binds a pcb again, in a critical section,   *)
(* at another address and its old port: udp_bind in one piece.  A pcb that *)
(* the walk does not meet is linked as if it were new.                     *)
Rebind(p, k) ==
  /\ pc = "idle" /\ p \in live \ {LOC} /\ (k = LocKey) = (key[p] = LocKey)
  /\ key[p] # k /\ \A q \in Listed \ {p} : key[q] # k
  /\ key' = [key EXCEPT ![p] = k]
  /\ IF Relinks(p)
     THEN next' = [next EXCEPT ![p] = udp_pcbs] /\ udp_pcbs' = p
     ELSE UNCHANGED <<next, udp_pcbs>>
  /\ UNCHANGED <<live, bind, walkRaced, linkRaced, moves, opens>>

(* udp_input: the first pcb of the list that matches goes to the front,    *)
(* unless it is there already.  The locator's pcb matches other senders    *)
(* than the rest, so neither hides the other.                              *)
Prev(q) == CHOOSE p \in Listed : next[p] = q

MovedMut(q) == [next EXCEPT ![q] = udp_pcbs]
Moved(q) == [next EXCEPT ![Prev(q)] = next[q], ![q] = udp_pcbs]

First(q) ==
  LET at == ReachableIn(next, udp_pcbs)
      pos(p) == CHOOSE i \in 0 .. Cardinality(PCBs) : at[i] = p
  IN q = LOC
       \/ \A p \in Listed \ {LOC} : key[p] = key[q] => pos(q) <= pos(p)

udp_input(q) ==
  /\ moves < MaxMoves
  /\ q \in Listed /\ First(q) /\ q # udp_pcbs
  /\ moves' = moves + 1
  /\ next' = Moved(q)
  /\ udp_pcbs' = q
  /\ walkRaced' = (walkRaced \/ pc = "walk")
  /\ linkRaced' = (linkRaced \/ pc = "head")
  /\ UNCHANGED <<key, live, bind, opens>>

-----------------------------------------------------------------------------
Next ==
  \/ \E p \in PCBs, k \in Keys : udp_new(p, k) \/ Rebind(p, k)
  \/ BindWalk \/ BindInUse \/ BindKey \/ BindLink \/ BindHead
  \/ \E p \in PCBs : udp_remove(p) \/ udp_input(p)

Spec == Init /\ [][Next]_vars /\ WF_vars(BindWalk \/ BindInUse \/ BindKey
                                           \/ BindLink \/ BindHead)

-----------------------------------------------------------------------------
(* Properties.                                                             *)

Bound == IF pc = "idle" THEN live ELSE live \ {pcb}

(* Types; a pcb that is not linked yet has no link, and none that was left *)
(* from its last use.                                                      *)
TypeOK ==
  /\ udp_pcbs \in PCBs \cup {NULL} /\ next \in [PCBs -> PCBs \cup {NULL}]
  /\ key \in [PCBs -> Keys \cup {NULL}] /\ LOC \in live /\ live \subseteq PCBs
  /\ pc \in {"idle", "walk", "link", "head"}
  /\ pcb \in live \cup {NULL} /\ (pc = "idle") = (pcb = NULL)
  /\ ipcb \in PCBs \cup {NULL} /\ want \in Keys \cup {NULL}
  /\ pc \in {"walk", "link"} => next[pcb] = NULL
  /\ pc = "walk" => key[pcb] = NULL

(* However the interrupt moves pcbs around udp_bind, the list ends, and it *)
(* never leads to a pcb that was given back to the pool: udp_input always  *)
(* returns and calls no callback of a closed socket.                       *)
ListSound ==
  /\ ReachableIn(next, udp_pcbs)[Cardinality(PCBs)] = NULL
  /\ Listed \subseteq live

(* Every bound pcb can be found, unless a pcb was once moved between the   *)
(* two stores of udp_bind.                                                 *)
AllListed == linkRaced \/ Bound \subseteq Listed

(* No key is bound twice, unless a pcb was once moved during the walk or   *)
(* the list lost one.                                                      *)
KeysApart ==
  walkRaced \/ linkRaced
    \/ \A p, q \in Bound : p # q => key[p] # key[q]

(* The list as udp_bind, udp_input and udp_remove leave it: sound whatever *)
(* happens, complete and without double keys unless a move came inside     *)
(* udp_bind.                                                               *)
PcbsSound == TypeOK /\ ListSound /\ AllListed /\ KeysApart

(* udp_bind ends, although the interrupt may send its walk back to the     *)
(* front of the list.                                                      *)
BindEnds == pc # "idle" ~> pc = "idle"

(* udp.c: udp_input moves a pcb "to the front of udp_pcbs so that is found *)
(* faster next time".                                                      *)
MovedIsFound == Bound \subseteq Listed

(* udp.c: udp_bind returns ERR_USE when "the specified ipaddr and port are *)
(* already bound to by another UDP PCB".                                   *)
DoubleBindRefused == \A p, q \in Bound : p # q => key[p] # key[q]
===============================================================================
