------------------------------ MODULE UdpSource ------------------------------
(***************************************************************************)
(* The UDP socket registry (src/UDP_source.c) with the layers it works on: *)
(* the pcbs of lwIP, the interface pool, the cascade of net_manager.c, and *)
(* the two contexts that share them.                                       *)
(*                                                                         *)
(* The MAIN LOOP (EMAC_LwIP_Main) repeats a pass of udp_source_poll_rx     *)
(* over all sockets and then executes at most one command.  The EMAC       *)
(* receive INTERRUPT runs udp_input and udp_rx_callback to completion      *)
(* between any two steps of the main loop, except inside                   *)
(* SYS_ARCH_PROTECT.  A protected section is therefore one step, or        *)
(* several steps with the interrupt shut out (pc = "rebind"); a section    *)
(* that is not protected, above all udp_source_add_listener, is one step   *)
(* per store that the interrupt can tell apart.                            *)
(***************************************************************************)
EXTENDS LwipUdp

CONSTANTS
  UDP_MAX_LISTENERS,
  GenMod,        \* values of the u8_t generation_count: 256
  BcastNet,      \* the addresses of the network a broadcast is sent to
  NULL, NoMsg,
  MaxCloses,     \* bound: closings of one slot
  MaxArrivals    \* bound: datagrams that reach a pcb

ASSUME SourceAssumption ==
  /\ UDP_MAX_LISTENERS \in Nat \ {0}
  /\ Slots = 0 .. UDP_MAX_LISTENERS - 1
  /\ GenMod \in Nat \ {0}
  /\ BcastNet \subseteq IPs
  /\ NULL \notin PCBs \cup Netifs
  /\ MaxCloses \in Nat /\ MaxArrivals \in Nat

VARIABLES
  (* s_listeners[], one function per field *)
  in_use, pcb, netif, generation_count, rx_count, rx_drop_count,
  rx_msg,      \* the message while rx_msg.valid = 1, else NoMsg
  (* the main loop *)
  pc, cur, todo,
  (* history *)
  closes,      \* how often each slot was closed
  accepted,    \* datagrams for the socket since add_listener returned
  arrivals, leaked,
  clash,       \* was an address ever 0.0.0.0, or given twice?
  refused      \* the aliases whose net_if_add returned ERR_MEM

slotVars == <<in_use, pcb, netif, generation_count, rx_count, rx_drop_count, rx_msg>>
mainVars == <<pc, cur, todo>>
histVars == <<closes, accepted, arrivals, leaked, clash, refused>>
vars == <<netifVars, udpVars, slotVars, mainVars, histVars>>

(* A message remembers which socket it was sent to: the slot, and how      *)
(* often the slot had been closed when it arrived.                         *)
Msgs == [slot : Slots, inc : 0 .. MaxCloses]

(* rx_msg.valid tells a message from none.                                 *)
ASSUME MsgAssumption == NoMsg \notin Msgs

Indices == 0 .. UDP_MAX_LISTENERS
NoCur == [slot |-> 0, pcb |-> NULL, netif |-> PHYS, port |-> 0]
Curs == [slot : Indices, pcb : PCBs \cup {NULL}, netif : Netifs, port : AllPorts]

AddSteps == {"new", "bound", "recv", "armed", "published", "zeroed"}
PCs == AddSteps \cup {"poll", "ipset", "rebind", "cascade"}

TypeOK ==
  /\ NetifTypeOK /\ UdpTypeOK
  /\ in_use \in [Slots -> BOOLEAN]
  /\ pcb \in [Slots -> PCBs \cup {NULL}]
  /\ netif \in [Slots -> Netifs \cup {NULL}]
  /\ generation_count \in [Slots -> 0 .. GenMod - 1]
  /\ rx_count \in [Slots -> Nat]
  /\ rx_drop_count \in [Slots -> Nat]
  /\ rx_msg \in [Slots -> Msgs \cup {NoMsg}]
  /\ pc \in PCs /\ cur \in Curs /\ todo \in SUBSET Slots
  /\ closes \in [Slots -> 0 .. MaxCloses]
  /\ accepted \in [Slots -> Nat]
  /\ arrivals \in 0 .. MaxArrivals /\ leaked \in Nat /\ clash \in BOOLEAN
  /\ refused \subseteq Aliases

Init ==
  /\ NetifInit /\ UdpInit
  /\ in_use = [s \in Slots |-> FALSE]
  /\ pcb = [s \in Slots |-> NULL]
  /\ netif = [s \in Slots |-> NULL]
  /\ generation_count = [s \in Slots |-> 0]
  /\ rx_count = [s \in Slots |-> 0]
  /\ rx_drop_count = [s \in Slots |-> 0]
  /\ rx_msg = [s \in Slots |-> NoMsg]
  /\ pc = "poll" /\ cur = NoCur /\ todo = {}
  /\ closes = [s \in Slots |-> 0]
  /\ accepted = [s \in Slots |-> 0]
  /\ arrivals = 0 /\ leaked = 0 /\ clash = FALSE /\ refused = {}

-----------------------------------------------------------------------------
(* Ids: make_id packs the generation and the slot, resolve validates.      *)

make_id(s) == [gen |-> generation_count[s], idx |-> s]

Resolves(id) ==
  /\ id.idx \in Slots
  /\ in_use[id.idx]
  /\ id.gen = generation_count[id.idx]

(* udp_source_count_sockets and udp_source_get_socket scan for these.      *)
SocketsOf(n) == {s \in Slots : in_use[s] /\ netif[s] = n}

(***************************************************************************)
(* udp_source_data_send, followed through udp_sendto_if: a pcb whose       *)
(* address is no longer the address of the interface is refused.           *)
(***************************************************************************)
udp_source_data_send(id, n) ==
  IF ~Resolves(id) THEN "ERR_VAL"
  ELSE IF local_ip[pcb[id.idx]] \in {ANY, ip_addr[n]} THEN "ERR_OK" ELSE "ERR_VAL"

-----------------------------------------------------------------------------
(* The main loop: a pass over all sockets, then at most one command.       *)

(* Mutant: the pass forgets the sockets of the alias interfaces.           *)
PassBeginMut ==
  /\ pc' = "poll"
  /\ cur' = NoCur
  /\ todo' = {s \in Slots : in_use'[s] /\ netif'[s] = PHYS}

(* The head of the loop: every socket of every listed interface is polled. *)
PassBegin ==
  /\ pc' = "poll"
  /\ cur' = NoCur
  /\ todo' = {s \in Slots : in_use'[s] /\ netif'[s] \in netif_list'}

(* udp_source_poll_rx: the copy and the reset are one critical section.    *)
udp_source_poll_rx(s) ==
  /\ pc = "poll" /\ s \in todo
  /\ todo' = todo \ {s}
  /\ IF Resolves(make_id(s)) /\ rx_msg[s] # NoMsg
       THEN /\ rx_msg' = [rx_msg EXCEPT ![s] = NoMsg]
            /\ rx_count' = [rx_count EXCEPT ![s] = @ + 1]
       ELSE UNCHANGED <<rx_msg, rx_count>>
  /\ UNCHANGED <<netifVars, udpVars, in_use, pcb, netif, generation_count,
                 rx_drop_count, pc, cur, histVars>>

(* The pass is over and the loop turns to the serial port.                 *)
Ready == pc = "poll" /\ todo = {}

(* No command, or one that returns early and changes nothing: no free slot *)
(* or pcb, the alias pool full, the physical interface to be removed, an   *)
(* id that does not resolve, a netif or socket that is not there.          *)
NoCommand ==
  /\ Ready
  /\ UNCHANGED <<netifVars, udpVars, slotVars, histVars>>
  /\ PassBegin

-----------------------------------------------------------------------------
(* udp_source_add_listener, not protected: one step per visible store.     *)

FreeSlots == {s \in Slots : ~in_use[s]}

(* The first slot of the scan that is not in use, and a pcb for it.        *)
AddNew(n, port) ==
  /\ Ready
  /\ \E s \in FreeSlots, p \in PCBs :
       /\ \A t \in FreeSlots : s <= t
       /\ udp_new(p)
       /\ cur' = [slot |-> s, pcb |-> p, netif |-> n, port |-> port]
  /\ pc' = "new"
  /\ UNCHANGED <<netifVars, slotVars, todo, histVars>>

AddBind ==
  /\ pc = "new"
  /\ udp_bind(cur.pcb, ip_addr[cur.netif], cur.port)
  /\ pc' = "bound"
  /\ UNCHANGED <<netifVars, slotVars, cur, todo, histVars>>

FreedOnErrorMut == {}                \* the error path forgets udp_remove
FreedOnError == {cur.pcb}

AddBindFails ==
  /\ pc = "new"
  /\ BindFails(cur.pcb, ip_addr[cur.netif], cur.port)
  /\ udp_remove(FreedOnError)
  /\ UNCHANGED <<netifVars, slotVars, histVars>>
  /\ PassBegin

(* udp_recv stores the callback and then its argument.                     *)
AddRecv ==
  /\ pc = "bound"
  /\ recv' = [recv EXCEPT ![cur.pcb] = TRUE]
  /\ pc' = "recv"
  /\ UNCHANGED <<netifVars, pool, udp_pcbs, local_ip, local_port, recv_arg,
                 slotVars, cur, todo, histVars>>

CallbackArgMut == 0                  \* udp_recv is called without the index
CallbackArg == cur.slot

AddRecvArg ==
  /\ pc = "recv"
  /\ recv_arg' = [recv_arg EXCEPT ![cur.pcb] = CallbackArg]
  /\ pc' = "armed"
  /\ UNCHANGED <<netifVars, pool, udp_pcbs, local_ip, local_port, recv,
                 slotVars, cur, todo, histVars>>

AddPublish ==
  /\ pc = "armed"
  /\ pcb' = [pcb EXCEPT ![cur.slot] = cur.pcb]
  /\ netif' = [netif EXCEPT ![cur.slot] = cur.netif]
  /\ in_use' = [in_use EXCEPT ![cur.slot] = TRUE]
  /\ pc' = "published"
  /\ UNCHANGED <<netifVars, udpVars, generation_count, rx_count, rx_drop_count,
                 rx_msg, cur, todo, histVars>>

AddZero ==
  /\ pc = "published"
  /\ rx_count' = [rx_count EXCEPT ![cur.slot] = 0]
  /\ rx_drop_count' = [rx_drop_count EXCEPT ![cur.slot] = 0]
  /\ pc' = "zeroed"
  /\ UNCHANGED <<netifVars, udpVars, in_use, pcb, netif, generation_count,
                 rx_msg, cur, todo, histVars>>

AddReturn ==
  /\ pc = "zeroed"
  /\ rx_msg' = [rx_msg EXCEPT ![cur.slot] = NoMsg]
  /\ accepted' = [accepted EXCEPT ![cur.slot] = rx_count[cur.slot] + rx_drop_count[cur.slot]]
  /\ UNCHANGED <<netifVars, udpVars, in_use, pcb, netif, generation_count,
                 rx_count, rx_drop_count, closes, arrivals, leaked, clash, refused>>
  /\ PassBegin

-----------------------------------------------------------------------------
(* Closing sockets, and removing interfaces.                               *)

PcbsOfMut(S) == {}                   \* the pcbs stay linked
PcbsOf(S) == {pcb[s] : s \in S} \ {NULL}

BoxAfterCloseMut(s) == rx_msg[s]     \* the message outlives the socket
BoxAfterClose(s) == NoMsg

NextGenerationMutSame(g) == g        \* the generation stands still
NextGenerationMutWide(g) == g + 1    \* the generation outgrows its byte
NextGeneration(g) == (g + 1) % GenMod

(* remove_slot, for every slot of S: the pcb first, then the state.        *)
remove_slots(S) ==
  /\ udp_remove(PcbsOf(S))
  /\ pcb' = [s \in Slots |-> IF s \in S THEN NULL ELSE pcb[s]]
  /\ rx_msg' = [s \in Slots |-> IF s \in S THEN BoxAfterClose(s) ELSE rx_msg[s]]
  /\ in_use' = [s \in Slots |-> in_use[s] /\ s \notin S]
  /\ generation_count' = [s \in Slots |-> IF s \in S THEN NextGeneration(generation_count[s])
                                          ELSE generation_count[s]]
  /\ closes' = [s \in Slots |-> IF s \in S THEN closes[s] + 1 ELSE closes[s]]
  /\ UNCHANGED <<netif, rx_count, rx_drop_count>>

udp_source_remove_listener(id) ==
  /\ Ready
  /\ Resolves(id)
  /\ closes[id.idx] < MaxCloses
  /\ remove_slots({id.idx})
  /\ UNCHANGED <<netifVars, accepted, arrivals, leaked, clash, refused>>
  /\ PassBegin

ClosedWithMut(n) == {}               \* the interface goes, its sockets stay
ClosedWith(n) == SocketsOf(n)

(* net_if_remove: two critical sections, sockets before the interface.     *)
net_if_remove(n) ==
  /\ Ready
  /\ n # PHYS
  /\ \A s \in SocketsOf(n) : closes[s] < MaxCloses
  /\ remove_slots(ClosedWith(n))
  /\ pc' = "cascade"
  /\ cur' = [NoCur EXCEPT !.netif = n]
  /\ UNCHANGED <<netifVars, todo, accepted, arrivals, leaked, clash, refused>>

RemoveAlias ==
  /\ pc = "cascade"
  /\ lwIPAliasRemove(cur.netif)
  /\ refused' = refused \ {cur.netif}
  /\ UNCHANGED <<udpVars, slotVars, closes, accepted, arrivals, leaked, clash>>
  /\ PassBegin

-----------------------------------------------------------------------------
(* Adding interfaces, and changing their addresses.                        *)

(* Has the operator given an interface no address, or another's address?   *)
Clashes(n, ip) == ip = ANY \/ \E m \in netif_list \ {n} : ip_addr[m] = ip

net_if_add(n, ip) ==
  /\ Ready
  /\ lwIPAliasAdd(n, ip)
  /\ clash' = (clash \/ Clashes(n, ip))
  /\ refused' = IF AliasAddResult(ip) = "ERR_OK" THEN refused ELSE refused \cup {n}
  /\ UNCHANGED <<udpVars, slotVars, closes, accepted, arrivals, leaked>>
  /\ PassBegin

(* NETIF SET <idx> IP, and the menu: the address first, unprotected ...    *)
SetIp(n, ip) ==
  /\ Ready
  /\ netif_set_ipaddr(n, ip)
  /\ clash' = (clash \/ Clashes(n, ip))
  /\ pc' = "ipset"
  /\ cur' = [NoCur EXCEPT !.netif = n]
  /\ UNCHANGED <<udpVars, slotVars, todo, closes, accepted, arrivals, leaked, refused>>

(* ... or no address at all, when the menu cannot parse what was typed ... *)
SetIpUnparsed(n) ==
  /\ Ready
  /\ pc' = "ipset"
  /\ cur' = [NoCur EXCEPT !.netif = n]
  /\ UNCHANGED <<netifVars, udpVars, slotVars, todo, histVars>>

(* ... then udp_source_netif_ip_changed: its loop runs under               *)
(* SYS_ARCH_PROTECT, one step per slot, and ignores what udp_bind returns. *)
IpChangedBegin ==
  /\ pc = "ipset"
  /\ pc' = "rebind"
  /\ UNCHANGED <<netifVars, udpVars, slotVars, cur, todo, histVars>>

RebindLimitMut == UDP_MAX_LISTENERS - 1   \* the last slot is left out
RebindLimit == UDP_MAX_LISTENERS

Rebinds(s) == in_use[s] /\ netif[s] = cur.netif

IpChangedStep ==
  /\ pc = "rebind" /\ cur.slot < RebindLimit
  /\ LET p  == pcb[cur.slot]
         ip == ip_addr[cur.netif]
     IN  IF Rebinds(cur.slot) /\ ~InUse(p, ip, local_port[p])
           THEN udp_bind(p, ip, local_port[p])
           ELSE UNCHANGED udpVars
  /\ cur' = [cur EXCEPT !.slot = @ + 1]
  /\ UNCHANGED <<netifVars, slotVars, pc, todo, histVars>>

IpChangedEnd ==
  /\ pc = "rebind" /\ cur.slot = RebindLimit
  /\ UNCHANGED <<netifVars, udpVars, slotVars, histVars>>
  /\ PassBegin

-----------------------------------------------------------------------------
(* The EMAC receive interrupt.                                             *)

Protected == pc = "rebind"

(* The pcb that add_listener holds and no slot refers to yet.              *)
Held == IF pc \in {"new", "bound", "recv", "armed"} THEN {cur.pcb} ELSE {}

(* The slot a linked pcb belongs to.                                       *)
Owner(p) ==
  IF p \in Held THEN cur.slot ELSE CHOOSE s \in Slots : in_use[s] /\ pcb[s] = p

BoxFullMut(s) == FALSE               \* a full mailbox is overwritten
BoxFull(s) == rx_msg[s] # NoMsg

(* udp_rx_callback as udp_input calls it on pcb p.                         *)
udp_rx_callback(p) ==
  LET s == recv_arg[p] IN
  \/ /\ ~in_use[s]                          \* returns, and frees nothing
     /\ leaked' = leaked + 1
     /\ UNCHANGED <<rx_msg, rx_drop_count>>
  \/ /\ in_use[s] /\ BoxFull(s)
     /\ rx_drop_count' = [rx_drop_count EXCEPT ![s] = @ + 1]
     /\ UNCHANGED <<rx_msg, leaked>>
  \/ /\ in_use[s] /\ ~BoxFull(s)
     /\ rx_msg' = [rx_msg EXCEPT ![s] = [slot |-> Owner(p), inc |-> closes[Owner(p)]]]
     /\ UNCHANGED <<rx_drop_count, leaked>>

(* udp_input: a pcb without a callback has its pbuf freed by lwIP.         *)
udp_input(dsts, port) ==
  /\ ~Protected
  /\ arrivals < MaxArrivals
  /\ \E p \in Matches(dsts, port) :
       IF recv[p]
         THEN /\ udp_rx_callback(p)
              /\ accepted' = [accepted EXCEPT ![recv_arg[p]] = @ + 1]
         ELSE UNCHANGED <<rx_msg, rx_drop_count, leaked, accepted>>
  /\ arrivals' = arrivals + 1
  /\ UNCHANGED <<netifVars, udpVars, in_use, pcb, netif, generation_count,
                 rx_count, mainVars, closes, clash, refused>>

RxUnicast == \E dst \in IPs, port \in AllPorts : AddressedToUs(dst) /\ udp_input({dst}, port)

RxBroadcast ==
  \E port \in AllPorts :
    /\ \E n \in netif_list : ip_addr[n] \in BcastNet \ {ANY}
    /\ udp_input(BcastNet, port)

-----------------------------------------------------------------------------
Loop ==
  \/ NoCommand
  \/ \E s \in Slots : udp_source_poll_rx(s)

AddListener ==
  \/ \E n \in netif_list, port \in Ports : AddNew(n, port)
  \/ AddBind \/ AddBindFails \/ AddRecv \/ AddRecvArg
  \/ AddPublish \/ AddZero \/ AddReturn

Remove ==
  \/ \E s \in Slots, g \in 0 .. GenMod - 1 : udp_source_remove_listener([gen |-> g, idx |-> s])
  \/ \E n \in netif_list : net_if_remove(n)
  \/ RemoveAlias

Configure ==
  \/ \E n \in Aliases, ip \in IPs : net_if_add(n, ip)
  \/ \E n \in netif_list, ip \in IPs : SetIp(n, ip)
  \/ \E n \in netif_list : SetIpUnparsed(n)
  \/ IpChangedBegin \/ IpChangedStep \/ IpChangedEnd

Main == Loop \/ AddListener \/ Remove \/ Configure
Interrupt == RxUnicast \/ RxBroadcast

Next == Main \/ Interrupt

Spec == Init /\ [][Next]_vars

(* The main loop is the only thread and never waits inside these           *)
(* operations: it always takes another step.  Interrupts need not come.    *)
FairSpec == Spec /\ WF_vars(Main)

-----------------------------------------------------------------------------
(* Properties.                                                             *)

(* The slot add_listener has published and is still resetting.             *)
Opening(s) == pc \in {"published", "zeroed"} /\ cur.slot = s

(* Is an address change between netif_set_ipaddr and the last udp_bind?    *)
Moving == pc \in {"ipset", "rebind"}

(***************************************************************************)
(* Every pcb taken from the pool is the locator's, belongs to exactly one  *)
(* open socket, or is the one add_listener works on: no error path and no  *)
(* teardown loses a pcb or frees one that is still linked or referenced.   *)
(***************************************************************************)
PcbOwnership ==
  /\ pool = {LOC} \cup {pcb[s] : s \in {t \in Slots : in_use[t]}} \cup Held
  /\ udp_pcbs = IF pc = "new" THEN pool \ Held ELSE pool
  /\ \A s \in Slots : in_use[s] =>
       /\ pcb[s] \in PCBs \ ({LOC} \cup Held)
       /\ recv[pcb[s]] /\ recv_arg[pcb[s]] = s
       /\ \A t \in Slots : in_use[t] /\ pcb[t] = pcb[s] => t = s

(* No two linked pcbs compete for a unicast datagram: udp_bind never lets  *)
(* two of them have one port on one address, or on a wildcard.             *)
NoDoubleBind ==
  \A p, q \in udp_pcbs :
    p # q /\ local_port[p] = local_port[q] =>
      local_ip[p] # local_ip[q] /\ ANY \notin {local_ip[p], local_ip[q]}

(* The cascade of net_if_remove: no socket is left on an interface that is *)
(* not listed, and the main loop therefore reaches every open socket.      *)
NoOrphanSocket == \A s \in Slots : in_use[s] => netif[s] \in netif_list

(* A socket that is open can send through its own interface as long as the *)
(* operator keeps the interfaces' addresses distinct and not 0.0.0.0,      *)
(* whatever addresses were changed, sockets closed and slots reused.       *)
LiveSocketCanSend ==
  ~clash /\ ~Moving =>
    \A s \in Slots : in_use[s] => udp_source_data_send(make_id(s), netif[s]) = "ERR_OK"

(* Every datagram a socket was given since add_listener returned is one    *)
(* that was read, one counted as dropped, or the one in the mailbox.       *)
Accounting ==
  \A s \in Slots : in_use[s] /\ ~Opening(s) =>
    accepted[s] = rx_count[s] + rx_drop_count[s] + (IF rx_msg[s] = NoMsg THEN 0 ELSE 1)

(* An id of a socket closed fewer than GenMod closings of its slot ago is  *)
(* refused by resolve: the generation tells the incarnations apart.        *)
StaleIdRejected ==
  \A s \in Slots : \A k \in 0 .. closes[s] - 1 :
    k > closes[s] - GenMod => ~Resolves([gen |-> k % GenMod, idx |-> s])

(* A message read from a slot was sent to the socket that is open there    *)
(* now, never to one that had the slot before it.                          *)
NoMessageFromThePast ==
  \A s \in Slots : rx_msg[s] # NoMsg /\ rx_msg[s].slot = s => in_use[s] /\ rx_msg[s].inc = closes[s]

(* A datagram is stored in the mailbox of the socket it was sent to,       *)
(* except between the two stores of udp_recv, when it goes to slot 0.      *)
StoredForOwner ==
  [][\A s \in Slots : rx_msg[s] = NoMsg /\ rx_msg'[s] # NoMsg =>
       rx_msg'[s].slot = s \/ (pc = "recv" /\ s = 0)]_vars

(* The callback keeps a pbuf for ever only while add_listener has set the  *)
(* callback and not yet in_use; closing a socket never loses one.          *)
LeakOnlyWhileOpening == [][leaked' # leaked => pc \in {"recv", "armed"}]_vars

(* The main loop reads or discards every stored datagram.                  *)
MailboxDrained == \A s \in Slots : rx_msg[s] # NoMsg ~> rx_msg[s] = NoMsg

-----------------------------------------------------------------------------
(* What the comments of the code say, and the code does not do.            *)

(* The receive callback frees every pbuf it is given (core/udp.c:403).     *)
PbufAlwaysFreed == leaked = 0

(* A callback is called with the argument registered with it (udp_recv):   *)
(* a mailbox only holds datagrams for its own socket.                      *)
OnlyOwnDatagrams == \A s \in Slots : rx_msg[s] # NoMsg => rx_msg[s].slot = s

(* udp_source_netif_ip_changed rebinds every socket of the interface.      *)
IpChangeRebindsAll ==
  pc = "poll" => \A s \in Slots : in_use[s] => local_ip[pcb[s]] = ip_addr[netif[s]]

(* Closing a slot invalidates its old ids, for good.                       *)
OldIdsInvalid ==
  \A s \in Slots : \A k \in 0 .. closes[s] - 1 : ~Resolves([gen |-> k % GenMod, idx |-> s])

(* lwIPAliasAdd returns 0 when it failed, and only then.                   *)
RefusedAliasNotListed == refused \cap netif_list = {}
==============================================================================
