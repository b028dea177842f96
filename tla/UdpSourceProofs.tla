--------------------------- MODULE UdpSourceProofs ---------------------------
(***************************************************************************)
(* Proofs about the socket registry, for any number of slots, pcbs,        *)
(* aliases, addresses, ports and generations.                              *)
(***************************************************************************)
EXTENDS UdpSource, TLAPS

(* What a step of add_listener and of netif_ip_changed may rely on: the    *)
(* slot it found is still free, its pcb is not the locator's, and the      *)
(* callback and its argument are stored one after the other.               *)
CallState ==
  /\ pc \in {"new", "bound", "recv", "armed"} =>
       /\ cur.slot \in Slots /\ ~in_use[cur.slot]
       /\ cur.pcb \in PCBs \ {LOC}
  /\ pc \in {"published", "zeroed"} => cur.slot \in Slots
  /\ pc \in {"new", "bound"} => recv[cur.pcb] = FALSE /\ recv_arg[cur.pcb] = 0
  /\ pc = "recv" => recv[cur.pcb] = TRUE /\ recv_arg[cur.pcb] = 0
  /\ pc = "armed" => recv[cur.pcb] = TRUE /\ recv_arg[cur.pcb] = cur.slot

(* The invariant the induction needs: an interrupt is typed correctly only *)
(* because every linked pcb has an owner.                                  *)
IInv == TypeOK /\ PcbOwnership /\ CallState

-----------------------------------------------------------------------------
(* Lemmas about the operations the actions are made of.                    *)

(* Slots are indices, and slot 0 is one.                                   *)
LEMMA SlotFacts == 0 \in Slots /\ Slots \subseteq Indices /\ Slots \subseteq Nat
BY SourceAssumption DEF Indices

(* The types of an operation's local variables.                            *)
LEMMA CurFacts == NoCur \in Curs /\ \A n \in Netifs : [NoCur EXCEPT !.netif = n] \in Curs
BY SourceAssumption DEF NoCur, Curs, Indices, Netifs, AllPorts

(* The head of the loop leaves the main loop's variables typed.            *)
LEMMA PassBeginType ==
  ASSUME PassBegin
  PROVE  pc' = "poll" /\ cur' = NoCur /\ pc' \in PCs /\ cur' \in Curs /\ todo' \in SUBSET Slots
BY CurFacts DEF PassBegin, PCs

(* udp_remove keeps the pcbs' types.                                       *)
LEMMA RemoveType ==
  ASSUME UdpTypeOK, NEW P, udp_remove(P)
  PROVE  UdpTypeOK'
BY NetifAssumption, SlotFacts DEF UdpTypeOK, udp_remove, Clear, AllPorts

(* So does udp_bind.                                                       *)
LEMMA BindType ==
  ASSUME UdpTypeOK, NEW p \in PCBs, NEW ip \in IPs, NEW port \in AllPorts, udp_bind(p, ip, port)
  PROVE  UdpTypeOK'
BY DEF UdpTypeOK, udp_bind, BindPort, AllPorts

(* And the generation of a slot stays in its byte.                         *)
LEMMA GenerationType ==
  ASSUME NEW g \in 0 .. GenMod - 1
  PROVE  NextGeneration(g) \in 0 .. GenMod - 1
BY SourceAssumption DEF NextGeneration

(* Closing slots keeps every type while the bound on closings is kept.     *)
LEMMA RemoveSlotsType ==
  ASSUME TypeOK, NEW S \in SUBSET Slots, remove_slots(S), \A s \in S : closes[s] < MaxCloses
  PROVE  /\ UdpTypeOK'
         /\ in_use' \in [Slots -> BOOLEAN]
         /\ pcb' \in [Slots -> PCBs \cup {NULL}]
         /\ netif' \in [Slots -> Netifs \cup {NULL}]
         /\ generation_count' \in [Slots -> 0 .. GenMod - 1]
         /\ rx_count' \in [Slots -> Nat]
         /\ rx_drop_count' \in [Slots -> Nat]
         /\ rx_msg' \in [Slots -> Msgs \cup {NoMsg}]
         /\ closes' \in [Slots -> 0 .. MaxCloses]
<1>1. UdpTypeOK' BY RemoveType DEF remove_slots, TypeOK
<1>2. in_use' \in [Slots -> BOOLEAN] BY DEF remove_slots, TypeOK
<1>3. pcb' \in [Slots -> PCBs \cup {NULL}] BY DEF remove_slots, TypeOK
<1>4. generation_count' \in [Slots -> 0 .. GenMod - 1]
  BY GenerationType DEF remove_slots, TypeOK
<1>5. rx_msg' \in [Slots -> Msgs \cup {NoMsg}] BY DEF remove_slots, TypeOK, BoxAfterClose
<1>6. closes' \in [Slots -> 0 .. MaxCloses]
  <2>1. \A s \in Slots : closes[s] \in 0 .. MaxCloses BY DEF TypeOK
  <2>2. \A s \in S : closes[s] + 1 \in 0 .. MaxCloses BY <2>1, SourceAssumption
  <2>. QED BY <2>1, <2>2 DEF remove_slots
<1>. QED BY <1>1, <1>2, <1>3, <1>4, <1>5, <1>6 DEF remove_slots, TypeOK

(* Every linked pcb but the locator's has an owner: the slot being opened, *)
(* or the one open slot that refers to it.                                 *)
LEMMA OwnerOfLinked ==
  ASSUME IInv, NEW p \in udp_pcbs \ {LOC}
  PROVE  /\ Owner(p) \in Slots
         /\ p \in Held => Owner(p) = cur.slot
         /\ p \notin Held => in_use[Owner(p)] /\ pcb[Owner(p)] = p /\ recv[p] /\ recv_arg[p] = Owner(p)
<1>1. CASE p \in Held
  BY <1>1 DEF IInv, CallState, Held, Owner
<1>2. CASE p \notin Held
  <2>1. p \in pool BY DEF IInv, PcbOwnership
  <2>2. PICK s \in Slots : in_use[s] /\ pcb[s] = p
    BY <1>2, <2>1 DEF IInv, PcbOwnership
  <2>3. Owner(p) = CHOOSE t \in Slots : in_use[t] /\ pcb[t] = p BY <1>2 DEF Owner
  <2>4. Owner(p) \in Slots /\ in_use[Owner(p)] /\ pcb[Owner(p)] = p BY <2>2, <2>3
  <2>. QED BY <1>2, <2>4 DEF IInv, PcbOwnership
<1>. QED BY <1>1, <1>2

-----------------------------------------------------------------------------
(* Each step keeps the types.                                              *)
LEMMA TypeStep ==
  ASSUME IInv, [Next]_vars
  PROVE  TypeOK'
<1>. USE DEF IInv
<1>1. CASE NoCommand
  BY <1>1, PassBeginType DEF NoCommand, TypeOK, NetifTypeOK, UdpTypeOK, netifVars, udpVars, slotVars, histVars
<1>2. ASSUME NEW s \in Slots, udp_source_poll_rx(s) PROVE TypeOK'
  <2>1. rx_msg' \in [Slots -> Msgs \cup {NoMsg}] /\ rx_count' \in [Slots -> Nat]
    BY <1>2 DEF udp_source_poll_rx, TypeOK
  <2>. QED BY <1>2, <2>1 DEF udp_source_poll_rx, TypeOK, NetifTypeOK, UdpTypeOK, netifVars, udpVars, histVars
<1>3. ASSUME NEW n \in netif_list, NEW port \in Ports, AddNew(n, port) PROVE TypeOK'
  <2>1. PICK s \in Slots, p \in PCBs :
          udp_new(p) /\ cur' = [slot |-> s, pcb |-> p, netif |-> n, port |-> port]
    BY <1>3 DEF AddNew, FreeSlots
  <2>2. cur' \in Curs BY <2>1, SlotFacts DEF Curs, TypeOK, NetifTypeOK, AllPorts
  <2>3. UdpTypeOK'
    BY <2>1, NetifAssumption, SlotFacts DEF udp_new, UdpTypeOK, TypeOK, AllPorts
  <2>. QED BY <1>3, <2>2, <2>3 DEF AddNew, TypeOK, NetifTypeOK, netifVars, slotVars, histVars, PCs, AddSteps
<1>4. CASE AddBind
  <2>1. cur.pcb \in PCBs /\ ip_addr[cur.netif] \in IPs /\ cur.port \in AllPorts
    BY <1>4 DEF AddBind, CallState, TypeOK, NetifTypeOK, Curs
  <2>2. UdpTypeOK' BY <1>4, <2>1, BindType DEF AddBind, TypeOK
  <2>. QED BY <1>4, <2>2 DEF AddBind, TypeOK, NetifTypeOK, netifVars, slotVars, histVars, PCs, AddSteps
<1>5. CASE AddBindFails
  BY <1>5, RemoveType, PassBeginType DEF AddBindFails, TypeOK, NetifTypeOK, netifVars, slotVars, histVars
<1>6. CASE AddRecv
  BY <1>6 DEF AddRecv, TypeOK, NetifTypeOK, UdpTypeOK, netifVars, slotVars, histVars, PCs, AddSteps
<1>7. CASE AddRecvArg
  BY <1>7 DEF AddRecvArg, CallbackArg, CallState, TypeOK, NetifTypeOK, UdpTypeOK, netifVars, slotVars, histVars, PCs, AddSteps
<1>8. CASE AddPublish
  <2>1. cur.slot \in Slots /\ cur.pcb \in PCBs /\ cur.netif \in Netifs
    BY <1>8 DEF AddPublish, CallState, TypeOK, Curs
  <2>2. pcb' \in [Slots -> PCBs \cup {NULL}] BY <1>8, <2>1 DEF AddPublish, TypeOK
  <2>3. netif' \in [Slots -> Netifs \cup {NULL}] BY <1>8, <2>1 DEF AddPublish, TypeOK
  <2>4. in_use' \in [Slots -> BOOLEAN] BY <1>8, <2>1 DEF AddPublish, TypeOK
  <2>. QED BY <1>8, <2>2, <2>3, <2>4
         DEF AddPublish, TypeOK, NetifTypeOK, UdpTypeOK, netifVars, udpVars, histVars, PCs, AddSteps
<1>9. CASE AddZero
  BY <1>9 DEF AddZero, TypeOK, NetifTypeOK, UdpTypeOK, netifVars, udpVars, histVars, PCs, AddSteps
<1>10. CASE AddReturn
  <2>1. cur.slot \in Slots BY <1>10 DEF AddReturn, CallState
  <2>2. accepted' \in [Slots -> Nat] BY <1>10, <2>1 DEF AddReturn, TypeOK
  <2>3. rx_msg' \in [Slots -> Msgs \cup {NoMsg}] BY <1>10, <2>1 DEF AddReturn, TypeOK
  <2>. QED BY <1>10, <2>2, <2>3, PassBeginType
         DEF AddReturn, TypeOK, NetifTypeOK, UdpTypeOK, netifVars, udpVars
<1>11. ASSUME NEW s \in Slots, NEW g, udp_source_remove_listener([gen |-> g, idx |-> s]) PROVE TypeOK'
  <2>1. remove_slots({s}) /\ closes[s] < MaxCloses /\ {s} \in SUBSET Slots
    BY <1>11 DEF udp_source_remove_listener
  <2>. HIDE DEF IInv
  <2>2. TypeOK BY DEF IInv
  <2>. QED BY <1>11, <2>1, <2>2, RemoveSlotsType, PassBeginType
         DEF udp_source_remove_listener, TypeOK, NetifTypeOK, netifVars
<1>12. ASSUME NEW n \in netif_list, net_if_remove(n) PROVE TypeOK'
  <2>1. remove_slots(SocketsOf(n)) /\ SocketsOf(n) \in SUBSET Slots
          /\ \A s \in SocketsOf(n) : closes[s] < MaxCloses
    BY <1>12 DEF net_if_remove, ClosedWith, SocketsOf
  <2>2. cur' \in Curs /\ pc' \in PCs BY <1>12, CurFacts DEF net_if_remove, TypeOK, NetifTypeOK, PCs
  <2>. QED BY <1>12, <2>1, <2>2, RemoveSlotsType DEF net_if_remove, TypeOK, NetifTypeOK, netifVars
<1>13. CASE RemoveAlias
  BY <1>13, PassBeginType
  DEF RemoveAlias, lwIPAliasRemove, TypeOK, NetifTypeOK, UdpTypeOK, udpVars, slotVars
<1>14. ASSUME NEW n \in Aliases, NEW ip \in IPs, net_if_add(n, ip) PROVE TypeOK'
  <2>1. NetifTypeOK' BY <1>14 DEF net_if_add, lwIPAliasAdd, TypeOK, NetifTypeOK, Netifs
  <2>2. clash' \in BOOLEAN /\ refused' \subseteq Aliases BY <1>14 DEF net_if_add, TypeOK
  <2>. QED BY <1>14, <2>1, <2>2, PassBeginType DEF net_if_add, TypeOK, UdpTypeOK, udpVars, slotVars
<1>15. ASSUME NEW n \in netif_list, NEW ip \in IPs, SetIp(n, ip) PROVE TypeOK'
  <2>1. NetifTypeOK' BY <1>15 DEF SetIp, netif_set_ipaddr, TypeOK, NetifTypeOK
  <2>2. clash' \in BOOLEAN BY <1>15 DEF SetIp, TypeOK
  <2>3. cur' \in Curs /\ pc' \in PCs BY <1>15, CurFacts DEF SetIp, TypeOK, NetifTypeOK, PCs
  <2>. QED BY <1>15, <2>1, <2>2, <2>3 DEF SetIp, TypeOK, UdpTypeOK, udpVars, slotVars
<1>16. ASSUME NEW n \in netif_list, SetIpUnparsed(n) PROVE TypeOK'
  <2>1. cur' \in Curs /\ pc' \in PCs BY <1>16, CurFacts DEF SetIpUnparsed, TypeOK, NetifTypeOK, PCs
  <2>. QED BY <1>16, <2>1
         DEF SetIpUnparsed, TypeOK, NetifTypeOK, UdpTypeOK, netifVars, udpVars, slotVars, histVars
<1>17. CASE IpChangedBegin
  BY <1>17 DEF IpChangedBegin, TypeOK, NetifTypeOK, UdpTypeOK, netifVars, udpVars, slotVars, histVars, PCs
<1>18. CASE IpChangedStep
  <2>1. cur.slot \in Slots BY <1>18, SourceAssumption DEF IpChangedStep, RebindLimit, TypeOK, Curs, Indices
  <2>2. cur' \in Curs
    <3>1. cur.slot + 1 \in Indices BY <2>1, SourceAssumption DEF Indices
    <3>. QED BY <1>18, <3>1 DEF IpChangedStep, TypeOK, Curs
  <2>3. UdpTypeOK'
    <3>1. CASE Rebinds(cur.slot) /\ udp_bind(pcb[cur.slot], ip_addr[cur.netif], local_port[pcb[cur.slot]])
      <4>1. pcb[cur.slot] \in PCBs BY <2>1, <3>1 DEF Rebinds, PcbOwnership
      <4>2. ip_addr[cur.netif] \in IPs /\ local_port[pcb[cur.slot]] \in AllPorts
        BY <4>1 DEF TypeOK, NetifTypeOK, UdpTypeOK, Curs
      <4>. QED BY <3>1, <4>1, <4>2, BindType DEF TypeOK
    <3>2. CASE UNCHANGED udpVars BY <3>2 DEF udpVars, UdpTypeOK, TypeOK
    <3>. QED BY <1>18, <3>1, <3>2 DEF IpChangedStep
  <2>. QED BY <1>18, <2>2, <2>3 DEF IpChangedStep, TypeOK, NetifTypeOK, netifVars, slotVars, histVars
<1>19. CASE IpChangedEnd
  BY <1>19, PassBeginType
  DEF IpChangedEnd, TypeOK, NetifTypeOK, UdpTypeOK, netifVars, udpVars, slotVars, histVars
<1>20. ASSUME NEW D, NEW port, udp_input(D, port) PROVE TypeOK'
  <2>1. PICK p \in udp_pcbs \ {LOC} :
          IF recv[p]
            THEN /\ udp_rx_callback(p)
                 /\ accepted' = [accepted EXCEPT ![recv_arg[p]] = @ + 1]
            ELSE UNCHANGED <<rx_msg, rx_drop_count, leaked, accepted>>
    BY <1>20 DEF udp_input, Matches
  <2>2. p \in PCBs /\ recv_arg[p] \in Slots BY DEF TypeOK, UdpTypeOK
  <2>3. [slot |-> Owner(p), inc |-> closes[Owner(p)]] \in Msgs
    BY OwnerOfLinked DEF TypeOK, Msgs
  <2>4. rx_msg' \in [Slots -> Msgs \cup {NoMsg}]
    BY <2>1, <2>2, <2>3 DEF udp_rx_callback, TypeOK
  <2>5. rx_drop_count' \in [Slots -> Nat] /\ leaked' \in Nat /\ accepted' \in [Slots -> Nat]
    BY <2>1, <2>2 DEF udp_rx_callback, TypeOK
  <2>6. arrivals' \in 0 .. MaxArrivals BY <1>20, SourceAssumption DEF udp_input, TypeOK
  <2>. QED BY <1>20, <2>4, <2>5, <2>6
         DEF udp_input, TypeOK, NetifTypeOK, UdpTypeOK, netifVars, udpVars, mainVars
<1>21. CASE UNCHANGED vars
  BY <1>21 DEF vars, TypeOK, NetifTypeOK, UdpTypeOK, netifVars, udpVars, slotVars, mainVars, histVars
<1>. QED
  BY <1>1, <1>2, <1>3, <1>4, <1>5, <1>6, <1>7, <1>8, <1>9, <1>10, <1>11, <1>12, <1>13, <1>14, <1>15,
     <1>16, <1>17, <1>18, <1>19, <1>20, <1>21
  DEF Next, Main, Interrupt, Loop, AddListener, Remove, Configure, RxUnicast, RxBroadcast

-----------------------------------------------------------------------------
(* Closing open slots frees exactly their pcbs, which no other slot has.   *)
LEMMA RemoveSlotsOwnership ==
  ASSUME IInv, NEW S \in SUBSET Slots, \A s \in S : in_use[s], remove_slots(S),
         Held = {}, pc # "new", Held' = {}, pc' # "new"
  PROVE  PcbOwnership'
<1>1. PcbsOf(S) = {pcb[s] : s \in S} BY SourceAssumption DEF IInv, PcbOwnership, PcbsOf
<1>2. \A s \in Slots \ S : in_use[s] => pcb[s] \notin PcbsOf(S)
  BY <1>1 DEF IInv, PcbOwnership
<1>3. \A s \in Slots : in_use'[s] <=> in_use[s] /\ s \notin S BY DEF remove_slots
<1>4. \A s \in Slots : s \notin S => pcb'[s] = pcb[s] BY DEF remove_slots
<1>5. LOC \notin PcbsOf(S) BY <1>1 DEF IInv, PcbOwnership
<1>6. {pcb'[s] : s \in {t \in Slots : in_use'[t]}} = {pcb[s] : s \in {t \in Slots : in_use[t]}} \ PcbsOf(S)
  BY <1>1, <1>2, <1>3, <1>4
<1>7. pool' = pool \ PcbsOf(S) /\ udp_pcbs' = udp_pcbs \ PcbsOf(S) BY DEF remove_slots, udp_remove
<1>8. \A p \in PCBs \ PcbsOf(S) : recv'[p] = recv[p] /\ recv_arg'[p] = recv_arg[p]
  BY DEF remove_slots, udp_remove, Clear
<1>9. pool' = {LOC} \cup {pcb'[s] : s \in {t \in Slots : in_use'[t]}} \cup Held'
  BY <1>5, <1>6, <1>7 DEF IInv, PcbOwnership
<1>10. udp_pcbs' = pool' BY <1>7 DEF IInv, PcbOwnership
<1>11. ASSUME NEW s \in Slots, in_use'[s]
       PROVE  /\ pcb'[s] \in PCBs \ ({LOC} \cup Held')
              /\ recv'[pcb'[s]] /\ recv_arg'[pcb'[s]] = s
              /\ \A t \in Slots : in_use'[t] /\ pcb'[t] = pcb'[s] => t = s
  <2>1. in_use[s] /\ pcb'[s] = pcb[s] /\ pcb[s] \in PCBs \ PcbsOf(S)
    BY <1>2, <1>3, <1>4, <1>11 DEF IInv, PcbOwnership
  <2>. QED BY <1>3, <1>4, <1>8, <2>1 DEF IInv, PcbOwnership
<1>. QED BY <1>9, <1>10, <1>11 DEF PcbOwnership

(* A step that touches neither the pcbs nor the slots, and is not inside   *)
(* add_listener before or after, keeps the ownership of the pcbs.          *)
LEMMA OwnershipUnchanged ==
  ASSUME PcbOwnership, UNCHANGED <<pool, udp_pcbs, recv, recv_arg, in_use, pcb>>,
         Held' = Held, pc' = "new" <=> pc = "new"
  PROVE  PcbOwnership'
BY DEF PcbOwnership

(* Each step keeps every pcb owned.                                        *)
LEMMA OwnershipStep ==
  ASSUME IInv, [Next]_vars
  PROVE  PcbOwnership'
<1>. DEFINE Opened == {t \in Slots : in_use[t]}
<1>1. CASE NoCommand
  <2>1. Held = {} /\ Held' = {} /\ pc # "new" /\ pc' # "new"
    BY <1>1, PassBeginType DEF NoCommand, Ready, Held
  <2>. QED BY <1>1, <2>1, OwnershipUnchanged DEF NoCommand, IInv, udpVars, slotVars
<1>2. ASSUME NEW s \in Slots, udp_source_poll_rx(s) PROVE PcbOwnership'
  BY <1>2, OwnershipUnchanged DEF udp_source_poll_rx, IInv, udpVars, Held
<1>3. ASSUME NEW n \in netif_list, NEW port \in Ports, AddNew(n, port) PROVE PcbOwnership'
  <2>1. PICK s \in Slots, p \in PCBs :
          udp_new(p) /\ cur' = [slot |-> s, pcb |-> p, netif |-> n, port |-> port]
    BY <1>3 DEF AddNew, FreeSlots
  <2>2. Held = {} /\ pc # "new" /\ pc' = "new" /\ Held' = {p}
    BY <1>3, <2>1 DEF AddNew, Ready, Held
  <2>3. p \notin pool /\ pool' = pool \cup {p} /\ udp_pcbs' = udp_pcbs
    BY <2>1 DEF udp_new
  <2>4. UNCHANGED <<in_use, pcb>> BY <1>3 DEF AddNew, slotVars
  <2>5. \A q \in PCBs : q # p => recv'[q] = recv[q] /\ recv_arg'[q] = recv_arg[q]
    BY <2>1 DEF udp_new, IInv, TypeOK, UdpTypeOK
  <2>6. \A s1 \in Slots : in_use[s1] => pcb[s1] # p /\ pcb[s1] \in PCBs
    BY <2>3 DEF IInv, PcbOwnership
  <2>7. pool' = {LOC} \cup {pcb'[t] : t \in {u \in Slots : in_use'[u]}} \cup Held'
    BY <2>2, <2>3, <2>4 DEF IInv, PcbOwnership
  <2>8. udp_pcbs' = pool' \ Held' BY <2>2, <2>3 DEF IInv, PcbOwnership
  <2>. QED BY <2>2, <2>4, <2>5, <2>6, <2>7, <2>8 DEF IInv, PcbOwnership
<1>4. CASE AddBind
  <2>1. Held' = Held /\ Held = {cur.pcb} /\ pc = "new" /\ pc' = "bound" BY <1>4 DEF AddBind, Held
  <2>2. udp_pcbs' = udp_pcbs \cup {cur.pcb} /\ UNCHANGED <<pool, recv, recv_arg, in_use, pcb>>
    BY <1>4 DEF AddBind, udp_bind, slotVars
  <2>3. udp_pcbs' = pool' BY <2>1, <2>2 DEF IInv, PcbOwnership
  <2>. QED BY <2>1, <2>2, <2>3 DEF IInv, PcbOwnership
<1>5. CASE AddBindFails
  <2>1. Held = {cur.pcb} /\ pc = "new" /\ Held' = {} /\ pc' = "poll"
    BY <1>5, PassBeginType DEF AddBindFails, Held
  <2>2. /\ udp_pcbs' = udp_pcbs \ {cur.pcb} /\ pool' = pool \ {cur.pcb}
        /\ \A q \in PCBs \ {cur.pcb} : recv'[q] = recv[q] /\ recv_arg'[q] = recv_arg[q]
        /\ UNCHANGED <<in_use, pcb>>
    BY <1>5 DEF AddBindFails, FreedOnError, udp_remove, Clear, slotVars
  <2>3. cur.pcb # LOC BY <2>1 DEF IInv, CallState
  <2>. QED BY <2>1, <2>2, <2>3 DEF IInv, PcbOwnership
<1>6. CASE AddRecv
  <2>1. Held' = Held /\ Held = {cur.pcb} /\ pc = "bound" /\ pc' = "recv" BY <1>6 DEF AddRecv, Held
  <2>2. /\ UNCHANGED <<pool, udp_pcbs, recv_arg, in_use, pcb>>
        /\ \A q \in PCBs \ {cur.pcb} : recv'[q] = recv[q]
    BY <1>6 DEF AddRecv, slotVars, IInv, TypeOK, UdpTypeOK
  <2>. QED BY <2>1, <2>2 DEF IInv, PcbOwnership
<1>7. CASE AddRecvArg
  <2>1. Held' = Held /\ Held = {cur.pcb} /\ pc = "recv" /\ pc' = "armed" BY <1>7 DEF AddRecvArg, Held
  <2>2. /\ UNCHANGED <<pool, udp_pcbs, recv, in_use, pcb>>
        /\ \A q \in PCBs \ {cur.pcb} : recv_arg'[q] = recv_arg[q]
    BY <1>7 DEF AddRecvArg, slotVars, IInv, TypeOK, UdpTypeOK
  <2>. QED BY <2>1, <2>2 DEF IInv, PcbOwnership
<1>8. CASE AddPublish
  <2>1. Held = {cur.pcb} /\ Held' = {} /\ pc = "armed" /\ pc' = "published" BY <1>8 DEF AddPublish, Held
  <2>2. /\ cur.slot \in Slots /\ ~in_use[cur.slot] /\ cur.pcb \in PCBs \ {LOC}
        /\ recv[cur.pcb] /\ recv_arg[cur.pcb] = cur.slot
    BY <2>1 DEF IInv, CallState
  <2>3. UNCHANGED <<pool, udp_pcbs, recv, recv_arg>> BY <1>8 DEF AddPublish, udpVars
  <2>4. \A s \in Slots : /\ in_use'[s] <=> in_use[s] \/ s = cur.slot
                         /\ pcb'[s] = IF s = cur.slot THEN cur.pcb ELSE pcb[s]
    BY <1>8 DEF AddPublish, IInv, TypeOK
  <2>5. {pcb'[s] : s \in {t \in Slots : in_use'[t]}} = {pcb[s] : s \in Opened} \cup {cur.pcb}
    BY <2>2, <2>4
  <2>6. pool' = {LOC} \cup {pcb'[s] : s \in {t \in Slots : in_use'[t]}} \cup Held'
    BY <2>1, <2>3, <2>5 DEF IInv, PcbOwnership
  <2>7. ASSUME NEW s \in Slots, in_use'[s]
        PROVE  /\ pcb'[s] \in PCBs \ ({LOC} \cup Held')
               /\ recv'[pcb'[s]] /\ recv_arg'[pcb'[s]] = s
               /\ \A t \in Slots : in_use'[t] /\ pcb'[t] = pcb'[s] => t = s
    <3>1. \A t \in Slots : in_use[t] => pcb[t] # cur.pcb BY <2>1 DEF IInv, PcbOwnership
    <3>. QED BY <2>1, <2>2, <2>3, <2>4, <2>7, <3>1 DEF IInv, PcbOwnership
  <2>. QED BY <2>1, <2>3, <2>6, <2>7 DEF IInv, PcbOwnership
<1>9. CASE AddZero
  BY <1>9, OwnershipUnchanged DEF AddZero, IInv, udpVars, Held
<1>10. CASE AddReturn
  BY <1>10, OwnershipUnchanged, PassBeginType DEF AddReturn, IInv, udpVars, Held
<1>11. ASSUME NEW s \in Slots, NEW g, udp_source_remove_listener([gen |-> g, idx |-> s])
       PROVE  PcbOwnership'
  <2>1. remove_slots({s}) /\ in_use[s] BY <1>11 DEF udp_source_remove_listener, Resolves
  <2>2. Held = {} /\ pc # "new" /\ Held' = {} /\ pc' # "new"
    BY <1>11, PassBeginType DEF udp_source_remove_listener, Ready, Held
  <2>. QED BY <2>1, <2>2, RemoveSlotsOwnership
<1>12. ASSUME NEW n \in netif_list, net_if_remove(n) PROVE PcbOwnership'
  <2>1. remove_slots(SocketsOf(n)) /\ SocketsOf(n) \in SUBSET Slots /\ \A s \in SocketsOf(n) : in_use[s]
    BY <1>12 DEF net_if_remove, ClosedWith, SocketsOf
  <2>2. Held = {} /\ pc # "new" /\ Held' = {} /\ pc' # "new"
    BY <1>12 DEF net_if_remove, Ready, Held
  <2>. QED BY <2>1, <2>2, RemoveSlotsOwnership
<1>13. CASE RemoveAlias
  BY <1>13, OwnershipUnchanged, PassBeginType DEF RemoveAlias, IInv, udpVars, slotVars, Held
<1>14. ASSUME NEW n \in Aliases, NEW ip \in IPs, net_if_add(n, ip) PROVE PcbOwnership'
  BY <1>14, OwnershipUnchanged, PassBeginType DEF net_if_add, Ready, IInv, udpVars, slotVars, Held
<1>15. ASSUME NEW n \in netif_list, NEW ip \in IPs, SetIp(n, ip) PROVE PcbOwnership'
  BY <1>15, OwnershipUnchanged DEF SetIp, Ready, IInv, udpVars, slotVars, Held
<1>16. ASSUME NEW n \in netif_list, SetIpUnparsed(n) PROVE PcbOwnership'
  BY <1>16, OwnershipUnchanged DEF SetIpUnparsed, Ready, IInv, udpVars, slotVars, Held
<1>17. CASE IpChangedBegin
  BY <1>17, OwnershipUnchanged DEF IpChangedBegin, IInv, udpVars, slotVars, Held
<1>18. CASE IpChangedStep
  <2>1. Held = {} /\ Held' = {} /\ pc # "new" /\ pc' = pc /\ UNCHANGED <<in_use, pcb>>
    BY <1>18 DEF IpChangedStep, Held, slotVars
  <2>2. UNCHANGED <<pool, udp_pcbs, recv, recv_arg>>
    <3>1. CASE Rebinds(cur.slot) /\ udp_bind(pcb[cur.slot], ip_addr[cur.netif], local_port[pcb[cur.slot]])
      <4>1. cur.slot \in Slots
        BY <1>18, SourceAssumption DEF IpChangedStep, RebindLimit, IInv, TypeOK, Curs, Indices
      <4>2. pcb[cur.slot] \in udp_pcbs BY <2>1, <3>1, <4>1 DEF Rebinds, IInv, PcbOwnership
      <4>. QED BY <3>1, <4>2 DEF udp_bind
    <3>2. CASE UNCHANGED udpVars BY <3>2 DEF udpVars
    <3>. QED BY <1>18, <3>1, <3>2 DEF IpChangedStep
  <2>. QED BY <2>1, <2>2, OwnershipUnchanged DEF IInv
<1>19. CASE IpChangedEnd
  BY <1>19, OwnershipUnchanged, PassBeginType DEF IpChangedEnd, IInv, udpVars, slotVars, Held
<1>20. ASSUME NEW D, NEW port, udp_input(D, port) PROVE PcbOwnership'
  BY <1>20, OwnershipUnchanged DEF udp_input, IInv, udpVars, mainVars, Held
<1>21. CASE UNCHANGED vars
  BY <1>21, OwnershipUnchanged DEF vars, IInv, udpVars, slotVars, mainVars, Held
<1>. QED
  BY <1>1, <1>2, <1>3, <1>4, <1>5, <1>6, <1>7, <1>8, <1>9, <1>10, <1>11, <1>12, <1>13, <1>14, <1>15,
     <1>16, <1>17, <1>18, <1>19, <1>20, <1>21
  DEF Next, Main, Interrupt, Loop, AddListener, Remove, Configure, RxUnicast, RxBroadcast

(* Each step keeps what the steps of add_listener rely on.                 *)
LEMMA CallStep ==
  ASSUME IInv, [Next]_vars
  PROVE  CallState'
<1>1. CASE NoCommand BY <1>1, PassBeginType DEF NoCommand, CallState
<1>2. ASSUME NEW s \in Slots, udp_source_poll_rx(s) PROVE CallState'
  BY <1>2 DEF udp_source_poll_rx, CallState
<1>3. ASSUME NEW n \in netif_list, NEW port \in Ports, AddNew(n, port) PROVE CallState'
  <2>1. PICK s \in FreeSlots, p \in PCBs :
          udp_new(p) /\ cur' = [slot |-> s, pcb |-> p, netif |-> n, port |-> port]
    BY <1>3 DEF AddNew
  <2>2. p # LOC BY <2>1 DEF udp_new, IInv, PcbOwnership
  <2>3. recv'[p] = FALSE /\ recv_arg'[p] = 0 BY <2>1 DEF udp_new, IInv, TypeOK, UdpTypeOK
  <2>. QED BY <1>3, <2>1, <2>2, <2>3 DEF AddNew, CallState, FreeSlots, slotVars
<1>4. CASE AddBind BY <1>4 DEF AddBind, udp_bind, slotVars, IInv, CallState
<1>5. CASE AddBindFails BY <1>5, PassBeginType DEF AddBindFails, CallState
<1>6. CASE AddRecv BY <1>6 DEF AddRecv, slotVars, IInv, CallState, TypeOK, UdpTypeOK
<1>7. CASE AddRecvArg
  BY <1>7 DEF AddRecvArg, CallbackArg, slotVars, IInv, CallState, TypeOK, UdpTypeOK
<1>8. CASE AddPublish BY <1>8 DEF AddPublish, IInv, CallState
<1>9. CASE AddZero BY <1>9 DEF AddZero, IInv, CallState
<1>10. CASE AddReturn BY <1>10, PassBeginType DEF AddReturn, CallState
<1>11. ASSUME NEW s \in Slots, NEW g, udp_source_remove_listener([gen |-> g, idx |-> s]) PROVE CallState'
  BY <1>11, PassBeginType DEF udp_source_remove_listener, CallState
<1>12. ASSUME NEW n \in netif_list, net_if_remove(n) PROVE CallState'
  BY <1>12 DEF net_if_remove, CallState
<1>13. CASE RemoveAlias BY <1>13, PassBeginType DEF RemoveAlias, CallState
<1>14. ASSUME NEW n \in Aliases, NEW ip \in IPs, net_if_add(n, ip) PROVE CallState'
  BY <1>14, PassBeginType DEF net_if_add, CallState
<1>15. ASSUME NEW n \in netif_list, NEW ip \in IPs, SetIp(n, ip) PROVE CallState'
  BY <1>15 DEF SetIp, CallState
<1>16. ASSUME NEW n \in netif_list, SetIpUnparsed(n) PROVE CallState'
  BY <1>16 DEF SetIpUnparsed, CallState
<1>17. CASE IpChangedBegin BY <1>17 DEF IpChangedBegin, CallState
<1>18. CASE IpChangedStep BY <1>18 DEF IpChangedStep, CallState
<1>19. CASE IpChangedEnd BY <1>19, PassBeginType DEF IpChangedEnd, CallState
<1>20. ASSUME NEW D, NEW port, udp_input(D, port) PROVE CallState'
  BY <1>20 DEF udp_input, IInv, CallState, udpVars, mainVars
<1>21. CASE UNCHANGED vars
  BY <1>21 DEF vars, IInv, CallState, udpVars, slotVars, mainVars
<1>. QED
  BY <1>1, <1>2, <1>3, <1>4, <1>5, <1>6, <1>7, <1>8, <1>9, <1>10, <1>11, <1>12, <1>13, <1>14, <1>15,
     <1>16, <1>17, <1>18, <1>19, <1>20, <1>21
  DEF Next, Main, Interrupt, Loop, AddListener, Remove, Configure, RxUnicast, RxBroadcast

-----------------------------------------------------------------------------
(* The board comes up in a state that satisfies the invariant.             *)
LEMMA InitIInv == Init => IInv
<1>. SUFFICES ASSUME Init PROVE IInv OBVIOUS
<1>1. NetifTypeOK
  BY NetifAssumption DEF Init, NetifInit, NetifTypeOK, Netifs
<1>2. UdpTypeOK
  BY NetifAssumption, UdpAssumption, SlotFacts DEF Init, UdpInit, UdpTypeOK, AllPorts
<1>3. TypeOK
  <2>1. /\ in_use \in [Slots -> BOOLEAN] /\ pcb \in [Slots -> PCBs \cup {NULL}]
        /\ netif \in [Slots -> Netifs \cup {NULL}] /\ rx_msg \in [Slots -> Msgs \cup {NoMsg}]
    BY DEF Init
  <2>2. generation_count \in [Slots -> 0 .. GenMod - 1] BY SourceAssumption DEF Init
  <2>3. rx_count \in [Slots -> Nat] /\ rx_drop_count \in [Slots -> Nat] /\ accepted \in [Slots -> Nat]
    BY DEF Init
  <2>4. closes \in [Slots -> 0 .. MaxCloses] /\ arrivals \in 0 .. MaxArrivals
    BY SourceAssumption DEF Init
  <2>5. pc \in PCs /\ cur \in Curs /\ todo \in SUBSET Slots BY CurFacts DEF Init, PCs
  <2>6. leaked \in Nat /\ clash \in BOOLEAN /\ refused \subseteq Aliases BY DEF Init
  <2>. QED BY <1>1, <1>2, <2>1, <2>2, <2>3, <2>4, <2>5, <2>6 DEF TypeOK
<1>4. PcbOwnership BY DEF Init, UdpInit, PcbOwnership, Held
<1>5. CallState BY DEF Init, CallState
<1>. QED BY <1>3, <1>4, <1>5 DEF IInv

(* The inductive invariant holds in every reachable state.                 *)
THEOREM Invariance == Spec => []IInv
<1>1. IInv /\ [Next]_vars => IInv' BY TypeStep, OwnershipStep, CallStep DEF IInv
<1>. QED BY InitIInv, <1>1, PTL DEF Spec

(* Every variable of the registry, of lwIP's pcbs and of the interfaces    *)
(* keeps its type; in particular the generation stays in its byte, and     *)
(* an interrupt always finds the slot its datagram belongs to.             *)
THEOREM TypeCorrect == Spec => []TypeOK
<1>1. IInv => TypeOK BY DEF IInv
<1>. QED BY Invariance, <1>1, PTL

(* No step of the main loop or of the interrupt loses a pcb, frees one     *)
(* that is in use, or lets two sockets share one.                          *)
THEOREM OwnershipCorrect == Spec => []PcbOwnership
<1>1. IInv => PcbOwnership BY DEF IInv
<1>. QED BY Invariance, <1>1, PTL

(* The receive callback keeps a pbuf only between udp_recv and in_use = 1  *)
(* of add_listener, whatever is opened, closed and received before.        *)
THEOREM LeakOnlyWhileOpeningCorrect == Spec => LeakOnlyWhileOpening
<1>1. ASSUME IInv, Next PROVE leaked' # leaked => pc \in {"recv", "armed"}
  <2>1. ASSUME NEW D, NEW port, udp_input(D, port), leaked' # leaked
        PROVE  pc \in {"recv", "armed"}
    <3>1. PICK p \in udp_pcbs \ {LOC} : recv[p] /\ ~in_use[recv_arg[p]]
      BY <2>1 DEF udp_input, Matches, udp_rx_callback
    <3>2. p \in Held BY <1>1, <3>1, OwnerOfLinked
    <3>. QED BY <1>1, <3>1, <3>2 DEF IInv, CallState, Held
  <2>2. ASSUME leaked' # leaked PROVE \E D, port : udp_input(D, port)
    BY <1>1, <2>2
    DEF Next, Main, Interrupt, Loop, AddListener, Remove, Configure, RxUnicast, RxBroadcast,
        NoCommand, udp_source_poll_rx, AddNew, AddBind, AddBindFails, AddRecv, AddRecvArg, AddPublish,
        AddZero, AddReturn, udp_source_remove_listener, net_if_remove, RemoveAlias, net_if_add,
        SetIp, SetIpUnparsed, IpChangedBegin, IpChangedStep, IpChangedEnd, histVars
  <2>. QED BY <2>1, <2>2
<1>2. IInv /\ [Next]_vars => [leaked' # leaked => pc \in {"recv", "armed"}]_vars BY <1>1
<1>. QED BY Invariance, <1>2, PTL DEF Spec, LeakOnlyWhileOpening

(* The interrupt stores a datagram in the mailbox of the socket it was     *)
(* sent to, except between the two stores of udp_recv.                     *)
THEOREM StoredForOwnerCorrect == Spec => StoredForOwner
<1>. DEFINE Stored(s) == rx_msg[s] = NoMsg /\ rx_msg'[s] # NoMsg
            ForOwner(s) == rx_msg'[s].slot = s \/ (pc = "recv" /\ s = 0)
<1>1. ASSUME IInv, Next, NEW s \in Slots, Stored(s) PROVE ForOwner(s)
  <2>1. ASSUME NEW D, NEW port, udp_input(D, port) PROVE ForOwner(s)
    <3>1. PICK p \in udp_pcbs \ {LOC} :
            recv[p] /\ rx_msg' = [rx_msg EXCEPT ![recv_arg[p]] =
                                     [slot |-> Owner(p), inc |-> closes[Owner(p)]]]
      BY <1>1, <2>1 DEF udp_input, Matches, udp_rx_callback
    <3>2. p \in PCBs /\ recv_arg[p] \in Slots BY <1>1 DEF IInv, TypeOK, UdpTypeOK
    <3>3. s = recv_arg[p] /\ rx_msg'[s].slot = Owner(p)
      BY <1>1, <3>1, <3>2 DEF IInv, TypeOK
    <3>4. CASE p \notin Held BY <1>1, <3>3, <3>4, OwnerOfLinked
    <3>5. CASE p \in Held
      <4>1. Owner(p) = cur.slot /\ p = cur.pcb /\ pc \in {"recv", "armed"}
        BY <1>1, <3>1, <3>5, OwnerOfLinked DEF Held, IInv, CallState
      <4>. QED BY <1>1, <3>3, <4>1 DEF IInv, CallState
    <3>. QED BY <3>4, <3>5
  <2>2. \/ \E D, port : udp_input(D, port)
        \/ UNCHANGED rx_msg
        \/ rx_msg' = [rx_msg EXCEPT ![cur.slot] = NoMsg]
        \/ \E t \in Slots : rx_msg' = [rx_msg EXCEPT ![t] = NoMsg]
        \/ \E S : rx_msg' = [t \in Slots |-> IF t \in S THEN NoMsg ELSE rx_msg[t]]
    BY <1>1, ZenonT(60)
    DEF Next, Main, Interrupt, Loop, AddListener, Remove, Configure, RxUnicast, RxBroadcast,
        NoCommand, udp_source_poll_rx, AddNew, AddBind, AddBindFails, AddRecv, AddRecvArg, AddPublish,
        AddZero, AddReturn, udp_source_remove_listener, net_if_remove, RemoveAlias, net_if_add,
        SetIp, SetIpUnparsed, IpChangedBegin, IpChangedStep, IpChangedEnd,
        remove_slots, BoxAfterClose, slotVars
  <2>. QED BY <1>1, <2>1, <2>2 DEF IInv, TypeOK
<1>2. IInv /\ [Next]_vars => [\A s \in Slots : Stored(s) => ForOwner(s)]_vars BY <1>1
<1>. QED BY Invariance, <1>2, PTL DEF Spec, StoredForOwner

-----------------------------------------------------------------------------
(* For the cascade: the interface add_listener works on stays listed, and  *)
(* between the two critical sections of net_if_remove no socket is left.   *)
Listed ==
  /\ NoOrphanSocket
  /\ pc \in {"new", "bound", "recv", "armed"} => cur.netif \in netif_list
  /\ pc = "cascade" => \A s \in Slots : in_use[s] => netif[s] # cur.netif

(* Each step keeps it.                                                     *)
LEMMA ListedStep ==
  ASSUME IInv, Listed, [Next]_vars
  PROVE  Listed'
<1>. USE DEF Listed, NoOrphanSocket
<1>1. CASE NoCommand BY <1>1, PassBeginType DEF NoCommand, netifVars, slotVars
<1>2. ASSUME NEW s \in Slots, udp_source_poll_rx(s) PROVE Listed'
  BY <1>2 DEF udp_source_poll_rx, netifVars
<1>3. ASSUME NEW n \in netif_list, NEW port \in Ports, AddNew(n, port) PROVE Listed'
  BY <1>3 DEF AddNew, netifVars, slotVars
<1>4. CASE AddBind BY <1>4 DEF AddBind, netifVars, slotVars
<1>5. CASE AddBindFails BY <1>5, PassBeginType DEF AddBindFails, netifVars, slotVars
<1>6. CASE AddRecv BY <1>6 DEF AddRecv, netifVars, slotVars
<1>7. CASE AddRecvArg BY <1>7 DEF AddRecvArg, netifVars, slotVars
<1>8. CASE AddPublish BY <1>8 DEF AddPublish, netifVars, IInv, TypeOK
<1>9. CASE AddZero BY <1>9 DEF AddZero, netifVars
<1>10. CASE AddReturn BY <1>10, PassBeginType DEF AddReturn, netifVars
<1>11. ASSUME NEW s \in Slots, NEW g, udp_source_remove_listener([gen |-> g, idx |-> s]) PROVE Listed'
  BY <1>11, PassBeginType DEF udp_source_remove_listener, remove_slots, netifVars
<1>12. ASSUME NEW n \in netif_list, net_if_remove(n) PROVE Listed'
  <2>1. cur'.netif = n BY <1>12 DEF net_if_remove, NoCur
  <2>2. \A s \in Slots : in_use'[s] => in_use[s] /\ netif[s] # n
    BY <1>12 DEF net_if_remove, remove_slots, ClosedWith, SocketsOf
  <2>. QED BY <1>12, <2>1, <2>2 DEF net_if_remove, remove_slots, netifVars
<1>13. CASE RemoveAlias
  BY <1>13, PassBeginType DEF RemoveAlias, lwIPAliasRemove, slotVars
<1>14. ASSUME NEW n \in Aliases, NEW ip \in IPs, net_if_add(n, ip) PROVE Listed'
  BY <1>14, PassBeginType DEF net_if_add, lwIPAliasAdd, slotVars
<1>15. ASSUME NEW n \in netif_list, NEW ip \in IPs, SetIp(n, ip) PROVE Listed'
  BY <1>15 DEF SetIp, netif_set_ipaddr, slotVars
<1>16. ASSUME NEW n \in netif_list, SetIpUnparsed(n) PROVE Listed'
  BY <1>16 DEF SetIpUnparsed, netifVars, slotVars
<1>17. CASE IpChangedBegin BY <1>17 DEF IpChangedBegin, netifVars, slotVars
<1>18. CASE IpChangedStep BY <1>18 DEF IpChangedStep, netifVars, slotVars
<1>19. CASE IpChangedEnd BY <1>19, PassBeginType DEF IpChangedEnd, netifVars, slotVars
<1>20. ASSUME NEW D, NEW port, udp_input(D, port) PROVE Listed'
  BY <1>20 DEF udp_input, netifVars, mainVars
<1>21. CASE UNCHANGED vars BY <1>21 DEF vars, netifVars, slotVars, mainVars
<1>. QED
  BY <1>1, <1>2, <1>3, <1>4, <1>5, <1>6, <1>7, <1>8, <1>9, <1>10, <1>11, <1>12, <1>13, <1>14, <1>15,
     <1>16, <1>17, <1>18, <1>19, <1>20, <1>21
  DEF Next, Main, Interrupt, Loop, AddListener, Remove, Configure, RxUnicast, RxBroadcast

(* The cascade leaves no socket on an interface that is gone.              *)
THEOREM NoOrphanSocketCorrect == Spec => []NoOrphanSocket
<1>1. Init => Listed BY DEF Init, Listed, NoOrphanSocket
<1>2. IInv /\ Listed /\ [Next]_vars => Listed' BY ListedStep
<1>3. Listed => NoOrphanSocket BY DEF Listed
<1>. QED BY Invariance, <1>1, <1>2, <1>3, PTL DEF Spec

-----------------------------------------------------------------------------
(* udp_bind gives the pcb an address and port that clash with no other     *)
(* linked pcb.                                                             *)
LEMMA BindKeepsApart ==
  ASSUME UdpTypeOK, NoDoubleBind, NEW p \in PCBs, NEW ip \in IPs, NEW port \in AllPorts,
         udp_bind(p, ip, port)
  PROVE  NoDoubleBind'
<1>1. PICK e \in BindPort(port) : local_port' = [local_port EXCEPT ![p] = e]
  BY DEF udp_bind
<1>2. local_ip' = [local_ip EXCEPT ![p] = ip] /\ udp_pcbs' = udp_pcbs \cup {p}
  BY DEF udp_bind
<1>3. local_port'[p] = e /\ local_ip'[p] = ip BY <1>1, <1>2 DEF UdpTypeOK
<1>4. \A q \in udp_pcbs : q # p => local_port'[q] = local_port[q] /\ local_ip'[q] = local_ip[q]
  BY <1>1, <1>2 DEF UdpTypeOK
<1>5. \A q \in udp_pcbs : q # p /\ local_port[q] = e =>
          local_ip[q] # ANY /\ ip # ANY /\ local_ip[q] # ip
  <2>1. CASE port # 0
    <3>1. e = port BY <1>1, <2>1 DEF BindPort
    <3>. QED BY <3>1 DEF udp_bind, InUse
  <2>2. CASE port = 0 BY <1>1, <2>2 DEF BindPort
  <2>. QED BY <2>1, <2>2
<1>. QED BY <1>2, <1>3, <1>4, <1>5 DEF NoDoubleBind

(* Each step keeps the bindings apart.                                     *)
LEMMA BindingStep ==
  ASSUME IInv, NoDoubleBind, [Next]_vars
  PROVE  NoDoubleBind'
<1>1. CASE AddBind
  <2>1. cur.pcb \in PCBs /\ ip_addr[cur.netif] \in IPs /\ cur.port \in AllPorts
    BY <1>1 DEF AddBind, IInv, CallState, TypeOK, NetifTypeOK, Curs
  <2>. QED BY <1>1, <2>1, BindKeepsApart DEF AddBind, IInv, TypeOK
<1>2. CASE IpChangedStep
  <2>1. CASE Rebinds(cur.slot) /\ udp_bind(pcb[cur.slot], ip_addr[cur.netif], local_port[pcb[cur.slot]])
    <3>1. cur.slot \in Slots
      BY <1>2, SourceAssumption DEF IpChangedStep, RebindLimit, IInv, TypeOK, Curs, Indices
    <3>2. pcb[cur.slot] \in PCBs BY <2>1, <3>1 DEF Rebinds, IInv, PcbOwnership
    <3>3. ip_addr[cur.netif] \in IPs /\ local_port[pcb[cur.slot]] \in AllPorts
      BY <3>2 DEF IInv, TypeOK, NetifTypeOK, UdpTypeOK, Curs
    <3>. QED BY <2>1, <3>2, <3>3, BindKeepsApart DEF IInv, TypeOK
  <2>2. CASE UNCHANGED udpVars BY <2>2 DEF udpVars, NoDoubleBind
  <2>. QED BY <1>2, <2>1, <2>2 DEF IpChangedStep
<1>3. ASSUME NEW P, udp_remove(P) PROVE NoDoubleBind'
  BY <1>3 DEF udp_remove, Clear, NoDoubleBind, IInv, TypeOK, UdpTypeOK
<1>4. ASSUME NEW n \in netif_list, NEW port \in Ports, AddNew(n, port) PROVE NoDoubleBind'
  <2>1. PICK p \in PCBs \ udp_pcbs : udp_new(p)
    BY <1>4 DEF AddNew, udp_new, IInv, PcbOwnership
  <2>. QED BY <2>1 DEF udp_new, NoDoubleBind, IInv, TypeOK, UdpTypeOK
<1>5. CASE UNCHANGED <<udp_pcbs, local_ip, local_port>> BY <1>5 DEF NoDoubleBind
<1>6. ASSUME Next
      PROVE  \/ AddBind \/ IpChangedStep \/ \E P : udp_remove(P)
             \/ \E n \in netif_list, port \in Ports : AddNew(n, port)
             \/ UNCHANGED <<udp_pcbs, local_ip, local_port>>
  BY <1>6
  DEF Next, Main, Interrupt, Loop, AddListener, Remove, Configure, RxUnicast, RxBroadcast,
      NoCommand, udp_source_poll_rx, AddBindFails, AddRecv, AddRecvArg, AddPublish,
      AddZero, AddReturn, udp_source_remove_listener, net_if_remove, remove_slots, RemoveAlias, net_if_add,
      SetIp, SetIpUnparsed, IpChangedBegin, IpChangedEnd, udp_input, udpVars
<1>. QED BY <1>1, <1>2, <1>3, <1>4, <1>5, <1>6 DEF vars, udpVars

(* No two linked pcbs ever compete for a unicast datagram.                 *)
THEOREM NoDoubleBindCorrect == Spec => []NoDoubleBind
<1>1. Init => NoDoubleBind BY DEF Init, UdpInit, NoDoubleBind
<1>2. IInv /\ NoDoubleBind /\ [Next]_vars => NoDoubleBind' BY BindingStep
<1>. QED BY Invariance, <1>1, <1>2, PTL DEF Spec

-----------------------------------------------------------------------------
(* Arithmetic of a counter that wraps at M.                                *)

(* A product of a positive factor is at least the other one.               *)
LEMMA ProductBound ==
  ASSUME NEW M \in Nat \ {0}, NEW d \in Int, d >= 1
  PROVE  M * d >= M
BY Z3

(* Quotient and remainder.                                                 *)
LEMMA Division ==
  ASSUME NEW M \in Nat \ {0}, NEW c \in Nat
  PROVE  c = M * (c \div M) + (c % M) /\ c % M \in 0 .. M - 1 /\ c \div M \in Nat
BY Z3

(* The remainder is unique.                                                *)
LEMMA RemainderUnique ==
  ASSUME NEW M \in Nat \ {0}
  PROVE  \A q, t \in Int, r, u \in 0 .. M - 1 : M * q + r = M * t + u => r = u
<1>. SUFFICES ASSUME NEW q \in Int, NEW t \in Int, NEW r \in 0 .. M - 1, NEW u \in 0 .. M - 1,
                     M * q + r = M * t + u
              PROVE  r = u
  OBVIOUS
<1>1. M * q - M * t = M * (q - t) /\ M * t - M * q = M * (t - q) BY Z3
<1>2. CASE q = t BY <1>2
<1>3. CASE q > t
  <2>1. M * (q - t) >= M BY <1>3, ProductBound
  <2>. QED BY <1>1, <2>1
<1>4. CASE q < t
  <2>1. M * (t - q) >= M BY <1>4, ProductBound
  <2>. QED BY <1>1, <2>1
<1>. QED BY <1>2, <1>3, <1>4

(* Counting modulo M and reducing afterwards agree.                        *)
LEMMA SuccessorModulo ==
  ASSUME NEW M \in Nat \ {0}, NEW c \in Nat
  PROVE  ((c % M) + 1) % M = (c + 1) % M
<1>. DEFINE r == c % M
            q == c \div M
            q2 == (c + 1) \div M
            u == (c + 1) % M
            v == (r + 1) % M
            w == (r + 1) \div M
<1>1. c = M * q + r /\ r \in 0 .. M - 1 /\ q \in Nat BY Division
<1>2. c + 1 \in Nat /\ r + 1 \in Nat BY <1>1
<1>3. c + 1 = M * q2 + u /\ u \in 0 .. M - 1 /\ q2 \in Nat BY <1>2, Division
<1>4. r + 1 = M * w + v /\ v \in 0 .. M - 1 /\ w \in Nat BY <1>2, Division
<1>. HIDE DEF r, q, q2, u, v, w
<1>5. M * q + M * w = M * (q + w) BY <1>1, <1>4, Z3
<1>6. M * (q + w) + v = M * q2 + u BY <1>1, <1>3, <1>4, <1>5
<1>7. q + w \in Int /\ q2 \in Int BY <1>1, <1>3, <1>4
<1>8. v = u BY <1>3, <1>4, <1>6, <1>7, RemainderUnique, Zenon
<1>. QED BY <1>8 DEF u, v, r

(* Two numbers less than M apart have different remainders.                *)
LEMMA RemaindersApart ==
  ASSUME NEW M \in Nat \ {0}, NEW c \in Nat, NEW k \in Nat, k < c, k > c - M
  PROVE  k % M # c % M
<1>. SUFFICES ASSUME k % M = c % M PROVE FALSE OBVIOUS
<1>. DEFINE r == c % M
            q == c \div M
            t == k \div M
<1>1. c = M * q + r /\ r \in 0 .. M - 1 /\ q \in Nat BY Division
<1>2. k = M * t + r /\ t \in Nat BY Division
<1>. HIDE DEF r, q, t
<1>3. M * q - M * t = M * (q - t) /\ M * t - M * q = M * (t - q) BY <1>1, <1>2, Z3
<1>4. CASE q >= t + 1
  <2>1. M * (q - t) >= M BY <1>1, <1>2, <1>4, ProductBound
  <2>. QED BY <1>1, <1>2, <1>3, <2>1
<1>5. CASE q = t BY <1>1, <1>2, <1>5
<1>6. CASE t >= q + 1
  <2>1. M * (t - q) >= M BY <1>1, <1>2, <1>6, ProductBound
  <2>. QED BY <1>1, <1>2, <1>3, <2>1
<1>. QED BY <1>1, <1>2, <1>4, <1>5, <1>6

-----------------------------------------------------------------------------
(* The generation of a slot counts its closings, modulo its width.         *)
GenerationCounts == \A s \in Slots : generation_count[s] = closes[s] % GenMod

(* Each step keeps it: only remove_slot touches either.                    *)
LEMMA GenerationStep ==
  ASSUME IInv, GenerationCounts, [Next]_vars
  PROVE  GenerationCounts'
<1>1. ASSUME NEW S, remove_slots(S) PROVE GenerationCounts'
  <2>. SUFFICES ASSUME NEW s \in Slots PROVE generation_count'[s] = closes'[s] % GenMod
    BY DEF GenerationCounts
  <2>1. generation_count[s] = closes[s] % GenMod /\ closes[s] \in Nat
    BY DEF GenerationCounts, IInv, TypeOK
  <2>2. ((closes[s] % GenMod) + 1) % GenMod = (closes[s] + 1) % GenMod
    BY <2>1, SuccessorModulo, SourceAssumption
  <2>3. CASE s \in S
    <3>1. generation_count'[s] = (generation_count[s] + 1) % GenMod /\ closes'[s] = closes[s] + 1
      BY <1>1, <2>3 DEF remove_slots, NextGeneration
    <3>. QED BY <2>1, <2>2, <3>1
  <2>4. CASE s \notin S
    BY <1>1, <2>1, <2>4 DEF remove_slots
  <2>. QED BY <2>3, <2>4
<1>2. CASE UNCHANGED <<generation_count, closes>> BY <1>2 DEF GenerationCounts
<1>3. ASSUME Next PROVE (\E S : remove_slots(S)) \/ UNCHANGED <<generation_count, closes>>
  BY <1>3
  DEF Next, Main, Interrupt, Loop, AddListener, Remove, Configure, RxUnicast, RxBroadcast,
      NoCommand, udp_source_poll_rx, AddNew, AddBind, AddBindFails, AddRecv, AddRecvArg, AddPublish,
      AddZero, AddReturn, udp_source_remove_listener, net_if_remove, RemoveAlias, net_if_add,
      SetIp, SetIpUnparsed, IpChangedBegin, IpChangedStep, IpChangedEnd, udp_input, slotVars, histVars
<1>. QED BY <1>1, <1>2, <1>3 DEF vars, slotVars, histVars

(* resolve refuses every id of a socket closed fewer than GenMod closings  *)
(* of its slot ago, for any width of the generation.                       *)
THEOREM StaleIdRejectedCorrect == Spec => []StaleIdRejected
<1>1. Init => GenerationCounts
  <2>1. 0 % GenMod = 0 BY SourceAssumption, Z3
  <2>. QED BY <2>1 DEF Init, GenerationCounts
<1>2. IInv /\ GenerationCounts /\ [Next]_vars => GenerationCounts' BY GenerationStep
<1>3. IInv /\ GenerationCounts => StaleIdRejected
  <2>. SUFFICES ASSUME IInv, GenerationCounts, NEW s \in Slots, NEW k \in 0 .. closes[s] - 1,
                       k > closes[s] - GenMod
                PROVE  ~Resolves([gen |-> k % GenMod, idx |-> s])
    BY DEF StaleIdRejected
  <2>1. closes[s] \in Nat BY DEF IInv, TypeOK
  <2>2. k \in Nat /\ k < closes[s] BY <2>1
  <2>3. k % GenMod # closes[s] % GenMod BY <2>1, <2>2, RemaindersApart, SourceAssumption
  <2>. QED BY <2>3 DEF Resolves, GenerationCounts
<1>. QED BY Invariance, <1>1, <1>2, <1>3, PTL DEF Spec

-----------------------------------------------------------------------------
(* A mailbox holds a message only while its slot is open, and one of its   *)
(* own socket only of the socket open there now.                           *)
MailboxOfOpen ==
  \A s \in Slots : rx_msg[s] # NoMsg =>
    in_use[s] /\ (rx_msg[s].slot = s => rx_msg[s].inc = closes[s])

(* Each step keeps it.                                                     *)
LEMMA MailboxStep ==
  ASSUME IInv, MailboxOfOpen, [Next]_vars
  PROVE  MailboxOfOpen'
<1>. USE DEF MailboxOfOpen
<1>1. ASSUME NEW S, remove_slots(S) PROVE MailboxOfOpen'
  BY <1>1 DEF remove_slots, BoxAfterClose
<1>2. ASSUME NEW D, NEW port, udp_input(D, port) PROVE MailboxOfOpen'
  <2>1. UNCHANGED <<in_use, closes>> BY <1>2 DEF udp_input
  <2>2. CASE UNCHANGED rx_msg BY <2>1, <2>2
  <2>3. ASSUME NEW p \in udp_pcbs \ {LOC}, recv[p], in_use[recv_arg[p]],
               rx_msg' = [rx_msg EXCEPT ![recv_arg[p]] = [slot |-> Owner(p), inc |-> closes[Owner(p)]]]
        PROVE  MailboxOfOpen'
    <3>. DEFINE a == recv_arg[p]
    <3>1. a \in Slots BY DEF IInv, TypeOK, UdpTypeOK
    <3>2. rx_msg'[a] = [slot |-> Owner(p), inc |-> closes[Owner(p)]]
      BY <2>3, <3>1 DEF IInv, TypeOK
    <3>3. \A s \in Slots \ {a} : rx_msg'[s] = rx_msg[s] BY <2>3, <3>1 DEF IInv, TypeOK
    <3>4. in_use'[a] /\ (rx_msg'[a].slot = a => rx_msg'[a].inc = closes'[a])
      BY <2>1, <2>3, <3>2
    <3>. QED BY <2>1, <3>3, <3>4
  <2>. QED BY <1>2, <2>2, <2>3 DEF udp_input, Matches, udp_rx_callback
<1>3. ASSUME NEW s \in Slots, udp_source_poll_rx(s) PROVE MailboxOfOpen'
  BY <1>3 DEF udp_source_poll_rx, histVars, IInv, TypeOK
<1>4. CASE AddPublish BY <1>4 DEF AddPublish, histVars, IInv, TypeOK
<1>5. CASE AddReturn BY <1>5 DEF AddReturn, IInv, TypeOK
<1>6. CASE UNCHANGED <<in_use, rx_msg, closes>> BY <1>6
<1>7. ASSUME Next
      PROVE  \/ \E S : remove_slots(S)
             \/ \E D, port : udp_input(D, port)
             \/ \E s \in Slots : udp_source_poll_rx(s)
             \/ AddPublish \/ AddReturn
             \/ UNCHANGED <<in_use, rx_msg, closes>>
  BY <1>7
  DEF Next, Main, Interrupt, Loop, AddListener, Remove, Configure, RxUnicast, RxBroadcast,
      NoCommand, AddNew, AddBind, AddBindFails, AddRecv, AddRecvArg, AddZero,
      udp_source_remove_listener, net_if_remove, RemoveAlias, net_if_add,
      SetIp, SetIpUnparsed, IpChangedBegin, IpChangedStep, IpChangedEnd, slotVars, histVars
<1>. QED BY <1>1, <1>2, <1>3, <1>4, <1>5, <1>6, <1>7 DEF vars, slotVars, histVars

(* A reader of a slot never gets a message that was sent to a socket which *)
(* had the slot before, however often slots are closed and reused.         *)
THEOREM NoMessageFromThePastCorrect == Spec => []NoMessageFromThePast
<1>1. Init => MailboxOfOpen BY DEF Init, MailboxOfOpen
<1>2. IInv /\ MailboxOfOpen /\ [Next]_vars => MailboxOfOpen' BY MailboxStep
<1>3. MailboxOfOpen => NoMessageFromThePast BY DEF MailboxOfOpen, NoMessageFromThePast
<1>. QED BY Invariance, <1>1, <1>2, <1>3, PTL DEF Spec

-----------------------------------------------------------------------------
(* Each step keeps the accounts of the open sockets.                       *)
LEMMA AccountingStep ==
  ASSUME IInv, Accounting, [Next]_vars
  PROVE  Accounting'
<1>. DEFINE Box(s) == IF rx_msg[s] = NoMsg THEN 0 ELSE 1
            Balanced(s) == accepted[s] = rx_count[s] + rx_drop_count[s] + Box(s)
            counts == <<rx_count, rx_drop_count, rx_msg, accepted>>
<1>1. ASSUME NEW S, remove_slots(S), UNCHANGED accepted, pc = "poll" PROVE Accounting'
  BY <1>1 DEF remove_slots, Accounting, Opening
<1>2. ASSUME NEW D, NEW port, udp_input(D, port) PROVE Accounting'
  <2>1. UNCHANGED <<in_use, rx_count, pc, cur>> BY <1>2 DEF udp_input, mainVars
  <2>2. CASE UNCHANGED counts BY <2>1, <2>2 DEF Accounting, Opening
  <2>3. ASSUME NEW p \in udp_pcbs \ {LOC}, udp_rx_callback(p),
               accepted' = [accepted EXCEPT ![recv_arg[p]] = @ + 1]
        PROVE  Accounting'
    <3>1. PICK a \in Slots : a = recv_arg[p] BY DEF IInv, TypeOK, UdpTypeOK
    <3>2. /\ accepted[a] \in Nat /\ rx_count[a] \in Nat /\ rx_drop_count[a] \in Nat
          /\ accepted'[a] = accepted[a] + 1
      BY <2>3, <3>1 DEF IInv, TypeOK
    <3>3. \A s \in Slots \ {a} :
            accepted'[s] = accepted[s] /\ rx_drop_count'[s] = rx_drop_count[s] /\ rx_msg'[s] = rx_msg[s]
      BY <2>3, <3>1 DEF udp_rx_callback, IInv, TypeOK
    <3>4. ASSUME in_use[a], Balanced(a) PROVE Balanced(a)'
      <4>1. CASE rx_msg[a] # NoMsg /\ rx_drop_count' = [rx_drop_count EXCEPT ![a] = @ + 1] /\ UNCHANGED rx_msg
        <5>1. rx_drop_count'[a] = rx_drop_count[a] + 1 BY <3>1, <4>1 DEF IInv, TypeOK
        <5>. QED BY <2>1, <3>2, <3>4, <4>1, <5>1
      <4>2. CASE /\ rx_msg[a] = NoMsg /\ UNCHANGED rx_drop_count
                 /\ rx_msg' = [rx_msg EXCEPT ![a] = [slot |-> Owner(p), inc |-> closes[Owner(p)]]]
        <5>1. [slot |-> Owner(p), inc |-> closes[Owner(p)]] \in Msgs
          BY OwnerOfLinked DEF IInv, TypeOK, Msgs
        <5>2. rx_msg'[a] # NoMsg BY <3>1, <4>2, <5>1, MsgAssumption DEF IInv, TypeOK
        <5>. QED BY <2>1, <3>2, <3>4, <4>2, <5>2
      <4>. QED BY <2>3, <3>1, <3>4, <4>1, <4>2 DEF udp_rx_callback, BoxFull
    <3>. QED BY <2>1, <3>3, <3>4 DEF Accounting, Opening
  <2>. QED BY <1>2, <2>2, <2>3 DEF udp_input, Matches
<1>3. ASSUME NEW s \in Slots, udp_source_poll_rx(s) PROVE Accounting'
  <2>1. UNCHANGED <<in_use, rx_drop_count, accepted, pc, cur>> BY <1>3 DEF udp_source_poll_rx, histVars
  <2>2. CASE UNCHANGED <<rx_msg, rx_count>> BY <2>1, <2>2 DEF Accounting, Opening
  <2>3. CASE /\ rx_msg[s] # NoMsg
             /\ rx_msg' = [rx_msg EXCEPT ![s] = NoMsg]
             /\ rx_count' = [rx_count EXCEPT ![s] = @ + 1]
    <3>1. rx_msg'[s] = NoMsg /\ rx_count'[s] = rx_count[s] + 1 BY <2>3 DEF IInv, TypeOK
    <3>2. \A t \in Slots \ {s} : rx_msg'[t] = rx_msg[t] /\ rx_count'[t] = rx_count[t]
      BY <2>3 DEF IInv, TypeOK
    <3>3. accepted[s] \in Nat /\ rx_count[s] \in Nat /\ rx_drop_count[s] \in Nat BY DEF IInv, TypeOK
    <3>4. Balanced(s) => Balanced(s)' BY <2>1, <2>3, <3>1, <3>3
    <3>. QED BY <2>1, <3>2, <3>4 DEF Accounting, Opening
  <2>. QED BY <1>3, <2>2, <2>3 DEF udp_source_poll_rx
<1>4. CASE AddPublish
  BY <1>4 DEF AddPublish, histVars, Accounting, Opening, IInv, TypeOK
<1>5. CASE AddZero
  BY <1>5 DEF AddZero, histVars, Accounting, Opening, IInv, TypeOK
<1>6. CASE AddReturn
  <2>1. PICK c \in Slots : c = cur.slot /\ pc = "zeroed" BY <1>6 DEF AddReturn, IInv, CallState
  <2>2. accepted'[c] = rx_count[c] + rx_drop_count[c] /\ rx_msg'[c] = NoMsg
    BY <1>6, <2>1 DEF AddReturn, IInv, TypeOK
  <2>3. Balanced(c)' BY <1>6, <2>1, <2>2 DEF AddReturn, IInv, TypeOK
  <2>4. \A s \in Slots \ {c} : accepted'[s] = accepted[s] /\ rx_msg'[s] = rx_msg[s]
    BY <1>6, <2>1 DEF AddReturn, IInv, TypeOK
  <2>. QED BY <1>6, <2>1, <2>3, <2>4 DEF AddReturn, Accounting, Opening
<1>7. ASSUME UNCHANGED counts, UNCHANGED in_use, pc \notin {"published", "zeroed"} \/ UNCHANGED <<pc, cur>>
      PROVE  Accounting'
  BY <1>7 DEF Accounting, Opening
<1>8. ASSUME Next
      PROVE  \/ (\E S : remove_slots(S)) /\ UNCHANGED accepted /\ pc = "poll"
             \/ \E D, port : udp_input(D, port)
             \/ \E s \in Slots : udp_source_poll_rx(s)
             \/ AddPublish \/ AddZero \/ AddReturn
             \/ UNCHANGED counts /\ UNCHANGED in_use /\ pc \notin {"published", "zeroed"}
  BY <1>8
  DEF Next, Main, Interrupt, Loop, AddListener, Remove, Configure, RxUnicast, RxBroadcast, Ready,
      NoCommand, AddNew, AddBind, AddBindFails, AddRecv, AddRecvArg,
      udp_source_remove_listener, net_if_remove, RemoveAlias, net_if_add,
      SetIp, SetIpUnparsed, IpChangedBegin, IpChangedStep, IpChangedEnd, slotVars, histVars
<1>. QED BY <1>1, <1>2, <1>3, <1>4, <1>5, <1>6, <1>7, <1>8 DEF vars, slotVars, mainVars, histVars

(* Every datagram an open socket was given is read, counted as dropped, or *)
(* still in the mailbox, however the interrupt interleaves with the loop.  *)
THEOREM AccountingCorrect == Spec => []Accounting
<1>1. Init => Accounting BY DEF Init, Accounting
<1>2. IInv /\ Accounting /\ [Next]_vars => Accounting' BY AccountingStep
<1>. QED BY Invariance, <1>1, <1>2, PTL DEF Spec

-----------------------------------------------------------------------------
(* Does netif_ip_changed still have to rebind this socket?                 *)
Owes(s) ==
  netif[s] = cur.netif /\ (pc = "ipset" \/ (pc = "rebind" /\ cur.slot <= s))

(* The operator's side: distinct addresses on the listed interfaces.       *)
AddressesApart ==
  ~clash => \A m \in netif_list :
    ip_addr[m] # ANY /\ \A n \in netif_list : ip_addr[m] = ip_addr[n] => m = n

(* Why no rebinding is ever refused.  Every socket is bound to the address *)
(* of its interface unless its rebinding is still due, and the sockets of  *)
(* one interface have different ports, also those add_listener is about to *)
(* add: a socket that moved cannot block one that has still to move.       *)
BoundToInterface ==
  ~clash =>
    /\ \A s \in Slots : in_use[s] /\ ~Owes(s) => local_ip[pcb[s]] = ip_addr[netif[s]]
    /\ \A s, t \in Slots :
         in_use[s] /\ in_use[t] /\ netif[s] = netif[t] /\ local_port[pcb[s]] = local_port[pcb[t]] => s = t
    /\ pc \in {"bound", "recv", "armed"} =>
         /\ local_ip[cur.pcb] = ip_addr[cur.netif]
         /\ \A s \in Slots : in_use[s] /\ netif[s] = cur.netif => local_port[pcb[s]] # local_port[cur.pcb]

(* The locator keeps its wildcard address, every listed alias is marked    *)
(* used, the interface whose address changes stays listed, and the loop    *)
(* over the slots starts at slot 0.                                        *)
MoveState ==
  /\ local_ip[LOC] = ANY
  /\ netif_list \subseteq alias_used \cup {PHYS}
  /\ Moving => cur.netif \in netif_list
  /\ pc = "ipset" => cur.slot = 0

(* The invariant of an address change.                                     *)
SendInv == Listed /\ NoDoubleBind /\ AddressesApart /\ BoundToInterface /\ MoveState

(* The addresses stay apart until the operator gives one twice.            *)
LEMMA AddressesStep ==
  ASSUME IInv, AddressesApart, [Next]_vars
  PROVE  AddressesApart'
<1>. USE DEF AddressesApart
<1>1. ASSUME NEW n \in Netifs, NEW ip \in IPs, clash' = (clash \/ Clashes(n, ip)),
             ip_addr' = [ip_addr EXCEPT ![n] = ip], netif_list' \subseteq netif_list \cup {n}
      PROVE  AddressesApart'
  <2>. SUFFICES ASSUME ~clash' PROVE AddressesApart' OBVIOUS
  <2>1. ~clash /\ ip # ANY /\ \A m \in netif_list \ {n} : ip_addr[m] # ip BY <1>1 DEF Clashes
  <2>2. ip_addr'[n] = ip /\ \A m \in Netifs \ {n} : ip_addr'[m] = ip_addr[m]
    BY <1>1 DEF IInv, TypeOK, NetifTypeOK
  <2>3. netif_list \subseteq Netifs BY DEF IInv, TypeOK, NetifTypeOK
  <2>. QED BY <1>1, <2>1, <2>2, <2>3
<1>2. ASSUME NEW n \in Aliases, NEW ip \in IPs, net_if_add(n, ip) PROVE AddressesApart'
  BY <1>1, <1>2 DEF net_if_add, lwIPAliasAdd, Netifs
<1>3. ASSUME NEW n \in netif_list, NEW ip \in IPs, SetIp(n, ip) PROVE AddressesApart'
  BY <1>1, <1>3 DEF SetIp, netif_set_ipaddr, IInv, TypeOK, NetifTypeOK
<1>4. CASE RemoveAlias BY <1>4 DEF RemoveAlias, lwIPAliasRemove
<1>5. CASE UNCHANGED <<netif_list, ip_addr, clash>> BY <1>5
<1>6. ASSUME Next
      PROVE  \/ \E n \in Aliases, ip \in IPs : net_if_add(n, ip)
             \/ \E n \in netif_list, ip \in IPs : SetIp(n, ip)
             \/ RemoveAlias
             \/ UNCHANGED <<netif_list, ip_addr, clash>>
  BY <1>6
  DEF Next, Main, Interrupt, Loop, AddListener, Remove, Configure, RxUnicast, RxBroadcast,
      NoCommand, udp_source_poll_rx, AddNew, AddBind, AddBindFails, AddRecv, AddRecvArg, AddPublish,
      AddZero, AddReturn, udp_source_remove_listener, net_if_remove,
      SetIpUnparsed, IpChangedBegin, IpChangedStep, IpChangedEnd, udp_input, netifVars, histVars
<1>. QED BY <1>2, <1>3, <1>4, <1>5, <1>6 DEF vars, netifVars, histVars

(* Nobody rebinds the locator, and nobody removes the interface that is    *)
(* moving.                                                                 *)
LEMMA MoveStateStep ==
  ASSUME IInv, MoveState, [Next]_vars
  PROVE  MoveState'
<1>. USE DEF MoveState, Moving
<1>0. LOC \in PCBs BY UdpAssumption
<1>1. CASE NoCommand BY <1>1, PassBeginType DEF NoCommand, netifVars, udpVars
<1>2. ASSUME NEW s \in Slots, udp_source_poll_rx(s) PROVE MoveState'
  BY <1>2 DEF udp_source_poll_rx, netifVars, udpVars
<1>3. ASSUME NEW n \in netif_list, NEW port \in Ports, AddNew(n, port) PROVE MoveState'
  <2>1. PICK p \in PCBs \ {LOC} : udp_new(p) BY <1>3 DEF AddNew, udp_new, IInv, PcbOwnership
  <2>. QED BY <1>0, <1>3, <2>1 DEF AddNew, udp_new, netifVars, IInv, TypeOK, UdpTypeOK
<1>4. CASE AddBind BY <1>0, <1>4 DEF AddBind, udp_bind, netifVars, IInv, TypeOK, UdpTypeOK, CallState
<1>5. CASE AddBindFails
  BY <1>0, <1>5, PassBeginType DEF AddBindFails, netifVars, FreedOnError, udp_remove, Clear, IInv, CallState
<1>6. CASE AddRecv BY <1>6 DEF AddRecv, netifVars
<1>7. CASE AddRecvArg BY <1>7 DEF AddRecvArg, netifVars
<1>8. CASE AddPublish BY <1>8 DEF AddPublish, netifVars, udpVars
<1>9. CASE AddZero BY <1>9 DEF AddZero, netifVars, udpVars
<1>10. CASE AddReturn BY <1>10, PassBeginType DEF AddReturn, netifVars, udpVars
<1>11. ASSUME NEW s \in Slots, NEW g, udp_source_remove_listener([gen |-> g, idx |-> s]) PROVE MoveState'
  <2>1. LOC \notin PcbsOf({s}) BY <1>11 DEF udp_source_remove_listener, Resolves, PcbsOf, IInv, PcbOwnership
  <2>. QED BY <1>0, <1>11, <2>1, PassBeginType
         DEF udp_source_remove_listener, netifVars, remove_slots, udp_remove, Clear
<1>12. ASSUME NEW n \in netif_list, net_if_remove(n) PROVE MoveState'
  <2>1. LOC \notin PcbsOf(SocketsOf(n)) BY DEF SocketsOf, PcbsOf, IInv, PcbOwnership
  <2>. QED BY <1>0, <1>12, <2>1 DEF net_if_remove, netifVars, ClosedWith, remove_slots, udp_remove, Clear
<1>13. CASE RemoveAlias BY <1>13, PassBeginType DEF RemoveAlias, lwIPAliasRemove, udpVars
<1>14. ASSUME NEW n \in Aliases, NEW ip \in IPs, net_if_add(n, ip) PROVE MoveState'
  BY <1>14, PassBeginType DEF net_if_add, lwIPAliasAdd, udpVars
<1>15. ASSUME NEW n \in netif_list, NEW ip \in IPs, SetIp(n, ip) PROVE MoveState'
  BY <1>15 DEF SetIp, netif_set_ipaddr, udpVars, NoCur
<1>16. ASSUME NEW n \in netif_list, SetIpUnparsed(n) PROVE MoveState'
  BY <1>16 DEF SetIpUnparsed, netifVars, udpVars, NoCur
<1>17. CASE IpChangedBegin BY <1>17 DEF IpChangedBegin, netifVars, udpVars
<1>18. CASE IpChangedStep
  <2>1. cur.slot \in Slots
    BY <1>18, SourceAssumption DEF IpChangedStep, RebindLimit, IInv, TypeOK, Curs, Indices
  <2>2. local_ip'[LOC] = ANY
    BY <1>0, <1>18, <2>1 DEF IpChangedStep, Rebinds, udp_bind, udpVars, IInv, PcbOwnership, TypeOK, UdpTypeOK
  <2>3. cur'.netif = cur.netif BY <1>18 DEF IpChangedStep, IInv, TypeOK, Curs
  <2>. QED BY <1>18, <2>2, <2>3 DEF IpChangedStep, netifVars
<1>19. CASE IpChangedEnd BY <1>19, PassBeginType DEF IpChangedEnd, netifVars, udpVars
<1>20. ASSUME NEW D, NEW port, udp_input(D, port) PROVE MoveState'
  BY <1>20 DEF udp_input, netifVars, udpVars, mainVars
<1>21. CASE UNCHANGED vars BY <1>21 DEF vars, netifVars, udpVars, mainVars
<1>. QED
  BY <1>1, <1>2, <1>3, <1>4, <1>5, <1>6, <1>7, <1>8, <1>9, <1>10, <1>11, <1>12, <1>13, <1>14, <1>15,
     <1>16, <1>17, <1>18, <1>19, <1>20, <1>21
  DEF Next, Main, Interrupt, Loop, AddListener, Remove, Configure, RxUnicast, RxBroadcast

(* A step that opens no socket, touches no binding of an open one, and     *)
(* changes the address only of an interface whose sockets then owe a       *)
(* rebinding, keeps the sockets bound.                                     *)
LEMMA BoundKept ==
  ASSUME BoundToInterface, clash => clash',
         \A s \in Slots : in_use'[s] =>
           /\ in_use[s] /\ netif'[s] = netif[s]
           /\ local_ip'[pcb'[s]] = local_ip[pcb[s]] /\ local_port'[pcb'[s]] = local_port[pcb[s]]
           /\ Owes(s) => Owes(s)'
           /\ Owes(s)' \/ ip_addr'[netif[s]] = ip_addr[netif[s]],
         pc' \in {"bound", "recv", "armed"} =>
           /\ pc \in {"bound", "recv", "armed"} /\ cur' = cur
           /\ local_ip'[cur.pcb] = local_ip[cur.pcb] /\ local_port'[cur.pcb] = local_port[cur.pcb]
           /\ ip_addr'[cur.netif] = ip_addr[cur.netif]
  PROVE  BoundToInterface'
<1>. SUFFICES ASSUME ~clash' PROVE BoundToInterface' BY DEF BoundToInterface
<1>1. \A s \in Slots : in_use'[s] /\ ~Owes(s)' => local_ip'[pcb'[s]] = ip_addr'[netif'[s]]
  BY DEF BoundToInterface
<1>2. \A s, t \in Slots : in_use'[s] /\ in_use'[t] /\ netif'[s] = netif'[t]
                            /\ local_port'[pcb'[s]] = local_port'[pcb'[t]] => s = t
  BY DEF BoundToInterface
<1>3. pc' \in {"bound", "recv", "armed"} =>
        /\ local_ip'[cur'.pcb] = ip_addr'[cur'.netif]
        /\ \A s \in Slots : in_use'[s] /\ netif'[s] = cur'.netif => local_port'[pcb'[s]] # local_port'[cur'.pcb]
  BY DEF BoundToInterface
<1>. QED BY <1>1, <1>2, <1>3 DEF BoundToInterface

(* The rebinding of a socket is never refused: another pcb with its port   *)
(* is on an interface with another address.                                *)
LEMMA RebindAccepted ==
  ASSUME IInv, SendInv, ~clash, pc = "rebind", NEW c \in Slots, c = cur.slot, Rebinds(c)
  PROVE  ~InUse(pcb[c], ip_addr[cur.netif], local_port[pcb[c]])
<1>. SUFFICES ASSUME NEW q \in udp_pcbs \ {pcb[c]}, local_port[q] = local_port[pcb[c]]
              PROVE  local_ip[q] # ANY /\ ip_addr[cur.netif] # ANY /\ local_ip[q] # ip_addr[cur.netif]
  BY DEF InUse
<1>1. pcb[c] \in udp_pcbs /\ in_use[c] /\ netif[c] = cur.netif BY DEF Rebinds, IInv, PcbOwnership
<1>2. local_ip[q] # ANY BY <1>1 DEF SendInv, NoDoubleBind
<1>3. cur.netif \in netif_list /\ ip_addr[cur.netif] # ANY
  BY DEF SendInv, AddressesApart, MoveState, Moving
<1>4. q # LOC BY <1>2 DEF SendInv, MoveState
<1>5. PICK t \in Slots : in_use[t] /\ pcb[t] = q BY <1>4 DEF IInv, PcbOwnership, Held
<1>6. netif[t] # cur.netif BY <1>1, <1>5 DEF SendInv, BoundToInterface
<1>7. local_ip[q] = ip_addr[netif[t]] BY <1>5, <1>6 DEF SendInv, BoundToInterface, Owes
<1>8. netif[t] \in netif_list BY <1>5 DEF SendInv, Listed, NoOrphanSocket
<1>. QED BY <1>2, <1>3, <1>6, <1>7, <1>8 DEF SendInv, AddressesApart

(* Each step keeps the sockets bound to their interfaces.                  *)
LEMMA BoundStep ==
  ASSUME IInv, SendInv, [Next]_vars
  PROVE  BoundToInterface'
<1>0. BoundToInterface BY DEF SendInv
<1>1. CASE NoCommand
  BY <1>0, <1>1, BoundKept, PassBeginType DEF NoCommand, Ready, Owes, netifVars, udpVars, slotVars, histVars
<1>2. ASSUME NEW s \in Slots, udp_source_poll_rx(s) PROVE BoundToInterface'
  BY <1>0, <1>2, BoundKept DEF udp_source_poll_rx, Owes, netifVars, udpVars, histVars
<1>3. ASSUME NEW n \in netif_list, NEW port \in Ports, AddNew(n, port) PROVE BoundToInterface'
  <2>1. PICK p \in PCBs \ pool : udp_new(p) BY <1>3 DEF AddNew, udp_new
  <2>2. \A s \in Slots : in_use[s] => pcb[s] \in PCBs \ {p} BY <2>1 DEF IInv, PcbOwnership
  <2>3. \A q \in PCBs \ {p} : local_ip'[q] = local_ip[q] /\ local_port'[q] = local_port[q]
    BY <2>1 DEF udp_new, IInv, TypeOK, UdpTypeOK
  <2>. QED BY <1>0, <1>3, <2>2, <2>3, BoundKept DEF AddNew, Ready, Owes, netifVars, slotVars, histVars
<1>4. CASE AddBind
  <2>1. PICK p \in PCBs : p = cur.pcb BY <1>4 DEF AddBind, IInv, CallState
  <2>2. NoDoubleBind' BY <1>4, BindingStep DEF SendInv, Next, Main, AddListener
  <2>3. ip_addr[cur.netif] \in IPs BY DEF IInv, TypeOK, NetifTypeOK, Curs
  <2>4. local_ip'[p] = ip_addr[cur.netif] /\ udp_pcbs' = udp_pcbs \cup {p}
    BY <1>4, <2>1 DEF AddBind, udp_bind, IInv, TypeOK, UdpTypeOK
  <2>5. \A q \in PCBs \ {p} : local_ip'[q] = local_ip[q] /\ local_port'[q] = local_port[q]
    BY <1>4, <2>1 DEF AddBind, udp_bind, IInv, TypeOK, UdpTypeOK
  <2>6. \A s \in Slots : in_use[s] => pcb[s] \in udp_pcbs /\ pcb[s] \in PCBs \ {p}
    BY <1>4, <2>1 DEF AddBind, IInv, PcbOwnership, Held
  <2>7. UNCHANGED <<netif_list, ip_addr, in_use, pcb, netif, cur, clash>> /\ pc = "new" /\ pc' = "bound"
    BY <1>4 DEF AddBind, netifVars, slotVars, histVars
  <2>. SUFFICES ASSUME ~clash' PROVE BoundToInterface' BY DEF BoundToInterface
  <2>8. ASSUME NEW s \in Slots, in_use[s]
        PROVE  /\ local_ip[pcb[s]] = ip_addr[netif[s]]
               /\ netif[s] = cur.netif => local_port'[pcb[s]] # local_port'[p]
    <3>1. local_ip[pcb[s]] = ip_addr[netif[s]] BY <1>0, <2>7, <2>8 DEF BoundToInterface, Owes
    <3>2. netif[s] = cur.netif => local_ip'[pcb[s]] = local_ip'[p] BY <2>4, <2>5, <2>6, <2>8, <3>1
    <3>. QED BY <2>2, <2>4, <2>6, <2>8, <3>1, <3>2 DEF NoDoubleBind
  <2>9. \A s \in Slots : in_use'[s] => local_ip'[pcb'[s]] = ip_addr'[netif'[s]]
    BY <2>5, <2>6, <2>7, <2>8
  <2>10. \A s, t \in Slots : in_use'[s] /\ in_use'[t] /\ netif'[s] = netif'[t]
                            /\ local_port'[pcb'[s]] = local_port'[pcb'[t]] => s = t
    BY <1>0, <2>5, <2>6, <2>7 DEF BoundToInterface
  <2>. QED BY <2>1, <2>4, <2>7, <2>8, <2>9, <2>10 DEF BoundToInterface
<1>5. CASE AddBindFails
  <2>1. cur.pcb \in PCBs /\ \A s \in Slots : in_use[s] => pcb[s] \in PCBs \ {cur.pcb}
    BY <1>5 DEF AddBindFails, IInv, CallState, PcbOwnership, Held
  <2>2. \A q \in PCBs \ {cur.pcb} : local_ip'[q] = local_ip[q] /\ local_port'[q] = local_port[q]
    BY <1>5 DEF AddBindFails, FreedOnError, udp_remove, Clear
  <2>. QED BY <1>0, <1>5, <2>1, <2>2, BoundKept, PassBeginType
         DEF AddBindFails, Owes, netifVars, slotVars, histVars
<1>6. CASE AddRecv
  BY <1>0, <1>6, BoundKept DEF AddRecv, Owes, netifVars, slotVars, histVars
<1>7. CASE AddRecvArg
  BY <1>0, <1>7, BoundKept DEF AddRecvArg, Owes, netifVars, slotVars, histVars
<1>8. CASE AddPublish
  <2>1. PICK c \in Slots : c = cur.slot /\ ~in_use[c] BY <1>8 DEF AddPublish, IInv, CallState
  <2>2. pcb'[c] = cur.pcb /\ netif'[c] = cur.netif /\ in_use'[c]
    BY <1>8, <2>1 DEF AddPublish, IInv, TypeOK
  <2>3. \A s \in Slots \ {c} : pcb'[s] = pcb[s] /\ netif'[s] = netif[s] /\ in_use'[s] = in_use[s]
    BY <1>8, <2>1 DEF AddPublish, IInv, TypeOK
  <2>4. UNCHANGED <<ip_addr, local_ip, local_port, cur, clash>> /\ pc = "armed" /\ pc' = "published"
    BY <1>8 DEF AddPublish, netifVars, udpVars, histVars
  <2>. SUFFICES ASSUME ~clash' PROVE BoundToInterface' BY DEF BoundToInterface
  <2>5. \A s \in Slots : in_use'[s] => local_ip'[pcb'[s]] = ip_addr'[netif'[s]]
    BY <1>0, <2>2, <2>3, <2>4 DEF BoundToInterface, Owes
  <2>6. \A s, t \in Slots : in_use'[s] /\ in_use'[t] /\ netif'[s] = netif'[t]
                            /\ local_port'[pcb'[s]] = local_port'[pcb'[t]] => s = t
    BY <1>0, <2>2, <2>3, <2>4 DEF BoundToInterface
  <2>. QED BY <2>4, <2>5, <2>6 DEF BoundToInterface
<1>9. CASE AddZero
  BY <1>0, <1>9, BoundKept DEF AddZero, Owes, netifVars, udpVars, histVars
<1>10. CASE AddReturn
  BY <1>0, <1>10, BoundKept, PassBeginType DEF AddReturn, Owes, netifVars, udpVars
<1>11. ASSUME NEW S \in SUBSET Slots, \A s \in S : in_use[s], remove_slots(S), UNCHANGED <<ip_addr, clash>>,
              pc = "poll", pc' \in {"poll", "cascade"}
       PROVE  BoundToInterface'
  <2>1. PcbsOf(S) \subseteq {pcb[s] : s \in S} BY DEF PcbsOf
  <2>2. ASSUME NEW s \in Slots, in_use'[s]
        PROVE  in_use[s] /\ pcb'[s] = pcb[s] /\ netif'[s] = netif[s] /\ pcb[s] \in PCBs \ PcbsOf(S)
    <3>1. in_use[s] /\ s \notin S /\ pcb'[s] = pcb[s] /\ netif'[s] = netif[s]
      BY <1>11, <2>2 DEF remove_slots
    <3>2. pcb[s] \in PCBs /\ \A t \in S : pcb[t] # pcb[s] BY <1>11, <3>1 DEF IInv, PcbOwnership
    <3>. QED BY <2>1, <3>1, <3>2
  <2>3. \A q \in PCBs \ PcbsOf(S) : local_ip'[q] = local_ip[q] /\ local_port'[q] = local_port[q]
    BY <1>11 DEF remove_slots, udp_remove, Clear
  <2>. QED BY <1>0, <1>11, <2>2, <2>3, BoundKept DEF Owes
<1>12. ASSUME NEW s \in Slots, NEW g, udp_source_remove_listener([gen |-> g, idx |-> s])
       PROVE  BoundToInterface'
  BY <1>11, <1>12, PassBeginType DEF udp_source_remove_listener, Resolves, Ready, netifVars
<1>13. ASSUME NEW n \in netif_list, net_if_remove(n) PROVE BoundToInterface'
  <2>1. SocketsOf(n) \in SUBSET Slots /\ \A s \in SocketsOf(n) : in_use[s] BY DEF SocketsOf
  <2>. QED BY <1>11, <1>13, <2>1 DEF net_if_remove, ClosedWith, Ready, netifVars
<1>14. CASE RemoveAlias
  BY <1>0, <1>14, BoundKept, PassBeginType DEF RemoveAlias, lwIPAliasRemove, Owes, udpVars, slotVars
<1>15. ASSUME NEW n \in Aliases, NEW ip \in IPs, net_if_add(n, ip) PROVE BoundToInterface'
  <2>1. n \notin netif_list
    BY <1>15, NetifAssumption DEF net_if_add, lwIPAliasAdd, SendInv, MoveState
  <2>2. \A s \in Slots : in_use[s] => netif[s] \in Netifs \ {n}
    BY <2>1 DEF SendInv, Listed, NoOrphanSocket, IInv, TypeOK, NetifTypeOK
  <2>3. \A m \in Netifs \ {n} : ip_addr'[m] = ip_addr[m]
    BY <1>15 DEF net_if_add, lwIPAliasAdd, IInv, TypeOK, NetifTypeOK
  <2>. QED BY <1>0, <1>15, <2>2, <2>3, BoundKept, PassBeginType
         DEF net_if_add, Ready, Owes, udpVars, slotVars
<1>16. ASSUME NEW n \in netif_list, NEW ip \in IPs, SetIp(n, ip) PROVE BoundToInterface'
  <2>1. \A s \in Slots : in_use[s] => netif[s] \in Netifs
    BY DEF SendInv, Listed, NoOrphanSocket, IInv, TypeOK, NetifTypeOK
  <2>2. \A m \in Netifs \ {n} : ip_addr'[m] = ip_addr[m]
    BY <1>16 DEF SetIp, netif_set_ipaddr, IInv, TypeOK, NetifTypeOK
  <2>3. cur'.netif = n /\ pc = "poll" /\ pc' = "ipset" BY <1>16 DEF SetIp, Ready, NoCur
  <2>. QED BY <1>0, <1>16, <2>1, <2>2, <2>3, BoundKept DEF SetIp, Owes, udpVars, slotVars
<1>17. ASSUME NEW n \in netif_list, SetIpUnparsed(n) PROVE BoundToInterface'
  BY <1>0, <1>17, BoundKept DEF SetIpUnparsed, Ready, Owes, netifVars, udpVars, slotVars, histVars
<1>18. CASE IpChangedBegin
  <2>1. cur.slot = 0 BY <1>18 DEF IpChangedBegin, SendInv, MoveState
  <2>2. \A s \in Slots : Owes(s) => Owes(s)'
    BY <1>18, <2>1, SlotFacts DEF IpChangedBegin, Owes, slotVars
  <2>. QED BY <1>0, <1>18, <2>2, BoundKept DEF IpChangedBegin, netifVars, udpVars, slotVars, histVars
<1>19. CASE IpChangedStep
  <2>1. PICK c \in Slots : c = cur.slot
    BY <1>19, SourceAssumption DEF IpChangedStep, RebindLimit, IInv, TypeOK, Curs, Indices
  <2>2. UNCHANGED <<ip_addr, in_use, pcb, netif, clash, pc>> /\ pc = "rebind"
    BY <1>19 DEF IpChangedStep, netifVars, slotVars, histVars
  <2>3. cur'.netif = cur.netif /\ cur'.slot = c + 1 BY <1>19, <2>1 DEF IpChangedStep, IInv, TypeOK, Curs
  <2>4. Slots \subseteq Nat BY SlotFacts
  <2>5. \A s \in Slots : Owes(s)' => Owes(s) /\ s # c BY <2>1, <2>2, <2>3, <2>4 DEF Owes
  <2>6. \A s \in Slots : Owes(s) /\ s # c => Owes(s)' BY <2>1, <2>2, <2>3, <2>4 DEF Owes
  <2>7. CASE ~Rebinds(c)
    <3>1. UNCHANGED <<local_ip, local_port>> BY <1>19, <2>1, <2>7 DEF IpChangedStep, udpVars
    <3>2. in_use[c] => ~Owes(c) BY <2>1, <2>7 DEF Rebinds, Owes
    <3>. QED BY <1>0, <2>2, <2>6, <3>1, <3>2, BoundKept
  <2>8. CASE Rebinds(c)
    <3>. SUFFICES ASSUME ~clash' PROVE BoundToInterface' BY DEF BoundToInterface
    <3>1. PICK p \in PCBs : p = pcb[c] BY <2>8 DEF Rebinds, IInv, PcbOwnership
    <3>2. udp_bind(p, ip_addr[cur.netif], local_port[p])
      BY <1>19, <2>1, <2>2, <2>8, <3>1, RebindAccepted DEF IpChangedStep
    <3>3. local_ip'[p] = ip_addr[cur.netif]
      BY <3>2 DEF udp_bind, IInv, TypeOK, UdpTypeOK
    <3>4. \A q \in PCBs \ {p} : local_ip'[q] = local_ip[q] /\ local_port'[q] = local_port[q]
      BY <3>2 DEF udp_bind, IInv, TypeOK, UdpTypeOK
    <3>5. \A s \in Slots \ {c} : in_use[s] => pcb[s] \in udp_pcbs /\ pcb[s] \in PCBs \ {p}
      BY <2>2, <2>8, <3>1 DEF Rebinds, IInv, PcbOwnership
    <3>6. PICK e \in BindPort(local_port[p]) : local_port'[p] = e
      BY <3>2 DEF udp_bind, IInv, TypeOK, UdpTypeOK
    <3>7. e = local_port[p] \/ \A q \in udp_pcbs : local_port[q] # e BY <3>6 DEF BindPort
    <3>8. \A s \in Slots : in_use[s] /\ ~Owes(s)' => local_ip'[pcb[s]] = ip_addr[netif[s]]
      BY <1>0, <2>2, <2>6, <2>8, <3>1, <3>3, <3>4, <3>5 DEF BoundToInterface, Rebinds
    <3>9. \A s \in Slots \ {c} : in_use[s] /\ netif[s] = netif[c] => local_port'[pcb[s]] # e
      BY <1>0, <2>2, <2>8, <3>1, <3>4, <3>5, <3>7 DEF BoundToInterface, Rebinds
    <3>10. \A s, t \in Slots : in_use[s] /\ in_use[t] /\ netif[s] = netif[t]
                                /\ local_port'[pcb[s]] = local_port'[pcb[t]] => s = t
      BY <1>0, <2>2, <3>1, <3>4, <3>5, <3>6, <3>9 DEF BoundToInterface
    <3>. QED BY <2>2, <3>8, <3>10 DEF BoundToInterface
  <2>. QED BY <2>7, <2>8
<1>20. CASE IpChangedEnd
  <2>1. \A s \in Slots : ~Owes(s)
    BY <1>20, SourceAssumption DEF IpChangedEnd, RebindLimit, Owes
  <2>. QED BY <1>0, <1>20, <2>1, BoundKept, PassBeginType
         DEF IpChangedEnd, netifVars, udpVars, slotVars, histVars
<1>21. ASSUME NEW D, NEW port, udp_input(D, port) PROVE BoundToInterface'
  BY <1>0, <1>21, BoundKept DEF udp_input, Owes, netifVars, udpVars, mainVars
<1>22. CASE UNCHANGED vars
  BY <1>0, <1>22, BoundKept DEF vars, Owes, netifVars, udpVars, slotVars, mainVars, histVars
<1>. QED
  BY <1>1, <1>2, <1>3, <1>4, <1>5, <1>6, <1>7, <1>8, <1>9, <1>10, <1>12, <1>13, <1>14, <1>15,
     <1>16, <1>17, <1>18, <1>19, <1>20, <1>21, <1>22
  DEF Next, Main, Interrupt, Loop, AddListener, Remove, Configure, RxUnicast, RxBroadcast

(* A socket that is open can send through its own interface: a change of   *)
(* an address leaves no socket behind, in whatever order the slots are     *)
(* rebound, as long as the operator keeps the addresses distinct.          *)
THEOREM LiveSocketCanSendCorrect == Spec => []LiveSocketCanSend
<1>1. Init => SendInv
  <2>. SUFFICES ASSUME Init PROVE SendInv OBVIOUS
  <2>1. Listed /\ NoDoubleBind BY DEF Init, UdpInit, Listed, NoOrphanSocket, NoDoubleBind
  <2>2. AddressesApart BY NetifAssumption DEF Init, NetifInit, AddressesApart, Netifs
  <2>3. BoundToInterface BY DEF Init, BoundToInterface
  <2>4. MoveState BY UdpAssumption DEF Init, NetifInit, UdpInit, MoveState, Moving
  <2>. QED BY <2>1, <2>2, <2>3, <2>4 DEF SendInv
<1>2. IInv /\ SendInv /\ [Next]_vars => SendInv'
  <2>. SUFFICES ASSUME IInv, SendInv, [Next]_vars PROVE SendInv' OBVIOUS
  <2>1. Listed' BY ListedStep DEF SendInv
  <2>2. NoDoubleBind' BY BindingStep DEF SendInv
  <2>3. AddressesApart' BY AddressesStep DEF SendInv
  <2>4. MoveState' BY MoveStateStep DEF SendInv
  <2>. QED BY <2>1, <2>2, <2>3, <2>4, BoundStep DEF SendInv
<1>3. SendInv => LiveSocketCanSend
  <2>. SUFFICES ASSUME SendInv, ~clash, ~Moving, NEW s \in Slots, in_use[s]
                PROVE  udp_source_data_send(make_id(s), netif[s]) = "ERR_OK"
    BY DEF LiveSocketCanSend
  <2>1. local_ip[pcb[s]] = ip_addr[netif[s]] BY DEF SendInv, BoundToInterface, Owes, Moving
  <2>. QED BY <2>1 DEF udp_source_data_send, make_id, Resolves
<1>. QED BY Invariance, <1>1, <1>2, <1>3, PTL DEF Spec
==============================================================================
