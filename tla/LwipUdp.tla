------------------------------- MODULE LwipUdp -------------------------------
(***************************************************************************)
(* The UDP control blocks of lwIP (core/udp.c): the memp pool they come    *)
(* from, the list udp_pcbs that udp_input searches, and the fields the     *)
(* registry of UDP_source.c depends on.                                    *)
(*                                                                         *)
(* udp_pcbs is the set of the linked pcbs.  The order of the list only     *)
(* decides which of several matching pcbs gets a broadcast, and udp_input  *)
(* of this module leaves that choice open.  LOC is the pcb that            *)
(* LocatorConfig binds to ANY:23 and keeps for ever.                       *)
(***************************************************************************)
EXTENDS LwipNetif

CONSTANTS
  PCBs,        \* the memp pool MEMP_UDP_PCB
  LOC,         \* the locator's pcb
  LOC_PORT,    \* its port, 23
  Ports,       \* the port numbers an operator may type; 0 asks for any port
  Ephemeral,   \* UDP_LOCAL_PORT_RANGE_START..UDP_LOCAL_PORT_RANGE_END
  Slots        \* the values recv_arg takes: indices into s_listeners

ASSUME UdpAssumption ==
  /\ LOC \in PCBs
  /\ LOC_PORT \in Nat \ {0}
  /\ Ports \subseteq Nat
  /\ Ephemeral \subseteq Nat \ {0, LOC_PORT}
  /\ 0 \in Slots

AllPorts == Ports \cup Ephemeral \cup {0, LOC_PORT}

VARIABLES
  pool,        \* the pcbs taken from memp
  udp_pcbs,    \* the pcbs on the active list
  local_ip,
  local_port,
  recv,        \* is pcb->recv set (to udp_rx_callback)?
  recv_arg

udpVars == <<pool, udp_pcbs, local_ip, local_port, recv, recv_arg>>

UdpTypeOK ==
  /\ pool \subseteq PCBs
  /\ udp_pcbs \subseteq PCBs
  /\ local_ip \in [PCBs -> IPs]
  /\ local_port \in [PCBs -> AllPorts]
  /\ recv \in [PCBs -> BOOLEAN]
  /\ recv_arg \in [PCBs -> Slots]

(* LocatorConfig has run: its pcb is bound, and connected.                 *)
UdpInit ==
  /\ pool = {LOC}
  /\ udp_pcbs = {LOC}
  /\ local_ip = [p \in PCBs |-> ANY]
  /\ local_port = [p \in PCBs |-> IF p = LOC THEN LOC_PORT ELSE 0]
  /\ recv = [p \in PCBs |-> FALSE]
  /\ recv_arg = [p \in PCBs |-> 0]

(* udp_new: memp_malloc and a memset of the whole block.                   *)
udp_new(p) ==
  /\ p \in PCBs \ pool
  /\ pool' = pool \cup {p}
  /\ local_ip' = [local_ip EXCEPT ![p] = ANY]
  /\ local_port' = [local_port EXCEPT ![p] = 0]
  /\ recv' = [recv EXCEPT ![p] = FALSE]
  /\ recv_arg' = [recv_arg EXCEPT ![p] = 0]
  /\ UNCHANGED udp_pcbs

(* Mutant: only an equal address counts as taken, a wildcard does not.     *)
InUseMutNoWildcard(p, ip, port) ==
  \E q \in udp_pcbs \ {p} : local_port[q] = port /\ local_ip[q] = ip

(* The scan of udp_bind: another linked pcb has the port, on the same      *)
(* address or with one of the two addresses a wildcard.                    *)
InUse(p, ip, port) ==
  \E q \in udp_pcbs \ {p} :
    /\ local_port[q] = port
    /\ local_ip[q] = ANY \/ ip = ANY \/ local_ip[q] = ip

(* The port udp_bind settles on: the one asked for or, for port 0, one     *)
(* that udp_new_port finds no linked pcb has.                              *)
BindPort(port) ==
  IF port # 0 THEN {port} ELSE {e \in Ephemeral : \A q \in udp_pcbs : local_port[q] # e}

(* udp_bind up to ERR_OK.                                                  *)
udp_bind(p, ip, port) ==
  /\ ~InUse(p, ip, port)
  /\ \E e \in BindPort(port) : local_port' = [local_port EXCEPT ![p] = e]
  /\ local_ip' = [local_ip EXCEPT ![p] = ip]
  /\ udp_pcbs' = udp_pcbs \cup {p}
  /\ UNCHANGED <<pool, recv, recv_arg>>

(* udp_bind up to ERR_USE: the address is already stored when the search   *)
(* for a free port fails.                                                  *)
BindFails(p, ip, port) == InUse(p, ip, port) \/ BindPort(port) = {}

Clear(f, P, zero) == [p \in PCBs |-> IF p \in P THEN zero ELSE f[p]]

(* udp_remove unlinks and frees.  What a free block holds is never read    *)
(* (udp_new clears it), so the model forgets it here.                      *)
udp_remove(P) ==
  /\ udp_pcbs' = udp_pcbs \ P
  /\ pool' = pool \ P
  /\ local_ip' = Clear(local_ip, P, ANY)
  /\ local_port' = Clear(local_port, P, 0)
  /\ recv' = Clear(recv, P, FALSE)
  /\ recv_arg' = Clear(recv_arg, P, 0)

(* The pcbs udp_input may pick for a datagram: unconnected, on the port,   *)
(* and bound to the destination, to any address or, for a broadcast, to an *)
(* address of the broadcast's network.                                     *)
Matches(dsts, port) ==
  {p \in udp_pcbs \ {LOC} :
     local_port[p] = port /\ local_ip[p] \in dsts \cup {ANY}}
==============================================================================
