----------------------------- MODULE AliasFilter -----------------------------
(***************************************************************************)
(* netif_alias_route_filter, the hook of ethernet_input that picks the     *)
(* interface of a frame, and the interfaces it picks from.  The interrupt  *)
(* may call it between any two steps of lwIPAliasAdd.                      *)
(*                                                                         *)
(* An address is a number of Bits bits, and a netmask the number of its    *)
(* host bits.  A frame is its destination (of an IP packet) or its target  *)
(* (of an ARP packet); others go to the physical interface untouched.      *)
(***************************************************************************)
EXTENDS NetifList

CONSTANTS
  Bits, Multicast,   \* addresses below 2^Bits; those that are multicast
  HostBits,          \* netmasks
  PhysIp

Addresses == 0 .. 2^Bits - 1

ASSUME FilterAssumption ==
  /\ {0, PhysIp} \subseteq Addresses /\ PhysIp # 0
  /\ Multicast \subseteq Addresses /\ HostBits \subseteq 1 .. Bits

VARIABLES
  used, netmask, flags,
  add_pc, alias,     \* lwIPAliasAdd and its netif
  announced          \* interfaces a gratuitous ARP was sent for

filterVars == <<netif_list, used, ip_addr, netmask, flags, add_pc, alias, announced>>

(* After lwIPNetifAdd.                                                     *)
FilterInit ==
  /\ netif_list = <<PHYS>> /\ used = {}
  /\ ip_addr = [m \in Netifs |-> IF m = PHYS THEN PhysIp ELSE 0]
  /\ netmask \in [Netifs -> HostBits] /\ \A m, o \in Netifs : netmask[m] = netmask[o]
  /\ flags = [m \in Netifs |-> IF m = PHYS THEN {"up", "link"} ELSE {}]
  /\ add_pc = "idle" /\ alias = PHYS /\ announced = {PHYS}

-----------------------------------------------------------------------------
(* lwIPAliasAdd: netif_add fills in the netif and calls hdkif_alias_init,  *)
(* which copies the flags of the physical one; then it is linked, brought  *)
(* up and marked used.                                                     *)

InitFlagsMut == {}
InitFlags == flags[PHYS]

netif_add(m, ip, hb) ==
  /\ add_pc = "idle" /\ m \in Aliases \ used
  /\ ip_addr' = [ip_addr EXCEPT ![m] = ip]
  /\ netmask' = [netmask EXCEPT ![m] = hb]
  /\ flags' = [flags EXCEPT ![m] = InitFlags]
  /\ add_pc' = "link" /\ alias' = m
  /\ UNCHANGED <<netif_list, used, announced>>

Link ==
  /\ add_pc = "link"
  /\ netif_list' = Linked(alias)
  /\ add_pc' = "setup"
  /\ UNCHANGED <<used, ip_addr, netmask, flags, alias, announced>>

(* netif_set_up does nothing for a netif that is up.                       *)
netif_set_up ==
  /\ add_pc = "setup"
  /\ flags' = [flags EXCEPT ![alias] = @ \cup {"up"}]
  /\ announced' = IF "up" \in flags[alias] THEN announced ELSE announced \cup {alias}
  /\ used' = used \cup {alias}
  /\ add_pc' = "idle" /\ alias' = PHYS
  /\ UNCHANGED <<netif_list, ip_addr, netmask>>

(* lwIPAliasRemove, in a critical section: netif_remove sets the netif     *)
(* down and unlinks it.                                                    *)
lwIPAliasRemove(m) ==
  /\ add_pc = "idle" /\ m \in used
  /\ flags' = [flags EXCEPT ![m] = @ \ {"up"}]
  /\ netif_list' = Unlinked(m)
  /\ used' = used \ {m}
  /\ announced' = announced \ {m}
  /\ UNCHANGED <<ip_addr, netmask, add_pc, alias>>

(* cmd_netif_set.                                                          *)
SetAddress(m, ip) ==
  /\ add_pc = "idle" /\ m \in used \cup {PHYS}
  /\ ip_addr' = [ip_addr EXCEPT ![m] = ip]
  /\ UNCHANGED <<netif_list, used, netmask, flags, add_pc, alias, announced>>

SetMask(m, hb) ==
  /\ add_pc = "idle" /\ m \in used \cup {PHYS}
  /\ netmask' = [netmask EXCEPT ![m] = hb]
  /\ UNCHANGED <<netif_list, used, ip_addr, flags, add_pc, alias, announced>>

FilterNext ==
  \/ \E m \in Netifs, ip \in Addresses : SetAddress(m, ip)
  \/ \E m \in Netifs, hb \in HostBits : SetMask(m, hb)
  \/ \E m \in Aliases, ip \in Addresses, hb \in HostBits : netif_add(m, ip, hb)
  \/ \E m \in Aliases : lwIPAliasRemove(m)
  \/ Link \/ netif_set_up

FilterSpec == FilterInit /\ [][FilterNext]_filterVars

-----------------------------------------------------------------------------
(* The filter, for a destination d.                                        *)

(* ip_addr_isbroadcast on the physical interface.                          *)
IsBroadcast(d) ==
  \/ d \in {0, 2^Bits - 1}
  \/ /\ d # ip_addr[PHYS]
     /\ LET size == 2^netmask[PHYS]
        IN d \div size = ip_addr[PHYS] \div size /\ d % size = size - 1

(* The interface the loop over the list finds: the first that is up, has   *)
(* its link and has the address.                                           *)
Matches(d) ==
  {k \in DOMAIN netif_list : /\ {"up", "link"} \subseteq flags[netif_list[k]]
                             /\ ip_addr[netif_list[k]] = d}

netif_alias_route_filter(d) ==
  IF d = ip_addr[PHYS] \/ IsBroadcast(d) \/ d \in Multicast \/ Matches(d) = {}
  THEN PHYS ELSE netif_list[Min(Matches(d))]

(* etharp_arp_input: is an ARP request for d answered?                     *)
ForUs(d) ==
  LET m == netif_alias_route_filter(d) IN ip_addr[m] # 0 /\ ip_addr[m] = d

-----------------------------------------------------------------------------
(* Properties.                                                             *)

Listed == Range(netif_list)

(* Types; the list and the pool agree between two calls, and the physical  *)
(* interface is always listed, and last.                                   *)
FilterTypes ==
  /\ netif_list \in Seq(Netifs) /\ IsInjective(netif_list)
  /\ ip_addr \in [Netifs -> Addresses] /\ netmask \in [Netifs -> HostBits]
  /\ flags \in [Netifs -> SUBSET {"up", "link"}]
  /\ Last(netif_list) = PHYS
  /\ Listed \ {PHYS} = IF add_pc = "setup" THEN used \cup {alias} ELSE used

(* Every address of a listed interface that is no broadcast or multicast   *)
(* address to the physical one is steered to an interface that has it, and *)
(* its ARP requests are answered: from the moment the interface is linked, *)
(* after every change of an address or a mask, and until it is removed.    *)
Steered ==
  \A d \in Addresses :
    (d \in {ip_addr[m] : m \in Listed} /\ ~IsBroadcast(d) /\ d \notin Multicast)
      => ForUs(d)

(* An address that no listed interface has is never answered for, although *)
(* the netif of a removed alias keeps it.                                  *)
OnlyListed ==
  \A d \in Addresses : ForUs(d) => d \in {ip_addr[m] : m \in Listed}

(* Together: netif_alias_route_filter answers for exactly the addresses of *)
(* the interfaces in the list, which agrees with the pool of aliases.      *)
FilterSound == FilterTypes /\ Steered /\ OnlyListed

(* README: "incoming packets are steered to the correct netif".  Here for  *)
(* every interface whose address is a host address of its own network.     *)
IsHost(m) ==
  /\ ip_addr[m] % 2^netmask[m] \notin {0, 2^netmask[m] - 1}
  /\ ip_addr[m] \notin Multicast

SteeredAlways == \A m \in Listed : IsHost(m) => ForUs(ip_addr[m])

(* netif.c, at netif_set_up: "we would like to send a "gratuitous ARP"".   *)
AnnouncedWhenUp == used \subseteq announced
===============================================================================
