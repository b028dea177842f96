------------------------------ MODULE LwipNetif ------------------------------
(***************************************************************************)
(* The interfaces of the board: netif_list of lwIP (core/netif.c) and the  *)
(* pool of alias interfaces that ports/hdk/lwiplib.c hands out on top of   *)
(* the one physical interface.                                             *)
(*                                                                         *)
(* A netif is a model value; its address is ip_addr[n].  netif_list is the *)
(* set of the listed netifs: the order of the list decides the numbering   *)
(* of the command channel, and the first match of a broadcast, and nothing *)
(* in this module.                                                         *)
(***************************************************************************)
EXTENDS Integers, FiniteSets

CONSTANTS
  PHYS,      \* &hdkNetIF[0], the physical interface
  Aliases,   \* the netifs inside alias_list[MAX_ALIAS_NETIF]
  IPs,       \* the addresses an operator may type
  ANY,       \* 0.0.0.0, one of them
  PHYS_IP    \* the address EMAC_LwIP_Main gives the physical interface

ASSUME NetifAssumption ==
  /\ PHYS \notin Aliases
  /\ ANY \in IPs
  /\ PHYS_IP \in IPs \ {ANY}

Netifs == Aliases \cup {PHYS}

VARIABLES
  netif_list,  \* the netifs linked into netif_list
  alias_used,  \* the aliases whose alias_list entry has used = 1
  ip_addr      \* netif->ip_addr

netifVars == <<netif_list, alias_used, ip_addr>>

NetifTypeOK ==
  /\ netif_list \subseteq Netifs
  /\ alias_used \subseteq Aliases
  /\ ip_addr \in [Netifs -> IPs]

(* After lwIPNetifAdd only the physical interface is listed.               *)
NetifInit ==
  /\ netif_list = {PHYS}
  /\ alias_used = {}
  /\ ip_addr = [n \in Netifs |-> IF n = PHYS THEN PHYS_IP ELSE ANY]

(***************************************************************************)
(* lwIPAliasAdd takes an unused entry of alias_list, fills in the netif    *)
(* (netif_add writes the address while the netif is not yet linked, and    *)
(* hdkif_alias_init copies the output functions and the UP flag), links it *)
(* and marks the entry used.  The interrupt handlers see the netif only    *)
(* once it is linked, so the call is one step to them.                     *)
(***************************************************************************)
lwIPAliasAdd(n, ip) ==
  /\ n \in Aliases \ alias_used
  /\ ip_addr' = [ip_addr EXCEPT ![n] = ip]
  /\ netif_list' = netif_list \cup {n}
  /\ alias_used' = alias_used \cup {n}

(* The value lwIPAliasAdd returns: the address, which the caller reads as  *)
(* a failure when it is 0.                                                 *)
AliasAddResult(ip) == IF ip = ANY THEN "ERR_MEM" ELSE "ERR_OK"

(* lwIPAliasRemove: one critical section; a netif that is not a used alias *)
(* is left alone.                                                          *)
lwIPAliasRemove(n) ==
  /\ netif_list' = IF n \in alias_used THEN netif_list \ {n} ELSE netif_list
  /\ alias_used' = alias_used \ {n}
  /\ UNCHANGED ip_addr

netif_set_ipaddr(n, ip) ==
  /\ ip_addr' = [ip_addr EXCEPT ![n] = ip]
  /\ UNCHANGED <<netif_list, alias_used>>

(* ip_input keeps a unicast packet only if a configured netif has its      *)
(* destination address.                                                    *)
AddressedToUs(dst) == dst # ANY /\ \E n \in netif_list : ip_addr[n] = dst
==============================================================================
