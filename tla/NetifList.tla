------------------------------- MODULE NetifList -------------------------------
(***************************************************************************)
(* netif_list of lwIP in its order (core/netif.c), which decides the       *)
(* numbers of the terminal and the first match of a frame.  LwipNetif has  *)
(* the same list as a set.                                                 *)
(***************************************************************************)
EXTENDS Naturals, Sequences, SequencesExt

CONSTANTS
  PHYS,        \* hdkNetIF[0]
  Aliases      \* the netifs of alias_list

ASSUME NetifAssumption == PHYS \notin Aliases

Netifs == Aliases \cup {PHYS}

VARIABLES
  netif_list,
  ip_addr      \* netif->ip_addr

(* netif_add puts a new one in front.                                      *)
Linked(m) == <<m>> \o netif_list

(* netif_remove.                                                           *)
Unlinked(m) ==
  RemoveAt(netif_list, CHOOSE k \in DOMAIN netif_list : netif_list[k] = m)
================================================================================
