-------------------------------- MODULE Terminal -------------------------------
(***************************************************************************)
(* The two ways to change the board by hand, terminal_interface.c: the     *)
(* commands of the channel, which name an interface by its place in        *)
(* netif_list and a socket by its place among the sockets of the           *)
(* interface, and the menu, which asks for the same things one prompt at a *)
(* time.  Both run in the main loop; what the interrupts do meanwhile is   *)
(* the subject of UdpSource, so a call into the registry is one step here. *)
(*                                                                         *)
(* Ping, scan and ARPRESET, which leave the configuration alone, are in    *)
(* Ping and Etharp; netmask and gateway are not state here.                *)
(***************************************************************************)
EXTENDS NetifList, Integers, FiniteSets, FiniteSetsExt

CONSTANTS
  PHYS_IP, IPs,
  ANY,           \* 0.0.0.0, one of IPs
  UDP_MAX_LISTENERS,
  PortMod,       \* values of a u16_t
  WordMod,       \* values of a uint32_t
  Keys,          \* single keys, as their distance from '0': a char, which
                 \* is far less than a word
  Typed,         \* numbers in a line; text that is no number is read as 0
  LocatorPort,   \* the locator has it on every address
  NULL

ASSUME TerminalAssumption ==
  /\ PHYS_IP \in IPs /\ ANY \in IPs /\ IsFiniteSet(Aliases)
  /\ UDP_MAX_LISTENERS \in Nat \ {0}
  /\ PortMod \in Nat \ {0, 1} /\ WordMod \in Nat \ {0}
  /\ Keys \subseteq Int /\ Typed \subseteq Nat
  /\ LocatorPort \in 1 .. PortMod - 1
  /\ NULL \notin Aliases \cup {PHYS}
  /\ WordMod > Cardinality(Aliases) + 1
  /\ \A key \in Keys : key \in Cardinality(Aliases) + 2 - WordMod .. WordMod

Slots == 0 .. UDP_MAX_LISTENERS - 1
Ports == 1 .. PortMod - 1

VARIABLES
  s_listeners,   \* slot -> [netif, port, ip], netif NULL when not in use
  request,       \* history: what was asked for last, and the answer to
  answer,        \* it, as in BoardConfig
  pc,            \* the prompt that waits for an answer, "loop" outside
  n,             \* the interface the menu works on
  chosen         \* history: the first interface chosen

board == <<netif_list, ip_addr, s_listeners>>
menu == <<pc, n, chosen>>
vars == <<board, request, answer, menu>>

Free == [netif |-> NULL, port |-> 0, ip |-> PHYS_IP]

(* Anything but a change of the configuration.                             *)
Nothing(by) == [op |-> "other", by |-> by]

Init ==
  /\ netif_list = <<PHYS>>
  /\ ip_addr = [m \in Netifs |-> PHYS_IP]
  /\ s_listeners = [s \in Slots |-> Free]
  /\ request = Nothing("menu") /\ answer = "none"
  /\ pc = "loop" /\ n = NULL /\ chosen = NULL

-----------------------------------------------------------------------------
(* Interfaces and sockets by their number.                                 *)

(* cmd_netif_by_index: 1 is the first, NULL beyond the last.               *)
cmd_netif_by_index(i) ==
  IF i \in 1 .. Len(netif_list) THEN netif_list[i] ELSE NULL

(* terminal_select_netif: the key as an unsigned number, less one, is how  *)
(* many interfaces are passed over; a key below '1' becomes very large.    *)
Selected(key) ==
  LET idx == (key - 1) % WordMod IN
  IF idx < Len(netif_list) THEN netif_list[idx + 1] ELSE NULL

UsedBy(m) == {s \in Slots : s_listeners[s].netif = m}

(* The slot of the nth socket: the slots are searched from the lowest on.  *)
udp_source_get_socket(m, nth) ==
  CHOOSE s \in UsedBy(m) : Cardinality({t \in UsedBy(m) : t < s}) = nth

Position(m, nth) == nth \in 1 .. Cardinality(UsedBy(m))
PlaceOK(m, nth) == m # NULL /\ Position(m, nth)

-----------------------------------------------------------------------------
(* The calls below, whole.                                                 *)

Overlap(a, b) == a = b \/ a = ANY \/ b = ANY

InUse(L, ip, port) ==
  \/ port = LocatorPort
  \/ \E s \in Slots : /\ L[s].netif # NULL /\ L[s].port = port
                      /\ Overlap(L[s].ip, ip)

NoChange(a) == answer' = a /\ UNCHANGED board

(* lwIPAliasAdd returns the address for success, so 0.0.0.0 means failure. *)
net_if_add(ip, failed) ==
  LET pool == Aliases \ Range(netif_list) IN
  \/ /\ pool = {} /\ NoChange(failed)
  \/ \E m \in pool :
       /\ netif_list' = Linked(m)
       /\ ip_addr' = [ip_addr EXCEPT ![m] = ip]
       /\ answer' = IF ip = ANY THEN failed ELSE "OK"
       /\ UNCHANGED s_listeners

CascadedMut(m) == s_listeners
Cascaded(m) == [s \in Slots |-> IF s \in UsedBy(m) THEN Free ELSE s_listeners[s]]

(* lwIPNetifPtrGet(0) is refused.                                          *)
Removable(m) == m # PHYS

net_if_remove(m) ==
  \/ /\ ~Removable(m) /\ NoChange("ERR")
  \/ /\ Removable(m)
     /\ s_listeners' = Cascaded(m)
     /\ netif_list' = Unlinked(m)
     /\ answer' = "OK"
     /\ UNCHANGED ip_addr

(* udp_source_add_listener: port 0 lets udp_bind choose one that is free   *)
(* on every address.  The pcb pool is larger than the registry.            *)
udp_source_add_listener(m, port) ==
  LET free == UsedBy(NULL)
      bound == {q \in Ports : IF port = 0
                              THEN \A ip \in IPs : ~InUse(s_listeners, ip, q)
                              ELSE q = port /\ ~InUse(s_listeners, ip_addr[m], q)} IN
  \/ /\ free = {} \/ bound = {}
     /\ NoChange("ERR")
  \/ /\ free # {}
     /\ \E q \in bound :
          s_listeners' = [s_listeners EXCEPT ![Min(free)] =
                            [netif |-> m, port |-> q, ip |-> ip_addr[m]]]
     /\ answer' = "OK"
     /\ UNCHANGED <<netif_list, ip_addr>>

udp_source_remove_listener(s) ==
  /\ s_listeners' = [s_listeners EXCEPT ![s] = Free]
  /\ answer' = "OK"
  /\ UNCHANGED <<netif_list, ip_addr>>

(* udp_source_netif_ip_changed: the sockets of m, slot by slot; one whose  *)
(* port is in use at the new address keeps its old one.                    *)
RebindSlot(L, s, m, ip) ==
  IF L[s].netif = m /\ ~InUse([L EXCEPT ![s] = Free], ip, L[s].port)
    THEN [L EXCEPT ![s].ip = ip] ELSE L

Rebound(m, ip) ==
  LET after[k \in 0 .. UDP_MAX_LISTENERS] ==    \* the first k slots are done
        IF k = 0 THEN s_listeners ELSE RebindSlot(after[k - 1], k - 1, m, ip)
  IN after[UDP_MAX_LISTENERS]

SetIp(m, ip, a) ==
  /\ ip_addr' = [ip_addr EXCEPT ![m] = ip]
  /\ s_listeners' = Rebound(m, ip)
  /\ answer' = a
  /\ UNCHANGED netif_list

-----------------------------------------------------------------------------
(* The commands.  Arguments that cannot be read are answered like those    *)
(* out of range.                                                           *)

cmd_netif_add(ip) ==
  /\ request' = [op |-> "add", by |-> "channel", ip |-> ip]
  /\ net_if_add(ip, "ERR")

cmd_netif_del(i) ==
  LET m == cmd_netif_by_index(i) IN
  /\ request' = [op |-> "del", by |-> "channel", netif |-> m]
  /\ IF m = NULL THEN NoChange("ERR") ELSE net_if_remove(m)

(* NETIF SET IP, ...                                                       *)
cmd_netif_set(i, ip) ==
  LET m == cmd_netif_by_index(i) IN
  /\ request' = [op |-> "set", by |-> "channel", netif |-> m, ip |-> ip]
  /\ IF m = NULL THEN NoChange("ERR") ELSE SetIp(m, ip, "OK")

(* ... and MASK or GW.                                                     *)
cmd_netif_set_other(i) ==
  /\ request' = Nothing("channel")
  /\ NoChange(IF cmd_netif_by_index(i) = NULL THEN "ERR" ELSE "done")

cmd_sock_open(i, port) ==
  LET m == cmd_netif_by_index(i) IN
  /\ request' = [op |-> "open", by |-> "channel", netif |-> m, port |-> port]
  /\ IF port \notin Ports \/ m = NULL THEN NoChange("ERR")
     ELSE udp_source_add_listener(m, port)

(* The socket that the listing shows at that place, Free for none.         *)
SocketAt(m, nth) ==
  IF PlaceOK(m, nth) THEN s_listeners[udp_source_get_socket(m, nth - 1)] ELSE Free

(* The code finds it again by its number and removes it by its id.         *)
CloseMut(m, nth) == udp_source_remove_listener(nth - 1)
Close(m, nth) == udp_source_remove_listener(udp_source_get_socket(m, nth - 1))

cmd_sock_close(i, nth) ==
  LET m == cmd_netif_by_index(i) IN
  /\ request' = [op |-> "close", by |-> "channel", socket |-> SocketAt(m, nth)]
  /\ IF ~PlaceOK(m, nth) THEN NoChange("ERR") ELSE Close(m, nth)

(* The packet goes out, or not.                                            *)
cmd_udp_send(i, nth) ==
  LET m == cmd_netif_by_index(i) IN
  /\ request' = Nothing("channel")
  /\ \/ NoChange("ERR")
     \/ PlaceOK(m, nth) /\ NoChange("done")

cmd_dispatch ==
  /\ pc = "loop"
  /\ \/ \E ip \in IPs : cmd_netif_add(ip) \/ \E i \in Typed : cmd_netif_set(i, ip)
     \/ \E i \in Typed : cmd_netif_del(i) \/ cmd_netif_set_other(i)
     \/ \E i, k \in Typed :
          cmd_sock_open(i, k) \/ cmd_sock_close(i, k) \/ cmd_udp_send(i, k)
  /\ UNCHANGED menu

-----------------------------------------------------------------------------
(* The menu.                                                               *)

Leave == pc' = "loop" /\ n' = NULL /\ chosen' = NULL
Goto(at) == pc' = at /\ UNCHANGED <<n, chosen>>
JustKeys == request' = Nothing("menu") /\ NoChange("none")

(* The entry, a line.  List, ping, ARP reset and scan change nothing.      *)
read_terminal_line ==
  /\ pc = "loop" /\ JustKeys
  /\ \/ \E at \in {"configure", "netif", "sender"} : Goto(at)
     \/ Leave

(* terminal_select_netif in front of what needs an interface.  Entry 2     *)
(* asks for one before its options, and options 4 and 5 ask again.         *)
AfterSelect(at) ==
  CASE at = "configure" -> "option" [] at = "open_on" -> "port"
    [] at = "close_on" -> "which"   [] at = "delete" -> "removing"
    [] at = "sender" -> "from"

SelectNetif(key) ==
  /\ pc \in {"configure", "open_on", "close_on", "delete", "sender"}
  /\ JustKeys
  /\ \/ Selected(key) = NULL /\ Leave
     \/ /\ Selected(key) # NULL
        /\ n' = Selected(key)
        /\ chosen' = IF pc = "configure" THEN n' ELSE chosen
        /\ pc' = AfterSelect(pc)

(* 1 address, 2 netmask and 3 gateway, 4 open, 5 close, else leave.        *)
Option ==
  /\ pc = "option" /\ JustKeys
  /\ \/ \E at \in {"address", "open_on", "close_on"} : Goto(at)
     \/ Leave

(* An address that cannot be read stands for the one there is: it stays,   *)
(* and the sockets are rebound all the same.                               *)
Address ==
  /\ pc = "address" /\ Leave
  /\ \E ip \in IPs :
       /\ request' = [op |-> "set", by |-> "menu", netif |-> n, ip |-> ip]
       /\ SetIp(n, ip, "none")

PortOf(x) == x % PortMod

OpenPort(x) ==
  /\ pc = "port" /\ Leave
  /\ request' = [op |-> "open", by |-> "menu", netif |-> n, port |-> x]
  /\ udp_source_add_listener(n, PortOf(x))

Which(nth) ==
  /\ pc = "which" /\ Leave
  /\ request' = [op |-> "close", by |-> "menu", socket |-> SocketAt(n, nth)]
  /\ IF ~PlaceOK(n, nth) THEN NoChange("ERR") ELSE Close(n, nth)

AddOrDelete ==
  /\ pc = "netif" /\ JustKeys
  /\ \/ \E at \in {"add", "delete"} : Goto(at)
     \/ Leave

(* Three addresses; the first that cannot be read ends it.  A failure of   *)
(* net_if_add is not reported.                                             *)
Add ==
  /\ pc = "add" /\ Leave
  /\ \/ JustKeys
     \/ \E ip \in IPs :
          /\ request' = [op |-> "add", by |-> "menu", ip |-> ip]
          /\ net_if_add(ip, "none")

Removing ==
  /\ pc = "removing" /\ Leave
  /\ request' = [op |-> "del", by |-> "menu", netif |-> n]
  /\ net_if_remove(n)

(* The socket, then the destination and the text: the packet goes or not.  *)
From(nth) ==
  /\ pc = "from" /\ Leave
  /\ request' = Nothing("menu")
  /\ \/ NoChange("none")
     \/ PlaceOK(n, nth) /\ NoChange("done")

Menu ==
  \/ read_terminal_line \/ Option \/ Address \/ AddOrDelete
  \/ Add \/ Removing
  \/ \E key \in Keys : SelectNetif(key)
  \/ \E x \in Typed : OpenPort(x) \/ Which(x) \/ From(x)

Next == cmd_dispatch \/ Menu

Spec == Init /\ [][Next]_vars

-----------------------------------------------------------------------------
(* Types, and: a prompt that works on an interface has one that is listed. *)
TypeOK ==
  /\ netif_list \in Seq(Netifs) /\ IsInjective(netif_list)
  /\ netif_list # <<>> /\ Last(netif_list) = PHYS
  /\ ip_addr \in [Netifs -> IPs]
  /\ s_listeners \in [Slots -> [netif : Netifs \cup {NULL}, port : 0 .. PortMod - 1, ip : IPs]]
  /\ answer \in {"OK", "done", "ERR", "none"}
  /\ pc \in {"option", "address", "port", "which", "removing", "from"}
       => n \in Range(netif_list)
  /\ chosen \in Netifs \cup {NULL}

(* The listing shows every open socket once, under the interface it was    *)
(* opened on, and a number for each is accepted: nothing is left that can  *)
(* neither be seen nor closed.                                             *)
AllReachable ==
  \A s \in Slots : s_listeners[s].netif # NULL =>
    \E i \in 1 .. Len(netif_list), nth \in 1 .. UDP_MAX_LISTENERS :
      LET m == cmd_netif_by_index(i) IN
      /\ m = s_listeners[s].netif /\ Position(m, nth)
      /\ udp_source_get_socket(m, nth - 1) = s

(* Whatever key is hit, the menu works on the interface it has listed      *)
(* under that number, the one the channel would take, or on none.          *)
KeysAgree == \A key \in Keys : Selected(key) = cmd_netif_by_index(key)

(* So the numbers and keys of terminal_interface.c always mean something:  *)
(* prompts work on listed interfaces, every socket has a number, and menu  *)
(* and channel agree.                                                      *)
NumbersSound == TypeOK /\ AllReachable /\ KeysAgree

Config == INSTANCE BoardConfig WITH
  addr <- [m \in Range(netif_list) |-> ip_addr[m]],
  sockets <- {s_listeners[s] : s \in Slots \ UsedBy(NULL)}

(* Whatever is typed at either of the two, in whatever order and however   *)
(* wrong: OK means that exactly what was asked for has been done, to the   *)
(* interface, address, port and socket that were named; an error means     *)
(* that nothing has changed, and there is a reason.  BoardConfig states    *)
(* the two exceptions: 0.0.0.0, and what is no port at the menu.           *)
ImplementsConfig == Config!Spec

(* "Select a netif, then edit IP / netmask / gateway, or open/delete a     *)
(* socket on it": the socket is opened on the interface that was selected. *)
OpensOnSelected ==
  [][ pc = "port" /\ answer' = "OK" => n = chosen ]_vars

(* "Input new socket port": the socket that is opened has that port.       *)
OpensTypedPort ==
  [][ pc = "port" /\ answer' = "OK" =>
        \E s \in Slots : /\ s_listeners'[s].port = request'.port
                         /\ s_listeners[s] = Free ]_vars
================================================================================
