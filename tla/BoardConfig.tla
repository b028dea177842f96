------------------------------ MODULE BoardConfig ------------------------------
(***************************************************************************)
(* What an operator may expect of the configuration of the board, whether  *)
(* it is changed through the menu or through the command channel: which    *)
(* interfaces there are, with which address, and which UDP sockets.  Every *)
(* request is carried out as it was made and answered OK, or it is refused *)
(* for one of the reasons named here and changes nothing.                  *)
(*                                                                         *)
(* Two things are not as one would wish.  An interface can be added at     *)
(* 0.0.0.0, but the answer says it was not.  And the menu takes any number *)
(* for a port: one that is none opens some other port, or fails.           *)
(***************************************************************************)
EXTENDS Naturals, FiniteSets

CONSTANTS
  PHYS, Aliases,
  IPs, ANY,              \* addresses, and 0.0.0.0 among them
  Ports, LocatorPort,    \* ports, and the one that is never free
  UDP_MAX_LISTENERS

VARIABLES
  addr,      \* from the interfaces that exist to their addresses
  sockets,   \* records [netif, port, ip]: ip is the address it is bound to
  request,   \* what was asked for last: op, by ("menu" or "channel"), and
             \* the netif, ip, port or socket that op is about
  answer     \* "OK": the configuration is as asked; "done": the request
             \* changes none of this; "ERR", or "none" for no answer at all

vars == <<addr, sockets, request, answer>>

SocketsOf(n) == {s \in sockets : s.netif = n}

(* Two sockets cannot have one port at addresses that overlap.             *)
Overlap(a, b) == a = b \/ a = ANY \/ b = ANY
Taken(ip, port) ==
  port = LocatorPort \/ \E s \in sockets : s.port = port /\ Overlap(s.ip, ip)

Init ==
  /\ addr \in [{PHYS} -> IPs]
  /\ sockets = {} /\ answer = "none"

Said(a) == answer' = a
Silent == request'.by = "menu" /\ Said("none")
Refused == Said("ERR") \/ Silent
Refuse == Refused /\ UNCHANGED <<addr, sockets>>

-----------------------------------------------------------------------------
AddNetif(ip) ==
  \/ Aliases \subseteq DOMAIN addr /\ Refuse
  \/ \E n \in Aliases \ DOMAIN addr :
       /\ addr' = [m \in DOMAIN addr \cup {n} |-> IF m = n THEN ip ELSE addr[m]]
       /\ IF ip = ANY THEN Refused ELSE Said("OK")
       /\ UNCHANGED sockets

(* The physical interface stays; an alias takes its sockets with it.       *)
DeleteNetif(n) ==
  \/ n \notin DOMAIN addr \ {PHYS} /\ Refuse
  \/ /\ n \in DOMAIN addr \ {PHYS}
     /\ addr' = [m \in DOMAIN addr \ {n} |-> addr[m]]
     /\ sockets' = sockets \ SocketsOf(n)
     /\ Said("OK")

(* The sockets of the interface move to the new address; one stays where   *)
(* it is only if another has its port there.                               *)
SetAddress(n, ip) ==
  \/ n \notin DOMAIN addr /\ Refuse
  \/ /\ n \in DOMAIN addr
     /\ addr' = [addr EXCEPT ![n] = ip]
     /\ \E moved \in SUBSET SocketsOf(n) :
          LET rest == sockets \ moved
              there == {[s EXCEPT !.ip = ip] : s \in moved} IN
          /\ \A s, t \in moved : s.port = t.port => s = t    \* no two become one
          /\ rest \cap there = {}
          /\ sockets' = rest \cup there
          /\ \A s \in SocketsOf(n) \ moved :
               \E t \in sockets' \ {s} : t.port = s.port /\ Overlap(t.ip, ip)
          /\ \A s, t \in sockets' :
               s.port = t.port /\ Overlap(s.ip, t.ip) => s = t
     /\ Said("OK") \/ Silent

Opens(n, port) ==
  /\ n \in DOMAIN addr /\ ~Taken(addr[n], port)
  /\ Cardinality(sockets) < UDP_MAX_LISTENERS
  /\ sockets' = sockets \cup {[netif |-> n, port |-> port, ip |-> addr[n]]}
  /\ Said("OK")
  /\ UNCHANGED addr

OpenSocket(n, port) ==
  \/ port \in Ports /\ Opens(n, port)
  \/ /\ port \notin Ports /\ request'.by = "menu"
     /\ \E q \in Ports : Opens(n, q)
  \/ /\ \/ n \notin DOMAIN addr \/ port \notin Ports
        \/ n \in DOMAIN addr /\ Taken(addr[n], port)
        \/ Cardinality(sockets) = UDP_MAX_LISTENERS
     /\ Refuse

CloseSocket(s) ==
  \/ s \notin sockets /\ Refuse
  \/ /\ s \in sockets
     /\ sockets' = sockets \ {s}
     /\ Said("OK")
     /\ UNCHANGED addr

(* What only reads or sends, and the keys on the way through the menu.     *)
Other == answer' \in {"done", "ERR", "none"} /\ UNCHANGED <<addr, sockets>>

Carried(r) ==
  \/ r.op = "add" /\ AddNetif(r.ip)
  \/ r.op = "del" /\ DeleteNetif(r.netif)
  \/ r.op = "set" /\ SetAddress(r.netif, r.ip)
  \/ r.op = "open" /\ OpenSocket(r.netif, r.port)
  \/ r.op = "close" /\ CloseSocket(r.socket)
  \/ r.op = "other" /\ Other

(* Any request may be made.                                                *)
Next == \E r \in {request'} : Carried(r)

Spec == Init /\ [][Next]_vars
================================================================================
