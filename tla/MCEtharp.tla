------------------------------ MODULE MCEtharp ------------------------------
(***************************************************************************)
(* Three ways to use the ARP table: packets and replies between resets;    *)
(* scans while a packet or a reply is under way; scans of a network whose  *)
(* hosts are switched off, with resets.                                    *)
(***************************************************************************)
EXTENDS Etharp

MCSessions ==
  {[ops |-> {"send", "reply", "reset"}, packets |-> 2],
   [ops |-> {"send", "reply", "scan"}, packets |-> 1],
   [ops |-> {"scan", "reset", "off"}, packets |-> 0]}
=============================================================================
