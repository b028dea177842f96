----------------------------- MODULE MCUdpSource -----------------------------
(* UdpSource for TLC: two slots, one alias, few addresses and ports.       *)
EXTENDS UdpSource, TLC

CONSTANTS a1, p1, p2, loc, ipA, ipB

PcbSymmetry == Permutations({p1, p2})
Slots2 == 0 .. 1
Slots1 == 0 .. 0
==============================================================================
