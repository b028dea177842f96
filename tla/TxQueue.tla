------------------------------- MODULE TxQueue -------------------------------
(* What the transmit side of a driver promises: every packet handed over   *)
(* goes out once, whole and in order, and is released after that.  The     *)
(* promise ends with the first packet that finds fewer free places than it *)
(* needs.                                                                  *)
EXTENDS Naturals, Sequences

CONSTANTS Packets, N, MaxLen     \* packets, places, places of a packet

VARIABLES queue, sent, len, used, overrun

queueVars == <<queue, sent, len, used, overrun>>

Init ==
  /\ queue = << >> /\ sent = {} /\ len = [p \in Packets |-> 0]
  /\ used = 0 /\ overrun = FALSE

Output(p, k) ==
  /\ ~overrun /\ len[p] = 0 /\ used + k <= N
  /\ p \notin sent /\ \A i \in DOMAIN queue : queue[i] # p
  /\ queue' = Append(queue, p)
  /\ len' = [len EXCEPT ![p] = k] /\ used' = used + k
  /\ UNCHANGED <<sent, overrun>>

Overfill(k) == ~overrun /\ used + k > N /\ overrun' = TRUE

Transmit ==
  /\ ~overrun /\ queue # << >>
  /\ queue' = Tail(queue) /\ sent' = sent \cup {Head(queue)}
  /\ UNCHANGED <<len, used, overrun>>

Release(p) ==
  /\ ~overrun /\ p \in sent
  /\ sent' = sent \ {p}
  /\ len' = [len EXCEPT ![p] = 0] /\ used' = used - len[p]
  /\ UNCHANGED <<queue, overrun>>

Anything == overrun /\ overrun' = TRUE

Next ==
  \/ Transmit \/ Anything
  \/ \E p \in Packets : Release(p)
  \/ \E k \in 1 .. MaxLen : Overfill(k) \/ \E p \in Packets : Output(p, k)

Spec ==
  /\ Init /\ [][Next]_queueVars
  /\ WF_queueVars(Transmit)
  /\ \A p \in Packets : WF_queueVars(Release(p))
===============================================================================
