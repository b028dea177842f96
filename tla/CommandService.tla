---------------------------- MODULE CommandService ----------------------------
(* What the command channel promises a host that waits for its answers:    *)
(* each line it sends is executed as it was sent, once and in order.       *)
EXTENDS Naturals, Sequences

CONSTANTS Texts, MaxLines

VARIABLES sent, executed

serviceVars == <<sent, executed>>

Init == sent = << >> /\ executed = << >>

Submit(t) ==
  /\ Len(executed) = Len(sent) /\ Len(sent) < MaxLines
  /\ sent' = Append(sent, t)
  /\ UNCHANGED executed

Execute ==
  /\ Len(executed) < Len(sent)
  /\ executed' = Append(executed, sent[Len(executed) + 1])
  /\ UNCHANGED sent

Next == (\E t \in Texts : Submit(t)) \/ Execute

Spec == Init /\ [][Next]_serviceVars /\ WF_serviceVars(Execute)
===============================================================================
