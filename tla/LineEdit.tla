------------------------------- MODULE LineEdit -------------------------------
(* What a line editor promises: the text before and after the cursor, and  *)
(* the line that Enter hands over.  The text has at most Max characters;   *)
(* one typed beyond them is ignored.                                       *)
EXTENDS Naturals, Sequences

CONSTANTS Chars, Max

VARIABLES left, right, entered

editVars == <<left, right, entered>>

Init == left = << >> /\ right = << >> /\ entered = << >>

Insert(c) ==
  /\ Len(left) + Len(right) < Max
  /\ left' = Append(left, c)
  /\ UNCHANGED <<right, entered>>

Backspace ==
  /\ left # << >>
  /\ left' = SubSeq(left, 1, Len(left) - 1)
  /\ UNCHANGED <<right, entered>>

Delete ==
  /\ right # << >>
  /\ right' = Tail(right)
  /\ UNCHANGED <<left, entered>>

MoveLeft ==
  /\ left # << >>
  /\ left' = SubSeq(left, 1, Len(left) - 1)
  /\ right' = <<left[Len(left)]>> \o right
  /\ UNCHANGED entered

MoveRight ==
  /\ right # << >>
  /\ left' = Append(left, Head(right))
  /\ right' = Tail(right)
  /\ UNCHANGED entered

Enter ==
  /\ entered' = left \o right
  /\ left' = << >> /\ right' = << >>

Next ==
  \/ \E c \in Chars : Insert(c)
  \/ Backspace \/ Delete \/ MoveLeft \/ MoveRight \/ Enter

Spec == Init /\ [][Next]_editVars
===============================================================================
