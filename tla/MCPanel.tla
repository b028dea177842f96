-------------------------------- MODULE MCPanel --------------------------------
(* Panel for TLC.                                                          *)
EXTENDS Panel

(* Two handlers at once, whose commands and refreshes interleave.          *)
TwoHandlers ==
  [jobs |-> {"j1", "j2"}, kinds |-> {"add", "edit"}, clicks |-> 2,
   late |-> 0, lost |-> 0, raws |-> 0, cuts |-> 0]

(* One handler after another, beside the timer, with every fault.          *)
Faulty ==
  [TwoHandlers EXCEPT !.jobs = {"j1"}, !.kinds = {"add", "del"},
                  !.late = 1, !.lost = 1, !.cuts = 1]

(* Text typed while commands are pending.                                  *)
Typing == [TwoHandlers EXCEPT !.jobs = {"j1"}, !.lost = 1, !.raws = 1]

(* A ping, perhaps without end, next to another handler, and a lost line.  *)
Pinging ==
  [TwoHandlers EXCEPT !.kinds = {"add", "ping", "pingt", "send"}, !.lost = 1]

(* Pings cut off by a disconnection.                                       *)
Reconnecting ==
  [TwoHandlers EXCEPT !.kinds = {"ping", "pingt"}, !.cuts = 1]

MCSessions == {TwoHandlers, Faulty, Typing, Pinging, Reconnecting}
================================================================================
