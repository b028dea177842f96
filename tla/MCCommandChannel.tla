-------------------------- MODULE MCCommandChannel --------------------------
(* CommandChannel for TLC: lines of one to four characters.                *)
EXTENDS CommandChannel

(* On a busy board, with a 'q' in a line and a line that is too long.      *)
Faulty ==
  [texts |-> {<<"a">>, <<"1">>, <<"a", "q">>, <<"a", "b", "c", "d">>},
   patient |-> FALSE, events |-> 1, presses |-> 1]

(* Commands only, with a digit in them, which keep coming while a menu is  *)
(* open.                                                                   *)
Commanding ==
  [texts |-> {<<"a">>, <<"b", "1">>},
   patient |-> FALSE, events |-> 1, presses |-> 1]

(* An operator who pings from the menu.                                    *)
Pinging ==
  [texts |-> {<<"a">>, <<"p", "1">>, <<"^C">>},
   patient |-> FALSE, events |-> 0, presses |-> 1]

(* The host that the channel is made for.                                  *)
Waiting ==
  [texts |-> {<<"a">>, <<"a", "b", "c">>},
   patient |-> TRUE, events |-> 0, presses |-> 0]

MCHosts == {Faulty, Commanding, Pinging, Waiting}
==============================================================================
