------------------------------ MODULE MCTerminal ------------------------------
(* Terminal with keys on both sides of '0': those below it are negative.   *)
EXTENDS Terminal

MCKeys == {-3, 0, 1, 2, 3, 9}
================================================================================
