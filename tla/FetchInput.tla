------------------------------ MODULE FetchInput ------------------------------
(***************************************************************************)
(* fetch_input (src/terminal_interface.c): the line editor of the serial   *)
(* menu.  It shifts characters in a fixed buffer, decodes escape sequences *)
(* byte by byte, and repairs the terminal's line with as few bytes as it   *)
(* can.  screen and col are the terminal's line and cursor, external to    *)
(* the code: printing overwrites, BS and ESC [ C move, ESC [ K erases.     *)
(*                                                                         *)
(* A byte is one step: sciReceive blocks until there is one.  The code     *)
(* inserts every other byte; Chars stands for those the terminal shows in  *)
(* one column (a control byte typed into the line would show in none).     *)
(***************************************************************************)
EXTENDS Integers, Sequences

CONSTANTS
  Chars,       \* the characters the operator types
  max_len,     \* the size of the buffer, CMD_BUFFER_SIZE
  Junk         \* what an element never written holds

ASSUME FetchAssumption == max_len \in Nat \ {0, 1}

(* Bytes of escape sequences, which are characters anywhere else.  "1"     *)
(* stands for the digits other than 3.                                     *)
SeqBytes == {"[", "D", "C", "3", "1"}
Bytes == Chars \cup SeqBytes \cup {"CR", "BS", "ESC"}

VARIABLES
  buf, len, pos,
  esc,         \* how far an escape sequence has come
  entered,     \* the line the last call returned
  screen, col

editorVars == <<buf, len, pos, esc, entered, screen, col>>

Text == [i \in 1 .. len |-> buf[i - 1]]

EditorTypes ==
  /\ buf \in [0 .. max_len - 1 -> Chars \cup {Junk}]
  /\ len \in 0 .. max_len - 1
  /\ pos \in 0 .. len
  /\ esc \in {"none", "esc", "bracket", "delete", "digit"}
  /\ entered \in Seq(Chars) /\ Len(entered) < max_len
  /\ screen \in Seq(Chars)
  /\ col \in 0 .. max_len

EditorInit ==
  /\ buf = [i \in 0 .. max_len - 1 |-> Junk]
  /\ len = 0 /\ pos = 0 /\ esc = "none" /\ entered = << >>
  /\ screen = << >> /\ col = 0

-----------------------------------------------------------------------------
(* The terminal.                                                           *)

(* sciSend of text: it overwrites from the cursor on.                      *)
Written(scr, c, text) ==
  SubSeq(scr, 1, c) \o text \o SubSeq(scr, c + Len(text) + 1, Len(scr))

(* ESC [ K, and then the rest of the line again.                           *)
Rewritten(scr, c, text) == SubSeq(scr, 1, c) \o text

(* buf[from..len-1] of the buffer b.                                       *)
TailOf(b, from, n) == [i \in 1 .. n - from |-> b[from + i - 1]]

-----------------------------------------------------------------------------
(* The shifts: the loops for (i = at; i < n - 1; i++) buf[i] = buf[i + 1], *)
(* and for (i = n; i > at; i--) buf[i] = buf[i - 1].                       *)

ClosedGapMut(at, n) ==                 \* the loop ends one element early
  [i \in DOMAIN buf |-> IF i >= at /\ i < n - 2 THEN buf[i + 1] ELSE buf[i]]
ClosedGap(at, n) ==
  [i \in DOMAIN buf |-> IF i >= at /\ i < n - 1 THEN buf[i + 1] ELSE buf[i]]

OpenedGap(at, n, ch) ==
  [i \in DOMAIN buf |-> IF i = at THEN ch ELSE IF i > at /\ i <= n THEN buf[i - 1] ELSE buf[i]]

HasRoom == len < max_len - 1

(* The cursor after a tail was written again: len - pos times BS.          *)
BackOverMut(c, n, p) == c              \* the cursor stays at the end
BackOver(c, n, p) == c - (n - p)

-----------------------------------------------------------------------------
Enter(ch) ==
  /\ esc = "none" /\ ch = "CR"
  /\ entered' = Text
  /\ len' = 0 /\ pos' = 0 /\ screen' = << >> /\ col' = 0
  /\ UNCHANGED <<buf, esc>>

Backspace(ch) ==
  /\ esc = "none" /\ ch = "BS" /\ pos > 0
  /\ buf' = ClosedGap(pos - 1, len)
  /\ len' = len - 1 /\ pos' = pos - 1
  /\ screen' = Rewritten(screen, col - 1, TailOf(buf', pos', len'))
  /\ col' = BackOver(Len(screen'), len', pos')
  /\ UNCHANGED <<esc, entered>>

Printable(ch) ==
  /\ esc = "none" /\ ch \in Chars /\ HasRoom
  /\ buf' = OpenedGap(pos, len, ch)
  /\ len' = len + 1 /\ pos' = pos + 1
  /\ screen' = Written(screen, col, TailOf(buf', pos, len'))
  /\ col' = BackOver(col + len' - pos, len', pos')
  /\ UNCHANGED <<esc, entered>>

(* A character when the buffer is full, or Backspace at the left end.      *)
Ignored(ch) ==
  /\ esc = "none"
  /\ (ch \in Chars /\ ~HasRoom) \/ (ch = "BS" /\ pos = 0)
  /\ UNCHANGED editorVars

EscapeBegin(ch) ==
  /\ esc = "none" /\ ch = "ESC"
  /\ esc' = "esc"
  /\ UNCHANGED <<buf, len, pos, entered, screen, col>>

(* The byte after ESC: anything but '[' is swallowed.                      *)
EscapeBracket(ch) ==
  /\ esc = "esc"
  /\ esc' = IF ch = "[" THEN "bracket" ELSE "none"
  /\ UNCHANGED <<buf, len, pos, entered, screen, col>>

ArrowLeft(ch) ==
  /\ esc = "bracket" /\ ch = "D" /\ pos > 0
  /\ pos' = pos - 1 /\ col' = col - 1 /\ esc' = "none"
  /\ UNCHANGED <<buf, len, entered, screen>>

ArrowRight(ch) ==
  /\ esc = "bracket" /\ ch = "C" /\ pos < len
  /\ pos' = pos + 1 /\ col' = col + 1 /\ esc' = "none"
  /\ UNCHANGED <<buf, len, entered, screen>>

(* A digit takes one more byte, Delete or not; any other byte is ignored.  *)
EscapeOther(ch) ==
  /\ esc = "bracket"
  /\ ~(ch = "D" /\ pos > 0) /\ ~(ch = "C" /\ pos < len)
  /\ esc' = CASE ch = "3" -> "delete" [] ch = "1" -> "digit" [] OTHER -> "none"
  /\ UNCHANGED <<buf, len, pos, entered, screen, col>>

Delete ==
  /\ esc = "delete"
  /\ esc' = "none"
  /\ IF pos < len
       THEN /\ buf' = ClosedGap(pos, len)
            /\ len' = len - 1
            /\ screen' = Rewritten(screen, col, TailOf(buf', pos, len'))
            /\ col' = BackOver(Len(screen'), len', pos)
       ELSE UNCHANGED <<buf, len, screen, col>>
  /\ UNCHANGED <<pos, entered>>

DigitEnd ==
  /\ esc = "digit"
  /\ esc' = "none"
  /\ UNCHANGED <<buf, len, pos, entered, screen, col>>

EditorNext ==
  \/ \E ch \in Bytes :
       \/ Enter(ch) \/ Backspace(ch) \/ Printable(ch) \/ Ignored(ch)
       \/ EscapeBegin(ch) \/ EscapeBracket(ch)
       \/ ArrowLeft(ch) \/ ArrowRight(ch) \/ EscapeOther(ch)
  \/ Delete \/ DigitEnd

EditorSpec == EditorInit /\ [][EditorNext]_editorVars

-----------------------------------------------------------------------------
(* What the operator sees is what the program will get: the terminal shows *)
(* the buffer, with the cursor where the next character goes, although     *)
(* each edit repairs only part of the line.                                *)
ScreenShowsBuffer == screen = Text /\ col = pos

(* Both: fetch_input stays inside its buffer, the element for the          *)
(* terminator included, and the terminal shows it.                         *)
EditorSound == EditorTypes /\ ScreenShowsBuffer

(* The shifting buffer is a line editor: LineEdit with the buffer cut at   *)
(* the cursor, whatever bytes arrive inside escape sequences.              *)
Editor == INSTANCE LineEdit WITH
  Max <- max_len - 1,
  left <- SubSeq(Text, 1, pos),
  right <- SubSeq(Text, pos + 1, len)

ImplementsLineEdit == Editor!Spec
===============================================================================
