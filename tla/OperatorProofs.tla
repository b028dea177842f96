---------------------------- MODULE OperatorProofs ----------------------------
(***************************************************************************)
(* Proofs about the two loops of the serial port that the operator waits   *)
(* for: the line editor, for any size of the buffer and any characters,    *)
(* and the echo client, for every width of s_seq and every delay of a      *)
(* reply.                                                                  *)
(***************************************************************************)
EXTENDS FetchInput, Ping, SequenceTheorems, TLAPS

(* Every element below len was written: the line never shows junk.         *)
Filled == \A i \in 0 .. len - 1 : buf[i] \in Chars

(* The invariant the induction needs.                                      *)
IInv == EditorSound /\ Filled

-----------------------------------------------------------------------------
(* Lemmas about lines cut out of a buffer.                                 *)

(* The first n elements of a buffer, as a sequence.                        *)
Line(b, n) == [i \in 1 .. n |-> b[i - 1]]

(* The first n elements of the buffer, as a sequence.                      *)
LEMMA LineSeq ==
  ASSUME NEW b, NEW n \in Nat, \A i \in 0 .. n - 1 : b[i] \in Chars
  PROVE  /\ Line(b, n) \in Seq(Chars) /\ Len(Line(b, n)) = n
         /\ \A i \in 1 .. n : Line(b, n)[i] = b[i - 1]
<1>1. \A i \in 1 .. n : i - 1 \in 0 .. n - 1 OBVIOUS
<1>2. Line(b, n) \in [1 .. n -> Chars] BY <1>1 DEF Line
<1>3. Line(b, n) \in Seq(Chars) BY <1>2, SeqDef
<1>. QED BY <1>2, <1>3, LenProperties DEF Line

(* The elements from p on.                                                 *)
LEMMA TailSeq ==
  ASSUME NEW b, NEW n \in Nat, NEW p \in 0 .. n, \A i \in 0 .. n - 1 : b[i] \in Chars
  PROVE  /\ TailOf(b, p, n) \in Seq(Chars) /\ Len(TailOf(b, p, n)) = n - p
         /\ \A i \in 1 .. n - p : TailOf(b, p, n)[i] = b[p + i - 1]
<1>1. \A i \in 1 .. n - p : p + i - 1 \in 0 .. n - 1 OBVIOUS
<1>2. TailOf(b, p, n) \in [1 .. n - p -> Chars] BY <1>1 DEF TailOf
<1>3. n - p \in Nat OBVIOUS
<1>4. TailOf(b, p, n) \in Seq(Chars) BY <1>2, <1>3, SeqDef
<1>. QED BY <1>2, <1>3, <1>4, LenProperties DEF TailOf

(* The line up to a column, followed by the rest of the buffer, is the     *)
(* buffer, provided that the line agrees with the buffer up to there.      *)
LEMMA Repaired ==
  ASSUME NEW b, NEW n \in Nat, NEW p \in 0 .. n, \A i \in 0 .. n - 1 : b[i] \in Chars,
         NEW scr \in Seq(Chars), p <= Len(scr), \A i \in 1 .. p : scr[i] = b[i - 1]
  PROVE  SubSeq(scr, 1, p) \o TailOf(b, p, n) = Line(b, n)
<1>. DEFINE l == SubSeq(scr, 1, p)
            r == TailOf(b, p, n)
<1>1. l \in Seq(Chars) /\ Len(l) = p /\ \A i \in 1 .. p : l[i] = scr[i]
  <2>1. \A i \in 1 .. p : scr[i] \in Chars BY ElementOfSeq, LenProperties
  <2>2. /\ l \in Seq(Chars) /\ Len(l) = (IF 1 <= p THEN p - 1 + 1 ELSE 0)
        /\ \A i \in 1 .. p - 1 + 1 : l[i] = scr[1 + i - 1]
    BY <2>1, SubSeqProperties
  <2>. QED BY <2>2
<1>2. r \in Seq(Chars) /\ Len(r) = n - p /\ \A i \in 1 .. n - p : r[i] = b[p + i - 1] BY TailSeq, ZenonT(30)
<1>. HIDE DEF l, r
<1>3. /\ l \o r \in Seq(Chars) /\ Len(l \o r) = n
      /\ \A i \in 1 .. n : (l \o r)[i] = IF i <= p THEN l[i] ELSE r[i - p]
  BY <1>1, <1>2, ConcatProperties
<1>4. \A i \in 1 .. n : (l \o r)[i] = b[i - 1]
  <2>. SUFFICES ASSUME NEW i \in 1 .. n PROVE (l \o r)[i] = b[i - 1] OBVIOUS
  <2>1. CASE i <= p
    <3>1. i \in 1 .. p BY <2>1
    <3>2. l[i] = scr[i] /\ scr[i] = b[i - 1] BY <1>1, <3>1
    <3>3. (l \o r)[i] = l[i] BY <1>3, <2>1
    <3>. QED BY <3>2, <3>3
  <2>2. CASE i > p
    <3>1. i - p \in 1 .. n - p /\ p + (i - p) - 1 = i - 1 BY <2>2
    <3>. QED BY <1>2, <1>3, <2>2, <3>1
  <2>3. i <= p \/ i > p OBVIOUS
  <2>. QED BY <2>1, <2>2, <2>3
<1>5. Line(b, n) \in Seq(Chars) /\ Len(Line(b, n)) = n /\ \A i \in 1 .. n : Line(b, n)[i] = b[i - 1]
  BY LineSeq
<1>6. l \o r = Line(b, n) BY <1>3, <1>4, <1>5, SeqEqual, ZenonT(30)
<1>. QED BY <1>6 DEF l, r

(* What the two shifts leave in the buffer.                                *)
LEMMA ClosedGapFacts ==
  ASSUME IInv, NEW at \in 0 .. len - 1, NEW b, b = ClosedGap(at, len)
  PROVE  /\ b \in [0 .. max_len - 1 -> Chars \cup {Junk}]
         /\ \A i \in 0 .. len - 2 : b[i] = IF i < at THEN buf[i] ELSE buf[i + 1]
         /\ \A i \in 0 .. len - 2 : b[i] \in Chars
<1>1. DOMAIN buf = 0 .. max_len - 1 /\ len \in 0 .. max_len - 1 /\ max_len \in Nat
  BY FetchAssumption DEF IInv, EditorSound, EditorTypes
<1>2. \A i \in 0 .. max_len - 1 : i < len - 1 => i + 1 \in 0 .. max_len - 1 BY <1>1
<1>3. b \in [0 .. max_len - 1 -> Chars \cup {Junk}]
  BY <1>1, <1>2 DEF ClosedGap, IInv, EditorSound, EditorTypes
<1>4. \A i \in 0 .. len - 2 : b[i] = IF i < at THEN buf[i] ELSE buf[i + 1]
  BY <1>1 DEF ClosedGap
<1>5. \A i \in 0 .. len - 2 : b[i] \in Chars BY <1>1, <1>4 DEF IInv, Filled
<1>. QED BY <1>3, <1>4, <1>5

(* The buffer after a character is inserted.                               *)
LEMMA OpenedGapFacts ==
  ASSUME IInv, HasRoom, NEW ch \in Chars, NEW b, b = OpenedGap(pos, len, ch)
  PROVE  /\ b \in [0 .. max_len - 1 -> Chars \cup {Junk}]
         /\ \A i \in 0 .. len : b[i] = IF i = pos THEN ch ELSE IF i < pos THEN buf[i] ELSE buf[i - 1]
         /\ \A i \in 0 .. len : b[i] \in Chars
<1>1. DOMAIN buf = 0 .. max_len - 1 /\ len \in 0 .. max_len - 2 /\ max_len \in Nat /\ pos \in 0 .. len
  BY FetchAssumption DEF IInv, EditorSound, EditorTypes, HasRoom
<1>2. \A i \in 0 .. max_len - 1 : i > pos => i - 1 \in 0 .. max_len - 1 BY <1>1
<1>3. b \in [0 .. max_len - 1 -> Chars \cup {Junk}]
  BY <1>1, <1>2 DEF OpenedGap, IInv, EditorSound, EditorTypes
<1>4. \A i \in 0 .. len : b[i] = IF i = pos THEN ch ELSE IF i < pos THEN buf[i] ELSE buf[i - 1]
  BY <1>1 DEF OpenedGap
<1>5. \A i \in 0 .. len : b[i] \in Chars BY <1>1, <1>4 DEF IInv, Filled
<1>. QED BY <1>3, <1>4, <1>5

(* The text as the invariant gives it.                                     *)
LEMMA TextFacts ==
  ASSUME IInv
  PROVE  /\ len \in Nat /\ pos \in 0 .. len /\ max_len \in Nat /\ len < max_len
         /\ Text = Line(buf, len) /\ Text \in Seq(Chars) /\ Len(Text) = len
         /\ \A i \in 1 .. len : Text[i] = buf[i - 1]
         /\ screen = Text /\ col = pos
<1>1. len \in Nat /\ pos \in 0 .. len /\ max_len \in Nat /\ len < max_len
  BY FetchAssumption DEF IInv, EditorSound, EditorTypes
<1>2. Text = Line(buf, len) BY DEF Text, Line
<1>3. /\ Line(buf, len) \in Seq(Chars) /\ Len(Line(buf, len)) = len
      /\ \A i \in 1 .. len : Line(buf, len)[i] = buf[i - 1]
  BY <1>1, LineSeq DEF IInv, Filled
<1>. QED BY <1>1, <1>2, <1>3 DEF IInv, EditorSound, ScreenShowsBuffer

-----------------------------------------------------------------------------
(* Each byte keeps the invariant.                                          *)
LEMMA Step ==
  ASSUME IInv, [EditorNext]_editorVars
  PROVE  IInv'
<1>0. /\ len \in Nat /\ pos \in 0 .. len /\ max_len \in Nat /\ len < max_len
      /\ Text = Line(buf, len) /\ Text \in Seq(Chars) /\ Len(Text) = len
      /\ \A i \in 1 .. len : Text[i] = buf[i - 1]
      /\ screen = Text /\ col = pos
  BY TextFacts
<1>1. ASSUME NEW ch, Enter(ch) PROVE IInv'
  <2>1. Text' = << >>
    BY <1>1 DEF Enter, Text
  <2>2. EditorTypes'
    BY <1>0, <1>1, FetchAssumption, EmptySeq DEF Enter, EditorTypes, IInv, EditorSound
  <2>3. Filled' BY <1>1 DEF Enter, Filled
  <2>. QED BY <1>1, <2>1, <2>2, <2>3 DEF Enter, IInv, EditorSound, ScreenShowsBuffer
<1>2. ASSUME NEW ch, Backspace(ch) PROVE IInv'
  <2>1. pos - 1 \in 0 .. len - 1 /\ pos > 0 /\ len - 1 \in Nat BY <1>0, <1>2 DEF Backspace
  <2>2. len' = len - 1 /\ pos' = pos - 1 /\ buf' = ClosedGap(pos - 1, len) BY <1>2 DEF Backspace
  <2>3. /\ buf' \in [0 .. max_len - 1 -> Chars \cup {Junk}]
        /\ \A i \in 0 .. len - 2 : buf'[i] = IF i < pos - 1 THEN buf[i] ELSE buf[i + 1]
        /\ \A i \in 0 .. len - 2 : buf'[i] \in Chars
    BY <2>1, <2>2, ClosedGapFacts
  <2>4. screen' = Line(buf', len - 1)
    <3>1. screen' = SubSeq(screen, 1, pos - 1) \o TailOf(buf', pos - 1, len - 1)
      BY <1>0, <1>2, <2>2 DEF Backspace, Rewritten
    <3>2. ASSUME NEW i \in 1 .. pos - 1 PROVE screen[i] = buf'[i - 1]
      <4>1. i \in 1 .. len /\ i - 1 \in 0 .. len - 2 /\ i - 1 < pos - 1 BY <1>0, <2>1
      <4>. QED BY <1>0, <2>3, <4>1
    <3>3. \A i \in 0 .. (len - 1) - 1 : buf'[i] \in Chars BY <1>0, <2>3
    <3>4. pos - 1 \in 0 .. len - 1 /\ pos - 1 <= Len(screen) /\ screen \in Seq(Chars) BY <1>0, <2>1
    <3>. QED BY <2>1, <3>1, <3>2, <3>3, <3>4, Repaired
  <2>5. screen' \in Seq(Chars) /\ Len(screen') = len - 1
    <3>1. \A i \in 0 .. (len - 1) - 1 : buf'[i] \in Chars BY <1>0, <2>3
    <3>. QED BY <2>1, <2>4, <3>1, LineSeq
  <2>6. col' = pos - 1
    <3>1. col' = Len(screen') - (len' - pos') BY <1>2 DEF Backspace, BackOver
    <3>2. col' = (len - 1) - ((len - 1) - (pos - 1)) BY <2>2, <2>5, <3>1
    <3>3. len \in Nat /\ pos \in Nat BY <1>0
    <3>. QED BY <3>2, <3>3
  <2>7. EditorTypes' BY <1>0, <1>2, <2>1, <2>2, <2>3, <2>5, <2>6 DEF Backspace, EditorTypes, IInv, EditorSound
  <2>8. Filled' BY <1>0, <2>2, <2>3 DEF Filled
  <2>9. Text' = Line(buf', len - 1) BY <2>2 DEF Text, Line
  <2>. QED BY <2>2, <2>4, <2>6, <2>7, <2>8, <2>9 DEF IInv, EditorSound, ScreenShowsBuffer
<1>3. ASSUME NEW ch, Printable(ch) PROVE IInv'
  <2>1. HasRoom /\ ch \in Chars /\ len + 1 < max_len BY <1>0, <1>3 DEF Printable, HasRoom
  <2>2. len' = len + 1 /\ pos' = pos + 1 /\ buf' = OpenedGap(pos, len, ch) BY <1>3 DEF Printable
  <2>3. /\ buf' \in [0 .. max_len - 1 -> Chars \cup {Junk}]
        /\ \A i \in 0 .. len : buf'[i] = IF i = pos THEN ch ELSE IF i < pos THEN buf[i] ELSE buf[i - 1]
        /\ \A i \in 0 .. len : buf'[i] \in Chars
    BY <2>1, <2>2, OpenedGapFacts
  <2>4. \A i \in 0 .. (len + 1) - 1 : buf'[i] \in Chars BY <1>0, <2>3
  <2>5. TailOf(buf', pos, len + 1) \in Seq(Chars) /\ Len(TailOf(buf', pos, len + 1)) = len + 1 - pos
    BY <1>0, <2>4, TailSeq
  <2>6. SubSeq(screen, 1, pos) \o TailOf(buf', pos, len + 1) = Line(buf', len + 1)
    <3>1. \A i \in 1 .. pos : screen[i] = buf'[i - 1] BY <1>0, <2>3
    <3>2. pos \in 0 .. len + 1 /\ pos <= Len(screen) /\ screen \in Seq(Chars) /\ len + 1 \in Nat BY <1>0
    <3>. QED BY <2>4, <3>1, <3>2, Repaired
  <2>7. Line(buf', len + 1) \in Seq(Chars) /\ Len(Line(buf', len + 1)) = len + 1
    BY <1>0, <2>4, LineSeq
  <2>8. screen' = Line(buf', len + 1)
    <3>1. SubSeq(screen, pos + (len + 1 - pos) + 1, Len(screen)) = << >>
      BY <1>0, SubSeqEmpty
    <3>2. screen' = SubSeq(screen, 1, pos) \o TailOf(buf', pos, len + 1)
                      \o SubSeq(screen, pos + (len + 1 - pos) + 1, Len(screen))
      BY <1>0, <1>3, <2>2, <2>5 DEF Printable, Written
    <3>. QED BY <2>6, <2>7, <3>1, <3>2, ConcatEmptySeq
  <2>9. col' = pos + 1
    <3>1. col' = BackOver(col + len' - pos, len', pos') BY <1>3 DEF Printable
    <3>2. col' = pos + (len + 1) - pos - ((len + 1) - (pos + 1)) BY <1>0, <2>2, <3>1 DEF BackOver
    <3>3. len \in Nat /\ pos \in Nat BY <1>0
    <3>. QED BY <3>2, <3>3
  <2>10. EditorTypes'
    BY <1>0, <1>3, <2>1, <2>2, <2>3, <2>7, <2>8, <2>9 DEF Printable, EditorTypes, IInv, EditorSound
  <2>11. Filled' BY <2>2, <2>4 DEF Filled
  <2>12. Text' = Line(buf', len + 1) BY <2>2 DEF Text, Line
  <2>. QED BY <2>2, <2>8, <2>9, <2>10, <2>11, <2>12 DEF IInv, EditorSound, ScreenShowsBuffer
<1>4. ASSUME UNCHANGED <<buf, len, entered, screen>>, pos' \in 0 .. len, col' = pos',
             esc' \in {"none", "esc", "bracket", "delete", "digit"}
      PROVE  IInv'
  BY <1>0, <1>4 DEF IInv, EditorSound, ScreenShowsBuffer, EditorTypes, Filled, Text
<1>5. ASSUME NEW ch, Ignored(ch) \/ EscapeBegin(ch) \/ EscapeBracket(ch) \/ EscapeOther(ch) PROVE IInv'
  <2>1. esc' \in {"none", "esc", "bracket", "delete", "digit"}
    BY <1>5 DEF Ignored, EscapeBegin, EscapeBracket, EscapeOther, editorVars, IInv, EditorSound, EditorTypes
  <2>. QED BY <1>0, <1>4, <1>5, <2>1 DEF Ignored, EscapeBegin, EscapeBracket, EscapeOther, editorVars
<1>6. ASSUME NEW ch, ArrowLeft(ch) \/ ArrowRight(ch) PROVE IInv'
  BY <1>0, <1>4, <1>6 DEF ArrowLeft, ArrowRight
<1>7. CASE Delete
  <2>1. CASE pos < len
    <3>1. pos \in 0 .. len - 1 /\ len - 1 \in Nat BY <1>0, <2>1
    <3>2. len' = len - 1 /\ pos' = pos /\ buf' = ClosedGap(pos, len) BY <1>7, <2>1 DEF Delete
    <3>3. /\ buf' \in [0 .. max_len - 1 -> Chars \cup {Junk}]
          /\ \A i \in 0 .. len - 2 : buf'[i] = IF i < pos THEN buf[i] ELSE buf[i + 1]
          /\ \A i \in 0 .. len - 2 : buf'[i] \in Chars
      BY <3>1, <3>2, ClosedGapFacts
    <3>4. \A i \in 0 .. (len - 1) - 1 : buf'[i] \in Chars BY <1>0, <3>3
    <3>5. screen' = Line(buf', len - 1)
      <4>1. screen' = SubSeq(screen, 1, pos) \o TailOf(buf', pos, len - 1)
        BY <1>0, <1>7, <2>1, <3>2 DEF Delete, Rewritten
      <4>2. ASSUME NEW i \in 1 .. pos PROVE screen[i] = buf'[i - 1]
        <5>1. i \in 1 .. len /\ i - 1 \in 0 .. len - 2 /\ i - 1 < pos BY <1>0, <3>1
        <5>. QED BY <1>0, <3>3, <5>1
      <4>3. pos <= Len(screen) /\ screen \in Seq(Chars) BY <1>0
      <4>. QED BY <3>1, <3>4, <4>1, <4>2, <4>3, Repaired
    <3>6. screen' \in Seq(Chars) /\ Len(screen') = len - 1 BY <3>1, <3>4, <3>5, LineSeq
    <3>7. col' = pos
      <4>1. col' = Len(screen') - (len' - pos) BY <1>7, <2>1 DEF Delete, BackOver
      <4>2. col' = (len - 1) - ((len - 1) - pos) BY <3>2, <3>6, <4>1
      <4>3. len \in Nat /\ pos \in Nat BY <1>0
      <4>. QED BY <4>2, <4>3
    <3>8. EditorTypes'
      BY <1>0, <1>7, <3>1, <3>2, <3>3, <3>6, <3>7 DEF Delete, EditorTypes, IInv, EditorSound
    <3>9. Filled' BY <3>2, <3>4 DEF Filled
    <3>10. Text' = Line(buf', len - 1) BY <3>2 DEF Text, Line
    <3>. QED BY <3>2, <3>5, <3>7, <3>8, <3>9, <3>10 DEF IInv, EditorSound, ScreenShowsBuffer
  <2>2. CASE ~(pos < len) BY <1>0, <1>4, <1>7, <2>2 DEF Delete
  <2>. QED BY <2>1, <2>2
<1>8. CASE DigitEnd BY <1>0, <1>4, <1>8 DEF DigitEnd
<1>9. CASE UNCHANGED editorVars
  BY <1>0, <1>4, <1>9 DEF editorVars, IInv, EditorSound, EditorTypes
<1>. QED BY <1>1, <1>2, <1>3, <1>5, <1>6, <1>7, <1>8, <1>9 DEF EditorNext

(* The inductive invariant holds in every reachable state.                 *)
THEOREM Invariance == EditorSpec => []IInv
<1>1. EditorInit => IInv
  <2>. SUFFICES ASSUME EditorInit PROVE IInv OBVIOUS
  <2>1. EditorTypes BY FetchAssumption, EmptySeq DEF EditorInit, EditorTypes
  <2>2. Filled BY DEF EditorInit, Filled
  <2>3. Text = << >> BY DEF EditorInit, Text
  <2>. QED BY <2>1, <2>2, <2>3 DEF EditorInit, IInv, EditorSound, ScreenShowsBuffer
<1>2. IInv /\ [EditorNext]_editorVars => IInv' BY Step
<1>. QED BY <1>1, <1>2, PTL DEF EditorSpec

(* fetch_input stays inside its buffer whatever bytes arrive, and the      *)
(* terminal's line and cursor always agree with the buffer.                *)
THEOREM EditorSoundCorrect == EditorSpec => []EditorSound
<1>1. IInv => EditorSound BY DEF IInv
<1>. QED BY Invariance, <1>1, PTL

-----------------------------------------------------------------------------
(* The refinement: the text before and after the cursor, as LineEdit sees  *)
(* them.                                                                   *)
Left(b, n, p) == SubSeq(Line(b, n), 1, p)
Right(b, n, p) == SubSeq(Line(b, n), p + 1, n)

(* What they hold.                                                         *)
IsCut(b, n, p) ==
  /\ n \in Nat /\ p \in 0 .. n
  /\ Left(b, n, p) \in Seq(Chars) /\ Len(Left(b, n, p)) = p
  /\ \A i \in 1 .. p : Left(b, n, p)[i] = b[i - 1]
  /\ Right(b, n, p) \in Seq(Chars) /\ Len(Right(b, n, p)) = n - p
  /\ \A i \in 1 .. n - p : Right(b, n, p)[i] = b[p + i - 1]

(* Both are cut out of the buffer.                                         *)
LEMMA CutFacts ==
  ASSUME NEW b, NEW n \in Nat, NEW p \in 0 .. n, \A i \in 0 .. n - 1 : b[i] \in Chars
  PROVE  IsCut(b, n, p)
<1>. DEFINE t == Line(b, n)
<1>1. t \in Seq(Chars) /\ Len(t) = n /\ \A i \in 1 .. n : t[i] = b[i - 1] BY LineSeq
<1>. HIDE DEF t
<1>2. \A i \in 1 .. n : t[i] \in Chars BY <1>1, ElementOfSeq
<1>3. /\ SubSeq(t, 1, p) \in Seq(Chars) /\ Len(SubSeq(t, 1, p)) = p
      /\ \A i \in 1 .. p : SubSeq(t, 1, p)[i] = b[i - 1]
  <2>1. \A i \in 1 .. p : t[i] \in Chars BY <1>2
  <2>2. /\ SubSeq(t, 1, p) \in Seq(Chars)
        /\ Len(SubSeq(t, 1, p)) = (IF 1 <= p THEN p - 1 + 1 ELSE 0)
        /\ \A i \in 1 .. p - 1 + 1 : SubSeq(t, 1, p)[i] = t[1 + i - 1]
    BY <2>1, SubSeqProperties
  <2>. QED BY <1>1, <2>2
<1>4. /\ SubSeq(t, p + 1, n) \in Seq(Chars) /\ Len(SubSeq(t, p + 1, n)) = n - p
      /\ \A i \in 1 .. n - p : SubSeq(t, p + 1, n)[i] = t[p + i]
  <2>1. \A i \in p + 1 .. n : t[i] \in Chars BY <1>2
  <2>2. p + 1 \in Int /\ n \in Int OBVIOUS
  <2>3. /\ SubSeq(t, p + 1, n) \in Seq(Chars)
        /\ Len(SubSeq(t, p + 1, n)) = (IF p + 1 <= n THEN n - (p + 1) + 1 ELSE 0)
        /\ \A i \in 1 .. n - (p + 1) + 1 : SubSeq(t, p + 1, n)[i] = t[p + 1 + i - 1]
    BY <2>1, <2>2, SubSeqProperties
  <2>. QED BY <2>3
<1>5. ASSUME NEW i \in 1 .. n - p PROVE SubSeq(t, p + 1, n)[i] = b[p + i - 1]
  <2>1. p + i \in 1 .. n OBVIOUS
  <2>. QED BY <1>1, <1>4, <2>1
<1>. QED BY <1>3, <1>4, <1>5 DEF t, Left, Right, IsCut

(* A line without its last character.                                      *)
LEMMA FrontFacts ==
  ASSUME NEW n \in Nat, NEW s \in Seq(Chars), Len(s) = n + 1
  PROVE  /\ SubSeq(s, 1, n) \in Seq(Chars) /\ Len(SubSeq(s, 1, n)) = n
         /\ \A i \in 1 .. n : SubSeq(s, 1, n)[i] = s[i]
<1>1. \A i \in 1 .. n : s[i] \in Chars BY ElementOfSeq
<1>2. /\ SubSeq(s, 1, n) \in Seq(Chars)
      /\ Len(SubSeq(s, 1, n)) = (IF 1 <= n THEN n - 1 + 1 ELSE 0)
      /\ \A i \in 1 .. n - 1 + 1 : SubSeq(s, 1, n)[i] = s[1 + i - 1]
  BY <1>1, SubSeqProperties
<1>. QED BY <1>2

(* The two cuts before and after a step of the editor.                     *)
LEMMA Cuts ==
  ASSUME IInv, IInv'
  PROVE  IsCut(buf, len, pos) /\ IsCut(buf', len', pos')
<1>1. len \in Nat /\ pos \in 0 .. len /\ \A i \in 0 .. len - 1 : buf[i] \in Chars
  BY TextFacts DEF IInv, Filled
<1>2. PICK b, n, p : b = buf' /\ n = len' /\ p = pos' OBVIOUS
<1>3. n \in Nat /\ p \in 0 .. n /\ \A i \in 0 .. n - 1 : b[i] \in Chars
  <2>1. max_len \in Nat /\ n \in 0 .. max_len - 1 /\ p \in 0 .. n
    BY <1>2, FetchAssumption DEF IInv, EditorSound, EditorTypes
  <2>2. \A i \in 0 .. n - 1 : b[i] \in Chars BY <1>2 DEF IInv, Filled
  <2>. QED BY <2>1, <2>2
<1>4. IsCut(buf, len, pos) BY <1>1, CutFacts
<1>5. IsCut(b, n, p) BY <1>3, CutFacts
<1>. QED BY <1>2, <1>4, <1>5

-----------------------------------------------------------------------------
(* How the cuts of two buffers, b before and c after an edit, compare.     *)

(* The text before the cursor loses its last character.                    *)
LEMMA LeftShorter ==
  ASSUME NEW b, NEW n, NEW p, NEW c, NEW m, NEW q, IsCut(b, n, p), IsCut(c, m, q),
         q = p - 1, \A i \in 1 .. q : c[i - 1] = b[i - 1]
  PROVE  /\ Left(b, n, p) # << >>
         /\ Left(c, m, q) = SubSeq(Left(b, n, p), 1, Len(Left(b, n, p)) - 1)
<1>1. PICK l \in Seq(Chars) : l = Left(b, n, p) /\ Len(l) = p /\ \A i \in 1 .. p : l[i] = b[i - 1]
  BY DEF IsCut
<1>2. PICK k \in Seq(Chars) : k = Left(c, m, q) /\ Len(k) = q /\ \A i \in 1 .. q : k[i] = c[i - 1]
  BY DEF IsCut
<1>3. q \in Nat /\ p = q + 1 BY DEF IsCut
<1>4. /\ SubSeq(l, 1, q) \in Seq(Chars) /\ Len(SubSeq(l, 1, q)) = q
      /\ \A i \in 1 .. q : SubSeq(l, 1, q)[i] = l[i]
  BY <1>1, <1>3, FrontFacts
<1>5. \A i \in 1 .. q : i \in 1 .. p BY <1>3
<1>6. \A i \in 1 .. q : k[i] = SubSeq(l, 1, q)[i] BY <1>1, <1>2, <1>4, <1>5, ZenonT(30)
<1>7. k = SubSeq(l, 1, q) BY <1>2, <1>4, <1>6, SeqEqual
<1>8. l # << >> BY <1>1, <1>3, EmptySeq
<1>. QED BY <1>1, <1>2, <1>3, <1>7, <1>8

(* The text before the cursor gains a character.                           *)
LEMMA LeftLonger ==
  ASSUME NEW b, NEW n, NEW p, NEW c, NEW m, NEW q, IsCut(b, n, p), IsCut(c, m, q),
         q = p + 1, \A i \in 1 .. p : c[i - 1] = b[i - 1], NEW ch \in Chars, c[p] = ch
  PROVE  Left(c, m, q) = Append(Left(b, n, p), ch)
<1>1. PICK l \in Seq(Chars) : l = Left(b, n, p) /\ Len(l) = p /\ \A i \in 1 .. p : l[i] = b[i - 1]
  BY DEF IsCut
<1>2. PICK k \in Seq(Chars) : k = Left(c, m, q) /\ Len(k) = q /\ \A i \in 1 .. q : k[i] = c[i - 1]
  BY DEF IsCut
<1>3. p \in Nat BY DEF IsCut
<1>4. /\ Append(l, ch) \in Seq(Chars) /\ Len(Append(l, ch)) = p + 1
      /\ \A i \in 1 .. p : Append(l, ch)[i] = l[i]
      /\ Append(l, ch)[p + 1] = ch
  BY <1>1, AppendProperties
<1>5. k[p + 1] = ch
  <2>1. PICK j \in 1 .. q : j = p + 1 BY <1>3
  <2>2. j - 1 = p BY <1>3, <2>1
  <2>3. k[j] = c[j - 1] BY <1>2
  <2>. QED BY <2>1, <2>2, <2>3
<1>6. ASSUME NEW i \in 1 .. p PROVE k[i] = Append(l, ch)[i]
  <2>1. i \in 1 .. q BY <1>3
  <2>2. k[i] = c[i - 1] /\ l[i] = b[i - 1] BY <1>1, <1>2, <2>1
  <2>. QED BY <1>4, <2>2
<1>7. ASSUME NEW i \in 1 .. q PROVE k[i] = Append(l, ch)[i]
  <2>1. i \in 1 .. p \/ i = p + 1 BY <1>3
  <2>. QED BY <1>4, <1>5, <1>6, <2>1
<1>8. k = Append(l, ch) BY <1>2, <1>4, <1>7, SeqEqual
<1>. QED BY <1>1, <1>2, <1>8

(* The text before the cursor depends on that part of the buffer only.     *)
LEMMA LeftSame ==
  ASSUME NEW b, NEW n, NEW p, NEW c, NEW m, NEW q, IsCut(b, n, p), IsCut(c, m, q),
         q = p, \A i \in 1 .. p : c[i - 1] = b[i - 1]
  PROVE  Left(c, m, q) = Left(b, n, p)
<1>1. PICK l \in Seq(Chars) : l = Left(b, n, p) /\ Len(l) = p /\ \A i \in 1 .. p : l[i] = b[i - 1]
  BY DEF IsCut
<1>2. PICK k \in Seq(Chars) : k = Left(c, m, q) /\ Len(k) = p /\ \A i \in 1 .. p : k[i] = c[i - 1]
  BY DEF IsCut
<1>3. \A i \in 1 .. p : k[i] = l[i] BY <1>1, <1>2
<1>4. k = l BY <1>1, <1>2, <1>3, SeqEqual
<1>. QED BY <1>1, <1>2, <1>4

(* The text behind the cursor depends on that part of the buffer only.     *)
LEMMA RightSame ==
  ASSUME NEW b, NEW n, NEW p, NEW c, NEW m, NEW q, IsCut(b, n, p), IsCut(c, m, q),
         m - q = n - p, \A i \in 1 .. n - p : c[q + i - 1] = b[p + i - 1]
  PROVE  Right(c, m, q) = Right(b, n, p)
<1>1. PICK r \in Seq(Chars) : r = Right(b, n, p) /\ Len(r) = n - p /\ \A i \in 1 .. n - p : r[i] = b[p + i - 1]
  BY DEF IsCut
<1>2. PICK k \in Seq(Chars) : k = Right(c, m, q) /\ Len(k) = n - p /\ \A i \in 1 .. n - p : k[i] = c[q + i - 1]
  BY DEF IsCut
<1>3. \A i \in 1 .. n - p : k[i] = r[i] BY <1>1, <1>2
<1>4. k = r BY <1>1, <1>2, <1>3, SeqEqual
<1>. QED BY <1>1, <1>2, <1>4

(* The text behind the cursor loses its first character.                   *)
LEMMA RightShorter ==
  ASSUME NEW b, NEW n, NEW p, NEW c, NEW m, NEW q, IsCut(b, n, p), IsCut(c, m, q),
         m - q = n - p - 1, \A i \in 1 .. m - q : c[q + i - 1] = b[p + i]
  PROVE  /\ Right(b, n, p) # << >>
         /\ Right(c, m, q) = Tail(Right(b, n, p)) /\ Head(Right(b, n, p)) = b[p]
<1>1. PICK r \in Seq(Chars) : r = Right(b, n, p) /\ Len(r) = n - p /\ \A i \in 1 .. n - p : r[i] = b[p + i - 1]
  BY DEF IsCut
<1>2. PICK k \in Seq(Chars) : k = Right(c, m, q) /\ Len(k) = m - q /\ \A i \in 1 .. m - q : k[i] = c[q + i - 1]
  BY DEF IsCut
<1>3. p \in Nat /\ n \in Nat /\ n - p \in Nat /\ m - q \in Nat /\ n - p > 0 BY DEF IsCut
<1>4. r # << >> BY <1>1, <1>3, EmptySeq
<1>5. /\ Tail(r) \in Seq(Chars) /\ Len(Tail(r)) = m - q
      /\ \A i \in 1 .. m - q : Tail(r)[i] = r[i + 1]
  BY <1>1, <1>3, <1>4, HeadTailProperties
<1>6. ASSUME NEW i \in 1 .. m - q PROVE k[i] = Tail(r)[i]
  <2>1. i + 1 \in 1 .. n - p /\ p + (i + 1) - 1 = p + i BY <1>3
  <2>2. r[i + 1] = b[p + i] BY <1>1, <2>1
  <2>. QED BY <1>2, <1>5, <2>2
<1>7. k = Tail(r) BY <1>2, <1>5, <1>6, SeqEqual
<1>8. Head(r) = b[p]
  <2>1. 1 \in 1 .. n - p /\ p + 1 - 1 = p BY <1>3
  <2>2. r[1] = b[p] BY <1>1, <2>1
  <2>. QED BY <1>1, <1>4, <2>2
<1>. QED BY <1>1, <1>2, <1>4, <1>7, <1>8

(* The text behind the cursor gains a first character.                     *)
LEMMA RightLonger ==
  ASSUME NEW b, NEW n, NEW p, NEW c, NEW m, NEW q, IsCut(b, n, p), IsCut(c, m, q),
         m - q = n - p + 1, \A i \in 1 .. n - p : c[q + i] = b[p + i - 1], c[q] \in Chars
  PROVE  Right(c, m, q) = <<c[q]>> \o Right(b, n, p)
<1>1. PICK r \in Seq(Chars) : r = Right(b, n, p) /\ Len(r) = n - p /\ \A i \in 1 .. n - p : r[i] = b[p + i - 1]
  BY DEF IsCut
<1>2. PICK k \in Seq(Chars) : k = Right(c, m, q) /\ Len(k) = m - q /\ \A i \in 1 .. m - q : k[i] = c[q + i - 1]
  BY DEF IsCut
<1>3. n - p \in Nat /\ m - q \in Nat /\ q \in Nat BY DEF IsCut
<1>4. <<c[q]>> \in Seq(Chars) /\ Len(<<c[q]>>) = 1 /\ <<c[q]>>[1] = c[q] OBVIOUS
<1>5. PICK h \in Seq(Chars) : h = <<c[q]>> /\ Len(h) = 1 /\ h[1] = c[q] BY <1>4
<1>6. /\ h \o r \in Seq(Chars) /\ Len(h \o r) = 1 + (n - p)
      /\ \A i \in 1 .. 1 + (n - p) : (h \o r)[i] = IF i <= 1 THEN h[i] ELSE r[i - 1]
  BY <1>1, <1>5, ConcatProperties
<1>7. ASSUME NEW i \in 1 .. m - q PROVE k[i] = (h \o r)[i]
  <2>1. CASE i = 1
    <3>1. q + 1 - 1 = q BY <1>3
    <3>2. k[1] = c[q] BY <1>2, <2>1, <3>1
    <3>. QED BY <1>3, <1>5, <1>6, <2>1, <3>2
  <2>2. CASE i > 1
    <3>1. i - 1 \in 1 .. n - p /\ q + (i - 1) = q + i - 1 BY <1>3, <2>2
    <3>2. r[i - 1] = b[p + (i - 1) - 1] /\ c[q + (i - 1)] = b[p + (i - 1) - 1] BY <1>1, <3>1
    <3>. QED BY <1>2, <1>3, <1>6, <2>2, <3>1, <3>2
  <2>3. i = 1 \/ i > 1 BY <1>3
  <2>. QED BY <2>1, <2>2, <2>3
<1>8. k = h \o r BY <1>2, <1>3, <1>6, <1>7, SeqEqual, SMTT(30)
<1>. QED BY <1>1, <1>2, <1>5, <1>8

-----------------------------------------------------------------------------
(* A step of fetch_input is a step of the line editor, or changes nothing  *)
(* that the line editor knows of.                                          *)
LEMMA StepMaps ==
  ASSUME IInv, IInv', [EditorNext]_editorVars
  PROVE  [Editor!Next]_(Editor!editVars)
<1>. DEFINE L == Left(buf, len, pos)
            R == Right(buf, len, pos)
            L1 == Left(buf', len', pos')
            R1 == Right(buf', len', pos')
<1>0. /\ L = SubSeq(Text, 1, pos) /\ R = SubSeq(Text, pos + 1, len)
      /\ L1 = SubSeq(Text, 1, pos)' /\ R1 = SubSeq(Text, pos + 1, len)'
  BY DEF Left, Right, Text, Line
<1>1. PICK b, n, p, c, m, q :
        b = buf /\ n = len /\ p = pos /\ c = buf' /\ m = len' /\ q = pos'
  OBVIOUS
<1>2. IsCut(b, n, p) /\ IsCut(c, m, q) BY <1>1, Cuts
<1>3. n \in Nat /\ p \in 0 .. n /\ m \in Nat /\ q \in 0 .. m BY <1>2 DEF IsCut
<1>4. \A i \in 0 .. n - 1 : b[i] \in Chars BY <1>1 DEF IInv, Filled
<1>5. ASSUME NEW ch, Enter(ch) PROVE Editor!Enter
  <2>1. /\ Text = Line(buf, len) /\ Text \in Seq(Chars) /\ Len(Text) = len
    BY TextFacts
  <2>2. SubSeq(Text, 1, pos) \o SubSeq(Text, pos + 1, len) = Text
    <3>1. PICK t \in Seq(Chars) : t = Text /\ Len(t) = n BY <1>1, <2>1
    <3>2. 1 \in 1 .. Len(t) + 1 /\ p \in 1 - 1 .. Len(t) /\ n \in p .. Len(t) BY <1>3, <3>1
    <3>3. SubSeq(t, 1, p) \o SubSeq(t, p + 1, n) = SubSeq(t, 1, n) BY <3>2, ConcatAdjacentSubSeq
    <3>4. SubSeq(t, 1, n) = t BY <3>1, SubSeqFull
    <3>. QED BY <1>1, <3>1, <3>3, <3>4
  <2>3. SubSeq(Text, 1, pos)' = << >> /\ SubSeq(Text, pos + 1, len)' = << >>
    <3>1. m = 0 /\ q = 0 BY <1>1, <1>5 DEF Enter
    <3>2. \A t : SubSeq(t, 1, 0) = << >> /\ SubSeq(t, 0 + 1, 0) = << >> BY SubSeqEmpty
    <3>. QED BY <1>1, <3>1, <3>2
  <2>. QED BY <1>5, <2>2, <2>3 DEF Enter, Editor!Enter
<1>6. ASSUME NEW ch, Backspace(ch) PROVE Editor!Backspace
  <2>1. m = n - 1 /\ q = p - 1 /\ p > 0 /\ c = ClosedGap(pos - 1, len) BY <1>1, <1>6 DEF Backspace
  <2>2. \A i \in 0 .. n - 2 : c[i] = IF i < p - 1 THEN b[i] ELSE b[i + 1]
    BY <1>1, <1>3, <2>1, ClosedGapFacts
  <2>3. ASSUME NEW i \in 1 .. q PROVE c[i - 1] = b[i - 1]
    <3>1. i - 1 \in 0 .. n - 2 /\ i - 1 < p - 1 BY <1>3, <2>1
    <3>. QED BY <2>2, <3>1
  <2>4. ASSUME NEW i \in 1 .. n - p PROVE c[q + i - 1] = b[p + i - 1]
    <3>1. q + i - 1 \in 0 .. n - 2 /\ ~(q + i - 1 < p - 1) /\ (q + i - 1) + 1 = p + i - 1 BY <1>3, <2>1
    <3>. QED BY <2>2, <3>1
  <2>5. Left(b, n, p) # << >> /\ Left(c, m, q) = SubSeq(Left(b, n, p), 1, Len(Left(b, n, p)) - 1)
    BY <1>2, <2>1, <2>3, LeftShorter
  <2>6. Right(c, m, q) = Right(b, n, p)
    <3>1. m - q = n - p BY <1>3, <2>1
    <3>. QED BY <1>2, <2>4, <3>1, RightSame
  <2>7. L # << >> /\ L1 = SubSeq(L, 1, Len(L) - 1) /\ R1 = R BY <1>1, <2>5, <2>6
  <2>. HIDE DEF L, R, L1, R1
  <2>. QED BY <1>0, <1>6, <2>7 DEF Backspace, Editor!Backspace
<1>7. ASSUME NEW ch, Printable(ch) PROVE ch \in Chars /\ Editor!Insert(ch)
  <2>1. m = n + 1 /\ q = p + 1 /\ c = OpenedGap(pos, len, ch) /\ ch \in Chars /\ HasRoom
    BY <1>1, <1>7 DEF Printable
  <2>2. \A i \in 0 .. n : c[i] = IF i = p THEN ch ELSE IF i < p THEN b[i] ELSE b[i - 1]
    BY <1>1, <2>1, OpenedGapFacts
  <2>3. ASSUME NEW i \in 1 .. p PROVE c[i - 1] = b[i - 1]
    <3>1. i - 1 \in 0 .. n /\ i - 1 < p BY <1>3
    <3>. QED BY <2>2, <3>1
  <2>4. c[p] = ch BY <1>3, <2>2
  <2>5. ASSUME NEW i \in 1 .. n - p PROVE c[q + i - 1] = b[p + i - 1]
    <3>1. PICK k \in 0 .. n : k = q + i - 1 /\ k # p /\ ~(k < p) /\ k - 1 = p + i - 1
      BY <1>3, <2>1
    <3>2. c[k] = b[k - 1] BY <2>2, <3>1
    <3>. QED BY <3>1, <3>2
  <2>6. Left(c, m, q) = Append(Left(b, n, p), ch) BY <1>2, <2>1, <2>3, <2>4, LeftLonger
  <2>7. Right(c, m, q) = Right(b, n, p)
    <3>1. m - q = n - p BY <1>3, <2>1
    <3>. QED BY <1>2, <2>5, <3>1, RightSame
  <2>8. Len(L) + Len(R) < max_len - 1
    <3>1. Len(Left(b, n, p)) = p /\ Len(Right(b, n, p)) = n - p BY <1>2 DEF IsCut
    <3>2. n < max_len - 1 BY <1>1, <2>1 DEF HasRoom
    <3>3. p + (n - p) = n BY <1>3
    <3>. QED BY <1>1, <3>1, <3>2, <3>3
  <2>9. L1 = Append(L, ch) /\ R1 = R BY <1>1, <2>6, <2>7
  <2>. HIDE DEF L, R, L1, R1
  <2>. QED BY <1>0, <1>7, <2>1, <2>8, <2>9 DEF Printable, Editor!Insert
<1>8. ASSUME NEW ch, ArrowLeft(ch) PROVE Editor!MoveLeft
  <2>1. m = n /\ q = p - 1 /\ p > 0 /\ c = b BY <1>1, <1>8 DEF ArrowLeft
  <2>2. Left(b, n, p) # << >> /\ Left(c, m, q) = SubSeq(Left(b, n, p), 1, Len(Left(b, n, p)) - 1)
    BY <1>2, <2>1, LeftShorter
  <2>3. ASSUME NEW i \in 1 .. n - p PROVE c[q + i] = b[p + i - 1]
    <3>1. q + i = p + i - 1 BY <1>3, <2>1
    <3>. QED BY <2>1, <3>1
  <2>4. q \in 0 .. n - 1 /\ m - q = n - p + 1 BY <1>3, <2>1
  <2>5. Right(c, m, q) = <<c[q]>> \o Right(b, n, p) BY <1>2, <1>4, <2>1, <2>3, <2>4, RightLonger
  <2>6. Left(b, n, p)[Len(Left(b, n, p))] = c[q]
    <3>1. p \in 1 .. p /\ p - 1 = q BY <1>3, <2>1
    <3>. QED BY <1>2, <2>1, <3>1 DEF IsCut
  <2>7. L # << >> /\ L1 = SubSeq(L, 1, Len(L) - 1) /\ R1 = <<L[Len(L)]>> \o R
    BY <1>1, <2>2, <2>5, <2>6
  <2>. HIDE DEF L, R, L1, R1
  <2>. QED BY <1>0, <1>8, <2>7 DEF ArrowLeft, Editor!MoveLeft
<1>9. ASSUME NEW ch, ArrowRight(ch) PROVE Editor!MoveRight
  <2>1. m = n /\ q = p + 1 /\ p < n /\ c = b BY <1>1, <1>9 DEF ArrowRight
  <2>2. p \in 0 .. n - 1 /\ m - q = n - p - 1 BY <1>3, <2>1
  <2>3. ASSUME NEW i \in 1 .. m - q PROVE c[q + i - 1] = b[p + i]
    <3>1. q + i - 1 = p + i BY <1>3, <2>1
    <3>. QED BY <2>1, <3>1
  <2>4. /\ Right(b, n, p) # << >> /\ Right(c, m, q) = Tail(Right(b, n, p))
        /\ Head(Right(b, n, p)) = b[p]
    BY <1>2, <2>2, <2>3, RightShorter
  <2>5. Left(c, m, q) = Append(Left(b, n, p), b[p])
    <3>1. PICK ch1 \in Chars : ch1 = b[p] BY <1>4, <2>2
    <3>2. c[p] = ch1 /\ q = p + 1 BY <2>1, <3>1
    <3>3. \A i \in 1 .. p : c[i - 1] = b[i - 1] BY <2>1
    <3>4. Left(c, m, q) = Append(Left(b, n, p), ch1) BY <1>2, <3>2, <3>3, LeftLonger
    <3>. QED BY <3>1, <3>4
  <2>6. R # << >> /\ R1 = Tail(R) /\ L1 = Append(L, Head(R)) BY <1>1, <2>4, <2>5
  <2>. HIDE DEF L, R, L1, R1
  <2>. QED BY <1>0, <1>9, <2>6 DEF ArrowRight, Editor!MoveRight
<1>10. ASSUME Delete, pos < len PROVE Editor!Delete
  <2>1. m = n - 1 /\ q = p /\ p < n /\ c = ClosedGap(pos, len) BY <1>1, <1>10 DEF Delete
  <2>2. \A i \in 0 .. n - 2 : c[i] = IF i < p THEN b[i] ELSE b[i + 1]
    BY <1>1, <1>3, <2>1, ClosedGapFacts
  <2>3. ASSUME NEW i \in 1 .. p PROVE c[i - 1] = b[i - 1]
    <3>1. i - 1 \in 0 .. n - 2 /\ i - 1 < p BY <1>3, <2>1
    <3>. QED BY <2>2, <3>1
  <2>4. m - q = n - p - 1 BY <1>3, <2>1
  <2>5. ASSUME NEW i \in 1 .. m - q PROVE c[q + i - 1] = b[p + i]
    <3>1. q + i - 1 \in 0 .. n - 2 /\ ~(q + i - 1 < p) /\ (q + i - 1) + 1 = p + i BY <1>3, <2>1
    <3>. QED BY <2>2, <3>1
  <2>6. Left(c, m, q) = Left(b, n, p) BY <1>2, <2>1, <2>3, LeftSame
  <2>7. Right(b, n, p) # << >> /\ Right(c, m, q) = Tail(Right(b, n, p))
    BY <1>2, <2>4, <2>5, RightShorter
  <2>8. R # << >> /\ R1 = Tail(R) /\ L1 = L BY <1>1, <2>6, <2>7
  <2>. HIDE DEF L, R, L1, R1
  <2>. QED BY <1>0, <1>10, <2>8 DEF Delete, Editor!Delete
<1>11. ASSUME UNCHANGED <<buf, len, pos, entered>> PROVE UNCHANGED Editor!editVars
  BY <1>11 DEF Editor!editVars, Text
<1>12. ASSUME EditorNext
       PROVE  \/ \E ch : Enter(ch) \/ Backspace(ch) \/ Printable(ch) \/ ArrowLeft(ch) \/ ArrowRight(ch)
              \/ Delete /\ pos < len
              \/ UNCHANGED <<buf, len, pos, entered>>
  BY <1>12 DEF EditorNext, Ignored, EscapeBegin, EscapeBracket, EscapeOther, Delete, DigitEnd, editorVars
<1>. QED BY <1>5, <1>6, <1>7, <1>8, <1>9, <1>10, <1>11, <1>12 DEF Editor!Next, editorVars

(* fetch_input implements the line editor: cutting the shifting buffer at  *)
(* the cursor gives, for any size of the buffer, a behaviour of LineEdit.  *)
THEOREM ImplementsLineEditCorrect == EditorSpec => ImplementsLineEdit
<1>1. EditorInit => Editor!Init
  <2>. SUFFICES ASSUME EditorInit PROVE Editor!Init OBVIOUS
  <2>1. len = 0 /\ pos = 0 /\ entered = << >> BY DEF EditorInit
  <2>2. \A t : SubSeq(t, 1, 0) = << >> /\ SubSeq(t, 0 + 1, 0) = << >> BY SubSeqEmpty
  <2>. QED BY <2>1, <2>2 DEF Editor!Init
<1>2. IInv /\ IInv' /\ [EditorNext]_editorVars => [Editor!Next]_(Editor!editVars) BY StepMaps
<1>. QED BY Invariance, <1>1, <1>2, PTL DEF EditorSpec, ImplementsLineEdit, Editor!Spec

-----------------------------------------------------------------------------
(* The echo client.                                                        *)

Own(a) == a \in Ages /\ (a = 0 \/ a >= SeqMod)

(* A request is armed only between the protected section of ping_send and  *)
(* the end of the call, and what was consumed meanwhile is its own reply.  *)
Armed ==
  /\ s_waiting => pc \in {"failed", "wait", "expired"} /\ ~s_reply_valid
  /\ pc \in {"failed", "wait", "expired"} /\ s_reply_valid => Own(s_result)

PingIInv == TypeOK /\ AnswerIsOwn /\ Armed

(* Of the last SeqMod requests only the newest has the sequence number     *)
(* ping_recv compares with.                                                *)
LEMMA SeqnoOfOwn ==
  ASSUME NEW a \in Nat, s_seq \in 0 .. SeqMod - 1, Seqno(a) = s_seq
  PROVE  a = 0 \/ a >= SeqMod
<1>. SUFFICES ASSUME a > 0, a < SeqMod PROVE FALSE BY PingAssumption
<1>1. SeqMod \in Nat /\ SeqMod > 0 BY PingAssumption
<1>2. CASE s_seq - a >= 0
  <2>1. s_seq - a \in 0 .. SeqMod - 1 BY <1>1, <1>2
  <2>2. (s_seq - a) % SeqMod = s_seq - a BY <1>1, <2>1
  <2>. QED BY <1>1, <2>2 DEF Seqno
<1>3. CASE s_seq - a < 0
  <2>1. s_seq - a + SeqMod \in 0 .. SeqMod - 1 BY <1>1, <1>3
  <2>2. (s_seq - a) % SeqMod = s_seq - a + SeqMod BY <1>1, <2>1
  <2>. QED BY <1>1, <2>2 DEF Seqno
<1>. QED BY <1>1, <1>2, <1>3

(* The end of an attempt leaves the caller's variables typed.              *)
LEMMA AfterAttemptType ==
  ASSUME TypeOK, NEW f \in BOOLEAN, AfterAttempt(f)
  PROVE  /\ pc' \in {"pause", "idle", "call"} /\ caller' \in Callers \cup {None}
         /\ attempt' \in 0 .. PING_ATTEMPT_COUNT /\ rdr' \in Keys \cup {None}
BY PingAssumption DEF AfterAttempt, Return, Attempts, TypeOK

(* Each step keeps the invariant.                                          *)
LEMMA PingStep ==
  ASSUME PingIInv, [Next]_vars
  PROVE  PingIInv'
<1>. USE DEF PingIInv, pingVars, callVars
<1>1. ASSUME NEW c \in Callers, Start(c) PROVE PingIInv'
  BY <1>1, PingAssumption DEF Start, TypeOK, AnswerIsOwn, Armed, PCs
<1>2. CASE SendNoMem
  BY <1>2, AfterAttemptType DEF SendNoMem, TypeOK, AnswerIsOwn, Armed, PCs
<1>3. CASE SendBuild
  <2>1. s_seq' \in 0 .. SeqMod - 1 BY <1>3, PingAssumption DEF SendBuild, NextSeq, TypeOK
  <2>2. s_result' \in Ages \cup {None} /\ wire' \in SUBSET Ages BY <1>3 DEF SendBuild, Older
  <2>3. pc' = "built" /\ ~s_waiting' BY <1>3 DEF SendBuild, Armed
  <2>. QED BY <1>3, <2>1, <2>2, <2>3 DEF SendBuild, TypeOK, AnswerIsOwn, Armed, PCs
<1>4. CASE SendOutput
  <2>0. 0 \in Ages BY PingAssumption DEF Ages
  <2>1. wire' \in SUBSET Ages BY <1>4, <2>0 DEF SendOutput, TypeOK
  <2>. QED BY <1>4, <2>1 DEF SendOutput, ValidAtSend, TypeOK, AnswerIsOwn, Armed, PCs
<1>5. CASE SendFailed
  BY <1>5, AfterAttemptType DEF SendFailed, TypeOK, AnswerIsOwn, Armed, PCs
<1>6. CASE WaitReply
  <2>1. Own(s_result) /\ pc = "wait" BY <1>6 DEF WaitReply, Armed
  <2>2. ~s_reply_valid' /\ answer' = s_result /\ UNCHANGED s_waiting BY <1>6 DEF WaitReply
  <2>3. TypeOK' BY <1>6, <2>1, AfterAttemptType DEF WaitReply, TypeOK, PCs, Own
  <2>4. AnswerIsOwn' BY <2>1, <2>2 DEF AnswerIsOwn, Own
  <2>5. ~s_waiting
    BY <1>6 DEF WaitReply, Armed
  <2>. QED BY <2>2, <2>3, <2>4, <2>5 DEF Armed
<1>7. CASE WaitExpires
  BY <1>7 DEF WaitExpires, TypeOK, AnswerIsOwn, Armed, PCs
<1>8. CASE WaitTimeout
  BY <1>8, AfterAttemptType DEF WaitTimeout, WaitingAfterTimeout, TypeOK, AnswerIsOwn, Armed, PCs
<1>9. CASE PauseRead
  BY <1>9, PingAssumption DEF PauseRead, Return, TypeOK, AnswerIsOwn, Armed, PCs
<1>10. CASE PauseEmpty \/ PauseOver
  BY <1>10 DEF PauseEmpty, PauseOver, TypeOK, AnswerIsOwn, Armed, PCs
<1>11. ASSUME NEW a \in wire, ping_recv(a) PROVE PingIInv'
  <2>1. a \in Ages /\ a \in Nat BY DEF TypeOK, Ages
  <2>2. a = 0 \/ a >= SeqMod BY <1>11, <2>1, SeqnoOfOwn DEF ping_recv, TypeOK
  <2>. QED BY <1>11, <2>1, <2>2 DEF ping_recv, TypeOK, AnswerIsOwn, Armed, Own
<1>12. ASSUME NEW b \in Keys, TypeKey(b) PROVE PingIInv'
  BY <1>12 DEF TypeKey, TypeOK, AnswerIsOwn, Armed
<1>13. CASE UNCHANGED vars
  BY <1>13 DEF vars, TypeOK, AnswerIsOwn, Armed
<1>. QED
  BY <1>1, <1>2, <1>3, <1>4, <1>5, <1>6, <1>7, <1>8, <1>9, <1>10, <1>11, <1>12, <1>13 DEF Next, Steps

(* The board comes up with nothing awaited.                                *)
LEMMA PingInit ==
  ASSUME Init
  PROVE  PingIInv
<1>1. s_seq \in 0 .. SeqMod - 1 /\ attempt \in 0 .. PING_ATTEMPT_COUNT BY PingAssumption DEF Init
<1>2. TypeOK BY <1>1 DEF Init, TypeOK, PCs
<1>3. AnswerIsOwn /\ Armed BY DEF Init, AnswerIsOwn, Armed
<1>. QED BY <1>2, <1>3 DEF PingIInv

(* The inductive invariant holds in every reachable state.                 *)
THEOREM PingInvariance == Spec => []PingIInv
<1>1. Init => PingIInv BY PingInit
<1>2. PingIInv /\ [Next]_vars => PingIInv' BY PingStep
<1>. QED BY <1>1, <1>2, PTL DEF Spec

(* s_seq keeps its width, and the calls stay within their attempts.        *)
THEOREM PingTypesCorrect == Spec => []TypeOK
<1>1. PingIInv => TypeOK BY DEF PingIInv
<1>2. Spec => []PingIInv BY PingInvariance
<1>. QED BY <1>1, <1>2, PTL

(* ping_wait_reply never returns the reply to an earlier request, however  *)
(* late or often it comes, while fewer than SeqMod requests are in between.*)
THEOREM AnswerIsOwnCorrect == Spec => []AnswerIsOwn
<1>1. PingIInv => AnswerIsOwn BY DEF PingIInv
<1>2. Spec => []PingIInv BY PingInvariance
<1>. QED BY <1>1, <1>2, PTL

(* No reply is consumed while no request is awaited.                       *)
THEOREM LateReplyNotTakenCorrect == Spec => LateReplyNotTaken
<1>1. ASSUME PingIInv, Next, ~s_reply_valid, s_reply_valid' PROVE pc \in {"failed", "wait", "expired"}
  <2>1. \E a \in wire : ping_recv(a)
    BY <1>1 DEF Next, Steps, Start, SendNoMem, SendBuild, SendOutput, ValidAtSend,
                SendFailed, WaitReply, WaitExpires, WaitTimeout, PauseRead, PauseEmpty,
                PauseOver, TypeKey, pingVars
  <2>. QED BY <1>1, <2>1 DEF ping_recv, PingIInv, Armed
<1>2. PingIInv /\ [Next]_vars
        => [~s_reply_valid /\ s_reply_valid' => pc \in {"failed", "wait", "expired"}]_vars
  BY <1>1
<1>3. Spec => []PingIInv BY PingInvariance
<1>. QED BY <1>2, <1>3, PTL DEF Spec, LateReplyNotTaken
===============================================================================
