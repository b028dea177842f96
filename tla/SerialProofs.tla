---------------------------- MODULE SerialProofs -----------------------------
(***************************************************************************)
(* Proofs about the two ends of the serial line.  Panel: the command lock, *)
(* the refresh and the collector of lines, for any sessions, any number of *)
(* handlers and interfaces.  CommandChannel: the main loop and             *)
(* cmd_channel_feed, for any hosts, lines, overruns and presses.           *)
(***************************************************************************)
EXTENDS Panel, CommandChannel, SequenceTheorems, FiniteSetTheorems, TLAPS

Ops == {"LIST", "ADD", "PING", "PINGT", "SEND", "RAW", "DEL", "SET"}
Cards == [idx : Nat, id : 1 .. MaxId]
Cmds == {[op |-> o] : o \in {"LIST", "ADD", "PING", "PINGT", "SEND", "RAW"}}
          \cup [op : {"DEL", "SET"}, idx : Nat, target : 1 .. MaxId]
BoardLines == [own : BOOLEAN, cmd : Cmds]
PanelLines == [kind : {"BEGIN"}, own : BOOLEAN]
                \cup [kind : {"NETIF"}, own : BOOLEAN, card : Cards]
                \cup [kind : {"END", "ERR"}, op : Ops, ok : BOOLEAN, own : BOOLEAN]

(* The first cards of a listing p that the board could have given.         *)
Part(s, p) == s \in Seq(Cards) /\ Len(s) <= Len(p) /\ \A i \in 1 .. Len(s) : s[i] = p[i]
Known(s) == \E p \in past : Part(s, p)

HandlerStates == [st : {"idle", "queue", "sent", "ok", "broken"}, cmds : Seq(Cmds)]

Typed ==
  /\ session \in Sessions
  /\ open \in BOOLEAN /\ collecting \in BOOLEAN /\ refreshBusy \in BOOLEAN
  /\ late \in Nat /\ cuts \in Nat /\ raws \in Nat
  /\ job \in [Tasks -> HandlerStates]
  /\ holder \in Tasks \cup {NONE}
  /\ tcs \in [st : {"none", "pending", "done", "failed"}, ok : BOOLEAN, lines : Seq(Cards),
              own : BOOLEAN, op : Ops \cup {"NONE"}]
  /\ toBoard \in Seq(BoardLines) /\ toPanel \in Seq(PanelLines)

BoardOK ==
  /\ netifs \in Seq(1 .. MaxId) /\ nextId \in 2 .. MaxId + 1
  /\ past \subseteq Seq(Cards) /\ Listing(netifs) \in past

-----------------------------------------------------------------------------
(* A handler is idle, refreshes, or runs commands of the user; the timer   *)
(* only ever refreshes.                                                    *)
UserCmds(c) == c # << >> /\ \A i \in 1 .. Len(c) : c[i].op \notin {"LIST", "RAW"}

JobOK(j, b) ==
  \/ b = Idle
  \/ b.cmds = <<LIST>> /\ b.st \in {"queue", "sent"}
  \/ j \in Jobs /\ UserCmds(b.cmds) /\ b.st \in {"queue", "sent", "ok", "broken"}

(* Who has the lock waits for its command, and nobody else does.           *)
Locked ==
  /\ holder = NONE <=> tcs.st = "none"
  /\ \A j \in Tasks : job[j].st = "sent" <=> holder = j

(* refreshBusy is the lock of the refresh.                                 *)
Refreshing ==
  /\ refreshBusy <=> \E j \in Tasks : job[j].cmds = <<LIST>>
  /\ \A j, k \in Tasks : job[j].cmds = <<LIST>> /\ job[k].cmds = <<LIST>> => j = k

Handlers == (\A j \in Tasks : JobOK(j, job[j])) /\ Locked /\ Refreshing

-----------------------------------------------------------------------------
(* Whatever has been cancelled, a card on the way has the cards before it  *)
(* on that listing in front of it, back to the BEGIN line, as far as they  *)
(* are not collected already.                                              *)
InFrame(L, k, p, on, C) ==
  LET d == L[k].card.idx IN
  /\ d \in 1 .. Len(p)
  /\ \A j \in 0 .. d - 1 : j < k => L[k - j].kind = "NETIF" /\ L[k - j].card = p[d - j]
  /\ d < k => L[k - d].kind = "BEGIN"
  /\ d >= k /\ on => Part(C, p) /\ Len(C) = d - k

Framed(L, on, C, P) ==
  \A k \in 1 .. Len(L) : L[k].kind = "NETIF" => \E p \in P : InFrame(L, k, p, on, C)

Views ==
  /\ Known(shown) /\ Known(collectLines) /\ Known(tcs.lines)
  /\ Framed(toPanel, collecting, collectLines, past)

-----------------------------------------------------------------------------
(* As long as nothing came late, was cancelled or typed past the lock,     *)
(* the pending command c or its answer is all there is on the line.        *)
Undisturbed == late = 0 /\ cuts = 0 /\ raws = 0

(* The rest of the answer; of a listing, with what was collected of it.    *)
Listed(L, p, on, C) ==
  /\ Len(L) <= Len(p) + 2
  /\ Len(L) <= Len(p) + 1 => on /\ Part(C, p) /\ Len(C) = Len(p) + 1 - Len(L)
  /\ \A k \in 1 .. Len(L) - 1 :
       LET d == Len(p) + 1 - Len(L) + k IN
       /\ d = 0 => L[k].kind = "BEGIN"
       /\ d > 0 => L[k].kind = "NETIF" /\ L[k].card = p[d]

Coming(L, op, on, C, P) ==
  /\ L # << >> /\ L[Len(L)].kind = "END" /\ L[Len(L)].op = op
  /\ \A k \in 1 .. Len(L) : L[k].own
  /\ \A k \in 1 .. Len(L) - 1 : L[k].kind \in {"BEGIN", "NETIF"}
  /\ op = "LIST" => \E p \in P : Listed(L, p, on, C)

Underway(c) ==
  \/ toBoard = << >> /\ toPanel = << >>
  \/ toBoard = <<[own |-> TRUE, cmd |-> c]>> /\ toPanel = << >>
  \/ toBoard = << >> /\ Coming(toPanel, c.op, collecting, collectLines, past)

Answered(c) ==
  /\ tcs.own /\ tcs.op = c.op
  /\ tcs.op = "LIST" => tcs.lines \in past

OwnOnly ==
  /\ tcs.st # "pending" => toBoard = << >> /\ toPanel = << >>
  /\ tcs.st = "pending" => Underway(Head(job[holder].cmds))
  /\ tcs.st = "done" => Answered(Head(job[holder].cmds))

IInv == Typed /\ BoardOK /\ Handlers /\ Views /\ (Undisturbed => OwnOnly)

-----------------------------------------------------------------------------
(* Lines.                                                                  *)

(* The fields of a line to the panel, and the line without its owner.      *)
LEMMA LineFacts ==
  ASSUME NEW l \in PanelLines
  PROVE  /\ l.kind \in {"BEGIN", "NETIF", "END", "ERR"} /\ l.own \in BOOLEAN
         /\ l.kind = "NETIF" => l \in [kind : {"NETIF"}, own : BOOLEAN, card : Cards]
         /\ l.kind \in {"END", "ERR"} => l.op \in Ops /\ l.ok \in BOOLEAN
         /\ [l EXCEPT !.own = FALSE] \in PanelLines
         /\ [l EXCEPT !.own = FALSE].kind = l.kind
         /\ l.kind = "NETIF" => [l EXCEPT !.own = FALSE].card = l.card
<1>1. CASE l \in [kind : {"BEGIN"}, own : BOOLEAN] BY <1>1 DEF PanelLines
<1>2. CASE l \in [kind : {"NETIF"}, own : BOOLEAN, card : Cards] BY <1>2 DEF PanelLines
<1>3. CASE l \in [kind : {"END", "ERR"}, op : Ops, ok : BOOLEAN, own : BOOLEAN] BY <1>3 DEF PanelLines
<1>. QED BY <1>1, <1>2, <1>3 DEF PanelLines

(* What is disowned stays what it was.                                     *)
SameLines(L, M) ==
  /\ M \in Seq(PanelLines) /\ Len(M) = Len(L)
  /\ \A k \in 1 .. Len(L) : M[k].kind = L[k].kind /\ (L[k].kind = "NETIF" => M[k].card = L[k].card)

(* Disowning the lines to the panel changes nothing else in them.          *)
LEMMA DisownedLines ==
  ASSUME NEW L \in Seq(PanelLines)
  PROVE  SameLines(L, Disown(L)) /\ (L = << >> => Disown(L) = << >>)
<1>1. DOMAIN L = 1 .. Len(L) /\ Len(L) \in Nat OBVIOUS
<1>2. PICK M : M = Disown(L) OBVIOUS
<1>3. M = [k \in 1 .. Len(L) |-> [L[k] EXCEPT !.own = FALSE]] BY <1>1, <1>2 DEF Disown
<1>4. \A k \in 1 .. Len(L) : L[k] \in PanelLines OBVIOUS
<1>5. \A k \in 1 .. Len(L) : M[k] \in PanelLines BY <1>3, <1>4, LineFacts
<1>6. M \in Seq(PanelLines) /\ Len(M) = Len(L) BY <1>1, <1>3, <1>5
<1>7. \A k \in 1 .. Len(L) : M[k].kind = L[k].kind /\ (L[k].kind = "NETIF" => M[k].card = L[k].card)
  BY <1>3, <1>4, LineFacts
<1>8. L = << >> => M = << >> BY <1>6
<1>. QED BY <1>2, <1>6, <1>7, <1>8 DEF SameLines

(* Disowning the commands leaves commands.                                 *)
LEMMA DisownedCmds ==
  ASSUME NEW L \in Seq(BoardLines)
  PROVE  Disown(L) \in Seq(BoardLines) /\ (L = << >> => Disown(L) = << >>)
<1>1. DOMAIN L = 1 .. Len(L) /\ Len(L) \in Nat OBVIOUS
<1>2. PICK M : M = Disown(L) OBVIOUS
<1>3. M = [k \in 1 .. Len(L) |-> [L[k] EXCEPT !.own = FALSE]] BY <1>1, <1>2 DEF Disown
<1>4. \A k \in 1 .. Len(L) : L[k] \in BoardLines OBVIOUS
<1>5. \A k \in 1 .. Len(L) : M[k] \in BoardLines BY <1>3, <1>4 DEF BoardLines
<1>6. M \in Seq(BoardLines) /\ Len(M) = Len(L) BY <1>1, <1>3, <1>5
<1>7. L = << >> => M = << >> BY <1>6
<1>. QED BY <1>2, <1>6, <1>7

(* c is a followed by b.                                                   *)
Joins(c, a, b) ==
  /\ c = a \o b /\ c \in Seq(PanelLines) /\ Len(c) = Len(a) + Len(b)
  /\ \A i \in 1 .. Len(a) : c[i] = a[i]
  /\ \A i \in 1 .. Len(b) : c[Len(a) + i] = b[i]

(* What is where in two runs of lines put together.                        *)
LEMMA Joined ==
  ASSUME NEW a \in Seq(PanelLines), NEW b \in Seq(PanelLines)
  PROVE  Joins(a \o b, a, b)
<1>1. Len(a) \in Nat /\ Len(b) \in Nat OBVIOUS
<1>2. a \o b \in Seq(PanelLines) /\ Len(a \o b) = Len(a) + Len(b) OBVIOUS
<1>3. \A i \in 1 .. Len(a) : (a \o b)[i] = a[i] OBVIOUS
<1>4. ASSUME NEW i \in 1 .. Len(b) PROVE (a \o b)[Len(a) + i] = b[i]
  <2>1. Len(a) + i \in 1 .. Len(a) + Len(b) /\ ~(Len(a) + i <= Len(a)) /\ Len(a) + i - Len(a) = i BY <1>1
  <2>. QED BY <2>1
<1>. QED BY <1>2, <1>3, <1>4 DEF Joins

(* An answer: BEGIN, one line for each card, END.                          *)
IsFrame(F, l, cards, ok) ==
  /\ F \in Seq(PanelLines) /\ Len(F) = Len(cards) + 2
  /\ F[1].kind = "BEGIN"
  /\ \A i \in 1 .. Len(cards) : F[i + 1].kind = "NETIF" /\ F[i + 1].card = cards[i]
  /\ F[Len(cards) + 2].kind = "END" /\ F[Len(cards) + 2].op = l.cmd.op
  /\ \A i \in 1 .. Len(cards) + 2 : F[i].own = l.own

(* The lines of an answer: BEGIN, the cards, END or ERR.                   *)
LEMMA FrameFacts ==
  ASSUME NEW l, l.own \in BOOLEAN, l.cmd.op \in Ops, NEW cards \in Seq(Cards), NEW ok \in BOOLEAN
  PROVE  IsFrame(Frame(l, cards, ok), l, cards, ok)
<1>1. PICK n \in Nat : n = Len(cards) /\ DOMAIN cards = 1 .. n OBVIOUS
<1>2. PICK A \in Seq(PanelLines) :
        /\ A = <<[kind |-> "BEGIN", own |-> l.own]>>
        /\ Len(A) = 1 /\ A[1].kind = "BEGIN" /\ A[1].own = l.own
  <2>1. [kind |-> "BEGIN", own |-> l.own] \in PanelLines BY DEF PanelLines
  <2>2. PICK r \in PanelLines : r = [kind |-> "BEGIN", own |-> l.own] BY <2>1
  <2>3. <<r>> \in Seq(PanelLines) /\ Len(<<r>>) = 1 /\ <<r>>[1] = r OBVIOUS
  <2>4. r.kind = "BEGIN" /\ r.own = l.own BY <2>2
  <2>. QED BY <2>2, <2>3, <2>4
<1>3. PICK E \in Seq(PanelLines) :
        /\ E = <<[kind |-> "END", op |-> l.cmd.op, ok |-> ok, own |-> l.own]>>
        /\ Len(E) = 1 /\ E[1].kind = "END" /\ E[1].own = l.own /\ E[1].op = l.cmd.op
  <2>1. [kind |-> "END", op |-> l.cmd.op, ok |-> ok, own |-> l.own] \in PanelLines BY DEF PanelLines
  <2>2. PICK r \in PanelLines : r = [kind |-> "END", op |-> l.cmd.op, ok |-> ok, own |-> l.own] BY <2>1
  <2>3. <<r>> \in Seq(PanelLines) /\ Len(<<r>>) = 1 /\ <<r>>[1] = r OBVIOUS
  <2>4. r.kind = "END" /\ r.own = l.own /\ r.op = l.cmd.op BY <2>2
  <2>. QED BY <2>2, <2>3, <2>4
<1>4. PICK B \in Seq(PanelLines) :
        /\ B = [i \in 1 .. n |-> [kind |-> "NETIF", own |-> l.own, card |-> cards[i]]]
        /\ Len(B) = n
        /\ \A i \in 1 .. n : B[i].kind = "NETIF" /\ B[i].own = l.own /\ B[i].card = cards[i]
  <2>1. PICK B : B = [i \in 1 .. n |-> [kind |-> "NETIF", own |-> l.own, card |-> cards[i]]] OBVIOUS
  <2>2. \A i \in 1 .. n : cards[i] \in Cards BY <1>1
  <2>3. \A i \in 1 .. n : B[i] \in PanelLines BY <2>1, <2>2 DEF PanelLines
  <2>4. B \in Seq(PanelLines) /\ Len(B) = n BY <1>1, <2>1, <2>3
  <2>5. \A i \in 1 .. n : B[i].kind = "NETIF" /\ B[i].own = l.own /\ B[i].card = cards[i] BY <2>1
  <2>. QED BY <2>1, <2>4, <2>5
<1>5. PICK C \in Seq(PanelLines) : C = A \o B /\ Joins(C, A, B) BY Joined, ZenonT(30) DEF Joins
<1>6. PICK F \in Seq(PanelLines) : F = C \o E /\ Joins(F, C, E) BY Joined, ZenonT(30) DEF Joins
<1>7. Frame(l, cards, ok) = F BY <1>1, <1>2, <1>3, <1>4, <1>5, <1>6 DEF Frame
<1>8. Len(C) = n + 1 /\ C[1] = A[1] /\ \A i \in 1 .. n : C[i + 1] = B[i]
  <2>1. Len(C) = n + 1 /\ C[1] = A[1] BY <1>2, <1>4, <1>5 DEF Joins
  <2>2. \A i \in 1 .. n : C[1 + i] = B[i] BY <1>2, <1>4, <1>5 DEF Joins
  <2>3. \A i \in 1 .. n : 1 + i = i + 1 OBVIOUS
  <2>. QED BY <2>1, <2>2, <2>3
<1>9. Len(F) = n + 2 /\ F[1] = A[1] /\ \A i \in 1 .. n : F[i + 1] = B[i]
  <2>1. Len(F) = n + 2 BY <1>3, <1>6, <1>8 DEF Joins
  <2>2. \A i \in 1 .. n + 1 : F[i] = C[i] BY <1>6, <1>8 DEF Joins
  <2>3. F[1] = C[1] BY <2>2
  <2>4. \A i \in 1 .. n : F[i + 1] = C[i + 1]
    <3>1. \A i \in 1 .. n : i + 1 \in 1 .. n + 1 OBVIOUS
    <3>. QED BY <2>2, <3>1
  <2>. QED BY <1>8, <2>1, <2>3, <2>4
<1>10. F[n + 2] = E[1]
  <2>1. F[n + 1 + 1] = E[1] BY <1>3, <1>6, <1>8, SMTT(30) DEF Joins
  <2>2. n + 1 + 1 = n + 2 OBVIOUS
  <2>. QED BY <2>1, <2>2
<1>11. ASSUME NEW i \in 1 .. n + 2 PROVE F[i].own = l.own
  <2>1. CASE i = 1 BY <1>2, <1>9, <2>1
  <2>2. CASE i = n + 2 BY <1>3, <1>10, <2>2
  <2>3. CASE i # 1 /\ i # n + 2
    <3>1. PICK k \in 1 .. n : i = k + 1
      <4>1. i - 1 \in 1 .. n /\ i = (i - 1) + 1 BY <2>3
      <4>. QED BY <4>1
    <3>. QED BY <1>4, <1>9, <3>1
  <2>. QED BY <2>1, <2>2, <2>3
<1>12. IsFrame(F, l, cards, ok) BY <1>1, <1>2, <1>3, <1>4, <1>9, <1>10, <1>11 DEF IsFrame
<1>. QED BY <1>7, <1>12

(* A listing numbers the interfaces from 1.                                *)
LEMMA ListingFacts ==
  ASSUME NEW ns \in Seq(1 .. MaxId)
  PROVE  /\ Listing(ns) \in Seq(Cards) /\ Len(Listing(ns)) = Len(ns)
         /\ \A i \in 1 .. Len(ns) : Listing(ns)[i].idx = i
<1>1. PICK n \in Nat : n = Len(ns) /\ DOMAIN ns = 1 .. n OBVIOUS
<1>2. PICK M : M = [i \in 1 .. n |-> [idx |-> i, id |-> ns[i]]] OBVIOUS
<1>3. Listing(ns) = M BY <1>1, <1>2 DEF Listing
<1>4. \A i \in 1 .. n : M[i] \in Cards
  <2>1. \A i \in 1 .. n : ns[i] \in 1 .. MaxId BY <1>1, PanelAssumption
  <2>. QED BY <1>2, <2>1 DEF Cards
<1>5. M \in Seq(Cards) /\ Len(M) = n BY <1>1, <1>2, <1>4
<1>6. \A i \in 1 .. n : M[i].idx = i BY <1>2
<1>. QED BY <1>1, <1>3, <1>5, <1>6

-----------------------------------------------------------------------------
(* Cards on the way.                                                       *)

(* A card stays in its frame when only owners change.                      *)
LEMMA InFrameSame ==
  ASSUME NEW L, NEW M, NEW k \in Nat, L[k].kind = "NETIF", NEW on, NEW on1, NEW C, NEW p \in Seq(Cards),
         L[k].card \in Cards, k > 0,
         \A i \in 1 .. k : M[i].kind = L[i].kind /\ (L[i].kind = "NETIF" => M[i].card = L[i].card),
         on1 => on, InFrame(L, k, p, on, C)
  PROVE  InFrame(M, k, p, on1, C)
<1>1. PICK d \in Nat : d = L[k].card.idx BY DEF Cards
<1>2. M[k].card.idx = d BY <1>1
<1>3. /\ d \in 1 .. Len(p)
      /\ \A j \in 0 .. d - 1 : j < k => L[k - j].kind = "NETIF" /\ L[k - j].card = p[d - j]
      /\ d < k => L[k - d].kind = "BEGIN"
      /\ d >= k /\ on => Part(C, p) /\ Len(C) = d - k
  BY <1>1 DEF InFrame
<1>4. ASSUME NEW j \in 0 .. d - 1, j < k PROVE M[k - j].kind = "NETIF" /\ M[k - j].card = p[d - j]
  <2>1. k - j \in 1 .. k BY <1>4
  <2>. QED BY <1>3, <1>4, <2>1
<1>5. ASSUME d < k PROVE M[k - d].kind = "BEGIN"
  <2>1. k - d \in 1 .. k BY <1>3, <1>5
  <2>. QED BY <1>3, <1>5, <2>1
<1>. QED BY <1>2, <1>3, <1>4, <1>5 DEF InFrame

(* Losing the owner, no longer collecting, and changes of the list do no   *)
(* harm to what is on the way.                                             *)
LEMMA FramedSame ==
  ASSUME NEW L \in Seq(PanelLines), NEW M, SameLines(L, M), NEW on, NEW on1, on1 => on, NEW C,
         NEW P, NEW Q, P \subseteq Q, P \subseteq Seq(Cards), Framed(L, on, C, P)
  PROVE  Framed(M, on1, C, Q)
<1>1. SUFFICES ASSUME NEW k \in 1 .. Len(M), M[k].kind = "NETIF"
               PROVE  \E p \in Q : InFrame(M, k, p, on1, C)
  BY DEF Framed
<1>2. Len(M) = Len(L) /\ Len(L) \in Nat /\ k \in 1 .. Len(L) BY DEF SameLines
<1>3. L[k].kind = "NETIF" /\ L[k] \in PanelLines BY <1>1, <1>2 DEF SameLines
<1>4. L[k].card \in Cards BY <1>3, LineFacts
<1>5. PICK p \in P : InFrame(L, k, p, on, C) BY <1>2, <1>3 DEF Framed
<1>6. \A i \in 1 .. k : M[i].kind = L[i].kind /\ (L[i].kind = "NETIF" => M[i].card = L[i].card)
  <2>1. \A i \in 1 .. k : i \in 1 .. Len(L) BY <1>2
  <2>. QED BY <2>1 DEF SameLines
<1>7. p \in Seq(Cards) /\ k \in Nat /\ k > 0 BY <1>2
<1>8. InFrame(M, k, p, on1, C) BY <1>3, <1>4, <1>5, <1>6, <1>7, InFrameSame
<1>. QED BY <1>8

(* Lines that bring all they need with them.                               *)
Brings(F, m, p) ==
  LET d == F[m].card.idx IN
  /\ d \in 1 .. Len(p) /\ d < m /\ F[m - d].kind = "BEGIN"
  /\ \A j \in 0 .. d - 1 : F[m - j].kind = "NETIF" /\ F[m - j].card = p[d - j]
Whole(F, P) == \A m \in 1 .. Len(F) : F[m].kind = "NETIF" => \E p \in P : Brings(F, m, p)

(* Whole frames may follow on the line.                                    *)
LEMMA FramedJoin ==
  ASSUME NEW L \in Seq(PanelLines), NEW F \in Seq(PanelLines), NEW on, NEW C,
         NEW P, P \subseteq Seq(Cards), Framed(L, on, C, P), Whole(F, P)
  PROVE  Framed(L \o F, on, C, P)
<1>1. PICK M \in Seq(PanelLines) : M = L \o F /\ Joins(M, L, F) BY Joined DEF Joins
<1>2. Len(M) = Len(L) + Len(F) /\ Len(L) \in Nat /\ Len(F) \in Nat BY <1>1 DEF Joins
<1>3. SUFFICES ASSUME NEW k \in 1 .. Len(M), M[k].kind = "NETIF"
               PROVE  \E p \in P : InFrame(M, k, p, on, C)
  BY <1>1 DEF Framed
<1>4. CASE k <= Len(L)
  <2>1. k \in 1 .. Len(L) /\ k \in Nat /\ k > 0 BY <1>2, <1>4
  <2>2. \A i \in 1 .. k : M[i] = L[i]
    <3>1. \A i \in 1 .. k : i \in 1 .. Len(L) BY <2>1
    <3>. QED BY <1>1, <3>1 DEF Joins
  <2>3. L[k].kind = "NETIF" /\ L[k] \in PanelLines BY <1>3, <2>1, <2>2
  <2>4. L[k].card \in Cards BY <2>3, LineFacts
  <2>5. PICK p \in P : InFrame(L, k, p, on, C) BY <2>1, <2>3 DEF Framed
  <2>6. \A i \in 1 .. k : M[i].kind = L[i].kind /\ (L[i].kind = "NETIF" => M[i].card = L[i].card) BY <2>2
  <2>7. p \in Seq(Cards) OBVIOUS
  <2>8. InFrame(M, k, p, on, C) BY <2>1, <2>3, <2>4, <2>5, <2>6, <2>7, InFrameSame
  <2>. QED BY <2>8
<1>5. CASE k > Len(L)
  <2>1. PICK n \in Nat : n = Len(L) BY <1>2
  <2>2. PICK m \in 1 .. Len(F) : k = n + m
    <3>1. k - n \in 1 .. Len(F) /\ k = n + (k - n) BY <1>2, <1>5, <2>1
    <3>. QED BY <3>1
  <2>3. \A i \in 1 .. Len(F) : M[n + i] = F[i] BY <1>1, <2>1 DEF Joins
  <2>4. M[k] = F[m] BY <2>2, <2>3
  <2>5. F[m].kind = "NETIF" BY <1>3, <2>4
  <2>6. PICK p \in P : Brings(F, m, p) BY <2>5 DEF Whole
  <2>7. F[m].card \in Cards
    <3>1. F[m] \in PanelLines OBVIOUS
    <3>. QED BY <2>5, <3>1, LineFacts
  <2>8. PICK d \in Nat : d = F[m].card.idx BY <2>7 DEF Cards
  <2>9. /\ d \in 1 .. Len(p) /\ d < m /\ F[m - d].kind = "BEGIN"
        /\ \A j \in 0 .. d - 1 : F[m - j].kind = "NETIF" /\ F[m - j].card = p[d - j]
    BY <2>6, <2>8 DEF Brings
  <2>10. d < k /\ ~(d >= k) BY <1>2, <2>2, <2>9
  <2>11. M[k - d].kind = "BEGIN"
    <3>1. m - d \in 1 .. Len(F) /\ k - d = n + (m - d) BY <1>2, <2>2, <2>9
    <3>. QED BY <2>3, <2>9, <3>1
  <2>12. ASSUME NEW j \in 0 .. d - 1 PROVE M[k - j].kind = "NETIF" /\ M[k - j].card = p[d - j]
    <3>1. m - j \in 1 .. Len(F) /\ k - j = n + (m - j) BY <1>2, <2>2, <2>9
    <3>. QED BY <2>3, <2>9, <3>1
  <2>13. M[k].card.idx = d BY <2>4, <2>8
  <2>14. InFrame(M, k, p, on, C) BY <2>9, <2>10, <2>11, <2>12, <2>13 DEF InFrame
  <2>. QED BY <2>14
<1>. QED BY <1>2, <1>4, <1>5

(* An answer is a whole frame.                                             *)
LEMMA FrameWhole ==
  ASSUME NEW l, NEW cards \in Seq(Cards), NEW ok, NEW F, IsFrame(F, l, cards, ok), NEW P,
         cards = << >> \/ (cards \in P /\ \A i \in 1 .. Len(cards) : cards[i].idx = i)
  PROVE  Whole(F, P)
<1>1. PICK n \in Nat : n = Len(cards) OBVIOUS
<1>2. SUFFICES ASSUME NEW m \in 1 .. Len(F), F[m].kind = "NETIF" PROVE \E p \in P : Brings(F, m, p)
  BY DEF Whole
<1>3. /\ Len(F) = n + 2 /\ F[1].kind = "BEGIN" /\ F[n + 2].kind = "END"
      /\ \A i \in 1 .. n : F[i + 1].kind = "NETIF" /\ F[i + 1].card = cards[i]
  BY <1>1 DEF IsFrame
<1>4. PICK i \in 1 .. n : m = i + 1
  <2>1. m # 1 /\ m # n + 2 BY <1>2, <1>3
  <2>2. m - 1 \in 1 .. n /\ m = (m - 1) + 1 BY <1>3, <2>1
  <2>. QED BY <2>2
<1>5. cards \in P /\ \A j \in 1 .. n : cards[j].idx = j
  <2>1. cards # << >> BY <1>1, <1>4
  <2>. QED BY <1>1, <2>1
<1>6. F[m].card = cards[i] /\ F[m].card.idx = i BY <1>3, <1>4, <1>5
<1>7. i \in 1 .. Len(cards) /\ i < m BY <1>1, <1>4
<1>8. F[m - i].kind = "BEGIN"
  <2>1. m - i = 1 BY <1>4
  <2>. QED BY <1>3, <2>1
<1>9. ASSUME NEW j \in 0 .. i - 1 PROVE F[m - j].kind = "NETIF" /\ F[m - j].card = cards[i - j]
  <2>1. i - j \in 1 .. n /\ m - j = (i - j) + 1 BY <1>4
  <2>. QED BY <1>3, <2>1
<1>10. Brings(F, m, cards) BY <1>6, <1>7, <1>8, <1>9 DEF Brings
<1>. QED BY <1>5, <1>10

(* T is L without its first line.                                          *)
Behind(T, L) ==
  /\ T \in Seq(PanelLines) /\ Len(L) = Len(T) + 1
  /\ \A i \in 1 .. Len(T) : T[i] = L[i + 1]

(* What is left behind the first line.                                     *)
LEMMA TailBehind ==
  ASSUME NEW L \in Seq(PanelLines), L # << >>
  PROVE  Behind(Tail(L), L) /\ Head(L) = L[1] /\ L[1] \in PanelLines
<1>1. Tail(L) \in Seq(PanelLines) /\ Len(Tail(L)) = Len(L) - 1 /\ Len(L) \in Nat OBVIOUS
<1>2. \A i \in 1 .. Len(Tail(L)) : Tail(L)[i] = L[i + 1] BY HeadTailProperties
<1>3. Head(L) = L[1] /\ L[1] \in PanelLines OBVIOUS
<1>. QED BY <1>1, <1>2, <1>3 DEF Behind

(* ProcessLine's part of the collector for the line h.                     *)
Collects(h, on, C, on1, C1) ==
  /\ h.kind = "BEGIN" => on1 = TRUE /\ C1 = << >>
  /\ h.kind = "NETIF" => on1 = on /\ (on => C1 = Append(C, h.card))

(* No cards are the beginning of every listing.                            *)
LEMMA PartEmpty ==
  ASSUME NEW p \in Seq(Cards)
  PROVE  Part(<< >>, p) /\ Len(<< >>) = 0
BY DEF Part

(* The next card makes a longer beginning.                                 *)
LEMMA PartGrows ==
  ASSUME NEW p \in Seq(Cards), NEW C, Part(C, p), NEW d \in 1 .. Len(p), Len(C) = d - 1, NEW c, c = p[d]
  PROVE  Part(Append(C, c), p) /\ Len(Append(C, c)) = d
<1>1. C \in Seq(Cards) /\ Len(C) = d - 1 /\ \A i \in 1 .. Len(C) : C[i] = p[i] BY DEF Part
<1>2. c \in Cards OBVIOUS
<1>3. PICK D : D = Append(C, c) OBVIOUS
<1>4. D \in Seq(Cards) /\ Len(D) = d BY <1>1, <1>2, <1>3
<1>5. \A i \in 1 .. d - 1 : D[i] = C[i] BY <1>1, <1>3
<1>6. D[d] = c BY <1>1, <1>3
<1>7. ASSUME NEW i \in 1 .. d PROVE D[i] = p[i]
  <2>1. i = d \/ i \in 1 .. d - 1 OBVIOUS
  <2>. QED BY <1>1, <1>5, <1>6, <2>1
<1>. QED BY <1>3, <1>4, <1>7 DEF Part

(* The collector takes the first line: cards stay framed.                  *)
LEMMA FramedPop ==
  ASSUME NEW L \in Seq(PanelLines), NEW T \in Seq(PanelLines), Behind(T, L), NEW on, NEW C, NEW on1, NEW C1,
         NEW P, P \subseteq Seq(Cards), Framed(L, on, C, P), Collects(L[1], on, C, on1, C1)
  PROVE  Framed(T, on1, C1, P)
<1>1. Len(L) = Len(T) + 1 /\ Len(T) \in Nat /\ \A i \in 1 .. Len(T) : T[i] = L[i + 1] BY DEF Behind
<1>2. SUFFICES ASSUME NEW k \in 1 .. Len(T), T[k].kind = "NETIF"
               PROVE  \E p \in P : InFrame(T, k, p, on1, C1)
  BY DEF Framed
<1>3. T[k] = L[k + 1] /\ k + 1 \in 1 .. Len(L) BY <1>1
<1>4. PICK p \in P : InFrame(L, k + 1, p, on, C) BY <1>2, <1>3 DEF Framed
<1>5. T[k].card \in Cards
  <2>1. T[k] \in PanelLines OBVIOUS
  <2>. QED BY <1>2, <2>1, LineFacts
<1>6. PICK d \in Nat : d = T[k].card.idx BY <1>5 DEF Cards
<1>7. /\ d \in 1 .. Len(p)
      /\ \A j \in 0 .. d - 1 : j < k + 1 => L[k + 1 - j].kind = "NETIF" /\ L[k + 1 - j].card = p[d - j]
      /\ d < k + 1 => L[k + 1 - d].kind = "BEGIN"
      /\ d >= k + 1 /\ on => Part(C, p) /\ Len(C) = d - (k + 1)
  <2>1. PICK q : q = k + 1 OBVIOUS
  <2>2. InFrame(L, q, p, on, C) /\ L[q].card.idx = d BY <1>3, <1>4, <1>6, <2>1
  <2>3. /\ d \in 1 .. Len(p)
        /\ \A j \in 0 .. d - 1 : j < q => L[q - j].kind = "NETIF" /\ L[q - j].card = p[d - j]
        /\ d < q => L[q - d].kind = "BEGIN"
        /\ d >= q /\ on => Part(C, p) /\ Len(C) = d - q
    BY <2>2 DEF InFrame
  <2>. QED BY <2>1, <2>3
<1>8. ASSUME NEW j \in 0 .. d - 1, j < k PROVE T[k - j].kind = "NETIF" /\ T[k - j].card = p[d - j]
  <2>1. k - j \in 1 .. Len(T) /\ (k - j) + 1 = k + 1 - j BY <1>1, <1>8
  <2>2. T[k - j] = L[k + 1 - j] BY <1>1, <2>1
  <2>3. j < k + 1 BY <1>8
  <2>. QED BY <1>7, <2>2, <2>3
<1>9. ASSUME d < k PROVE T[k - d].kind = "BEGIN"
  <2>1. k - d \in 1 .. Len(T) /\ (k - d) + 1 = k + 1 - d /\ d < k + 1 BY <1>1, <1>9
  <2>2. T[k - d] = L[k + 1 - d] BY <1>1, <2>1
  <2>. QED BY <1>7, <2>1, <2>2
<1>10. ASSUME d >= k, on1 PROVE Part(C1, p) /\ Len(C1) = d - k
  <2>1. p \in Seq(Cards) OBVIOUS
  <2>2. CASE d = k
    <3>1. k + 1 - d = 1 /\ d < k + 1 BY <2>2
    <3>2. L[1].kind = "BEGIN" BY <1>7, <3>1
    <3>3. C1 = << >> BY <3>2 DEF Collects
    <3>. QED BY <2>1, <2>2, <3>3, PartEmpty
  <2>3. CASE d > k
    <3>1. k \in 0 .. d - 1 /\ k < k + 1 /\ k + 1 - k = 1 /\ d >= k + 1 BY <2>3
    <3>2. L[1].kind = "NETIF" /\ L[1].card = p[d - k] BY <1>7, <3>1
    <3>3. on /\ C1 = Append(C, p[d - k]) BY <1>10, <3>2 DEF Collects
    <3>4. PICK e \in 1 .. Len(p) : e = d - k BY <1>7, <3>1
    <3>5. Part(C, p) /\ Len(C) = e - 1 BY <1>7, <3>1, <3>3, <3>4
    <3>6. Part(Append(C, p[e]), p) /\ Len(Append(C, p[e])) = e BY <2>1, <3>5, PartGrows
    <3>. QED BY <3>3, <3>4, <3>6
  <2>. QED BY <1>10, <2>2, <2>3
<1>11. InFrame(T, k, p, on1, C1) BY <1>6, <1>7, <1>8, <1>9, <1>10 DEF InFrame
<1>. QED BY <1>11

(* A card that is collected is the next one of its listing.                *)
LEMMA CardFits ==
  ASSUME NEW L \in Seq(PanelLines), L # << >>, L[1].kind = "NETIF", NEW C, NEW P, P \subseteq Seq(Cards),
         Framed(L, TRUE, C, P)
  PROVE  \E p \in P : Part(Append(C, L[1].card), p)
<1>1. 1 \in 1 .. Len(L) /\ L[1] \in PanelLines OBVIOUS
<1>2. PICK p \in P : InFrame(L, 1, p, TRUE, C) BY <1>1 DEF Framed
<1>3. L[1].card \in Cards BY <1>1, LineFacts
<1>4. PICK d \in Nat : d = L[1].card.idx BY <1>3 DEF Cards
<1>5. /\ d \in 1 .. Len(p)
      /\ \A j \in 0 .. d - 1 : j < 1 => L[1 - j].kind = "NETIF" /\ L[1 - j].card = p[d - j]
      /\ d >= 1 => Part(C, p) /\ Len(C) = d - 1
  BY <1>2, <1>4 DEF InFrame
<1>6. L[1].card = p[d]
  <2>1. 0 \in 0 .. d - 1 /\ 0 < 1 /\ 1 - 0 = 1 /\ d - 0 = d BY <1>5
  <2>. QED BY <1>5, <2>1
<1>7. p \in Seq(Cards) /\ Part(C, p) /\ Len(C) = d - 1 BY <1>5
<1>8. Part(Append(C, L[1].card), p) BY <1>5, <1>6, <1>7, PartGrows
<1>. QED BY <1>8

-----------------------------------------------------------------------------
(* The answer of the pending command.                                      *)

(* An answer to the pending command is on its way when it is written.      *)
LEMMA FrameComes ==
  ASSUME NEW l, l.own, NEW cards \in Seq(Cards), NEW ok, NEW F, IsFrame(F, l, cards, ok), NEW P, NEW on, NEW C,
         l.cmd.op = "LIST" => cards \in P
  PROVE  Coming(F, l.cmd.op, on, C, P)
<1>1. PICK n \in Nat : n = Len(cards) OBVIOUS
<1>2. /\ Len(F) = n + 2 /\ F[1].kind = "BEGIN" /\ F[n + 2].kind = "END" /\ F[n + 2].op = l.cmd.op
      /\ \A i \in 1 .. n : F[i + 1].kind = "NETIF" /\ F[i + 1].card = cards[i]
      /\ \A i \in 1 .. n + 2 : F[i].own = l.own
      /\ F \in Seq(PanelLines)
  BY <1>1 DEF IsFrame
<1>3. F # << >> /\ F[Len(F)].kind = "END" /\ F[Len(F)].op = l.cmd.op BY <1>2
<1>4. \A i \in 1 .. Len(F) : F[i].own BY <1>2
<1>5. ASSUME NEW k \in 1 .. Len(F) - 1
      PROVE  k = 1 \/ (F[k].kind = "NETIF" /\ F[k].card = cards[k - 1])
  <2>1. CASE k # 1
    <3>1. PICK i \in 1 .. n : k = i + 1 /\ k - 1 = i
      <4>1. k - 1 \in 1 .. n /\ k = (k - 1) + 1 BY <1>2, <2>1
      <4>. QED BY <4>1
    <3>. QED BY <1>2, <3>1
  <2>. QED BY <2>1
<1>6. \A k \in 1 .. Len(F) - 1 : F[k].kind \in {"BEGIN", "NETIF"} BY <1>2, <1>5
<1>7. Listed(F, cards, on, C)
  <2>1. ASSUME NEW k \in 1 .. Len(F) - 1
        PROVE  LET d == Len(cards) + 1 - Len(F) + k IN
               /\ d = 0 => F[k].kind = "BEGIN"
               /\ d > 0 => F[k].kind = "NETIF" /\ F[k].card = cards[d]
    <3>1. Len(cards) + 1 - Len(F) + k = k - 1 BY <1>1, <1>2
    <3>2. k - 1 = 0 => F[k].kind = "BEGIN" BY <1>2
    <3>3. k - 1 > 0 => F[k].kind = "NETIF" /\ F[k].card = cards[k - 1] BY <1>5
    <3>. QED BY <3>1, <3>2, <3>3
  <2>2. Len(F) <= Len(cards) + 2 /\ ~(Len(F) <= Len(cards) + 1) BY <1>1, <1>2
  <2>. QED BY <2>1, <2>2 DEF Listed
<1>. QED BY <1>3, <1>4, <1>6, <1>7 DEF Coming

(* The collector takes the first line of a listing.                        *)
LEMMA ListedPop ==
  ASSUME NEW L \in Seq(PanelLines), NEW T \in Seq(PanelLines), Behind(T, L), T # << >>,
         NEW on, NEW C, NEW on1, NEW C1, NEW p \in Seq(Cards), Listed(L, p, on, C),
         Collects(L[1], on, C, on1, C1)
  PROVE  Listed(T, p, on1, C1)
<1>1. PICK n \in Nat, t \in Nat : n = Len(p) /\ t = Len(T) OBVIOUS
<1>2. Len(L) = t + 1 /\ t > 0 /\ \A i \in 1 .. t : T[i] = L[i + 1] BY <1>1 DEF Behind
<1>3. /\ t + 1 <= n + 2
      /\ t + 1 <= n + 1 => on /\ Part(C, p) /\ Len(C) = n + 1 - (t + 1)
      /\ \A k \in 1 .. t + 1 - 1 :
           /\ n + 1 - (t + 1) + k = 0 => L[k].kind = "BEGIN"
           /\ n + 1 - (t + 1) + k > 0 => L[k].kind = "NETIF" /\ L[k].card = p[n + 1 - (t + 1) + k]
  BY <1>1, <1>2 DEF Listed
<1>4. ASSUME NEW k \in 1 .. t - 1
      PROVE  /\ n + 1 - t + k = 0 => T[k].kind = "BEGIN"
             /\ n + 1 - t + k > 0 => T[k].kind = "NETIF" /\ T[k].card = p[n + 1 - t + k]
  <2>1. k + 1 \in 1 .. t + 1 - 1 /\ n + 1 - (t + 1) + (k + 1) = n + 1 - t + k /\ k \in 1 .. t BY <1>2
  <2>2. T[k] = L[k + 1] BY <1>2, <2>1
  <2>. QED BY <1>3, <2>1, <2>2
<1>5. on1 /\ Part(C1, p) /\ Len(C1) = n + 1 - t
  <2>1. 1 \in 1 .. t + 1 - 1 /\ n + 1 - (t + 1) + 1 = n + 1 - t BY <1>2
  <2>2. CASE n + 1 - t = 0
    <3>1. L[1].kind = "BEGIN" BY <1>3, <2>1, <2>2
    <3>2. on1 = TRUE /\ C1 = << >> BY <3>1 DEF Collects
    <3>. QED BY <2>2, <3>2, PartEmpty
  <2>3. CASE n + 1 - t > 0
    <3>1. L[1].kind = "NETIF" /\ L[1].card = p[n + 1 - t] BY <1>3, <2>1, <2>3
    <3>2. t + 1 <= n + 1 /\ n + 1 - (t + 1) = n - t BY <2>3
    <3>3. on /\ Part(C, p) /\ Len(C) = n - t BY <1>3, <3>2
    <3>4. on1 = on /\ C1 = Append(C, p[n + 1 - t]) BY <3>1, <3>3 DEF Collects
    <3>5. PICK e \in 1 .. Len(p) : e = n + 1 - t BY <1>1, <1>2, <2>3
    <3>6. Len(C) = e - 1 BY <3>3, <3>5
    <3>7. Part(Append(C, p[e]), p) /\ Len(Append(C, p[e])) = e BY <3>3, <3>6, PartGrows
    <3>. QED BY <3>3, <3>4, <3>5, <3>7
  <2>. QED BY <1>3, <2>2, <2>3
<1>6. Len(T) <= Len(p) + 2 /\ on1 /\ Part(C1, p) /\ Len(C1) = Len(p) + 1 - Len(T) BY <1>1, <1>3, <1>5
<1>7. \A k \in 1 .. Len(T) - 1 :
        /\ Len(p) + 1 - Len(T) + k = 0 => T[k].kind = "BEGIN"
        /\ Len(p) + 1 - Len(T) + k > 0 => T[k].kind = "NETIF" /\ T[k].card = p[Len(p) + 1 - Len(T) + k]
  BY <1>1, <1>4
<1>. QED BY <1>6, <1>7 DEF Listed

(* The collector takes a line of the answer that is not its last.          *)
LEMMA ComingPop ==
  ASSUME NEW L \in Seq(PanelLines), NEW T \in Seq(PanelLines), Behind(T, L), T # << >>,
         NEW op, NEW on, NEW C, NEW on1, NEW C1, NEW P, P \subseteq Seq(Cards), Coming(L, op, on, C, P),
         Collects(L[1], on, C, on1, C1)
  PROVE  Coming(T, op, on1, C1, P) /\ L[1].kind \in {"BEGIN", "NETIF"}
<1>1. PICK t \in Nat : t = Len(T) OBVIOUS
<1>2. Len(L) = t + 1 /\ t > 0 /\ \A i \in 1 .. t : T[i] = L[i + 1] BY <1>1 DEF Behind
<1>3. /\ L[t + 1].kind = "END" /\ L[t + 1].op = op /\ \A k \in 1 .. t + 1 : L[k].own
      /\ \A k \in 1 .. t + 1 - 1 : L[k].kind \in {"BEGIN", "NETIF"}
      /\ op = "LIST" => \E p \in P : Listed(L, p, on, C)
  BY <1>2 DEF Coming
<1>4. T[t].kind = "END" /\ T[t].op = op BY <1>2, <1>3
<1>5. \A k \in 1 .. t : T[k].own
  <2>1. \A k \in 1 .. t : k + 1 \in 1 .. t + 1 OBVIOUS
  <2>. QED BY <1>2, <1>3, <2>1
<1>6. \A k \in 1 .. t - 1 : T[k].kind \in {"BEGIN", "NETIF"}
  <2>1. \A k \in 1 .. t - 1 : k \in 1 .. t /\ k + 1 \in 1 .. t + 1 - 1 OBVIOUS
  <2>. QED BY <1>2, <1>3, <2>1
<1>7. op = "LIST" => \E p \in P : Listed(T, p, on1, C1)
  <2>1. SUFFICES ASSUME op = "LIST" PROVE \E p \in P : Listed(T, p, on1, C1) OBVIOUS
  <2>2. PICK p \in P : Listed(L, p, on, C) BY <1>3, <2>1
  <2>3. p \in Seq(Cards) OBVIOUS
  <2>4. Listed(T, p, on1, C1) BY <2>2, <2>3, ListedPop
  <2>. QED BY <2>4
<1>8. L[1].kind \in {"BEGIN", "NETIF"}
  <2>1. 1 \in 1 .. t + 1 - 1 BY <1>2
  <2>. QED BY <1>3, <2>1
<1>. QED BY <1>1, <1>4, <1>5, <1>6, <1>7, <1>8 DEF Coming

(* The last line: what was collected is the listing.                       *)
LEMMA ComingEnds ==
  ASSUME NEW L \in Seq(PanelLines), Len(L) = 1, NEW op, NEW on, NEW C, NEW P, P \subseteq Seq(Cards),
         Coming(L, op, on, C, P)
  PROVE  /\ L[1].kind = "END" /\ L[1].op = op /\ L[1].own
         /\ op = "LIST" => C \in P
<1>1. L[1].kind = "END" /\ L[1].op = op /\ L[1].own BY DEF Coming
<1>2. ASSUME op = "LIST" PROVE C \in P
  <2>1. PICK p \in P : Listed(L, p, on, C) BY <1>2 DEF Coming
  <2>2. p \in Seq(Cards) /\ Len(p) \in Nat OBVIOUS
  <2>3. Part(C, p) /\ Len(C) = Len(p) BY <2>1, <2>2 DEF Listed
  <2>4. C \in Seq(Cards) /\ \A i \in 1 .. Len(C) : C[i] = p[i] BY <2>3 DEF Part
  <2>5. C = p BY <2>2, <2>3, <2>4
  <2>. QED BY <2>5
<1>. QED BY <1>1, <1>2

-----------------------------------------------------------------------------
(* The board.                                                              *)

(* One answer is sent, to line l.                                          *)
Replies(l, P) ==
  \E F \in Seq(PanelLines) :
    /\ open => toPanel' = toPanel \o F
    /\ ~open => toPanel' = toPanel
    /\ Whole(F, P)
    /\ l.own /\ l.cmd.op # "RAW" => \A on, C : Coming(F, l.cmd.op, on, C, P)

(* The fields of a command.                                                *)
LEMMA CmdOp ==
  ASSUME NEW c \in Cmds
  PROVE  c.op \in Ops /\ (c.op \in {"DEL", "SET"} => c.idx \in Nat) /\ (c.op = "LIST" => c = LIST)
<1>1. CASE c \in {[op |-> o] : o \in {"LIST", "ADD", "PING", "PINGT", "SEND", "RAW"}} BY <1>1 DEF Ops, LIST
<1>2. CASE c \in [op : {"DEL", "SET"}, idx : Nat, target : 1 .. MaxId] BY <1>2 DEF Ops
<1>. QED BY <1>1, <1>2 DEF Cmds

(* What the board writes answers its command.                              *)
LEMMA ReplyAnswers ==
  ASSUME NEW l \in BoardLines, l = Head(toBoard), NEW cards \in Seq(Cards), NEW ok \in BOOLEAN,
         Reply(cards, ok), NEW P,
         cards = << >> \/ (cards \in P /\ \A i \in 1 .. Len(cards) : cards[i].idx = i),
         l.cmd.op = "LIST" => cards \in P
  PROVE  Replies(l, P)
<1>1. l.own \in BOOLEAN /\ l.cmd \in Cmds BY DEF BoardLines
<1>2. l.cmd.op \in Ops BY <1>1, CmdOp
<1>3. PICK F : F = Frame(l, cards, ok) OBVIOUS
<1>4. IsFrame(F, l, cards, ok) BY <1>1, <1>2, <1>3, FrameFacts
<1>5. F \in Seq(PanelLines) BY <1>4 DEF IsFrame
<1>6. Whole(F, P) BY <1>4, FrameWhole
<1>7. (open => toPanel' = toPanel \o F) /\ (~open => toPanel' = toPanel) BY <1>3 DEF Reply, Answer
<1>8. ASSUME l.own, NEW on, NEW C PROVE Coming(F, l.cmd.op, on, C, P) BY <1>4, <1>8, FrameComes
<1>. QED BY <1>5, <1>6, <1>7, <1>8 DEF Replies

(* No cards are a sequence of cards.                                       *)
LEMMA NoCards == << >> \in Seq(Cards)
OBVIOUS

(* netif_add puts the new interface in front.                              *)
LEMMA Prepended ==
  ASSUME NEW ns \in Seq(1 .. MaxId), NEW n \in 1 .. MaxId
  PROVE  <<n>> \o ns \in Seq(1 .. MaxId)
<1>1. PICK S : S = 1 .. MaxId OBVIOUS
<1>2. n \in S /\ ns \in Seq(S) BY <1>1
<1>3. <<n>> \in Seq(S) BY <1>2
<1>4. <<n>> \o ns \in Seq(S) BY <1>2, <1>3
<1>. QED BY <1>1, <1>4

(* netif_remove takes one interface out.                                   *)
LEMMA Shortened ==
  ASSUME NEW ns \in Seq(1 .. MaxId), NEW k \in DOMAIN ns
  PROVE  RemoveAt(ns, k) \in Seq(1 .. MaxId)
<1>1. PICK S : S = 1 .. MaxId OBVIOUS
<1>2. ns \in Seq(S) BY <1>1
<1>3. PICK c \in Nat : c = Len(ns) /\ k \in 1 .. c BY <1>2
<1>4. \A i \in 1 .. c : ns[i] \in S BY <1>2, <1>3
<1>5. SubSeq(ns, 1, k - 1) \in Seq(S)
  <2>1. 1 \in Int /\ k - 1 \in Int /\ \A i \in 1 .. k - 1 : ns[i] \in S BY <1>3, <1>4
  <2>. QED BY <1>2, <2>1, SubSeqProperties
<1>6. SubSeq(ns, k + 1, c) \in Seq(S)
  <2>1. k + 1 \in Int /\ c \in Int /\ \A i \in k + 1 .. c : ns[i] \in S BY <1>3, <1>4
  <2>. QED BY <1>2, <2>1, SubSeqProperties
<1>7. PICK a \in Seq(S), b \in Seq(S) : a = SubSeq(ns, 1, k - 1) /\ b = SubSeq(ns, k + 1, c) BY <1>5, <1>6
<1>8. a \o b \in Seq(S) OBVIOUS
<1>. QED BY <1>1, <1>3, <1>7, <1>8 DEF RemoveAt

(* Steps that leave the list of interfaces alone.                          *)
LEMMA BoardKept ==
  ASSUME BoardOK, UNCHANGED <<netifs, nextId, past>>
  PROVE  BoardOK' /\ past \subseteq past'
BY DEF BoardOK

(* Steps that change it: the new listing is one the board could give.      *)
LEMMA BoardChanges ==
  ASSUME BoardOK, netifs' \in Seq(1 .. MaxId), nextId' \in 2 .. MaxId + 1,
         past' = past \cup {Listing(netifs')}
  PROVE  BoardOK' /\ past \subseteq past'
<1>1. PICK ns \in Seq(1 .. MaxId) : ns = netifs' OBVIOUS
<1>2. Listing(ns) \in Seq(Cards) BY ListingFacts
<1>3. past' = past \cup {Listing(ns)} BY <1>1
<1>. QED BY <1>1, <1>2, <1>3 DEF BoardOK

(* cmd_dispatch: every command is answered.                                *)
LEMMA Dispatched ==
  ASSUME BoardOK, NEW l \in BoardLines, l = Head(toBoard), NEW c, c = l.cmd,
         \/ cmd_netif_list(c) \/ cmd_netif_add(c) \/ cmd_netif_del(c)
         \/ cmd_netif_set(c) \/ cmd_other(c) \/ UnknownCommand(c)
  PROVE  BoardOK' /\ past \subseteq past' /\ Replies(l, past')
<1>. USE NoCards
<1>0. PICK Q : Q = past' OBVIOUS
<1>1. c \in Cmds BY DEF BoardLines
<1>2. CASE cmd_netif_list(c)
  <2>1. BoardOK' /\ past \subseteq past' /\ Q = past BY <1>0, <1>2, BoardKept DEF cmd_netif_list, board
  <2>2. PICK p : p = Listing(netifs) OBVIOUS
  <2>3. p \in Seq(Cards) /\ p \in Q /\ \A i \in 1 .. Len(p) : p[i].idx = i
    <3>1. netifs \in Seq(1 .. MaxId) /\ p \in past BY <2>2 DEF BoardOK
    <3>. QED BY <2>1, <2>2, <3>1, ListingFacts
  <2>4. Reply(p, TRUE) BY <1>2, <2>2 DEF cmd_netif_list
  <2>5. Replies(l, Q) BY <2>3, <2>4, ReplyAnswers
  <2>. QED BY <1>0, <2>1, <2>5
<1>3. CASE cmd_netif_add(c)
  <2>1. PICK ok \in BOOLEAN : ok = (nextId <= MaxId)
    <3>1. (nextId <= MaxId) \in BOOLEAN BY PanelAssumption DEF BoardOK
    <3>. QED BY <3>1
  <2>2. Reply(<< >>, ok) /\ c.op # "LIST" BY <1>3, <2>1 DEF cmd_netif_add
  <2>3. Replies(l, Q) BY <2>2, ReplyAnswers
  <2>4. BoardOK' /\ past \subseteq past'
    <3>1. CASE nextId <= MaxId
      <4>1. nextId \in 1 .. MaxId /\ nextId + 1 \in 2 .. MaxId + 1
        BY <3>1, PanelAssumption DEF BoardOK
      <4>2. <<nextId>> \o netifs \in Seq(1 .. MaxId) BY <4>1, Prepended DEF BoardOK
      <4>3. netifs' = <<nextId>> \o netifs /\ nextId' = nextId + 1 /\ past' = past \cup {Listing(netifs')}
        BY <1>3, <3>1 DEF cmd_netif_add
      <4>. QED BY <4>1, <4>2, <4>3, BoardChanges
    <3>2. CASE ~(nextId <= MaxId) BY <1>3, <3>2, BoardKept DEF cmd_netif_add
    <3>. QED BY <3>1, <3>2
  <2>. QED BY <1>0, <2>3, <2>4
<1>4. CASE cmd_netif_del(c)
  <2>1. PICK ok \in BOOLEAN : ok = (Exists(c) /\ netifs[c.idx] # 1) OBVIOUS
  <2>2. Reply(<< >>, ok) /\ c.op # "LIST" BY <1>4, <2>1 DEF cmd_netif_del
  <2>3. Replies(l, Q) BY <2>2, ReplyAnswers
  <2>4. BoardOK' /\ past \subseteq past'
    <3>1. CASE ok
      <4>1. c.idx \in DOMAIN netifs BY <2>1, <3>1 DEF Exists
      <4>2. RemoveAt(netifs, c.idx) \in Seq(1 .. MaxId) BY <4>1, Shortened DEF BoardOK
      <4>3. netifs' = RemoveAt(netifs, c.idx) /\ nextId' = nextId /\ past' = past \cup {Listing(netifs')}
        BY <1>4, <2>1, <3>1 DEF cmd_netif_del
      <4>4. nextId' \in 2 .. MaxId + 1 BY <4>3 DEF BoardOK
      <4>. QED BY <4>2, <4>3, <4>4, BoardChanges
    <3>2. CASE ~ok BY <1>4, <2>1, <3>2, BoardKept DEF cmd_netif_del
    <3>. QED BY <3>1, <3>2
  <2>. QED BY <1>0, <2>3, <2>4
<1>5. CASE cmd_netif_set(c)
  <2>1. PICK ok \in BOOLEAN : ok = Exists(c)
    <3>1. Exists(c) \in BOOLEAN BY DEF Exists
    <3>. QED BY <3>1
  <2>2. Reply(<< >>, ok) /\ c.op # "LIST" BY <1>5, <2>1 DEF cmd_netif_set
  <2>3. Replies(l, Q) BY <2>2, ReplyAnswers
  <2>4. BoardOK' /\ past \subseteq past' BY <1>5, BoardKept DEF cmd_netif_set
  <2>. QED BY <1>0, <2>3, <2>4
<1>6. CASE cmd_other(c)
  <2>1. PICK ok \in BOOLEAN : Reply(<< >>, ok) BY <1>6 DEF cmd_other
  <2>2. c.op # "LIST" BY <1>6 DEF cmd_other, Pings
  <2>3. Replies(l, Q) BY <2>1, <2>2, ReplyAnswers
  <2>4. BoardOK' /\ past \subseteq past' BY <1>6, BoardKept DEF cmd_other, board
  <2>. QED BY <1>0, <2>3, <2>4
<1>7. CASE UnknownCommand(c)
  <2>1. PICK e : e = [kind |-> "ERR", op |-> "RAW", ok |-> FALSE, own |-> FALSE] OBVIOUS
  <2>2. e \in PanelLines /\ e.kind = "ERR" BY <2>1 DEF PanelLines, Ops
  <2>3. PICK F \in Seq(PanelLines) : F = <<e>> /\ Len(F) = 1 /\ F[1] = e
    <3>1. <<e>> \in Seq(PanelLines) /\ Len(<<e>>) = 1 /\ <<e>>[1] = e BY <2>2
    <3>. QED BY <3>1
  <2>4. (open => toPanel' = toPanel \o F) /\ (~open => toPanel' = toPanel)
    BY <1>7, <2>1, <2>3 DEF UnknownCommand, Answer
  <2>5. Whole(F, Q) BY <2>2, <2>3 DEF Whole
  <2>6. l.cmd.op = "RAW" BY <1>7 DEF UnknownCommand
  <2>7. Replies(l, Q) BY <2>4, <2>5, <2>6 DEF Replies
  <2>8. BoardOK' /\ past \subseteq past' BY <1>7, BoardKept DEF UnknownCommand, board
  <2>. QED BY <1>0, <2>7, <2>8
<1>. QED BY <1>2, <1>3, <1>4, <1>5, <1>6, <1>7

-----------------------------------------------------------------------------
(* The handlers.                                                           *)

(* The refresh is a task and no job, and no task is NONE.                  *)
LEMMA TaskFacts == POLL \in Tasks /\ POLL \notin Jobs /\ NONE \notin Tasks /\ Jobs \subseteq Tasks
BY PanelAssumption DEF Tasks

(* The refresh is one LIST command.                                        *)
LEMMA CmdFacts ==
  /\ LIST \in Cmds /\ <<LIST>> \in Seq(Cmds) /\ <<LIST>> # << >> /\ Head(<<LIST>>) = LIST /\ LIST.op = "LIST"
  /\ Idle \in HandlerStates /\ Queued(<<LIST>>) \in HandlerStates
<1>1. LIST \in Cmds /\ LIST.op = "LIST" BY DEF LIST, Cmds
<1>2. <<LIST>> \in Seq(Cmds) /\ <<LIST>> # << >> /\ Head(<<LIST>>) = LIST BY <1>1
<1>3. << >> \in Seq(Cmds) OBVIOUS
<1>. QED BY <1>1, <1>2, <1>3 DEF Idle, Queued, HandlerStates

(* A user's command is no refresh.                                         *)
LEMMA UserFacts ==
  ASSUME NEW c \in Seq(Cmds), UserCmds(c)
  PROVE  c # << >> /\ Head(c) \in Cmds /\ Head(c).op \notin {"LIST", "RAW"} /\ Head(c) # LIST /\ c # <<LIST>>
<1>1. c # << >> /\ 1 \in 1 .. Len(c) /\ Head(c) = c[1] /\ c[1] \in Cmds BY DEF UserCmds
<1>2. c[1].op \notin {"LIST", "RAW"} BY <1>1 DEF UserCmds
<1>. QED BY <1>1, <1>2, CmdFacts

(* The commands of a handler of the user.                                  *)
LEMMA ProgramFacts ==
  ASSUME shown \in Seq(Cards), NEW prog \in Programs
  PROVE  prog \in Seq(Cmds) /\ UserCmds(prog)
<1>1. ASSUME NEW a \in Cmds, a.op \notin {"LIST", "RAW"}, prog = <<a>> \/ prog = <<a, a>>
      PROVE  prog \in Seq(Cmds) /\ UserCmds(prog)
  <2>1. CASE prog = <<a>>
    <3>1. prog \in Seq(Cmds) /\ Len(prog) = 1 /\ prog[1] = a BY <2>1
    <3>. QED BY <1>1, <3>1 DEF UserCmds
  <2>2. CASE prog = <<a, a>>
    <3>1. prog \in Seq(Cmds) /\ Len(prog) = 2 /\ prog[1] = a /\ prog[2] = a BY <2>2
    <3>2. prog # << >> BY <2>2
    <3>3. \A i \in 1 .. Len(prog) : prog[i] = a
      <4>1. \A i \in 1 .. 2 : i = 1 \/ i = 2 OBVIOUS
      <4>. QED BY <3>1, <4>1
    <3>. QED BY <1>1, <3>1, <3>2, <3>3 DEF UserCmds
  <2>. QED BY <1>1, <2>1, <2>2
<1>2. ASSUME NEW o \in {"ADD", "PING", "PINGT", "SEND"} PROVE [op |-> o] \in Cmds /\ [op |-> o].op \notin {"LIST", "RAW"}
  BY DEF Cmds
<1>3. ASSUME NEW o \in {"DEL", "SET"}, NEW c \in Range(shown), NEW a, a = [op |-> o, idx |-> c.idx, target |-> c.id]
      PROVE  a \in Cmds /\ a.op \notin {"LIST", "RAW"}
  <2>1. c \in Cards BY DEF Range
  <2>2. c.idx \in Nat /\ c.id \in 1 .. MaxId BY <2>1 DEF Cards
  <2>3. a \in [op : {"DEL", "SET"}, idx : Nat, target : 1 .. MaxId] BY <1>3, <2>2
  <2>. QED BY <1>3, <2>3 DEF Cmds
<1>4. CASE \E o \in {"ADD", "PING", "PINGT", "SEND"} : prog = <<[op |-> o]>> \/ prog = <<[op |-> o], [op |-> o]>>
  BY <1>1, <1>2, <1>4
<1>5. CASE \E c \in Range(shown) : prog = <<[op |-> "DEL", idx |-> c.idx, target |-> c.id]>>
  <2>1. PICK c \in Range(shown) : prog = <<[op |-> "DEL", idx |-> c.idx, target |-> c.id]>> BY <1>5
  <2>2. PICK a : a = [op |-> "DEL", idx |-> c.idx, target |-> c.id] OBVIOUS
  <2>3. a \in Cmds /\ a.op \notin {"LIST", "RAW"} BY <1>3, <2>2
  <2>. QED BY <1>1, <2>1, <2>2, <2>3
<1>6. CASE \E c \in Range(shown) : prog = <<[op |-> "SET", idx |-> c.idx, target |-> c.id],
                                          [op |-> "SET", idx |-> c.idx, target |-> c.id]>>
  <2>1. PICK c \in Range(shown) : prog = <<[op |-> "SET", idx |-> c.idx, target |-> c.id],
                                           [op |-> "SET", idx |-> c.idx, target |-> c.id]>>
    BY <1>6
  <2>2. PICK a : a = [op |-> "SET", idx |-> c.idx, target |-> c.id] OBVIOUS
  <2>3. a \in Cmds /\ a.op \notin {"LIST", "RAW"} BY <1>3, <2>2
  <2>. QED BY <1>1, <2>1, <2>2, <2>3
<1>7. CASE prog \in PingPrograms
  <2>1. prog = <<[op |-> "PING"], [op |-> "PING"]>> \/ prog = <<[op |-> "PINGT"]>> BY <1>7, Zenon DEF PingPrograms
  <2>. QED BY <1>4, <2>1
<1>8. CASE prog \notin PingPrograms
  <2>1. prog \notin IF shown = << >> THEN {} ELSE PingPrograms BY <1>8, Zenon
  <2>. QED BY <1>4, <1>5, <1>6, <2>1, Zenon DEF Programs
<1>. QED BY <1>7, <1>8

(* Handler j goes on to b, alone.                                          *)
Moves(j, b) ==
  /\ job' = [job EXCEPT ![j] = b]
  /\ b.st = "sent" <=> holder' = j
  /\ \A k \in Tasks \ {j} : holder' = k <=> holder = k
  /\ holder' = NONE <=> tcs'.st = "none"
  /\ \/ refreshBusy' = refreshBusy /\ (b.cmds = <<LIST>> <=> job[j].cmds = <<LIST>>)
     \/ ~refreshBusy /\ refreshBusy' = TRUE /\ b.cmds = <<LIST>>
     \/ refreshBusy' = FALSE /\ job[j].cmds = <<LIST>> /\ b.cmds # <<LIST>>

(* One handler moves to a state that is sound for it.                      *)
LEMMA HandlersMove ==
  ASSUME Typed, Handlers, NEW j \in Tasks, NEW b \in HandlerStates, JobOK(j, b), Moves(j, b)
  PROVE  job' \in [Tasks -> HandlerStates] /\ Handlers'
<1>1. job' = [job EXCEPT ![j] = b] BY DEF Moves
<1>2. job' \in [Tasks -> HandlerStates] BY <1>1 DEF Typed
<1>3. job'[j] = b /\ \A k \in Tasks \ {j} : job'[k] = job[k] BY <1>1 DEF Typed
<1>4. \A k \in Tasks : JobOK(k, job'[k]) BY <1>3 DEF Handlers
<1>5. Locked'
  <2>1. \A k \in Tasks : job'[k].st = "sent" <=> holder' = k
    <3>1. \A k \in Tasks \ {j} : job'[k].st = "sent" <=> holder' = k BY <1>3 DEF Handlers, Locked, Moves
    <3>2. job'[j].st = "sent" <=> holder' = j BY <1>3 DEF Moves
    <3>. QED BY <3>1, <3>2
  <2>. QED BY <2>1 DEF Moves, Locked
<1>6. Refreshing'
  <2>1. /\ refreshBusy <=> \E k \in Tasks : job[k].cmds = <<LIST>>
        /\ \A k, m \in Tasks : job[k].cmds = <<LIST>> /\ job[m].cmds = <<LIST>> => k = m
    BY DEF Handlers, Refreshing
  <2>2. CASE refreshBusy' = refreshBusy /\ (b.cmds = <<LIST>> <=> job[j].cmds = <<LIST>>)
    <3>1. \A k \in Tasks : job'[k].cmds = <<LIST>> <=> job[k].cmds = <<LIST>> BY <1>3, <2>2
    <3>. QED BY <2>1, <2>2, <3>1 DEF Refreshing
  <2>3. CASE ~refreshBusy /\ refreshBusy' = TRUE /\ b.cmds = <<LIST>>
    <3>1. \A k \in Tasks : job'[k].cmds = <<LIST>> <=> k = j BY <1>3, <2>1, <2>3
    <3>. QED BY <2>3, <3>1 DEF Refreshing
  <2>4. CASE refreshBusy' = FALSE /\ job[j].cmds = <<LIST>> /\ b.cmds # <<LIST>>
    <3>1. \A k \in Tasks : job'[k].cmds # <<LIST>> BY <1>3, <2>1, <2>4
    <3>. QED BY <2>4, <3>1 DEF Refreshing
  <2>. QED BY <2>2, <2>3, <2>4 DEF Moves
<1>. QED BY <1>2, <1>4, <1>5, <1>6 DEF Handlers

(* Steps that leave the handlers and the lock alone.                       *)
LEMMA HandlersKept ==
  ASSUME Typed, Handlers, UNCHANGED <<job, holder, refreshBusy>>, tcs'.st = "none" <=> tcs.st = "none"
  PROVE  job' \in [Tasks -> HandlerStates] /\ Handlers'
BY DEF Typed, Handlers, Locked, Refreshing

(* A refresh starts when none is under way.                                *)
LEMMA RefreshStarts ==
  ASSUME Typed, Handlers, ~refreshBusy, refreshBusy' = TRUE, UNCHANGED <<holder, tcs>>,
         job' = [job EXCEPT ![POLL] = Queued(<<LIST>>)]
  PROVE  job' \in [Tasks -> HandlerStates] /\ Handlers'
<1>1. PICK b : b = Queued(<<LIST>>) OBVIOUS
<1>2. b \in HandlerStates /\ b.cmds = <<LIST>> /\ b.st = "queue" BY <1>1, CmdFacts DEF Queued
<1>3. JobOK(POLL, b) BY <1>2 DEF JobOK
<1>4. job[POLL].st # "sent"
  <2>1. JobOK(POLL, job[POLL]) /\ job[POLL].cmds # <<LIST>> BY TaskFacts DEF Handlers, Refreshing
  <2>2. job[POLL] = Idle BY <2>1, TaskFacts DEF JobOK
  <2>. QED BY <2>2 DEF Idle
<1>5. Moves(POLL, b) BY <1>1, <1>2, <1>4, TaskFacts DEF Moves, Handlers, Locked
<1>. QED BY <1>2, <1>3, <1>5, TaskFacts, HandlersMove

(* A click starts a handler.                                               *)
LEMMA StartHandlers ==
  ASSUME Typed, Handlers, Known(shown), NEW j \in session.jobs, NEW prog \in Programs, StartJob(j, prog)
  PROVE  job' \in [Tasks -> HandlerStates] /\ Handlers'
<1>1. j \in Jobs /\ j \in Tasks BY TaskFacts DEF Typed, Jobs
<1>2. shown \in Seq(Cards) BY DEF Known, Part
<1>3. prog \in Seq(Cmds) /\ UserCmds(prog) BY <1>2, ProgramFacts
<1>4. prog # <<LIST>> BY <1>3, UserFacts
<1>5. PICK b : b = Queued(prog) OBVIOUS
<1>6. b \in HandlerStates /\ b.cmds = prog /\ b.st = "queue" BY <1>3, <1>5 DEF Queued, HandlerStates
<1>7. JobOK(j, b) BY <1>1, <1>3, <1>6 DEF JobOK
<1>8. job[j].st = "idle" /\ job[j].cmds = << >> BY DEF StartJob, Idle
<1>9. job[j].cmds # <<LIST>> BY <1>8, CmdFacts
<1>10. job' = [job EXCEPT ![j] = b] /\ UNCHANGED <<holder, tcs, refreshBusy>> BY <1>5 DEF StartJob
<1>11. Moves(j, b) BY <1>1, <1>4, <1>6, <1>8, <1>9, <1>10 DEF Moves, Handlers, Locked
<1>. QED BY <1>1, <1>6, <1>7, <1>11, HandlersMove

(* A handler gets the lock and sends its command.                          *)
LEMMA SendHandlers ==
  ASSUME Typed, Handlers, NEW j \in Tasks, Send(j)
  PROVE  job' \in [Tasks -> HandlerStates] /\ Handlers'
<1>1. PICK a \in HandlerStates : a = job[j] /\ a.st = "queue" /\ JobOK(j, a) BY DEF Typed, Send, Handlers
<1>2. PICK b : b = [st |-> "sent", cmds |-> a.cmds] OBVIOUS
<1>3. b \in HandlerStates /\ b.st = "sent" /\ b.cmds = a.cmds BY <1>2 DEF HandlerStates
<1>4. [a EXCEPT !.st = "sent"] = b BY <1>2 DEF HandlerStates
<1>5. job' = [job EXCEPT ![j] = b]
  <2>1. job' = [job EXCEPT ![j] = [job[j] EXCEPT !.st = "sent"]] BY DEF Send
  <2>. QED BY <1>1, <1>4, <2>1
<1>6. JobOK(j, b) BY <1>1, <1>3 DEF JobOK, Idle
<1>7. holder = NONE /\ holder' = j /\ tcs'.st # "none" /\ refreshBusy' = refreshBusy
  BY DEF Send, LockFree, Pending, NoTcs
<1>8. Moves(j, b) BY <1>1, <1>3, <1>5, <1>7, TaskFacts DEF Moves
<1>. QED BY <1>3, <1>6, <1>8, HandlersMove

(* The handler whose command is completed gives the lock back.             *)
LEMMA ResumeHandlers ==
  ASSUME Typed, Handlers, NEW j \in Tasks, Resume(j)
  PROVE  job' \in [Tasks -> HandlerStates] /\ Handlers'
<1>1. PICK a \in HandlerStates : a = job[j] /\ a.st = "sent" /\ JobOK(j, a)
  BY DEF Typed, Resume, Handlers, Locked
<1>2. holder = j /\ holder' = NONE /\ tcs'.st = "none" /\ j # NONE BY TaskFacts DEF Resume, NoTcs
<1>3. a.cmds \in Seq(Cmds) BY DEF HandlerStates
<1>4. CASE Head(a.cmds) = LIST
  <2>1. a.cmds = <<LIST>> BY <1>1, <1>3, <1>4, UserFacts DEF JobOK, Idle
  <2>2. job' = [job EXCEPT ![j] = Idle] /\ refreshBusy' = FALSE BY <1>1, <1>4 DEF Resume
  <2>3. Idle.cmds # <<LIST>> /\ Idle.st # "sent" /\ JobOK(j, Idle) BY CmdFacts DEF Idle, JobOK
  <2>4. Moves(j, Idle) BY <1>1, <1>2, <2>1, <2>2, <2>3, TaskFacts DEF Moves
  <2>. QED BY <2>3, <2>4, CmdFacts, HandlersMove
<1>5. CASE Head(a.cmds) # LIST
  <2>1. PICK x : x = IF tcs.ok THEN "ok" ELSE "broken" OBVIOUS
  <2>2. x \in {"ok", "broken"} BY <2>1
  <2>3. PICK b : b = [st |-> x, cmds |-> a.cmds] OBVIOUS
  <2>4. b \in HandlerStates /\ b.st = x /\ b.cmds = a.cmds BY <1>3, <2>2, <2>3 DEF HandlerStates
  <2>5. [a EXCEPT !.st = x] = b BY <2>3 DEF HandlerStates
  <2>6. job' = [job EXCEPT ![j] = b] /\ refreshBusy' = refreshBusy
    <3>1. job' = [job EXCEPT ![j] = [job[j] EXCEPT !.st = x]] /\ refreshBusy' = refreshBusy
      BY <1>1, <1>5, <2>1 DEF Resume
    <3>. QED BY <1>1, <2>5, <3>1
  <2>7. a.cmds # <<LIST>> BY <1>5, CmdFacts
  <2>8. JobOK(j, b) BY <1>1, <2>2, <2>4, <2>7 DEF JobOK, Idle
  <2>9. Moves(j, b) BY <1>1, <1>2, <2>2, <2>4, <2>6, TaskFacts DEF Moves
  <2>. QED BY <2>4, <2>8, <2>9, HandlersMove
<1>. QED BY <1>4, <1>5

(* The commands a handler has left.                                        *)
LEMMA UserTail ==
  ASSUME NEW c \in Seq(Cmds), UserCmds(c), Tail(c) # << >>
  PROVE  Tail(c) \in Seq(Cmds) /\ UserCmds(Tail(c))
<1>1. c # << >> /\ \A i \in 1 .. Len(c) : c[i].op \notin {"LIST", "RAW"} BY DEF UserCmds
<1>2. PICK t \in Seq(Cmds) : t = Tail(c)
  <2>1. Tail(c) \in Seq(Cmds) BY <1>1, HeadTailProperties
  <2>. QED BY <2>1
<1>3. Len(t) = Len(c) - 1 /\ Len(c) \in Nat /\ \A i \in 1 .. Len(t) : t[i] = c[i + 1]
  BY <1>1, <1>2, HeadTailProperties
<1>4. \A i \in 1 .. Len(t) : t[i].op \notin {"LIST", "RAW"}
  <2>1. \A i \in 1 .. Len(t) : i + 1 \in 1 .. Len(c) BY <1>3
  <2>. QED BY <1>1, <1>3, <2>1
<1>. QED BY <1>2, <1>4 DEF UserCmds

(* A handler goes on: its next command, a refresh or its end.              *)
LEMMA ContinueHandlers ==
  ASSUME Typed, Handlers, NEW j \in Tasks, Continue(j)
  PROVE  job' \in [Tasks -> HandlerStates] /\ Handlers'
<1>1. PICK a \in HandlerStates : a = job[j] /\ a.st \in {"ok", "broken"} /\ JobOK(j, a)
  BY DEF Typed, Continue, Handlers
<1>2. a.cmds \in Seq(Cmds) BY DEF HandlerStates
<1>3. j \in Jobs /\ UserCmds(a.cmds) BY <1>1 DEF JobOK, Idle
<1>4. a.cmds # <<LIST>> BY <1>2, <1>3, UserFacts
<1>5. holder # j /\ UNCHANGED <<holder, tcs>> BY <1>1 DEF Handlers, Locked, Continue
<1>6. CASE NextCmds(j) # << >> /\ open
  <2>1. PICK c : c = NextCmds(j) OBVIOUS
  <2>2. (c = Tail(a.cmds) \/ c = a.cmds) /\ c # << >> BY <1>1, <1>6, <2>1 DEF NextCmds
  <2>3. c \in Seq(Cmds) /\ UserCmds(c) BY <1>2, <1>3, <2>2, UserTail
  <2>4. c # <<LIST>> BY <2>3, UserFacts
  <2>5. PICK b : b = Queued(c) OBVIOUS
  <2>6. b \in HandlerStates /\ b.st = "queue" /\ b.cmds = c BY <2>3, <2>5 DEF Queued, HandlerStates
  <2>7. JobOK(j, b) BY <1>3, <2>3, <2>6 DEF JobOK
  <2>8. job' = [job EXCEPT ![j] = b] /\ refreshBusy' = refreshBusy BY <1>6, <2>1, <2>5 DEF Continue, Typed
  <2>9. Moves(j, b) BY <1>1, <1>4, <1>5, <2>4, <2>6, <2>8 DEF Moves, Handlers, Locked
  <2>. QED BY <2>6, <2>7, <2>9, HandlersMove
<1>7. CASE ~(NextCmds(j) # << >> /\ open)
  <2>1. CASE Head(job[j].cmds).op \notin Pings \cup {"SEND"} /\ RefreshGuard(open, refreshBusy)
    <3>1. PICK b : b = Queued(<<LIST>>) OBVIOUS
    <3>2. b \in HandlerStates /\ b.cmds = <<LIST>> /\ b.st = "queue" BY <3>1, CmdFacts DEF Queued
    <3>3. JobOK(j, b) BY <3>2 DEF JobOK
    <3>4. job' = [job EXCEPT ![j] = b] /\ refreshBusy' = TRUE /\ ~refreshBusy
      BY <1>7, <2>1, <3>1 DEF Continue, RefreshGuard
    <3>5. Moves(j, b) BY <1>5, <3>2, <3>4 DEF Moves, Handlers, Locked
    <3>. QED BY <3>2, <3>3, <3>5, HandlersMove
  <2>2. CASE ~(Head(job[j].cmds).op \notin Pings \cup {"SEND"} /\ RefreshGuard(open, refreshBusy))
    <3>1. job' = [job EXCEPT ![j] = Idle] /\ refreshBusy' = refreshBusy BY <1>7, <2>2 DEF Continue, Typed
    <3>2. Idle.cmds # <<LIST>> /\ Idle.st # "sent" /\ JobOK(j, Idle) BY CmdFacts DEF Idle, JobOK
    <3>3. Moves(j, Idle) BY <1>1, <1>4, <1>5, <3>1, <3>2 DEF Moves, Handlers, Locked
    <3>. QED BY <3>2, <3>3, CmdFacts, HandlersMove
  <2>. QED BY <2>1, <2>2
<1>. QED BY <1>6, <1>7

-----------------------------------------------------------------------------
(* One lemma for each action.                                              *)

(* An empty display is the beginning of a listing.                         *)
LEMMA KnownEmpty ==
  ASSUME BoardOK
  PROVE  Known(<< >>)
<1>1. PICK p \in past : p \in Seq(Cards) BY DEF BoardOK
<1>2. Part(<< >>, p) BY <1>1, PartEmpty
<1>. QED BY <1>2 DEF Known

(* The states of the pending command.                                      *)
LEMMA TcsTypes ==
  /\ NoTcs \in [st : {"none", "pending", "done", "failed"}, ok : BOOLEAN, lines : Seq(Cards),
                 own : BOOLEAN, op : Ops \cup {"NONE"}]
  /\ Pending \in [st : {"none", "pending", "done", "failed"}, ok : BOOLEAN, lines : Seq(Cards),
                   own : BOOLEAN, op : Ops \cup {"NONE"}]
  /\ Failed \in [st : {"none", "pending", "done", "failed"}, ok : BOOLEAN, lines : Seq(Cards),
                  own : BOOLEAN, op : Ops \cup {"NONE"}]
  /\ NoTcs.st = "none" /\ Pending.st = "pending" /\ Failed.st = "failed"
  /\ NoTcs.lines = << >> /\ Pending.lines = << >> /\ Failed.lines = << >>
BY NoCards DEF NoTcs, Pending, Failed

(* Lines that nobody disowned.                                             *)
LEMMA SameSelf ==
  ASSUME NEW L \in Seq(PanelLines)
  PROVE  SameLines(L, L)
BY DEF SameLines

(* The handler that waits stays where it is, and so do the lines.          *)
LEMMA OwnKept ==
  ASSUME OwnOnly, UNCHANGED <<holder, tcs, collecting, collectLines, toBoard, toPanel, past>>,
         tcs.st \in {"pending", "done"} => job'[holder].cmds = job[holder].cmds
  PROVE  OwnOnly'
<1>1. PICK h, c : h = holder /\ c = Head(job[holder].cmds) OBVIOUS
<1>2. tcs.st \in {"pending", "done"} => Head(job[holder].cmds)' = c BY <1>1
<1>3. tcs.st = "pending" => Underway(c) BY <1>1 DEF OwnOnly
<1>4. tcs.st = "done" => Answered(c) BY <1>1 DEF OwnOnly
<1>5. tcs.st = "pending" => Underway(c)' BY <1>3 DEF Underway
<1>6. tcs.st = "done" => Answered(c)' BY <1>4 DEF Answered
<1>7. tcs.st = "pending" => Underway(Head(job[holder].cmds))' BY <1>2, <1>5 DEF Underway
<1>8. tcs.st = "done" => Answered(Head(job[holder].cmds))' BY <1>2, <1>6 DEF Answered
<1>. QED BY <1>7, <1>8 DEF OwnOnly

(* The user starts a handler.                                              *)
LEMMA ClickStep ==
  ASSUME IInv, Click
  PROVE  IInv'
<1>1. PICK j \in session.jobs : \E p \in Programs : StartJob(j, p) BY DEF Click
<1>2. PICK p \in Programs : StartJob(j, p) BY <1>1
<1>3. Typed /\ BoardOK /\ Handlers /\ Views /\ Known(shown) BY DEF IInv, Views
<1>4. job' \in [Tasks -> HandlerStates] /\ Handlers' BY <1>2, <1>3, StartHandlers
<1>5. UNCHANGED <<session, open, holder, tcs, refreshBusy, shown, collecting, collectLines, toBoard, toPanel,
                  netifs, nextId, past, hits, late, lostLines, raws, cuts>>
  BY <1>2 DEF StartJob, view, reader, board
<1>6. Typed' BY <1>3, <1>4, <1>5 DEF Typed
<1>7. BoardOK' BY <1>3, <1>5 DEF BoardOK
<1>8. Views' BY <1>3, <1>5 DEF Views, Known
<1>9. ASSUME Undisturbed' PROVE OwnOnly'
  <2>1. OwnOnly BY <1>5, <1>9 DEF IInv, Undisturbed
  <2>2. holder # j /\ holder \in Tasks \cup {NONE}
    <3>1. j \in Tasks BY <1>3, TaskFacts DEF Typed, Jobs
    <3>2. job[j].st # "sent" BY <1>2 DEF StartJob, Idle
    <3>. QED BY <1>3, <3>1, <3>2 DEF Handlers, Locked, Typed
  <2>3. tcs.st # "none" => holder \in Tasks BY <1>3, <2>2 DEF Handlers, Locked
  <2>4. tcs.st # "none" => job'[holder] = job[holder] BY <1>2, <1>3, <2>2, <2>3 DEF StartJob, Typed
  <2>. QED BY <1>5, <2>1, <2>4, OwnKept
<1>. QED BY <1>4, <1>6, <1>7, <1>8, <1>9 DEF IInv

(* A refresh that the timer or connecting starts.                          *)
LEMMA PollStarts ==
  ASSUME IInv, ~refreshBusy, refreshBusy' = TRUE, open' \in BOOLEAN, late' \in Nat, late' = 0 => late = 0,
         job' = [job EXCEPT ![POLL] = Queued(<<LIST>>)],
         UNCHANGED <<session, holder, tcs, shown, collecting, collectLines, toBoard, toPanel,
                     netifs, nextId, past, hits, raws, cuts>>
  PROVE  IInv'
<1>1. Typed /\ BoardOK /\ Handlers /\ Views BY DEF IInv
<1>2. job' \in [Tasks -> HandlerStates] /\ Handlers' BY <1>1, RefreshStarts
<1>3. Typed' BY <1>1, <1>2 DEF Typed
<1>4. BoardOK' BY <1>1 DEF BoardOK
<1>5. Views' BY <1>1 DEF Views, Known
<1>6. ASSUME Undisturbed' PROVE OwnOnly'
  <2>1. OwnOnly BY <1>6 DEF IInv, Undisturbed
  <2>2. JobOK(POLL, job[POLL]) /\ job[POLL].cmds # <<LIST>> BY <1>1, TaskFacts DEF Handlers, Refreshing
  <2>3. job[POLL].st = "idle" BY <2>2, TaskFacts DEF JobOK, Idle
  <2>4. holder # POLL /\ (tcs.st # "none" => holder \in Tasks)
    BY <1>1, <2>3, TaskFacts DEF Handlers, Locked, Typed
  <2>5. tcs.st # "none" => job'[holder] = job[holder] BY <1>1, <2>4 DEF Typed
  <2>. QED BY <2>1, <2>5, OwnKept
<1>. QED BY <1>2, <1>3, <1>4, <1>5, <1>6 DEF IInv

(* The timer starts a refresh.                                             *)
LEMMA PollTickStep ==
  ASSUME IInv, PollTick
  PROVE  IInv'
<1>1. late \in Nat /\ open \in BOOLEAN BY DEF IInv, Typed
<1>2. ~refreshBusy /\ refreshBusy' = TRUE /\ job' = [job EXCEPT ![POLL] = Queued(<<LIST>>)]
  BY DEF PollTick, RefreshGuard
<1>3. late' \in Nat /\ (late' = 0 => late = 0) BY <1>1 DEF PollTick
<1>4. UNCHANGED <<session, open, holder, tcs, shown, collecting, collectLines, toBoard, toPanel,
                  netifs, nextId, past, hits, raws, cuts>>
  BY DEF PollTick, view, reader, board
<1>. QED BY <1>1, <1>2, <1>3, <1>4, PollStarts

(* The port is opened, and a refresh started.                              *)
LEMMA ConnectStep ==
  ASSUME IInv, Connect
  PROVE  IInv'
<1>1. Typed /\ BoardOK /\ Handlers /\ Views BY DEF IInv
<1>2. open' = TRUE /\ refreshBusy' = TRUE
      /\ UNCHANGED <<session, holder, tcs, shown, collecting, collectLines, toBoard, toPanel,
                     netifs, nextId, past, hits, late, raws, cuts>>
  BY DEF Connect, reader, board, bounds
<1>3. CASE ~refreshBusy
  <2>1. job' = [job EXCEPT ![POLL] = Queued(<<LIST>>)] BY <1>3 DEF Connect
  <2>2. late' \in Nat /\ late' = late BY <1>1, <1>2 DEF Typed
  <2>. QED BY <1>2, <1>3, <2>1, <2>2, PollStarts
<1>4. CASE refreshBusy
  <2>1. job' = job /\ refreshBusy' = refreshBusy BY <1>1, <1>2, <1>4 DEF Connect, Typed
  <2>2. Handlers' BY <1>1, <1>2, <2>1, HandlersKept
  <2>3. Typed' BY <1>1, <1>2, <2>1 DEF Typed
  <2>4. BoardOK' BY <1>1, <1>2 DEF BoardOK
  <2>5. Views' BY <1>1, <1>2 DEF Views, Known
  <2>6. Undisturbed' => OwnOnly' BY <1>2, <2>1, OwnKept DEF IInv, Undisturbed
  <2>. QED BY <2>2, <2>3, <2>4, <2>5, <2>6 DEF IInv
<1>. QED BY <1>1, <1>3, <1>4 DEF Typed

(* The port is closed: the pending command fails.                          *)
LEMMA DisconnectStep ==
  ASSUME IInv, Disconnect
  PROVE  IInv'
<1>1. Typed /\ BoardOK /\ Handlers /\ Views BY DEF IInv
<1>2. /\ open' = FALSE /\ cuts' = cuts + 1 /\ collecting' = FALSE /\ shown' = << >> /\ toPanel' = << >>
      /\ UNCHANGED <<session, job, holder, refreshBusy, collectLines, toBoard, netifs, nextId, past, hits,
                     started, late, lostLines, raws>>
  BY DEF Disconnect, board
<1>3. tcs' = tcs \/ (tcs.st = "pending" /\ tcs' = Failed) BY DEF Disconnect
<1>4. tcs'.st = "none" <=> tcs.st = "none" BY <1>3, TcsTypes
<1>5. Handlers' BY <1>1, <1>2, <1>4, HandlersKept
<1>6. Typed'
  <2>1. << >> \in Seq(PanelLines) /\ cuts + 1 \in Nat BY <1>1 DEF Typed
  <2>. QED BY <1>1, <1>2, <1>3, <2>1, TcsTypes DEF Typed
<1>7. BoardOK' BY <1>1, <1>2 DEF BoardOK
<1>8. Views'
  <2>1. Known(<< >>) BY <1>1, KnownEmpty
  <2>2. Known(tcs'.lines) BY <1>1, <1>3, <2>1, TcsTypes DEF Views
  <2>3. Framed(<< >>, FALSE, collectLines, past) BY DEF Framed
  <2>. QED BY <1>1, <1>2, <2>1, <2>2, <2>3 DEF Views, Known
<1>9. ~Undisturbed' BY <1>1, <1>2 DEF Undisturbed, Typed
<1>. QED BY <1>5, <1>6, <1>7, <1>8, <1>9 DEF IInv

(* A text is sent past the lock.                                           *)
LEMMA SendTextStep ==
  ASSUME IInv, SendText
  PROVE  IInv'
<1>1. Typed /\ BoardOK /\ Handlers /\ Views BY DEF IInv
<1>2. /\ raws' = raws + 1 /\ toBoard' = Append(toBoard, [own |-> FALSE, cmd |-> [op |-> "RAW"]])
      /\ UNCHANGED <<session, open, job, holder, tcs, refreshBusy, shown, collecting, collectLines, toPanel,
                     netifs, nextId, past, hits, late, cuts>>
  BY DEF SendText, panel, view, reader, board
<1>3. Handlers' BY <1>1, <1>2, HandlersKept
<1>4. Typed'
  <2>1. [own |-> FALSE, cmd |-> [op |-> "RAW"]] \in BoardLines BY DEF BoardLines, Cmds
  <2>2. PICK r \in BoardLines : r = [own |-> FALSE, cmd |-> [op |-> "RAW"]] BY <2>1
  <2>3. Append(toBoard, r) \in Seq(BoardLines) /\ raws + 1 \in Nat BY <1>1 DEF Typed
  <2>. QED BY <1>1, <1>2, <2>2, <2>3 DEF Typed
<1>5. BoardOK' BY <1>1, <1>2 DEF BoardOK
<1>6. Views' BY <1>1, <1>2 DEF Views, Known
<1>7. ~Undisturbed' BY <1>1, <1>2 DEF Undisturbed, Typed
<1>. QED BY <1>3, <1>4, <1>5, <1>6, <1>7 DEF IInv

(* SendCommandAsync takes the lock and writes the line.                    *)
LEMMA SendStep ==
  ASSUME IInv, NEW j \in Tasks, Send(j)
  PROVE  IInv'
<1>1. Typed /\ BoardOK /\ Handlers /\ Views BY DEF IInv
<1>2. /\ holder = NONE /\ holder' = j /\ tcs' = Pending /\ collecting' = FALSE
      /\ UNCHANGED <<session, open, refreshBusy, shown, collectLines, toPanel, netifs, nextId, past, hits,
                     late, raws, cuts>>
  BY DEF Send, LockFree, view, board, bounds
<1>3. job' \in [Tasks -> HandlerStates] /\ Handlers' BY <1>1, SendHandlers
<1>4. PICK c \in Cmds : c = Head(job[j].cmds)
  <2>1. JobOK(j, job[j]) /\ job[j].st = "queue" /\ job[j].cmds \in Seq(Cmds)
    BY <1>1 DEF Handlers, Send, Typed, HandlerStates
  <2>2. CASE job[j].cmds = <<LIST>> BY <2>2, CmdFacts
  <2>3. CASE UserCmds(job[j].cmds) BY <2>1, <2>3, UserFacts
  <2>. QED BY <2>1, <2>2, <2>3 DEF JobOK, Idle
<1>5. PICK r \in BoardLines : r = [own |-> TRUE, cmd |-> c]
  <2>1. [own |-> TRUE, cmd |-> c] \in BoardLines BY DEF BoardLines
  <2>. QED BY <2>1
<1>6. toBoard' = toBoard \/ toBoard' = Append(toBoard, r) BY <1>4, <1>5 DEF Send
<1>7. Typed'
  <2>1. toBoard' \in Seq(BoardLines)
    <3>1. toBoard \in Seq(BoardLines) BY <1>1 DEF Typed
    <3>2. Append(toBoard, r) \in Seq(BoardLines) BY <3>1
    <3>. QED BY <1>6, <3>1, <3>2
  <2>. QED BY <1>1, <1>2, <1>3, <2>1, TcsTypes DEF Typed
<1>8. BoardOK' BY <1>1, <1>2 DEF BoardOK
<1>9. Views'
  <2>1. Known(Pending.lines) BY <1>1, KnownEmpty, TcsTypes
  <2>2. toPanel \in Seq(PanelLines) /\ past \subseteq Seq(Cards) BY <1>1 DEF Typed, BoardOK
  <2>3. Framed(toPanel, FALSE, collectLines, past)
    BY <1>1, <2>2, SameSelf, FramedSame DEF Views
  <2>. QED BY <1>1, <1>2, <2>1, <2>3 DEF Views, Known
<1>10. ASSUME Undisturbed' PROVE OwnOnly'
  <2>1. OwnOnly BY <1>2, <1>10 DEF IInv, Undisturbed
  <2>2. tcs.st = "none" BY <1>1, <1>2 DEF Handlers, Locked
  <2>3. toBoard = << >> /\ toPanel = << >> BY <2>1, <2>2 DEF OwnOnly
  <2>4. job'[j].cmds = job[j].cmds
    <3>1. job'[j] = [job[j] EXCEPT !.st = "sent"] BY <1>1 DEF Send, Typed
    <3>2. job[j] \in HandlerStates BY <1>1 DEF Typed
    <3>. QED BY <3>1, <3>2 DEF HandlerStates
  <2>5. Head(job[holder].cmds)' = c BY <1>2, <1>4, <2>4
  <2>6. toBoard' = << >> \/ toBoard' = <<[own |-> TRUE, cmd |-> c]>> BY <1>5, <1>6, <2>3
  <2>7. toPanel' = << >> BY <1>2, <2>3
  <2>8. Underway(Head(job[holder].cmds))' BY <2>5, <2>6, <2>7 DEF Underway
  <2>9. tcs'.st = "pending" BY <1>2, TcsTypes
  <2>. QED BY <2>8, <2>9 DEF OwnOnly
<1>. QED BY <1>3, <1>7, <1>8, <1>9, <1>10 DEF IInv

(* The time-out of a command, its answer lost or late.                     *)
LEMMA TimeoutStep ==
  ASSUME IInv, TimeoutLost \/ TimeoutLate
  PROVE  IInv'
<1>1. Typed /\ BoardOK /\ Handlers /\ Views BY DEF IInv
<1>2. /\ tcs.st = "pending" /\ tcs' = Failed
      /\ UNCHANGED <<session, open, job, holder, refreshBusy, shown, collecting, collectLines, toBoard, toPanel,
                     netifs, nextId, past, hits, raws, cuts>>
  BY DEF TimeoutLost, TimeoutLate, view, reader, board, bounds
<1>3. (~OwnUnderway /\ late' = late) \/ late' = late + 1 BY DEF TimeoutLost, TimeoutLate, bounds
<1>4. Handlers'
  <2>1. tcs'.st = "none" <=> tcs.st = "none" BY <1>2, TcsTypes
  <2>. QED BY <1>1, <1>2, <2>1, HandlersKept
<1>5. Typed'
  <2>1. late' \in Nat BY <1>1, <1>3 DEF Typed
  <2>. QED BY <1>1, <1>2, <2>1, TcsTypes DEF Typed
<1>6. BoardOK' BY <1>1, <1>2 DEF BoardOK
<1>7. Views'
  <2>1. Known(Failed.lines) BY <1>1, KnownEmpty, TcsTypes
  <2>. QED BY <1>1, <1>2, <2>1 DEF Views, Known
<1>8. ASSUME Undisturbed' PROVE OwnOnly'
  <2>1. ~OwnUnderway /\ late' = late BY <1>1, <1>3, <1>8 DEF Undisturbed, Typed
  <2>2. OwnOnly BY <1>2, <1>8, <2>1 DEF IInv, Undisturbed
  <2>3. PICK c : c = Head(job[holder].cmds) OBVIOUS
  <2>4. Underway(c) BY <1>2, <2>2, <2>3 DEF OwnOnly
  <2>5. \A k \in DOMAIN toBoard : ~toBoard[k].own BY <2>1 DEF OwnUnderway, Range
  <2>6. \A k \in DOMAIN toPanel : ~toPanel[k].own BY <2>1 DEF OwnUnderway, Range
  <2>7. toBoard # <<[own |-> TRUE, cmd |-> c]>>
    <3>1. SUFFICES ASSUME toBoard = <<[own |-> TRUE, cmd |-> c]>> PROVE FALSE OBVIOUS
    <3>2. 1 \in DOMAIN toBoard /\ toBoard[1].own BY <3>1
    <3>. QED BY <2>5, <3>2
  <2>8. ~Coming(toPanel, c.op, collecting, collectLines, past)
    <3>1. SUFFICES ASSUME Coming(toPanel, c.op, collecting, collectLines, past) PROVE FALSE OBVIOUS
    <3>2. toPanel # << >> /\ \A k \in 1 .. Len(toPanel) : toPanel[k].own BY <3>1 DEF Coming
    <3>3. 1 \in 1 .. Len(toPanel) /\ 1 \in DOMAIN toPanel BY <1>1, <3>2 DEF Typed
    <3>. QED BY <2>6, <3>2, <3>3
  <2>9. toBoard = << >> /\ toPanel = << >> BY <2>4, <2>7, <2>8 DEF Underway
  <2>. QED BY <1>2, <2>9, TcsTypes DEF OwnOnly
<1>. QED BY <1>4, <1>5, <1>6, <1>7, <1>8 DEF IInv

(* SendCommandAsync returns.                                               *)
LEMMA ResumeStep ==
  ASSUME IInv, NEW j \in Tasks, Resume(j)
  PROVE  IInv'
<1>1. Typed /\ BoardOK /\ Handlers /\ Views BY DEF IInv
<1>2. /\ tcs.st \in {"done", "failed"} /\ holder' = NONE /\ tcs' = NoTcs
      /\ toBoard' = Disown(toBoard) /\ toPanel' = Disown(toPanel)
      /\ UNCHANGED <<session, open, collecting, collectLines, netifs, nextId, past, hits, late, raws, cuts>>
  BY DEF Resume, reader, board, bounds
<1>3. job' \in [Tasks -> HandlerStates] /\ Handlers' BY <1>1, ResumeHandlers
<1>4. toBoard \in Seq(BoardLines) /\ toPanel \in Seq(PanelLines) /\ past \subseteq Seq(Cards)
  BY <1>1 DEF Typed, BoardOK
<1>5. Disown(toBoard) \in Seq(BoardLines) /\ (toBoard = << >> => Disown(toBoard) = << >>)
  BY <1>4, DisownedCmds
<1>6. SameLines(toPanel, Disown(toPanel)) /\ (toPanel = << >> => Disown(toPanel) = << >>)
  BY <1>4, DisownedLines
<1>7. shown' = shown \/ shown' = tcs.lines BY DEF Resume, view
<1>8. refreshBusy' \in BOOLEAN BY <1>1 DEF Resume, Typed
<1>9. Typed'
  <2>1. toBoard' \in Seq(BoardLines) /\ toPanel' \in Seq(PanelLines) BY <1>2, <1>5, <1>6 DEF SameLines
  <2>. QED BY <1>1, <1>2, <1>3, <1>8, <2>1, TcsTypes DEF Typed
<1>10. BoardOK' BY <1>1, <1>2 DEF BoardOK
<1>11. Views'
  <2>1. Known(NoTcs.lines) BY <1>1, KnownEmpty, TcsTypes
  <2>2. Known(shown') BY <1>1, <1>7 DEF Views
  <2>3. PICK M : M = Disown(toPanel) OBVIOUS
  <2>4. Framed(M, collecting, collectLines, past) BY <1>1, <1>4, <1>6, <2>3, FramedSame DEF Views
  <2>. QED BY <1>1, <1>2, <2>1, <2>2, <2>3, <2>4 DEF Views, Known
<1>12. ASSUME Undisturbed' PROVE OwnOnly'
  <2>1. OwnOnly BY <1>2, <1>12 DEF IInv, Undisturbed
  <2>2. toBoard = << >> /\ toPanel = << >> BY <1>2, <2>1 DEF OwnOnly
  <2>3. toBoard' = << >> /\ toPanel' = << >> BY <1>2, <1>5, <1>6, <2>2
  <2>4. tcs'.st = "none" BY <1>2, TcsTypes
  <2>. QED BY <2>3, <2>4 DEF OwnOnly
<1>. QED BY <1>3, <1>9, <1>10, <1>11, <1>12 DEF IInv

(* The handler goes on after its command.                                  *)
LEMMA ContinueStep ==
  ASSUME IInv, NEW j \in Tasks, Continue(j)
  PROVE  IInv'
<1>1. Typed /\ BoardOK /\ Handlers /\ Views BY DEF IInv
<1>2. UNCHANGED <<session, open, holder, tcs, shown, collecting, collectLines, toBoard, toPanel,
                  netifs, nextId, past, hits, late, raws, cuts>>
  BY DEF Continue, reader, board, bounds
<1>3. job' \in [Tasks -> HandlerStates] /\ Handlers' BY <1>1, ContinueHandlers
<1>4. refreshBusy' \in BOOLEAN BY DEF Continue
<1>5. Typed' BY <1>1, <1>2, <1>3, <1>4 DEF Typed
<1>6. BoardOK' BY <1>1, <1>2 DEF BoardOK
<1>7. Views' BY <1>1, <1>2 DEF Views, Known
<1>8. ASSUME Undisturbed' PROVE OwnOnly'
  <2>1. OwnOnly BY <1>2, <1>8 DEF IInv, Undisturbed
  <2>2. holder # j /\ (tcs.st # "none" => holder \in Tasks) BY <1>1 DEF Continue, Handlers, Locked, Typed
  <2>3. \A k \in Tasks \ {j} : job'[k] = job[k] BY <1>1 DEF Continue, Typed
  <2>. QED BY <1>2, <2>1, <2>2, <2>3, OwnKept
<1>. QED BY <1>3, <1>5, <1>6, <1>7, <1>8 DEF IInv

(* A line to the board is lost.                                            *)
LEMMA LineLostStep ==
  ASSUME IInv, LineLost
  PROVE  IInv'
<1>1. Typed /\ BoardOK /\ Handlers /\ Views BY DEF IInv
<1>2. /\ toBoard # << >> /\ toBoard' = Tail(toBoard)
      /\ UNCHANGED <<session, open, job, holder, tcs, refreshBusy, shown, collecting, collectLines, toPanel,
                     netifs, nextId, past, hits, late, raws, cuts>>
  BY DEF LineLost, panel, view, reader, board
<1>3. Handlers' BY <1>1, <1>2, HandlersKept
<1>4. Typed'
  <2>1. Tail(toBoard) \in Seq(BoardLines) BY <1>1, <1>2, HeadTailProperties DEF Typed
  <2>. QED BY <1>1, <1>2, <2>1 DEF Typed
<1>5. BoardOK' BY <1>1, <1>2 DEF BoardOK
<1>6. Views' BY <1>1, <1>2 DEF Views, Known
<1>7. ASSUME Undisturbed' PROVE OwnOnly'
  <2>1. OwnOnly BY <1>2, <1>7 DEF IInv, Undisturbed
  <2>2. PICK c : c = Head(job[holder].cmds) OBVIOUS
  <2>3. tcs.st = "pending" /\ Underway(c) BY <1>2, <2>1, <2>2 DEF OwnOnly
  <2>4. toBoard = <<[own |-> TRUE, cmd |-> c]>> /\ toPanel = << >> BY <1>2, <2>3 DEF Underway
  <2>5. toBoard' = << >> BY <1>2, <2>4
  <2>. QED BY <1>2, <2>3, <2>4, <2>5 DEF OwnOnly, Underway
<1>. QED BY <1>3, <1>4, <1>5, <1>6, <1>7 DEF IInv

(* ProcessLine takes a line of the board.                                  *)
LEMMA ProcessLineStep ==
  ASSUME IInv, ProcessLine
  PROVE  IInv'
<1>1. Typed /\ BoardOK /\ Handlers /\ Views BY DEF IInv
<1>2. /\ toPanel # << >> /\ toPanel' = Tail(toPanel)
      /\ UNCHANGED <<session, open, job, holder, refreshBusy, shown, toBoard, netifs, nextId, past, hits,
                     late, raws, cuts>>
  BY DEF ProcessLine, view, board, bounds
<1>3. PICK L \in Seq(PanelLines) : L = toPanel BY <1>1 DEF Typed
<1>4. PICK T \in Seq(PanelLines) : T = Tail(L) /\ Behind(T, L) BY <1>2, <1>3, TailBehind DEF Behind
<1>5. PICK h \in PanelLines : h = L[1] /\ h = Head(L) BY <1>2, <1>3, TailBehind
<1>6. h.kind \in {"BEGIN", "NETIF", "END", "ERR"} /\ h.own \in BOOLEAN
      /\ (h.kind \in {"END", "ERR"} => h.op \in Ops /\ h.ok \in BOOLEAN)
      /\ (h.kind = "NETIF" => h.card \in Cards)
  BY LineFacts
<1>7. collectLines \in Seq(Cards) /\ Known(collectLines) /\ past \subseteq Seq(Cards)
      /\ Framed(L, collecting, collectLines, past)
  BY <1>1, <1>3 DEF Views, Known, Part, BoardOK
<1>8. Collects(h, collecting, collectLines, collecting', collectLines')
      /\ collecting' \in BOOLEAN /\ (h.kind = "NETIF" /\ ~collecting => collectLines' = collectLines)
      /\ (h.kind \in {"END", "ERR"} => collectLines' = collectLines)
  BY <1>1, <1>3, <1>5 DEF ProcessLine, Collects, LinesAtBegin, reader, Typed
<1>9. h.kind \in {"BEGIN", "NETIF"} => tcs' = tcs BY <1>3, <1>5 DEF ProcessLine
<1>10. h.kind = "END" => Complete(h, collectLines) BY <1>3, <1>5 DEF ProcessLine
<1>11. h.kind = "ERR" => Complete(h, << >>) BY <1>3, <1>5 DEF ProcessLine
<1>12. tcs' = tcs \/ (/\ tcs.st = "pending" /\ h.kind \in {"END", "ERR"}
                      /\ \E ls \in {collectLines, << >>} :
                           tcs' = [st |-> "done", ok |-> h.ok, lines |-> ls, own |-> h.own, op |-> h.op])
  BY <1>6, <1>9, <1>10, <1>11 DEF Complete
<1>13. Handlers'
  <2>1. tcs'.st = "none" <=> tcs.st = "none" BY <1>12
  <2>. QED BY <1>1, <1>2, <2>1, HandlersKept
<1>14. Known(collectLines')
  <2>1. CASE h.kind = "BEGIN"
    <3>1. collectLines' = << >> BY <1>8, <2>1 DEF Collects
    <3>. QED BY <1>1, <3>1, KnownEmpty
  <2>2. CASE h.kind = "NETIF" /\ collecting
    <3>1. collectLines' = Append(collectLines, L[1].card) BY <1>5, <1>8, <2>2 DEF Collects
    <3>2. Framed(L, TRUE, collectLines, past) BY <1>1, <1>7, <2>2 DEF Typed
    <3>3. \E p \in past : Part(Append(collectLines, L[1].card), p)
      BY <1>2, <1>3, <1>5, <1>7, <2>2, <3>2, CardFits
    <3>. QED BY <3>1, <3>3 DEF Known
  <2>3. CASE h.kind \in {"END", "ERR"} \/ (h.kind = "NETIF" /\ ~collecting) BY <1>7, <1>8, <2>3
  <2>. QED BY <1>6, <2>1, <2>2, <2>3
<1>15. Typed'
  <2>1. tcs' \in [st : {"none", "pending", "done", "failed"}, ok : BOOLEAN, lines : Seq(Cards),
                  own : BOOLEAN, op : Ops \cup {"NONE"}]
    <3>1. CASE tcs' = tcs BY <1>1, <3>1 DEF Typed
    <3>2. CASE tcs' # tcs
      <4>1. PICK ls \in {collectLines, << >>} :
              tcs' = [st |-> "done", ok |-> h.ok, lines |-> ls, own |-> h.own, op |-> h.op]
        BY <1>12, <3>2
      <4>2. ls \in Seq(Cards) /\ h.ok \in BOOLEAN /\ h.own \in BOOLEAN /\ h.op \in Ops
        BY <1>6, <1>7, <1>12, <3>2, NoCards
      <4>. QED BY <4>1, <4>2
    <3>. QED BY <3>1, <3>2
  <2>2. toPanel' \in Seq(PanelLines) BY <1>2, <1>3, <1>4
  <2>. QED BY <1>1, <1>2, <1>8, <2>1, <2>2 DEF Typed
<1>16. BoardOK' BY <1>1, <1>2 DEF BoardOK
<1>17. Views'
  <2>1. Known(tcs'.lines)
    <3>1. CASE tcs' = tcs BY <1>1, <3>1 DEF Views
    <3>2. CASE tcs' # tcs
      <4>1. tcs'.lines \in {collectLines, << >>} BY <1>12, <3>2
      <4>. QED BY <1>1, <1>7, <4>1, KnownEmpty
    <3>. QED BY <3>1, <3>2
  <2>2. PICK on1, C1 : on1 = collecting' /\ C1 = collectLines' OBVIOUS
  <2>3. Collects(L[1], collecting, collectLines, on1, C1) BY <1>5, <1>8, <2>2
  <2>4. Framed(T, on1, C1, past) BY <1>4, <1>7, <2>3, FramedPop
  <2>. QED BY <1>1, <1>2, <1>3, <1>4, <1>14, <2>1, <2>2, <2>4 DEF Views, Known
<1>18. ASSUME Undisturbed' PROVE OwnOnly'
  <2>1. OwnOnly BY <1>2, <1>18 DEF IInv, Undisturbed
  <2>2. PICK c : c = Head(job[holder].cmds) OBVIOUS
  <2>3. c = Head(job[holder].cmds)' BY <1>2, <2>2
  <2>4. tcs.st = "pending" /\ Underway(c) BY <1>2, <2>1, <2>2 DEF OwnOnly
  <2>5. toBoard = << >> /\ Coming(L, c.op, collecting, collectLines, past) BY <1>2, <1>3, <2>4 DEF Underway
  <2>6. CASE T = << >>
    <3>1. Len(L) = 1
      <4>1. Len(L) = Len(T) + 1 BY <1>4 DEF Behind
      <4>2. Len(T) = 0 BY <2>6
      <4>. QED BY <4>1, <4>2
    <3>2. h.kind = "END" /\ h.op = c.op /\ h.own /\ (c.op = "LIST" => collectLines \in past)
      BY <1>5, <1>7, <2>5, <3>1, ComingEnds
    <3>3. tcs' = [st |-> "done", ok |-> h.ok, lines |-> collectLines, own |-> h.own, op |-> h.op]
      BY <1>10, <2>4, <3>2 DEF Complete
    <3>4. tcs'.st = "done" /\ tcs'.own /\ tcs'.op = c.op /\ tcs'.lines = collectLines BY <3>2, <3>3
    <3>5. Answered(c)' BY <1>2, <3>2, <3>4 DEF Answered
    <3>6. Answered(Head(job[holder].cmds))' BY <2>3, <3>5 DEF Answered
    <3>7. toBoard' = << >> /\ toPanel' = << >> BY <1>2, <1>3, <1>4, <2>5, <2>6
    <3>. QED BY <3>4, <3>6, <3>7 DEF OwnOnly
  <2>7. CASE T # << >>
    <3>1. PICK on1, C1 : on1 = collecting' /\ C1 = collectLines' OBVIOUS
    <3>2. Collects(L[1], collecting, collectLines, on1, C1) BY <1>5, <1>8, <3>1
    <3>3. Coming(T, c.op, on1, C1, past) /\ L[1].kind \in {"BEGIN", "NETIF"}
      BY <1>4, <1>7, <2>5, <2>7, <3>2, ComingPop
    <3>4. tcs' = tcs BY <1>5, <1>9, <3>3
    <3>5. toBoard' = << >> /\ toPanel' = T BY <1>2, <1>3, <1>4, <2>5
    <3>6. Coming(toPanel, c.op, collecting, collectLines, past)' BY <1>2, <3>1, <3>3, <3>5
    <3>7. Underway(c)' BY <3>5, <3>6 DEF Underway
    <3>8. Underway(Head(job[holder].cmds))' BY <2>3, <3>7 DEF Underway
    <3>. QED BY <2>4, <3>4, <3>8 DEF OwnOnly
  <2>. QED BY <2>6, <2>7
<1>. QED BY <1>13, <1>15, <1>16, <1>17, <1>18 DEF IInv

(* A listing of the board is remembered.                                   *)
LEMMA KnownLater ==
  ASSUME NEW s, Known(s), past \subseteq past'
  PROVE  \E p \in past' : Part(s, p)
BY DEF Known

(* The board executes a command.                                           *)
LEMMA DispatchStep ==
  ASSUME IInv, cmd_dispatch
  PROVE  IInv'
<1>1. Typed /\ BoardOK /\ Handlers /\ Views BY DEF IInv
<1>2. /\ toBoard # << >> /\ toBoard' = Tail(toBoard)
      /\ UNCHANGED <<session, open, job, holder, tcs, refreshBusy, shown, collecting, collectLines, late, raws, cuts>>
  BY DEF cmd_dispatch, panel, view, reader, bounds
<1>3. PICK l \in BoardLines : l = Head(toBoard) BY <1>1, <1>2, HeadTailProperties DEF Typed
<1>4. PICK k : k = l.cmd OBVIOUS
<1>5. \/ cmd_netif_list(k) \/ cmd_netif_add(k) \/ cmd_netif_del(k)
      \/ cmd_netif_set(k) \/ cmd_other(k) \/ UnknownCommand(k)
  BY <1>3, <1>4 DEF cmd_dispatch
<1>6. BoardOK' /\ past \subseteq past' /\ Replies(l, past') BY <1>1, <1>3, <1>4, <1>5, Dispatched
<1>7. PICK Q : Q = past' /\ Q \subseteq Seq(Cards) /\ past \subseteq Q BY <1>6 DEF BoardOK
<1>8. PICK F \in Seq(PanelLines) :
        /\ open => toPanel' = toPanel \o F
        /\ ~open => toPanel' = toPanel
        /\ Whole(F, Q)
        /\ l.own /\ l.cmd.op # "RAW" => \A on, C : Coming(F, l.cmd.op, on, C, Q)
  BY <1>6, <1>7 DEF Replies
<1>9. toPanel \in Seq(PanelLines) /\ past \subseteq Seq(Cards) /\ toBoard \in Seq(BoardLines)
  BY <1>1 DEF Typed, BoardOK
<1>10. Handlers' BY <1>1, <1>2, HandlersKept
<1>11. Typed'
  <2>1. Tail(toBoard) \in Seq(BoardLines) BY <1>2, <1>9, HeadTailProperties
  <2>2. toPanel \o F \in Seq(PanelLines) BY <1>9
  <2>3. toPanel' \in Seq(PanelLines) BY <1>8, <1>9, <2>2
  <2>. QED BY <1>1, <1>2, <2>1, <2>3 DEF Typed
<1>12. Views'
  <2>1. Known(shown)' /\ Known(collectLines)' /\ Known(tcs.lines)'
    <3>1. Known(shown) /\ Known(collectLines) /\ Known(tcs.lines) BY <1>1 DEF Views
    <3>2. /\ \E p \in past' : Part(shown, p)
          /\ \E p \in past' : Part(collectLines, p)
          /\ \E p \in past' : Part(tcs.lines, p)
      BY <1>6, <3>1, KnownLater
    <3>. QED BY <1>2, <3>2 DEF Known
  <2>2. Framed(toPanel, collecting, collectLines, Q)
    BY <1>1, <1>7, <1>9, SameSelf, FramedSame DEF Views
  <2>3. Framed(toPanel \o F, collecting, collectLines, Q) BY <1>7, <1>8, <1>9, <2>2, FramedJoin
  <2>4. PICK M : M = toPanel' OBVIOUS
  <2>5. Framed(M, collecting, collectLines, Q) BY <1>8, <2>2, <2>3, <2>4
  <2>. QED BY <1>2, <1>7, <2>1, <2>4, <2>5 DEF Views
<1>13. ASSUME Undisturbed' PROVE OwnOnly'
  <2>1. OwnOnly BY <1>2, <1>13 DEF IInv, Undisturbed
  <2>2. PICK c : c = Head(job[holder].cmds) OBVIOUS
  <2>3. c = Head(job[holder].cmds)' BY <1>2, <2>2
  <2>4. tcs.st = "pending" /\ Underway(c) BY <1>2, <2>1, <2>2 DEF OwnOnly
  <2>5. toBoard = <<[own |-> TRUE, cmd |-> c]>> /\ toPanel = << >> BY <1>2, <2>4 DEF Underway
  <2>6. l.own /\ l.cmd = c
    <3>1. l = [own |-> TRUE, cmd |-> c] BY <1>3, <2>5
    <3>. QED BY <3>1
  <2>7. toBoard' = << >> BY <1>2, <2>5
  <2>8. c.op # "RAW"
    <3>1. holder \in Tasks BY <1>1, <2>4 DEF Handlers, Locked, Typed
    <3>2. JobOK(holder, job[holder]) /\ job[holder].st = "sent" /\ job[holder].cmds \in Seq(Cmds)
      BY <1>1, <3>1 DEF Handlers, Locked, Typed, HandlerStates
    <3>3. CASE job[holder].cmds = <<LIST>> BY <2>2, <3>3, CmdFacts
    <3>4. CASE UserCmds(job[holder].cmds) BY <2>2, <3>2, <3>4, UserFacts
    <3>. QED BY <3>2, <3>3, <3>4 DEF JobOK, Idle
  <2>9. Coming(F, c.op, collecting, collectLines, Q) BY <1>8, <2>6, <2>8
  <2>10. toPanel' = << >> \/ toPanel' = F BY <1>8, <2>5
  <2>11. PICK M : M = toPanel' OBVIOUS
  <2>12. M = << >> \/ Coming(M, c.op, collecting, collectLines, Q) BY <2>9, <2>10, <2>11
  <2>13. Underway(c)' BY <1>2, <1>7, <2>7, <2>11, <2>12 DEF Underway
  <2>14. Underway(Head(job[holder].cmds))' BY <2>3, <2>13 DEF Underway
  <2>. QED BY <1>2, <2>4, <2>14 DEF OwnOnly
<1>. QED BY <1>6, <1>10, <1>11, <1>12, <1>13 DEF IInv

-----------------------------------------------------------------------------
(* The initial states satisfy the invariant.                               *)
LEMMA Initially == Init => IInv
<1>. SUFFICES ASSUME Init PROVE IInv OBVIOUS
<1>1. BoardOK
  <2>1. <<1>> \in Seq(1 .. MaxId) /\ 2 \in 2 .. MaxId + 1
    <3>1. PICK S : S = 1 .. MaxId OBVIOUS
    <3>2. 1 \in S BY <3>1, PanelAssumption
    <3>3. <<1>> \in Seq(S) BY <3>2
    <3>. QED BY <3>1, <3>3, PanelAssumption
  <2>2. Listing(<<1>>) \in Seq(Cards) BY <2>1, ListingFacts
  <2>. QED BY <2>1, <2>2 DEF Init, BoardOK
<1>2. Typed
  <2>1. << >> \in Seq(BoardLines) /\ << >> \in Seq(PanelLines) OBVIOUS
  <2>2. job \in [Tasks -> HandlerStates] BY CmdFacts DEF Init
  <2>. QED BY <2>1, <2>2, TcsTypes DEF Init, Typed
<1>3. Handlers
  <2>1. \A j \in Tasks : job[j] = Idle BY DEF Init
  <2>2. \A j \in Tasks : JobOK(j, job[j]) BY <2>1 DEF JobOK
  <2>3. \A j \in Tasks : job[j].st = "idle" /\ job[j].cmds # <<LIST>> BY <2>1, CmdFacts DEF Idle
  <2>4. Locked BY <2>3, TaskFacts, TcsTypes DEF Locked, Init
  <2>5. Refreshing BY <2>3 DEF Refreshing, Init
  <2>. QED BY <2>2, <2>4, <2>5 DEF Handlers
<1>4. Views
  <2>1. Known(<< >>) BY <1>1, KnownEmpty
  <2>2. Framed(<< >>, FALSE, << >>, past) BY DEF Framed
  <2>. QED BY <2>1, <2>2, TcsTypes DEF Views, Init
<1>5. OwnOnly BY TcsTypes DEF OwnOnly, Init
<1>. QED BY <1>1, <1>2, <1>3, <1>4, <1>5 DEF IInv

(* The inductive invariant of the panel holds in every state, whatever the *)
(* user, the line and the board do.                                        *)
THEOREM Invariance == Spec => []IInv
<1>1. IInv /\ [Next]_vars => IInv'
  <2>. SUFFICES ASSUME IInv, [Next]_vars PROVE IInv' OBVIOUS
  <2>1. CASE Click BY <2>1, ClickStep
  <2>2. CASE PollTick BY <2>2, PollTickStep
  <2>3. CASE Connect BY <2>3, ConnectStep
  <2>4. CASE Disconnect BY <2>4, DisconnectStep
  <2>5. CASE SendText BY <2>5, SendTextStep
  <2>6. ASSUME NEW j \in Tasks, Step(j) PROVE IInv'
    BY <2>6, SendStep, ResumeStep, ContinueStep DEF Step
  <2>7. CASE TimeoutLost \/ TimeoutLate BY <2>7, TimeoutStep
  <2>8. CASE ProcessLine BY <2>8, ProcessLineStep
  <2>9. CASE cmd_dispatch BY <2>9, DispatchStep
  <2>10. CASE LineLost BY <2>10, LineLostStep
  <2>11. CASE StopPing \/ UNCHANGED vars
    <3>1. UNCHANGED <<session, open, job, holder, tcs, refreshBusy, shown, collecting, collectLines,
                      toBoard, toPanel, netifs, nextId, past, late, raws, cuts>>
      BY <2>11 DEF StopPing, vars, panel, view, reader, board, bounds
    <3>2. Typed' /\ BoardOK' BY <3>1 DEF IInv, Typed, BoardOK
    <3>3. Handlers' BY <3>1, HandlersKept DEF IInv
    <3>4. Views' BY <3>1 DEF IInv, Views, Known
    <3>5. Undisturbed' => OwnOnly' BY <3>1, OwnKept DEF IInv, Undisturbed
    <3>. QED BY <3>2, <3>3, <3>4, <3>5 DEF IInv
  <2>. QED BY <2>1, <2>2, <2>3, <2>4, <2>5, <2>6, <2>7, <2>8, <2>9, <2>10, <2>11 DEF Next
<1>. QED BY <1>1, Initially, PTL DEF Spec

(* SendCommandAsync returns the whole answer to its own command, for any   *)
(* number of handlers and of cards, as long as no answer was late, no      *)
(* command cancelled and no text sent past the lock.                       *)
THEOREM ResponseIsOwnCorrect == Spec => []ResponseIsOwn
<1>1. IInv => ResponseIsOwn BY DEF IInv, Undisturbed, OwnOnly, Answered, ResponseIsOwn
<1>. QED BY <1>1, Invariance, PTL

(* A beginning is a prefix.                                                *)
LEMMA PartIsPrefix ==
  ASSUME NEW s, NEW p \in Seq(Cards), Part(s, p)
  PROVE  IsPrefix(s, p)
<1>1. s \in Seq(Cards) /\ Len(s) <= Len(p) /\ \A i \in 1 .. Len(s) : s[i] = p[i] BY DEF Part
<1>2. PICK n \in Nat : n = Len(s) BY <1>1
<1>3. PICK a \in Seq(Cards) : a = SubSeq(s, 1, n) /\ Len(a) = n /\ \A i \in 1 .. n : a[i] = s[i]
  <2>1. SubSeq(s, 1, n) \in Seq(Cards) /\ Len(SubSeq(s, 1, n)) = n
        /\ \A i \in 1 .. n : SubSeq(s, 1, n)[i] = s[i]
    BY <1>1, <1>2
  <2>. QED BY <2>1
<1>4. PICK b \in Seq(Cards) : b = SubSeq(p, 1, n) /\ Len(b) = n /\ \A i \in 1 .. n : b[i] = p[i]
  <2>1. SubSeq(p, 1, n) \in Seq(Cards) /\ Len(SubSeq(p, 1, n)) = n
        /\ \A i \in 1 .. n : SubSeq(p, 1, n)[i] = p[i]
    BY <1>1, <1>2
  <2>. QED BY <2>1
<1>5. a = b BY <1>1, <1>2, <1>3, <1>4
<1>. QED BY <1>1, <1>2, <1>3, <1>4, <1>5 DEF IsPrefix

(* The ping that can be stopped, and the signature of the cards.           *)
PingOK ==
  /\ inputOn \in BOOLEAN
  /\ pingCts \in Jobs \cup {NONE} /\ cancelled \subseteq Jobs
  /\ SignatureTrue

(* Every step keeps them: a refresh sets cards and signature together.     *)
LEMMA PingStep ==
  ASSUME Typed, PingOK, [Next]_vars
  PROVE  PingOK'
<1>0. /\ inputOn \in BOOLEAN /\ open \in BOOLEAN /\ pingCts \in Jobs \cup {NONE}
      /\ cancelled \subseteq Jobs /\ signature \in {<< >>, shown}
  BY DEF PingOK, SignatureTrue, Typed
<1>1. CASE UNCHANGED <<view, ping>> BY <1>0, <1>1 DEF PingOK, SignatureTrue, view, ping
<1>2. CASE Click
  <2>1. PICK j \in session.jobs, p \in Programs : StartJob(j, p) BY <1>2 DEF Click
  <2>2. j \in Jobs BY <2>1 DEF Jobs, Typed
  <2>3. UNCHANGED view BY <2>1 DEF StartJob
  <2>4. UNCHANGED ping \/ StartPing(j) BY <2>1 DEF StartJob
  <2>. QED BY <1>0, <2>2, <2>3, <2>4 DEF PingOK, SignatureTrue, StartPing, view, ping
<1>3. CASE StopPing
  <2>1. UNCHANGED <<view, pingCts, inputOn>> /\ cancelled' = Cancelled BY <1>3 DEF StopPing
  <2>. QED BY <1>0, <2>1 DEF PingOK, SignatureTrue, Cancelled, view
<1>4. CASE Connect
  <2>1. signature' = << >> /\ inputOn' = TRUE /\ UNCHANGED <<shown, pingCts, cancelled>>
    BY <1>4 DEF Connect
  <2>. QED BY <1>0, <2>1 DEF PingOK, SignatureTrue
<1>5. CASE Disconnect
  <2>1. shown' = << >> /\ signature' = << >> /\ cancelled' = Cancelled /\ inputOn' = FALSE
        /\ UNCHANGED pingCts
    BY <1>5 DEF Disconnect
  <2>. QED BY <1>0, <2>1 DEF PingOK, SignatureTrue, Cancelled
<1>6. ASSUME NEW j \in Tasks, Step(j) PROVE PingOK'
  <2>1. CASE Send(j)
    <3>1. UNCHANGED <<view, ping>> BY <2>1 DEF Send
    <3>. QED BY <1>1, <3>1
  <2>2. CASE Resume(j)
    <3>1. UNCHANGED ping BY <2>2 DEF Resume
    <3>2. \/ UNCHANGED view
          \/ shown' = tcs.lines /\ signature' = tcs.lines
          \/ shown' = shown /\ signature' = signature
      BY <2>2 DEF Resume
    <3>. QED BY <1>0, <3>1, <3>2 DEF PingOK, SignatureTrue, view, ping
  <2>3. CASE Continue(j)
    <3>1. signature' \in {<< >>, signature} /\ UNCHANGED <<shown, cancelled>>
      BY <2>3 DEF Continue
    <3>2. (pingCts' = NONE /\ inputOn' = open) \/ UNCHANGED <<pingCts, inputOn>>
      BY <2>3 DEF Continue
    <3>. QED BY <1>0, <3>1, <3>2 DEF PingOK, SignatureTrue
  <2>. QED BY <1>6, <2>1, <2>2, <2>3 DEF Step
<1>7. CASE PollTick \/ TimeoutLost \/ TimeoutLate \/ ProcessLine
  <2>1. UNCHANGED <<view, ping>> BY <1>7 DEF PollTick, TimeoutLost, TimeoutLate, ProcessLine
  <2>. QED BY <1>1, <2>1
<1>8. CASE SendText \/ cmd_dispatch \/ LineLost \/ UNCHANGED vars
  <2>1. UNCHANGED panel BY <1>8 DEF SendText, cmd_dispatch, LineLost, vars
  <2>2. UNCHANGED <<view, ping>> BY <2>1 DEF panel
  <2>. QED BY <1>1, <2>2
<1>. QED BY <1>2, <1>3, <1>4, <1>5, <1>6, <1>7, <1>8 DEF Next

(* So they hold throughout.                                                *)
THEOREM PingInvariance == Spec => []PingOK
<1>1. Init => PingOK BY DEF Init, PingOK, SignatureTrue
<1>2. IInv /\ PingOK /\ [Next]_vars => PingOK' BY PingStep DEF IInv
<1>. QED BY <1>1, <1>2, Invariance, PTL DEF Spec

(* Whatever was lost, late, cancelled or typed past the lock, the cards    *)
(* show the beginning of one listing of the board, their signature is that *)
(* of what they show, the lock has a holder exactly while a command is     *)
(* pending, and one refresh at most is under way.                          *)
THEOREM CardsSoundCorrect == Spec => []CardsSound
<1>1. IInv /\ PingOK => CardsSound
  <2>. SUFFICES ASSUME IInv, PingOK PROVE CardsSound OBVIOUS
  <2>1. Typed /\ BoardOK /\ Handlers /\ Views BY DEF IInv
  <2>2. ShownIsPrefix
    <3>1. PICK p \in past : Part(shown, p) BY <2>1 DEF Views, Known
    <3>2. p \in Seq(Cards) BY <2>1 DEF BoardOK
    <3>3. IsPrefix(shown, p) BY <3>1, <3>2, PartIsPrefix
    <3>. QED BY <3>3 DEF ShownIsPrefix
  <2>3. Cardinality({j \in Tasks : job[j].cmds = <<LIST>>}) <= 1
    <3>1. PICK R : R = {j \in Tasks : job[j].cmds = <<LIST>>} OBVIOUS
    <3>2. CASE R = {} BY <3>1, <3>2, FS_EmptySet
    <3>3. CASE R # {}
      <4>1. PICK j : j \in R BY <3>3
      <4>2. R = {j} BY <2>1, <3>1, <4>1 DEF Handlers, Refreshing
      <4>3. Cardinality(R) = 1 BY <4>2, FS_Singleton
      <4>. QED BY <3>1, <4>3
    <3>. QED BY <3>2, <3>3
  <2>4. Range(netifs) \subseteq 1 .. MaxId
    <3>1. PICK S : S = 1 .. MaxId OBVIOUS
    <3>2. netifs \in Seq(S) BY <2>1, <3>1 DEF BoardOK
    <3>3. \A i \in DOMAIN netifs : netifs[i] \in S BY <3>2
    <3>. QED BY <3>1, <3>3 DEF Range
  <2>5. \A j \in Tasks : job[j].st \in {"idle", "queue", "sent", "ok", "broken"}
    BY <2>1 DEF Typed, HandlerStates
  <2>6. Locked /\ (refreshBusy <=> \E j \in Tasks : job[j].cmds = <<LIST>>)
    BY <2>1 DEF Handlers, Refreshing
  <2>7. {open, collecting, refreshBusy, inputOn} \subseteq BOOLEAN
        /\ pingCts \in Jobs \cup {NONE} /\ cancelled \subseteq Jobs
    BY <2>1 DEF Typed, PingOK
  <2>8. TypeOK BY <2>1, <2>3, <2>4, <2>5, <2>6, <2>7 DEF TypeOK, Typed, BoardOK, Locked
  <2>. QED BY <2>2, <2>8 DEF CardsSound, PingOK
<1>. QED BY <1>1, Invariance, PingInvariance, PTL

-----------------------------------------------------------------------------
(* The command channel.  Its bytes, their order, and where they are.       *)

(* Byte i of line n, its last byte, and all the bytes of the lines s.      *)
ByteAt(s, n, i) ==
  [ch |-> IF i <= Len(s[n]) THEN s[n][i] ELSE "CR", line |-> n, at |-> i]

LastByte(s, n) == [ch |-> "CR", line |-> n, at |-> Len(s[n]) + 1]

AllBytes(s) == UNION {Range(Line(s[n], n)) : n \in DOMAIN s}

Bytes == [ch : Chars, line : Nat, at : Nat]

(* What is known of a byte of s.                                           *)
IsByte(s, b) ==
  /\ b \in Bytes
  /\ b.line \in 1 .. Len(s)
  /\ b.at \in 1 .. Len(s[b.line]) + 1
  /\ b = ByteAt(s, b.line, b.at)
  /\ b.ch = "CR" <=> b.at = Len(s[b.line]) + 1
  /\ b.ch = "CR" <=> b = LastByte(s, b.line)

(* A line of the host is a text.                                           *)
LEMMA TextOf ==
  ASSUME NEW s \in Seq(Texts), NEW n \in 1 .. Len(s)
  PROVE  /\ s[n] \in Texts /\ s[n] \in Seq(Chars) /\ Len(s[n]) \in Nat \ {0}
         /\ \A i \in 1 .. Len(s[n]) : s[n][i] \in Chars /\ s[n][i] # "CR"
<1>1. s[n] \in Texts OBVIOUS
<1>2. s[n] \in Seq(Chars) /\ s[n] # << >> /\ "CR" \notin Range(s[n]) BY <1>1, ChannelAssumption
<1>3. Len(s[n]) \in Nat \ {0} BY <1>2, EmptySeq, LenProperties
<1>4. \A i \in 1 .. Len(s[n]) : s[n][i] \in Chars /\ s[n][i] # "CR"
  BY <1>2, ElementOfSeq, LenProperties DEF Range
<1>. QED BY <1>1, <1>2, <1>3, <1>4

(* The bytes of a line by their places.                                    *)
LEMMA AtFacts ==
  ASSUME NEW s \in Seq(Texts), NEW n \in 1 .. Len(s), NEW i \in 1 .. Len(s[n]) + 1
  PROVE  /\ ByteAt(s, n, i) \in AllBytes(s)
         /\ ByteAt(s, n, i).line = n /\ ByteAt(s, n, i).at = i
         /\ IsByte(s, ByteAt(s, n, i))
<1>1. /\ Len(s[n]) \in Nat \ {0} /\ n \in Nat
      /\ \A k \in 1 .. Len(s[n]) : s[n][k] \in Chars /\ s[n][k] # "CR"
  BY TextOf
<1>2. ByteAt(s, n, i) = Line(s[n], n)[i] /\ i \in DOMAIN Line(s[n], n) BY DEF ByteAt, Line
<1>3. ByteAt(s, n, i) \in Range(Line(s[n], n)) BY <1>2 DEF Range
<1>4. ByteAt(s, n, i) \in AllBytes(s) BY <1>3, LenProperties DEF AllBytes
<1>5. ByteAt(s, n, i).line = n /\ ByteAt(s, n, i).at = i BY DEF ByteAt
<1>6. ByteAt(s, n, i) \in Bytes
  <2>. "CR" \in Chars BY DEF Chars
  <2>1. (IF i <= Len(s[n]) THEN s[n][i] ELSE "CR") \in Chars BY <1>1
  <2>. QED BY <2>1, <1>1 DEF ByteAt, Bytes
<1>7. ByteAt(s, n, i).ch = "CR" <=> i = Len(s[n]) + 1 BY <1>1 DEF ByteAt
<1>8. ByteAt(s, n, i).ch = "CR" <=> ByteAt(s, n, i) = LastByte(s, n)
  BY <1>1, <1>7, <1>5 DEF ByteAt, LastByte
<1>. QED BY <1>4, <1>5, <1>6, <1>7, <1>8 DEF IsByte

(* A byte of the lines is one of those.                                    *)
LEMMA ByteFacts ==
  ASSUME NEW s \in Seq(Texts), NEW b \in AllBytes(s)
  PROVE  IsByte(s, b)
<1>1. PICK n \in DOMAIN s : b \in Range(Line(s[n], n)) BY DEF AllBytes
<1>2. n \in 1 .. Len(s) BY LenProperties
<1>3. PICK i \in 1 .. Len(s[n]) + 1 : b = Line(s[n], n)[i] BY <1>1 DEF Range, Line
<1>4. b = ByteAt(s, n, i) BY <1>3 DEF Line, ByteAt
<1>. QED BY <1>2, <1>4, AtFacts

(* The last byte of a line ends it.                                        *)
LEMMA LastFacts ==
  ASSUME NEW s \in Seq(Texts), NEW n \in 1 .. Len(s)
  PROVE  /\ LastByte(s, n) \in AllBytes(s) /\ LastByte(s, n).line = n
         /\ LastByte(s, n).at = Len(s[n]) + 1 /\ LastByte(s, n).ch = "CR"
<1>1. Len(s[n]) \in Nat \ {0} BY TextOf
<1>2. LastByte(s, n) = ByteAt(s, n, Len(s[n]) + 1) BY <1>1 DEF LastByte, ByteAt
<1>3. LastByte(s, n) \in AllBytes(s) BY <1>1, <1>2, AtFacts
<1>. QED BY <1>3 DEF LastByte

(* The bytes are in a strict total order.                                  *)
LEMMA Comparable ==
  ASSUME NEW s \in Seq(Texts), NEW b \in AllBytes(s), NEW c \in AllBytes(s)
  PROVE  b = c \/ Before(b, c) \/ Before(c, b)
<1>1. IsByte(s, b) /\ IsByte(s, c) BY ByteFacts
<1>2. CASE b.line = c.line /\ b.at = c.at BY <1>1, <1>2 DEF IsByte
<1>3. CASE ~(b.line = c.line /\ b.at = c.at)
  <2>1. b.line \in Nat /\ c.line \in Nat /\ b.at \in Nat /\ c.at \in Nat
    BY <1>1 DEF IsByte, Bytes
  <2>. QED BY <2>1, <1>3 DEF Before
<1>. QED BY <1>2, <1>3

(* Of two bytes only one is before the other.                              *)
LEMMA OneWay ==
  ASSUME NEW s \in Seq(Texts), NEW b \in AllBytes(s), NEW c \in AllBytes(s), Before(b, c)
  PROVE  b # c /\ ~Before(c, b)
<1>1. IsByte(s, b) /\ IsByte(s, c) BY ByteFacts
<1>2. b.line \in Nat /\ c.line \in Nat /\ b.at \in Nat /\ c.at \in Nat
  BY <1>1 DEF IsByte, Bytes
<1>. QED BY <1>2 DEF Before

(* The last byte of its own line and of every later one follows a byte.    *)
LEMMA LastFollows ==
  ASSUME NEW s \in Seq(Texts), NEW b \in AllBytes(s), NEW n \in b.line .. Len(s)
  PROVE  /\ n \in 1 .. Len(s) /\ LastByte(s, n) \in AllBytes(s)
         /\ b = LastByte(s, n) \/ Before(b, LastByte(s, n))
<1>1. IsByte(s, b) BY ByteFacts
<1>2. b.line \in Nat /\ b.at \in Nat /\ b.line \in 1 .. Len(s) /\ b.at \in 1 .. Len(s[b.line]) + 1
  BY <1>1 DEF IsByte, Bytes
<1>3. n \in 1 .. Len(s) BY <1>2
<1>4. /\ LastByte(s, n) \in AllBytes(s) /\ LastByte(s, n).line = n
      /\ LastByte(s, n).at = Len(s[n]) + 1
  BY <1>3, LastFacts
<1>5. CASE b.line < n BY <1>3, <1>4, <1>5 DEF Before
<1>6. CASE b.line = n
  <2>1. Len(s[n]) \in Nat BY <1>3, TextOf
  <2>2. CASE b.at = Len(s[n]) + 1 BY <1>1, <2>2, <1>6, <1>3, <1>4 DEF IsByte
  <2>3. CASE b.at < Len(s[n]) + 1 BY <2>3, <1>6, <1>3, <1>4 DEF Before
  <2>. QED BY <2>1, <2>2, <2>3, <1>2, <1>6
<1>. QED BY <1>2, <1>3, <1>5, <1>6

-----------------------------------------------------------------------------
(* What the bytes on their way (P), the contents of cmd_line (R), the      *)
(* lines dispatched (D) and the bytes lost (X) have to do with each other, *)
(* when the lines s were sent.                                             *)

UpClosed(s, P) == \A b \in P, c \in AllBytes(s) : Before(b, c) => c \in P

Fresh(S, P, X) == \A i \in 1 .. Len(S) : S[i] \notin P /\ S[i] \notin X
Sorted(S) == \A i, j \in 1 .. Len(S) : i < j => Before(S[i], S[j])
Ahead(S, T) == \A i \in 1 .. Len(S), j \in 1 .. Len(T) : Before(S[i], T[j])

HistTypes(s, P, R, D, X) ==
  /\ s \in Seq(Texts)
  /\ P \subseteq AllBytes(s) /\ X \subseteq AllBytes(s) /\ P \cap X = {}
  /\ R \in Seq(AllBytes(s)) /\ D \in Seq(Seq(AllBytes(s)))

(* A byte is at one place only.                                            *)
Apart(P, R, D, X) == Fresh(R, P, X) /\ \A k \in 1 .. Len(D) : Fresh(D[k], P, X)

InOrder(R, D) ==
  /\ Sorted(R)
  /\ \A k \in 1 .. Len(D) : Sorted(D[k]) /\ Ahead(D[k], R)
  /\ \A k, l \in 1 .. Len(D) : k < l => Ahead(D[k], D[l])

(* Once cmd_line holds a byte no terminator after it was read.             *)
Unended(s, P, R, X) ==
  \A i \in 1 .. Len(R) : \A n \in R[i].line .. Len(s) :
    LastByte(s, n) \in P \/ LastByte(s, n) \in X

JoinedLines(s, D, X) ==
  \A k \in 1 .. Len(D) : \A i \in 1 .. Len(D[k]) :
    D[k][i].line # D[k][Len(D[k])].line => LastByte(s, D[k][i].line) \in X

(* No byte of the line is lost, nor the one before it.                     *)
Intact(s, n, X) ==
  /\ \A i \in 1 .. Len(s[n]) + 1 : ByteAt(s, n, i) \notin X
  /\ n > 1 => LastByte(s, n - 1) \notin X

Begun(s, n, P) == n > 1 => LastByte(s, n - 1) \notin P

(* R is the beginning of line n, and the rest of the line is on its way.   *)
Beginning(s, n, R, P) ==
  /\ Len(R) <= Len(s[n])
  /\ \A i \in 1 .. Len(R) : R[i] = ByteAt(s, n, i)
  /\ ByteAt(s, n, Len(R) + 1) \in P

Collected(s, P, R, X) ==
  \A n \in 1 .. Len(s) :
    Intact(s, n, X) /\ Begun(s, n, P) /\ LastByte(s, n) \in P => Beginning(s, n, R, P)

TextBytes(s, n) == [i \in 1 .. Len(s[n]) |-> ByteAt(s, n, i)]

Ran(s, P, D, X) ==
  \A n \in 1 .. Len(s) :
    Intact(s, n, X) /\ LastByte(s, n) \notin P => \E k \in 1 .. Len(D) : D[k] = TextBytes(s, n)

Hist(s, P, R, D, X) ==
  /\ HistTypes(s, P, R, D, X) /\ UpClosed(s, P)
  /\ Apart(P, R, D, X) /\ InOrder(R, D)
  /\ Unended(s, P, R, X) /\ JoinedLines(s, D, X)
  /\ Collected(s, P, R, X) /\ Ran(s, P, D, X)

(* The next byte the receiver or the loop takes.                           *)
Least(P, b) == b \in P /\ \A c \in P : c = b \/ Before(b, c)

(* When the next byte is taken, an end of what was sent is still on its way.*)
LEMMA TakeUpClosed ==
  ASSUME NEW s \in Seq(Texts), NEW P, P \subseteq AllBytes(s), UpClosed(s, P),
         NEW b, Least(P, b)
  PROVE  UpClosed(s, P \ {b})
<1>1. SUFFICES ASSUME NEW c \in P \ {b}, NEW d \in AllBytes(s), Before(c, d)
               PROVE  d \in P \ {b}
  BY DEF UpClosed
<1>2. d \in P BY <1>1 DEF UpClosed
<1>3. Before(b, c) /\ b \in AllBytes(s) BY <1>1 DEF Least
<1>4. d # b BY <1>1, <1>3, OneWay
<1>. QED BY <1>2, <1>4

(* The last byte of every line from that of a byte on its way is too.      *)
LEMMA LastPending ==
  ASSUME NEW s \in Seq(Texts), NEW P, P \subseteq AllBytes(s), UpClosed(s, P),
         NEW b \in P, NEW n \in b.line .. Len(s)
  PROVE  LastByte(s, n) \in P
<1>1. LastByte(s, n) \in AllBytes(s) /\ (b = LastByte(s, n) \/ Before(b, LastByte(s, n)))
  BY LastFollows
<1>. QED BY <1>1 DEF UpClosed

(* What is not on its way comes before what is.                            *)
LEMMA PassedBefore ==
  ASSUME NEW s \in Seq(Texts), NEW P, P \subseteq AllBytes(s), UpClosed(s, P),
         NEW b \in P, NEW c \in AllBytes(s), c \notin P
  PROVE  Before(c, b)
BY Comparable DEF UpClosed

(* A line that has begun and is not over: the next byte is one of it.      *)
LEMMA NextIsOfLine ==
  ASSUME NEW s \in Seq(Texts), NEW P, P \subseteq AllBytes(s), UpClosed(s, P),
         NEW b, Least(P, b), NEW n \in 1 .. Len(s), Begun(s, n, P),
         NEW i \in 1 .. Len(s[n]) + 1, ByteAt(s, n, i) \in P
  PROVE  b.line = n /\ b.at \in 1 .. i
<1>1. b \in P /\ b \in AllBytes(s) BY DEF Least
<1>2. IsByte(s, b) BY <1>1, ByteFacts
<1>3. b.line \in 1 .. Len(s) /\ b.at \in Nat \ {0} /\ Len(s) \in Nat /\ n \in Nat
  <2>1. b.at \in 1 .. Len(s[b.line]) + 1 /\ b.line \in 1 .. Len(s) BY <1>2 DEF IsByte
  <2>2. b.at \in Nat /\ b.at # 0 BY <2>1, <1>2 DEF IsByte, Bytes
  <2>. QED BY <2>1, <2>2, LenProperties
<1>4. ByteAt(s, n, i) \in AllBytes(s) /\ ByteAt(s, n, i).line = n /\ ByteAt(s, n, i).at = i
  BY AtFacts
<1>5. ~(b.line < n)
  <2>1. SUFFICES ASSUME b.line < n PROVE FALSE OBVIOUS
  <2>2. n > 1 /\ n - 1 \in b.line .. Len(s) BY <2>1, <1>3
  <2>3. LastByte(s, n - 1) \in P BY <1>1, <2>2, LastPending
  <2>. QED BY <2>2, <2>3 DEF Begun
<1>6. b = ByteAt(s, n, i) \/ Before(b, ByteAt(s, n, i)) BY DEF Least
<1>7. b = ByteAt(s, n, i) \/ b.line < n \/ (b.line = n /\ b.at < i) BY <1>4, <1>6 DEF Before
<1>8. CASE b = ByteAt(s, n, i) BY <1>3, <1>4, <1>8
<1>9. CASE b.line = n /\ b.at < i BY <1>3, <1>9
<1>. QED BY <1>5, <1>7, <1>8, <1>9

-----------------------------------------------------------------------------
(* The steps, for the next byte b.                                         *)

(* b is lost.                                                              *)
LEMMA HistLose ==
  ASSUME NEW s, NEW P, NEW R, NEW D, NEW X, Hist(s, P, R, D, X), NEW b, Least(P, b)
  PROVE  Hist(s, P \ {b}, R, D, X \cup {b})
<1>. DEFINE Q == P \ {b}
            Y == X \cup {b}
<1>1. /\ s \in Seq(Texts) /\ P \subseteq AllBytes(s) /\ X \subseteq AllBytes(s) /\ P \cap X = {}
      /\ R \in Seq(AllBytes(s)) /\ D \in Seq(Seq(AllBytes(s))) /\ UpClosed(s, P)
      /\ b \in P /\ b \in AllBytes(s)
  BY DEF Hist, HistTypes, Least
<1>2. HistTypes(s, Q, R, D, Y) BY <1>1 DEF HistTypes
<1>3. UpClosed(s, Q) BY <1>1, TakeUpClosed
<1>4. Apart(Q, R, D, Y) BY <1>1 DEF Hist, Apart, Fresh
<1>5. InOrder(R, D) BY DEF Hist
<1>6. Unended(s, Q, R, Y) BY DEF Hist, Unended
<1>7. JoinedLines(s, D, Y) BY DEF Hist, JoinedLines
<1>8. ASSUME NEW n \in 1 .. Len(s), Intact(s, n, Y)
      PROVE  /\ Intact(s, n, X)
             /\ LastByte(s, n) # b /\ \A i \in 1 .. Len(s[n]) + 1 : ByteAt(s, n, i) # b
             /\ n > 1 => LastByte(s, n - 1) # b
  <2>1. Len(s[n]) \in Nat BY <1>1, TextOf
  <2>2. LastByte(s, n) = ByteAt(s, n, Len(s[n]) + 1) BY <2>1 DEF LastByte, ByteAt
  <2>. QED BY <2>1, <2>2, <1>8 DEF Intact
<1>9. Collected(s, Q, R, Y)
  <2>1. SUFFICES ASSUME NEW n \in 1 .. Len(s), Intact(s, n, Y), Begun(s, n, Q), LastByte(s, n) \in Q
                 PROVE  Beginning(s, n, R, Q)
    BY DEF Collected
  <2>2. Beginning(s, n, R, P) BY <2>1, <1>8 DEF Hist, Collected, Begun
  <2>3. Len(R) + 1 \in 1 .. Len(s[n]) + 1
    <3>1. Len(R) \in Nat /\ Len(s[n]) \in Nat BY <1>1, TextOf, LenProperties
    <3>. QED BY <3>1, <2>2 DEF Beginning
  <2>. QED BY <2>2, <2>3, <2>1, <1>8 DEF Beginning
<1>10. Ran(s, Q, D, Y)
  <2>1. SUFFICES ASSUME NEW n \in 1 .. Len(s), Intact(s, n, Y), LastByte(s, n) \notin Q
                 PROVE  \E k \in 1 .. Len(D) : D[k] = TextBytes(s, n)
    BY DEF Ran
  <2>2. LastByte(s, n) \notin P BY <2>1, <1>8
  <2>. QED BY <2>1, <2>2, <1>8 DEF Hist, Ran
<1>. QED BY <1>2, <1>3, <1>4, <1>5, <1>6, <1>7, <1>9, <1>10 DEF Hist

(* b is appended to the command line.                                      *)
LEMMA HistCollect ==
  ASSUME NEW s, NEW P, NEW R, NEW D, NEW X, Hist(s, P, R, D, X), NEW b, Least(P, b),
         b.ch # "CR"
  PROVE  Hist(s, P \ {b}, Append(R, b), D, X)
<1>. DEFINE Q == P \ {b}
            S == Append(R, b)
<1>1. /\ s \in Seq(Texts) /\ P \subseteq AllBytes(s) /\ X \subseteq AllBytes(s) /\ P \cap X = {}
      /\ R \in Seq(AllBytes(s)) /\ D \in Seq(Seq(AllBytes(s))) /\ UpClosed(s, P)
      /\ b \in P /\ b \in AllBytes(s)
  BY DEF Hist, HistTypes, Least
<1>2. /\ S \in Seq(AllBytes(s)) /\ Len(S) = Len(R) + 1 /\ Len(R) \in Nat /\ S[Len(R) + 1] = b
      /\ \A i \in 1 .. Len(R) : S[i] = R[i]
  BY <1>1, AppendProperties, LenProperties
<1>3. HistTypes(s, Q, S, D, X) BY <1>1, <1>2 DEF HistTypes
<1>4. UpClosed(s, Q) BY <1>1, TakeUpClosed
<1>5. Apart(Q, S, D, X)
  <2>1. \A i \in 1 .. Len(S) : i \in 1 .. Len(R) \/ i = Len(R) + 1 BY <1>2
  <2>2. Fresh(S, Q, X) BY <1>1, <1>2, <2>1 DEF Hist, Apart, Fresh
  <2>3. ASSUME NEW k \in 1 .. Len(D) PROVE Fresh(D[k], Q, X)
    BY <2>3 DEF Hist, Apart, Fresh
  <2>. QED BY <2>2, <2>3 DEF Apart
<1>6. InOrder(S, D)
  <2>1. \A i \in 1 .. Len(R) : Before(R[i], b)
    <3>1. SUFFICES ASSUME NEW i \in 1 .. Len(R) PROVE Before(R[i], b) OBVIOUS
    <3>2. R[i] \in AllBytes(s) BY <1>1, ElementOfSeq
    <3>3. R[i] \notin P BY DEF Hist, Apart, Fresh
    <3>. QED BY <1>1, <3>2, <3>3, PassedBefore
  <2>2. ASSUME NEW k \in 1 .. Len(D), NEW i \in 1 .. Len(D[k]) PROVE Before(D[k][i], b)
    <3>1. D[k] \in Seq(AllBytes(s)) BY <1>1, ElementOfSeq
    <3>2. D[k][i] \in AllBytes(s) BY <3>1, ElementOfSeq
    <3>3. D[k][i] \notin P BY DEF Hist, Apart, Fresh
    <3>. QED BY <1>1, <3>2, <3>3, PassedBefore
  <2>3. Sorted(S)
    <3>1. SUFFICES ASSUME NEW i \in 1 .. Len(S), NEW j \in 1 .. Len(S), i < j
                   PROVE  Before(S[i], S[j])
      BY DEF Sorted
    <3>2. i \in 1 .. Len(R) /\ (j \in 1 .. Len(R) \/ j = Len(R) + 1) BY <3>1, <1>2
    <3>3. CASE j = Len(R) + 1 BY <3>2, <3>3, <1>2, <2>1
    <3>4. CASE j \in 1 .. Len(R)
      <4>1. Before(R[i], R[j]) BY <3>1, <3>2, <3>4 DEF Hist, InOrder, Sorted
      <4>. QED BY <4>1, <3>2, <3>4, <1>2
    <3>. QED BY <3>2, <3>3, <3>4
  <2>4. ASSUME NEW k \in 1 .. Len(D) PROVE Sorted(D[k]) /\ Ahead(D[k], S)
    <3>1. Sorted(D[k]) /\ Ahead(D[k], R) BY DEF Hist, InOrder
    <3>2. ASSUME NEW i \in 1 .. Len(D[k]), NEW j \in 1 .. Len(S) PROVE Before(D[k][i], S[j])
      <4>1. CASE j \in 1 .. Len(R) BY <3>1, <4>1, <1>2 DEF Ahead
      <4>2. CASE j = Len(R) + 1 BY <4>2, <2>2, <1>2
      <4>. QED BY <4>1, <4>2, <1>2
    <3>. QED BY <3>1, <3>2 DEF Ahead
  <2>. QED BY <2>3, <2>4 DEF Hist, InOrder
<1>7. IsByte(s, b) BY <1>1, ByteFacts
<1>8. ASSUME NEW n \in 1 .. Len(s) PROVE LastByte(s, n) # b BY <1>1, LastFacts
<1>9. Unended(s, Q, S, X)
  <2>1. SUFFICES ASSUME NEW i \in 1 .. Len(S), NEW n \in S[i].line .. Len(s), LastByte(s, n) \notin X
                 PROVE  LastByte(s, n) \in Q
    BY DEF Unended
  <2>2. S[i] \in AllBytes(s) BY <1>2, ElementOfSeq
  <2>3. n \in 1 .. Len(s) BY <1>1, <2>2, LastFollows
  <2>4. LastByte(s, n) \in P
    <3>1. CASE i \in 1 .. Len(R) BY <3>1, <2>1, <1>2 DEF Hist, Unended
    <3>2. CASE i = Len(R) + 1 BY <3>2, <1>1, <1>2, LastPending
    <3>. QED BY <3>1, <3>2, <1>2
  <2>. QED BY <2>3, <2>4, <1>8
<1>10. JoinedLines(s, D, X) BY DEF Hist
<1>11. Collected(s, Q, S, X)
  <2>1. SUFFICES ASSUME NEW n \in 1 .. Len(s), Intact(s, n, X), Begun(s, n, Q), LastByte(s, n) \in Q
                 PROVE  Beginning(s, n, S, Q)
    BY DEF Collected
  <2>2. Len(s) \in Nat /\ (n > 1 => n - 1 \in 1 .. Len(s)) BY <1>1, LenProperties
  <2>3. Begun(s, n, P) BY <2>1, <2>2, <1>8 DEF Begun
  <2>4. Beginning(s, n, R, P) BY <2>1, <2>3 DEF Hist, Collected
  <2>5. Len(s[n]) \in Nat /\ Len(R) + 1 \in 1 .. Len(s[n]) + 1
    <3>1. Len(s[n]) \in Nat BY <1>1, TextOf
    <3>. QED BY <3>1, <1>2, <2>4 DEF Beginning
  <2>6. b.line = n /\ b.at \in 1 .. Len(R) + 1
    BY <1>1, <2>3, <2>4, <2>5, NextIsOfLine DEF Beginning
  <2>7. b.at = Len(R) + 1
    <3>1. SUFFICES ASSUME b.at \in 1 .. Len(R) PROVE FALSE BY <1>2, <2>6
    <3>2. R[b.at] = ByteAt(s, n, b.at) /\ R[b.at] \notin P
      BY <3>1, <2>4 DEF Beginning, Hist, Apart, Fresh
    <3>. QED BY <3>2, <1>1, <1>7, <2>6 DEF IsByte
  <2>8. b = ByteAt(s, n, Len(R) + 1) /\ Len(R) + 1 # Len(s[n]) + 1
    BY <1>7, <2>6, <2>7 DEF IsByte
  <2>9. Len(S) <= Len(s[n]) /\ Len(S) + 1 \in 1 .. Len(s[n]) + 1 BY <2>5, <2>8, <1>2
  <2>10. \A i \in 1 .. Len(S) : S[i] = ByteAt(s, n, i)
    <3>1. \A i \in 1 .. Len(S) : i \in 1 .. Len(R) \/ i = Len(R) + 1 BY <1>2
    <3>. QED BY <3>1, <2>4, <2>8, <1>2 DEF Beginning
  <2>11. ByteAt(s, n, Len(S) + 1) \in Q
    <3>1. /\ ByteAt(s, n, Len(S) + 1) \in AllBytes(s) /\ ByteAt(s, n, Len(S) + 1).line = n
          /\ ByteAt(s, n, Len(S) + 1).at = Len(S) + 1
      BY <1>1, <2>9, AtFacts
    <3>2. Before(b, ByteAt(s, n, Len(S) + 1)) BY <3>1, <2>6, <2>7, <1>2 DEF Before
    <3>3. ByteAt(s, n, Len(S) + 1) # b BY <3>1, <2>7, <1>2
    <3>. QED BY <3>1, <3>2, <3>3, <1>1 DEF UpClosed
  <2>. QED BY <2>9, <2>10, <2>11 DEF Beginning
<1>12. Ran(s, Q, D, X) BY <1>8 DEF Hist, Ran
<1>. QED BY <1>3, <1>4, <1>5, <1>6, <1>9, <1>10, <1>11, <1>12 DEF Hist

(* A terminator is read: the command line, if there is one, is dispatched. *)
(* What both cases have in common: the line that follows starts anew.      *)
LEMMA AfterTerminator ==
  ASSUME NEW s, NEW P, NEW R, NEW D, NEW X, Hist(s, P, R, D, X), NEW b, Least(P, b),
         b.ch = "CR"
  PROVE  Collected(s, P \ {b}, << >>, X)
<1>. DEFINE Q == P \ {b}
<1>1. /\ s \in Seq(Texts) /\ P \subseteq AllBytes(s) /\ UpClosed(s, P)
      /\ b \in P /\ b \in AllBytes(s) /\ R \in Seq(AllBytes(s))
  BY DEF Hist, HistTypes, Least
<1>2. IsByte(s, b) BY <1>1, ByteFacts
<1>3. b = LastByte(s, b.line) /\ b.line \in 1 .. Len(s) BY <1>2 DEF IsByte
<1>4. SUFFICES ASSUME NEW n \in 1 .. Len(s), Intact(s, n, X), Begun(s, n, Q), LastByte(s, n) \in Q
               PROVE  Beginning(s, n, << >>, Q)
  BY DEF Collected
<1>5. Len(s) \in Nat /\ Len(R) \in Nat /\ Len(s[n]) \in Nat \ {0} /\ n \in Nat
  BY <1>1, TextOf, LenProperties
<1>6. ~Begun(s, n, P)
  <2>1. SUFFICES ASSUME Begun(s, n, P) PROVE FALSE OBVIOUS
  <2>2. Beginning(s, n, R, P) BY <1>4, <2>1 DEF Hist, Collected
  <2>3. Len(R) + 1 \in 1 .. Len(s[n]) + 1 BY <1>5, <2>2 DEF Beginning
  <2>4. b.line = n BY <1>1, <2>1, <2>2, <2>3, NextIsOfLine DEF Beginning
  <2>. QED BY <2>4, <1>3, <1>4
<1>7. n > 1 /\ LastByte(s, n - 1) = b BY <1>4, <1>6 DEF Begun
<1>8. n - 1 \in 1 .. Len(s) BY <1>5, <1>7
<1>9. b.line = n - 1 BY <1>1, <1>7, <1>8, LastFacts
<1>10. 1 \in 1 .. Len(s[n]) + 1 BY <1>5
<1>11. ByteAt(s, n, 1) \in AllBytes(s) /\ ByteAt(s, n, 1).line = n BY <1>1, <1>10, AtFacts
<1>12. Before(b, ByteAt(s, n, 1)) BY <1>5, <1>9, <1>11 DEF Before
<1>13. ByteAt(s, n, 1) # b BY <1>5, <1>9, <1>11
<1>14. ByteAt(s, n, 1) \in Q BY <1>1, <1>11, <1>12, <1>13 DEF UpClosed
<1>15. Len(<< >>) = 0 OBVIOUS
<1>. QED BY <1>5, <1>14, <1>15 DEF Beginning

(* A whole line that is complete at its terminator is the command line.    *)
LEMMA WholeAtEnd ==
  ASSUME NEW s, NEW P, NEW R, NEW D, NEW X, Hist(s, P, R, D, X), NEW b, Least(P, b),
         NEW n \in 1 .. Len(s), Intact(s, n, X), LastByte(s, n) = b
  PROVE  R = TextBytes(s, n)
<1>1. /\ s \in Seq(Texts) /\ P \subseteq AllBytes(s) /\ UpClosed(s, P)
      /\ b \in P /\ b \in AllBytes(s) /\ R \in Seq(AllBytes(s))
  BY DEF Hist, HistTypes, Least
<1>2. Len(s) \in Nat /\ Len(R) \in Nat /\ Len(s[n]) \in Nat \ {0} /\ n \in Nat
  BY <1>1, TextOf, LenProperties
<1>3. b.line = n /\ b.at = Len(s[n]) + 1 BY <1>1, LastFacts
<1>4. Begun(s, n, P)
  <2>1. SUFFICES ASSUME n > 1, LastByte(s, n - 1) \in P PROVE FALSE BY DEF Begun
  <2>2. n - 1 \in 1 .. Len(s) BY <2>1, <1>2
  <2>3. LastByte(s, n - 1).line = n - 1 BY <1>1, <2>2, LastFacts
  <2>4. LastByte(s, n - 1) = b \/ Before(b, LastByte(s, n - 1)) BY <2>1 DEF Least
  <2>5. LastByte(s, n - 1) # b BY <2>3, <1>2, <1>3
  <2>6. b.line < n - 1 \/ b.line = n - 1 BY <2>3, <2>4, <2>5 DEF Before
  <2>. QED BY <2>6, <1>2, <1>3
<1>5. Beginning(s, n, R, P) BY <1>1, <1>4 DEF Hist, Collected
<1>6. Len(R) + 1 \in 1 .. Len(s[n]) + 1 BY <1>2, <1>5 DEF Beginning
<1>7. b.at \in 1 .. Len(R) + 1 BY <1>1, <1>4, <1>5, <1>6, NextIsOfLine DEF Beginning
<1>8. Len(R) = Len(s[n]) BY <1>2, <1>3, <1>6, <1>7
<1>9. DOMAIN R = 1 .. Len(s[n]) /\ R = [i \in DOMAIN R |-> R[i]] BY <1>1, <1>8, LenProperties
<1>10. \A i \in 1 .. Len(s[n]) : R[i] = ByteAt(s, n, i) BY <1>5, <1>8 DEF Beginning
<1>. QED BY <1>9, <1>10 DEF TextBytes

(* A terminator with nothing before it does nothing.                       *)
LEMMA HistSkip ==
  ASSUME NEW s, NEW P, NEW R, NEW D, NEW X, Hist(s, P, R, D, X), NEW b, Least(P, b),
         b.ch = "CR", R = << >>
  PROVE  Hist(s, P \ {b}, << >>, D, X)
<1>. DEFINE Q == P \ {b}
<1>1. /\ s \in Seq(Texts) /\ P \subseteq AllBytes(s) /\ X \subseteq AllBytes(s) /\ P \cap X = {}
      /\ R \in Seq(AllBytes(s)) /\ D \in Seq(Seq(AllBytes(s))) /\ UpClosed(s, P)
      /\ b \in P /\ b \in AllBytes(s)
  BY DEF Hist, HistTypes, Least
<1>2. HistTypes(s, Q, R, D, X) BY <1>1 DEF HistTypes
<1>3. UpClosed(s, Q) BY <1>1, TakeUpClosed
<1>4. Apart(Q, R, D, X) BY DEF Hist, Apart, Fresh
<1>5. InOrder(R, D) BY DEF Hist
<1>6. Unended(s, Q, R, X)
  <2>1. 1 .. Len(R) = {} OBVIOUS
  <2>. QED BY <2>1 DEF Unended
<1>7. JoinedLines(s, D, X) BY DEF Hist
<1>8. Collected(s, Q, R, X) BY AfterTerminator
<1>9. Ran(s, Q, D, X)
  <2>1. SUFFICES ASSUME NEW n \in 1 .. Len(s), Intact(s, n, X), LastByte(s, n) \notin Q
                 PROVE  \E k \in 1 .. Len(D) : D[k] = TextBytes(s, n)
    BY DEF Ran
  <2>2. LastByte(s, n) # b
    <3>1. SUFFICES ASSUME LastByte(s, n) = b PROVE FALSE OBVIOUS
    <3>2. R = TextBytes(s, n) BY <2>1, <3>1, WholeAtEnd
    <3>3. Len(s[n]) \in Nat \ {0} BY <1>1, TextOf
    <3>4. DOMAIN R = 1 .. Len(s[n]) BY <3>2 DEF TextBytes
    <3>5. DOMAIN R = {} OBVIOUS
    <3>6. 1 \in 1 .. Len(s[n]) BY <3>3
    <3>. QED BY <3>4, <3>5, <3>6
  <2>. QED BY <2>1, <2>2 DEF Hist, Ran
<1>. QED BY <1>2, <1>3, <1>4, <1>5, <1>6, <1>7, <1>8, <1>9 DEF Hist

(* The command line is dispatched, and starts anew.                        *)
LEMMA HistDispatch ==
  ASSUME NEW s, NEW P, NEW R, NEW D, NEW X, Hist(s, P, R, D, X), NEW b, Least(P, b),
         b.ch = "CR", R # << >>
  PROVE  Hist(s, P \ {b}, << >>, Append(D, R), X)
<1>. DEFINE Q == P \ {b}
            E == Append(D, R)
<1>1. /\ s \in Seq(Texts) /\ P \subseteq AllBytes(s) /\ X \subseteq AllBytes(s) /\ P \cap X = {}
      /\ R \in Seq(AllBytes(s)) /\ D \in Seq(Seq(AllBytes(s))) /\ UpClosed(s, P)
      /\ b \in P /\ b \in AllBytes(s)
  BY DEF Hist, HistTypes, Least
<1>2. /\ E \in Seq(Seq(AllBytes(s))) /\ Len(E) = Len(D) + 1 /\ Len(D) \in Nat /\ E[Len(D) + 1] = R
      /\ \A k \in 1 .. Len(D) : E[k] = D[k]
  BY <1>1, AppendProperties, LenProperties
<1>3. \A k \in 1 .. Len(E) : k \in 1 .. Len(D) \/ k = Len(D) + 1 BY <1>2
<1>4. << >> \in Seq(AllBytes(s)) /\ Len(<< >>) = 0 /\ 1 .. 0 = {} OBVIOUS
<1>5. HistTypes(s, Q, << >>, E, X) BY <1>1, <1>2, <1>4 DEF HistTypes
<1>6. UpClosed(s, Q) BY <1>1, TakeUpClosed
<1>7. Fresh(R, P, X) /\ Sorted(R) /\ \A k \in 1 .. Len(D) : Fresh(D[k], P, X) /\ Sorted(D[k]) /\ Ahead(D[k], R)
  BY DEF Hist, Apart, InOrder
<1>8. Apart(Q, << >>, E, X)
  <2>1. Fresh(<< >>, Q, X) BY <1>4 DEF Fresh
  <2>2. ASSUME NEW k \in 1 .. Len(E) PROVE Fresh(E[k], Q, X)
    <3>1. Fresh(E[k], P, X) BY <1>2, <1>3, <1>7
    <3>. QED BY <3>1 DEF Fresh
  <2>. QED BY <2>1, <2>2 DEF Apart
<1>9. InOrder(<< >>, E)
  <2>1. Sorted(<< >>) BY <1>4 DEF Sorted
  <2>2. ASSUME NEW k \in 1 .. Len(E) PROVE Sorted(E[k]) /\ Ahead(E[k], << >>)
    <3>1. Sorted(E[k]) BY <1>2, <1>3, <1>7
    <3>2. Ahead(E[k], << >>) BY <1>4 DEF Ahead
    <3>. QED BY <3>1, <3>2
  <2>3. ASSUME NEW k \in 1 .. Len(E), NEW l \in 1 .. Len(E), k < l PROVE Ahead(E[k], E[l])
    <3>1. k \in 1 .. Len(D) BY <1>2, <2>3
    <3>2. CASE l = Len(D) + 1 BY <3>1, <3>2, <1>2, <1>7
    <3>3. CASE l \in 1 .. Len(D)
      <4>1. Ahead(D[k], D[l]) BY <2>3, <3>1, <3>3 DEF Hist, InOrder
      <4>. QED BY <4>1, <3>1, <3>3, <1>2
    <3>. QED BY <3>2, <3>3, <1>3
  <2>. QED BY <2>1, <2>2, <2>3 DEF InOrder
<1>10. Unended(s, Q, << >>, X) BY <1>4 DEF Unended
<1>11. JoinedLines(s, E, X)
  <2>1. SUFFICES ASSUME NEW k \in 1 .. Len(E), NEW i \in 1 .. Len(E[k]),
                        E[k][i].line # E[k][Len(E[k])].line
                 PROVE  LastByte(s, E[k][i].line) \in X
    BY DEF JoinedLines
  <2>2. CASE k \in 1 .. Len(D)
    <3>1. E[k] = D[k] BY <2>2, <1>2
    <3>. QED BY <3>1, <2>1, <2>2 DEF Hist, JoinedLines
  <2>3. CASE k = Len(D) + 1
    <3>1. E[k] = R /\ i \in 1 .. Len(R) /\ R[i].line # R[Len(R)].line BY <2>1, <2>3, <1>2
    <3>2. Len(R) \in 1 .. Len(R) /\ i # Len(R) /\ i < Len(R)
      <4>1. Len(R) \in Nat BY <1>1, LenProperties
      <4>. QED BY <4>1, <3>1
    <3>3. R[i] \in AllBytes(s) /\ R[Len(R)] \in AllBytes(s) BY <1>1, <3>1, <3>2, ElementOfSeq
    <3>4. Before(R[i], R[Len(R)]) /\ R[Len(R)] \notin P
      BY <1>7, <3>1, <3>2 DEF Sorted, Fresh
    <3>5. IsByte(s, R[i]) /\ IsByte(s, R[Len(R)]) BY <1>1, <3>3, ByteFacts
    <3>6. R[i].line \in 1 .. Len(s) /\ R[Len(R)].line \in 1 .. Len(s) BY <3>5 DEF IsByte
    <3>7. R[i].line < R[Len(R)].line BY <3>1, <3>4 DEF Before
    <3>8. LastByte(s, R[i].line) \in AllBytes(s) /\ LastByte(s, R[i].line).line = R[i].line
      BY <1>1, <3>6, LastFacts
    <3>9. Before(LastByte(s, R[i].line), R[Len(R)]) BY <3>7, <3>8 DEF Before
    <3>10. LastByte(s, R[i].line) \notin P BY <1>1, <3>3, <3>4, <3>9 DEF UpClosed
    <3>11. R[i].line \in R[i].line .. Len(s)
      <4>1. Len(s) \in Nat BY <1>1, LenProperties
      <4>. QED BY <4>1, <3>6
    <3>12. LastByte(s, R[i].line) \in X BY <3>1, <3>10, <3>11 DEF Hist, Unended
    <3>. QED BY <3>1, <3>12
  <2>. QED BY <2>2, <2>3, <1>3
<1>12. Collected(s, Q, << >>, X) BY AfterTerminator
<1>13. Ran(s, Q, E, X)
  <2>1. SUFFICES ASSUME NEW n \in 1 .. Len(s), Intact(s, n, X), LastByte(s, n) \notin Q
                 PROVE  \E k \in 1 .. Len(E) : E[k] = TextBytes(s, n)
    BY DEF Ran
  <2>2. CASE LastByte(s, n) = b
    <3>1. R = TextBytes(s, n) BY <2>1, <2>2, WholeAtEnd
    <3>2. Len(D) + 1 \in 1 .. Len(E) BY <1>2
    <3>. QED BY <3>1, <3>2, <1>2
  <2>3. CASE LastByte(s, n) # b
    <3>1. PICK k \in 1 .. Len(D) : D[k] = TextBytes(s, n) BY <2>1, <2>3 DEF Hist, Ran
    <3>2. k \in 1 .. Len(E) BY <1>2
    <3>. QED BY <3>1, <3>2, <1>2
  <2>. QED BY <2>2, <2>3
<1>. QED BY <1>5, <1>6, <1>8, <1>9, <1>10, <1>11, <1>12, <1>13 DEF Hist

(* Another line: its bytes come after all others, which stay as they are.  *)
LEMMA SendFacts ==
  ASSUME NEW s \in Seq(Texts), NEW t \in Texts
  PROVE  /\ Append(s, t) \in Seq(Texts) /\ Len(Append(s, t)) = Len(s) + 1 /\ Len(s) \in Nat
         /\ Append(s, t)[Len(s) + 1] = t
         /\ \A n \in 1 .. Len(s) :
              /\ Append(s, t)[n] = s[n] /\ LastByte(Append(s, t), n) = LastByte(s, n)
              /\ TextBytes(Append(s, t), n) = TextBytes(s, n)
              /\ \A i \in 1 .. Len(s[n]) + 1 : ByteAt(Append(s, t), n, i) = ByteAt(s, n, i)
         /\ AllBytes(Append(s, t)) = AllBytes(s) \cup Range(Line(t, Len(s) + 1))
<1>. DEFINE z == Append(s, t)
<1>1. /\ z \in Seq(Texts) /\ Len(z) = Len(s) + 1 /\ Len(s) \in Nat /\ z[Len(s) + 1] = t
      /\ \A n \in 1 .. Len(s) : z[n] = s[n]
  BY AppendProperties, LenProperties
<1>2. ASSUME NEW n \in 1 .. Len(s)
      PROVE  /\ z[n] = s[n] /\ LastByte(z, n) = LastByte(s, n)
             /\ TextBytes(z, n) = TextBytes(s, n)
             /\ \A i \in 1 .. Len(s[n]) + 1 : ByteAt(z, n, i) = ByteAt(s, n, i)
  <2>1. z[n] = s[n] BY <1>1
  <2>2. LastByte(z, n) = LastByte(s, n) BY <2>1 DEF LastByte
  <2>3. \A i : ByteAt(z, n, i) = ByteAt(s, n, i) BY <2>1 DEF ByteAt
  <2>4. TextBytes(z, n) = TextBytes(s, n) BY <2>1, <2>3 DEF TextBytes
  <2>. QED BY <2>1, <2>2, <2>3, <2>4
<1>3. DOMAIN s = 1 .. Len(s) /\ DOMAIN z = 1 .. Len(z) BY <1>1, LenProperties
<1>4. AllBytes(z) = AllBytes(s) \cup Range(Line(t, Len(s) + 1))
  <2>1. ASSUME NEW b \in AllBytes(z) PROVE b \in AllBytes(s) \cup Range(Line(t, Len(s) + 1))
    <3>1. PICK n \in DOMAIN z : b \in Range(Line(z[n], n)) BY <2>1 DEF AllBytes
    <3>2. CASE n \in 1 .. Len(s) BY <3>1, <3>2, <1>1, <1>3 DEF AllBytes
    <3>3. CASE n = Len(s) + 1 BY <3>1, <3>3, <1>1
    <3>. QED BY <3>1, <3>2, <3>3, <1>1, <1>3
  <2>2. ASSUME NEW b \in AllBytes(s) PROVE b \in AllBytes(z)
    <3>1. PICK n \in DOMAIN s : b \in Range(Line(s[n], n)) BY <2>2 DEF AllBytes
    <3>2. n \in DOMAIN z /\ z[n] = s[n] BY <1>1, <1>3
    <3>. QED BY <3>1, <3>2 DEF AllBytes
  <2>3. ASSUME NEW b \in Range(Line(t, Len(s) + 1)) PROVE b \in AllBytes(z)
    <3>1. Len(s) + 1 \in DOMAIN z BY <1>1, <1>3
    <3>. QED BY <2>3, <3>1, <1>1 DEF AllBytes
  <2>. QED BY <2>1, <2>2, <2>3
<1>. QED BY <1>1, <1>2, <1>4

(* A byte of the new line.                                                 *)
LEMMA NewByte ==
  ASSUME NEW s \in Seq(Texts), NEW t \in Texts, NEW b \in Range(Line(t, Len(s) + 1))
  PROVE  /\ b.line = Len(s) + 1 /\ b \notin AllBytes(s)
         /\ \A c \in AllBytes(s) : Before(c, b) /\ ~Before(b, c)
<1>1. Len(s) \in Nat BY LenProperties
<1>2. b.line = Len(s) + 1 BY DEF Range, Line
<1>3. ASSUME NEW c \in AllBytes(s) PROVE c.line \in 1 .. Len(s)
  <2>1. IsByte(s, c) BY ByteFacts
  <2>. QED BY <2>1 DEF IsByte
<1>4. b \notin AllBytes(s) BY <1>1, <1>2, <1>3
<1>5. \A c \in AllBytes(s) : Before(c, b) /\ ~Before(b, c) BY <1>1, <1>2, <1>3 DEF Before
<1>. QED BY <1>2, <1>4, <1>5

(* A line is sent.                                                         *)
LEMMA HistSend ==
  ASSUME NEW s, NEW P, NEW R, NEW D, NEW X, Hist(s, P, R, D, X), NEW t \in Texts
  PROVE  Hist(Append(s, t), P \cup Range(Line(t, Len(s) + 1)), R, D, X)
<1>. DEFINE z == Append(s, t)
            N == Range(Line(t, Len(s) + 1))
            Q == P \cup N
            m == Len(s) + 1
<1>1. /\ s \in Seq(Texts) /\ P \subseteq AllBytes(s) /\ X \subseteq AllBytes(s) /\ P \cap X = {}
      /\ R \in Seq(AllBytes(s)) /\ D \in Seq(Seq(AllBytes(s))) /\ UpClosed(s, P)
  BY DEF Hist, HistTypes
<1>2. /\ z \in Seq(Texts) /\ Len(z) = m /\ Len(s) \in Nat /\ z[m] = t
      /\ AllBytes(z) = AllBytes(s) \cup N
  BY <1>1, SendFacts
<1>3. ASSUME NEW n \in 1 .. Len(s)
      PROVE  /\ z[n] = s[n] /\ LastByte(z, n) = LastByte(s, n)
             /\ TextBytes(z, n) = TextBytes(s, n)
             /\ \A i \in 1 .. Len(s[n]) + 1 : ByteAt(z, n, i) = ByteAt(s, n, i)
  BY <1>1, SendFacts
<1>4. \A b \in N : b \notin AllBytes(s) /\ \A c \in AllBytes(s) : Before(c, b) /\ ~Before(b, c)
  BY <1>1, NewByte
<1>5. HistTypes(z, Q, R, D, X)
  <2>1. Q \subseteq AllBytes(z) /\ X \subseteq AllBytes(z) /\ Q \cap X = {} BY <1>1, <1>2, <1>4
  <2>2. R \in Seq(AllBytes(z))
    <3>1. \A i \in 1 .. Len(R) : R[i] \in AllBytes(z) BY <1>1, <1>2, ElementOfSeq
    <3>2. Len(R) \in Nat /\ R \in [1 .. Len(R) -> AllBytes(z)] BY <1>1, <3>1, LenProperties
    <3>. QED BY <3>2, SeqDef
  <2>3. D \in Seq(Seq(AllBytes(z)))
    <3>1. ASSUME NEW k \in 1 .. Len(D) PROVE D[k] \in Seq(AllBytes(z))
      <4>1. D[k] \in Seq(AllBytes(s)) BY <1>1, ElementOfSeq
      <4>2. \A i \in 1 .. Len(D[k]) : D[k][i] \in AllBytes(z) BY <4>1, <1>2, ElementOfSeq
      <4>3. Len(D[k]) \in Nat /\ D[k] \in [1 .. Len(D[k]) -> AllBytes(z)] BY <4>1, <4>2, LenProperties
      <4>. QED BY <4>3, SeqDef
    <3>2. Len(D) \in Nat /\ D \in [1 .. Len(D) -> Seq(AllBytes(z))] BY <1>1, <3>1, LenProperties
    <3>. QED BY <3>2, SeqDef
  <2>. QED BY <2>1, <2>2, <2>3, <1>2 DEF HistTypes
<1>6. UpClosed(z, Q)
  <2>1. SUFFICES ASSUME NEW b \in Q, NEW c \in AllBytes(z), Before(b, c), c \notin N
                 PROVE  c \in P
    BY DEF UpClosed
  <2>2. c \in AllBytes(s) BY <2>1, <1>2
  <2>3. b \in P BY <2>1, <2>2, <1>4
  <2>. QED BY <2>1, <2>2, <2>3, <1>1 DEF UpClosed
<1>7. ASSUME NEW S \in Seq(AllBytes(s)), Fresh(S, P, X) PROVE Fresh(S, Q, X)
  <2>1. \A i \in 1 .. Len(S) : S[i] \in AllBytes(s) BY ElementOfSeq
  <2>. QED BY <1>7, <2>1, <1>4 DEF Fresh
<1>8. Apart(Q, R, D, X)
  <2>1. Fresh(R, Q, X) BY <1>1, <1>7 DEF Hist, Apart
  <2>2. ASSUME NEW k \in 1 .. Len(D) PROVE Fresh(D[k], Q, X)
    <3>1. D[k] \in Seq(AllBytes(s)) BY <1>1, ElementOfSeq
    <3>. QED BY <3>1, <1>7 DEF Hist, Apart
  <2>. QED BY <2>1, <2>2 DEF Apart
<1>9. InOrder(R, D) BY DEF Hist
<1>10. LastByte(z, m) \in N /\ m \in 1 .. Len(z)
  <2>1. m \in 1 .. Len(z) BY <1>2
  <2>2. LastByte(z, m) \in AllBytes(z) /\ LastByte(z, m).line = m BY <1>2, <2>1, LastFacts
  <2>3. LastByte(z, m) \notin AllBytes(s)
    <3>1. ASSUME NEW c \in AllBytes(s) PROVE c.line # m
      <4>1. IsByte(s, c) BY <1>1, ByteFacts
      <4>2. c.line \in 1 .. Len(s) BY <4>1 DEF IsByte
      <4>. QED BY <4>2, <1>2
    <3>. QED BY <2>2, <3>1
  <2>. QED BY <2>1, <2>2, <2>3, <1>2
<1>11. \A n \in 1 .. Len(z) : n \in 1 .. Len(s) \/ n = m BY <1>2
<1>12. ASSUME NEW n \in 1 .. Len(s)
       PROVE  /\ LastByte(s, n) \in AllBytes(s) /\ (LastByte(s, n) \in Q <=> LastByte(s, n) \in P)
              /\ Intact(z, n, X) <=> Intact(s, n, X)
              /\ Begun(z, n, Q) <=> Begun(s, n, P)
  <2>1. LastByte(s, n) \in AllBytes(s) BY <1>1, LastFacts
  <2>2. LastByte(s, n) \in Q <=> LastByte(s, n) \in P BY <2>1, <1>4
  <2>3. n > 1 => n - 1 \in 1 .. Len(s) BY <1>2
  <2>4. n > 1 => LastByte(z, n - 1) = LastByte(s, n - 1) /\ LastByte(s, n - 1) \in AllBytes(s)
    BY <2>3, <1>3, <1>1, LastFacts
  <2>5. Intact(z, n, X) <=> Intact(s, n, X) BY <2>4, <1>3 DEF Intact
  <2>6. Begun(z, n, Q) <=> Begun(s, n, P) BY <2>4, <1>4 DEF Begun
  <2>. QED BY <2>1, <2>2, <2>5, <2>6
<1>13. ASSUME NEW b \in AllBytes(s) PROVE b.line \in 1 .. Len(s)
  <2>1. IsByte(s, b) BY <1>1, ByteFacts
  <2>. QED BY <2>1 DEF IsByte
<1>14. Unended(z, Q, R, X)
  <2>1. SUFFICES ASSUME NEW i \in 1 .. Len(R), NEW n \in R[i].line .. Len(z), LastByte(z, n) \notin X
                 PROVE  LastByte(z, n) \in Q
    BY DEF Unended
  <2>2. R[i] \in AllBytes(s) BY <1>1, ElementOfSeq
  <2>3. R[i].line \in 1 .. Len(s) BY <2>2, <1>13
  <2>4. n = m \/ n \in R[i].line .. Len(s) BY <2>1, <2>3, <1>2
  <2>5. CASE n = m BY <2>5, <1>10
  <2>6. CASE n \in R[i].line .. Len(s)
    <3>1. n \in 1 .. Len(s) BY <2>3, <2>6
    <3>2. LastByte(s, n) \in P BY <2>1, <2>6, <3>1, <1>3 DEF Hist, Unended
    <3>. QED BY <3>1, <3>2, <1>3
  <2>. QED BY <2>4, <2>5, <2>6
<1>15. JoinedLines(z, D, X)
  <2>1. SUFFICES ASSUME NEW k \in 1 .. Len(D), NEW i \in 1 .. Len(D[k]),
                        D[k][i].line # D[k][Len(D[k])].line
                 PROVE  LastByte(z, D[k][i].line) \in X
    BY DEF JoinedLines
  <2>2. D[k] \in Seq(AllBytes(s)) BY <1>1, ElementOfSeq
  <2>3. D[k][i] \in AllBytes(s) BY <2>2, ElementOfSeq
  <2>4. D[k][i].line \in 1 .. Len(s) BY <2>3, <1>13
  <2>5. LastByte(s, D[k][i].line) \in X BY <2>1 DEF Hist, JoinedLines
  <2>. QED BY <2>4, <2>5, <1>3
<1>16. Collected(z, Q, R, X)
  <2>1. SUFFICES ASSUME NEW n \in 1 .. Len(z), Intact(z, n, X), Begun(z, n, Q), LastByte(z, n) \in Q
                 PROVE  Beginning(z, n, R, Q)
    BY DEF Collected
  <2>2. CASE n \in 1 .. Len(s)
    <3>1. Intact(s, n, X) /\ Begun(s, n, P) /\ LastByte(s, n) \in P
      BY <2>1, <2>2, <1>3, <1>12
    <3>2. Beginning(s, n, R, P) BY <2>2, <3>1 DEF Hist, Collected
    <3>3. Len(R) \in Nat /\ Len(s[n]) \in Nat BY <1>1, <2>2, TextOf, LenProperties
    <3>4. Len(R) <= Len(s[n]) BY <3>2 DEF Beginning
    <3>5. Len(R) + 1 \in 1 .. Len(s[n]) + 1 /\ \A i \in 1 .. Len(R) : i \in 1 .. Len(s[n]) + 1
      BY <3>3, <3>4
    <3>. QED BY <2>2, <3>2, <3>5, <1>3 DEF Beginning
  <2>3. CASE n = m
    <3>1. Len(R) = 0
      <4>1. SUFFICES ASSUME Len(R) # 0 PROVE FALSE OBVIOUS
      <4>2. 1 \in 1 .. Len(R)
        <5>1. Len(R) \in Nat BY <1>1, LenProperties
        <5>. QED BY <5>1, <4>1
      <4>3. R[1] \in AllBytes(s) BY <4>2, <1>1, ElementOfSeq
      <4>4. R[1].line \in 1 .. Len(s) BY <4>3, <1>13
      <4>5. m > 1 /\ m - 1 = Len(s) /\ Len(s) \in 1 .. Len(s) /\ Len(s) \in R[1].line .. Len(s)
        BY <4>4, <1>2
      <4>6. LastByte(s, Len(s)) \in P \/ LastByte(s, Len(s)) \in X
        BY <4>2, <4>5 DEF Hist, Unended
      <4>7. LastByte(z, m - 1) = LastByte(s, Len(s)) BY <4>5, <1>3
      <4>. QED BY <2>1, <2>3, <4>5, <4>6, <4>7 DEF Intact, Begun
    <3>2. Len(z[m]) \in Nat \ {0} BY <1>2, <1>10, TextOf
    <3>7. 1 \in 1 .. Len(z[m]) + 1 BY <3>2
    <3>3. Len(R) <= Len(z[m]) /\ 1 .. Len(R) = {} /\ Len(R) + 1 = 1
      BY <3>1, <3>2
    <3>4. ByteAt(z, m, 1) \in AllBytes(z) /\ ByteAt(z, m, 1).line = m
      BY <1>2, <1>10, <3>7, AtFacts
    <3>5. ByteAt(z, m, 1) \notin AllBytes(s) BY <3>4, <1>2, <1>13
    <3>6. ByteAt(z, m, 1) \in Q BY <3>4, <3>5, <1>2
    <3>. QED BY <2>3, <3>3, <3>6 DEF Beginning
  <2>. QED BY <2>2, <2>3, <1>11
<1>17. Ran(z, Q, D, X)
  <2>1. SUFFICES ASSUME NEW n \in 1 .. Len(z), Intact(z, n, X), LastByte(z, n) \notin Q
                 PROVE  \E k \in 1 .. Len(D) : D[k] = TextBytes(z, n)
    BY DEF Ran
  <2>2. n \in 1 .. Len(s) BY <2>1, <1>10, <1>11
  <2>3. Intact(s, n, X) /\ LastByte(s, n) \notin P /\ TextBytes(z, n) = TextBytes(s, n)
    BY <2>1, <2>2, <1>3, <1>12
  <2>. QED BY <2>2, <2>3 DEF Hist, Ran
<1>. QED BY <1>5, <1>6, <1>8, <1>9, <1>14, <1>15, <1>16, <1>17 DEF Hist

-----------------------------------------------------------------------------
(* The inductive invariant.                                                *)

(* The bytes on their way, the line cmd_channel_feed goes on with, and the *)
(* requests for the menu that came over the line.                          *)
OnWay == Discarded \cup Range(wire)
Ready == IF pc = "run" THEN << >> ELSE cmd_line
Quits(X) == {b \in X : b.ch = "q"}

WireOK ==
  /\ wire \in Seq(SentBytes) /\ Sorted(wire)
  /\ rdr # NoByte => \A i \in 1 .. Len(wire) : Before(rdr, wire[i])

ChannelHist == Hist(sent, OnWay, Ready, done, lost)

(* A request not yet granted is counted as one more opening.               *)
Waiting == IF terminal_input_flag = 1 /\ pc # "menu" THEN 1 ELSE 0
Asked == IsFiniteSet(lost) /\ opened + Waiting <= presses + Cardinality(Quits(lost))

ChannelIInv ==
  /\ ChannelTypes /\ cmd_line \in Seq(SentBytes)
  /\ WireOK /\ ChannelHist /\ Asked

(* SentBytes for the lines sent so far.                                    *)
LEMMA SentBytesIs == SentBytes = AllBytes(sent) BY DEF SentBytes, AllBytes

(* No byte is the mark of an empty receiver.                               *)
LEMMA NotNoByte ==
  ASSUME NEW s \in Seq(Texts), NEW b \in AllBytes(s)
  PROVE  b # NoByte
<1>1. IsByte(s, b) BY ByteFacts
<1>. QED BY <1>1, ChannelAssumption DEF IsByte, Bytes

(* The receiver's byte is the next one.                                    *)
LEMMA TakeRdr ==
  ASSUME sent \in Seq(Texts), WireOK, rdr \in SentBytes, rdr # NoByte
  PROVE  /\ Least(OnWay, rdr) /\ Range(wire) = OnWay \ {rdr}
<1>1. rdr \in AllBytes(sent) /\ wire \in Seq(AllBytes(sent)) BY SentBytesIs DEF WireOK
<1>2. DOMAIN wire = 1 .. Len(wire) BY <1>1, LenProperties
<1>3. ASSUME NEW c \in Range(wire) PROVE Before(rdr, c) /\ c # rdr
  <2>1. PICK i \in 1 .. Len(wire) : c = wire[i] BY <1>2 DEF Range
  <2>2. Before(rdr, c) BY <2>1 DEF WireOK
  <2>3. c \in AllBytes(sent) BY <2>1, <1>1, ElementOfSeq
  <2>. QED BY <1>1, <2>2, <2>3, OneWay
<1>4. OnWay = {rdr} \cup Range(wire) BY DEF OnWay, Discarded
<1>. QED BY <1>3, <1>4 DEF Least

(* The first byte of the wire moves into the receiver.                     *)
LEMMA WireHead ==
  ASSUME sent \in Seq(Texts), WireOK, wire # << >>
  PROVE  /\ Head(wire) \in SentBytes /\ Head(wire) # NoByte
         /\ Tail(wire) \in Seq(SentBytes) /\ Sorted(Tail(wire))
         /\ \A i \in 1 .. Len(Tail(wire)) : Before(Head(wire), Tail(wire)[i])
         /\ Range(wire) = {Head(wire)} \cup Range(Tail(wire))
<1>. DEFINE T == Tail(wire)
<1>1. wire \in Seq(SentBytes) /\ Sorted(wire) BY DEF WireOK
<1>2. /\ Len(wire) \in Nat /\ Len(wire) > 0 /\ Head(wire) = wire[1] /\ T \in Seq(SentBytes)
      /\ Len(T) = Len(wire) - 1 /\ \A i \in 1 .. Len(T) : T[i] = wire[i + 1]
  BY <1>1, HeadTailProperties, LenProperties, EmptySeq
<1>3. Head(wire) \in SentBytes BY <1>1, <1>2, ElementOfSeq
<1>4. Head(wire) # NoByte BY <1>3, SentBytesIs, NotNoByte
<1>5. ASSUME NEW i \in 1 .. Len(T) PROVE i + 1 \in 1 .. Len(wire) /\ 1 \in 1 .. Len(wire) /\ 1 < i + 1
  BY <1>2
<1>6. Sorted(T)
  <2>1. SUFFICES ASSUME NEW i \in 1 .. Len(T), NEW j \in 1 .. Len(T), i < j PROVE Before(T[i], T[j])
    BY DEF Sorted
  <2>2. i + 1 < j + 1 BY <2>1
  <2>3. Before(wire[i + 1], wire[j + 1]) BY <1>1, <1>5, <2>2 DEF Sorted
  <2>. QED BY <2>3, <1>2
<1>7. ASSUME NEW i \in 1 .. Len(T) PROVE Before(Head(wire), T[i])
  BY <1>1, <1>2, <1>5 DEF Sorted
<1>8. Range(wire) = {Head(wire)} \cup Range(T)
  <2>1. DOMAIN wire = 1 .. Len(wire) /\ DOMAIN T = 1 .. Len(T) BY <1>1, <1>2, LenProperties
  <2>2. ASSUME NEW c \in Range(wire) PROVE c \in {Head(wire)} \cup Range(T)
    <3>1. PICK i \in 1 .. Len(wire) : c = wire[i] BY <2>1 DEF Range
    <3>2. CASE i = 1 BY <3>1, <3>2, <1>2
    <3>3. CASE i # 1
      <4>1. i - 1 \in 1 .. Len(T) /\ (i - 1) + 1 = i BY <3>3, <1>2
      <4>2. c = T[i - 1] BY <4>1, <3>1, <1>2
      <4>. QED BY <4>1, <4>2, <2>1 DEF Range
    <3>. QED BY <3>2, <3>3
  <2>3. Head(wire) \in Range(wire)
    <3>1. 1 \in 1 .. Len(wire) BY <1>2
    <3>. QED BY <3>1, <1>2, <2>1 DEF Range
  <2>4. ASSUME NEW c \in Range(T) PROVE c \in Range(wire)
    <3>1. PICK i \in 1 .. Len(T) : c = T[i] BY <2>1 DEF Range
    <3>. QED BY <3>1, <1>2, <1>5, <2>1 DEF Range
  <2>. QED BY <2>2, <2>3, <2>4
<1>. QED BY <1>2, <1>3, <1>4, <1>6, <1>7, <1>8

(* A line is sorted, and follows what is already on the wire.              *)
LEMMA WireSend ==
  ASSUME sent \in Seq(Texts), WireOK, NEW t \in Texts, rdr \in SentBytes \cup {NoByte}
  PROVE  LET w == wire \o Line(t, Len(sent) + 1) IN
         /\ w \in Seq(AllBytes(Append(sent, t))) /\ Sorted(w)
         /\ rdr # NoByte => \A i \in 1 .. Len(w) : Before(rdr, w[i])
         /\ Range(w) = Range(wire) \cup Range(Line(t, Len(sent) + 1))
<1>. DEFINE L == Line(t, Len(sent) + 1)
            w == wire \o L
            S == AllBytes(Append(sent, t))
<1>1. wire \in Seq(AllBytes(sent)) /\ Sorted(wire) BY SentBytesIs DEF WireOK
<1>2. Len(t) \in Nat BY ChannelAssumption, LenProperties
<1>3. L \in [1 .. Len(t) + 1 -> Range(L)] BY DEF Line, Range
<1>4. L \in Seq(Range(L)) /\ Len(L) = Len(t) + 1 /\ DOMAIN L = 1 .. Len(L)
  <2>1. Len(t) + 1 \in Nat BY <1>2
  <2>2. L \in Seq(Range(L)) BY <1>3, <2>1, SeqDef
  <2>3. DOMAIN L = 1 .. Len(t) + 1 BY DEF Line
  <2>. QED BY <2>1, <2>2, <2>3, LenProperties
<1>5. S = AllBytes(sent) \cup Range(L) BY SendFacts
<1>6. wire \in Seq(S) /\ L \in Seq(S)
  <2>1. \A i \in 1 .. Len(wire) : wire[i] \in S BY <1>1, <1>5, ElementOfSeq
  <2>2. Len(wire) \in Nat /\ wire \in [1 .. Len(wire) -> S] BY <1>1, <2>1, LenProperties
  <2>3. wire \in Seq(S) BY <2>2, SeqDef
  <2>4. \A i \in 1 .. Len(L) : L[i] \in S BY <1>4, <1>5 DEF Range
  <2>5. Len(L) \in Nat /\ L \in [1 .. Len(L) -> S] BY <1>2, <1>3, <1>4, <2>4
  <2>. QED BY <2>3, <2>5, SeqDef
<1>7. /\ w \in Seq(S) /\ Len(w) = Len(wire) + Len(L) /\ Len(wire) \in Nat /\ Len(L) \in Nat
      /\ \A i \in 1 .. Len(w) : w[i] = IF i <= Len(wire) THEN wire[i] ELSE L[i - Len(wire)]
  BY <1>6, ConcatProperties, LenProperties
<1>8. ASSUME NEW i \in 1 .. Len(L) PROVE L[i] \in Range(L) /\ L[i].line = Len(sent) + 1 /\ L[i].at = i
  <2>1. L[i] \in Range(L) BY <1>4 DEF Range
  <2>2. i \in 1 .. Len(t) + 1 BY <1>4
  <2>. QED BY <2>1, <2>2 DEF Line
<1>9. ASSUME NEW c \in AllBytes(sent), NEW i \in 1 .. Len(L) PROVE Before(c, L[i])
  BY <1>8, NewByte
<1>10. Sorted(w)
  <2>1. SUFFICES ASSUME NEW i \in 1 .. Len(w), NEW j \in 1 .. Len(w), i < j PROVE Before(w[i], w[j])
    BY DEF Sorted
  <2>2. CASE j <= Len(wire)
    <3>1. i \in 1 .. Len(wire) /\ j \in 1 .. Len(wire) /\ i <= Len(wire) BY <2>1, <2>2, <1>7
    <3>2. Before(wire[i], wire[j]) BY <3>1, <2>1, <1>1 DEF Sorted
    <3>. QED BY <3>1, <3>2, <2>2, <1>7
  <2>3. CASE i <= Len(wire) /\ ~(j <= Len(wire))
    <3>1. i \in 1 .. Len(wire) /\ j - Len(wire) \in 1 .. Len(L) BY <2>1, <2>3, <1>7
    <3>2. wire[i] \in AllBytes(sent) BY <3>1, <1>1, ElementOfSeq
    <3>3. Before(wire[i], L[j - Len(wire)]) BY <3>1, <3>2, <1>9
    <3>. QED BY <3>3, <2>3, <1>7
  <2>4. CASE ~(i <= Len(wire))
    <3>1. /\ i - Len(wire) \in 1 .. Len(L) /\ j - Len(wire) \in 1 .. Len(L)
          /\ i - Len(wire) < j - Len(wire) /\ ~(j <= Len(wire))
      BY <2>1, <2>4, <1>7
    <3>2. Before(L[i - Len(wire)], L[j - Len(wire)]) BY <3>1, <1>8 DEF Before
    <3>. QED BY <3>1, <3>2, <2>4, <1>7
  <2>5. j <= Len(wire) => i <= Len(wire) BY <2>1, <1>7
  <2>. QED BY <2>2, <2>3, <2>4, <2>5
<1>11. ASSUME rdr # NoByte, NEW i \in 1 .. Len(w) PROVE Before(rdr, w[i])
  <2>1. rdr \in AllBytes(sent) BY <1>11, SentBytesIs
  <2>2. CASE i <= Len(wire)
    <3>1. i \in 1 .. Len(wire) BY <2>2, <1>7
    <3>. QED BY <3>1, <1>11, <2>2, <1>7 DEF WireOK
  <2>3. CASE ~(i <= Len(wire))
    <3>1. i - Len(wire) \in 1 .. Len(L) BY <2>3, <1>7
    <3>2. Before(rdr, L[i - Len(wire)]) BY <2>1, <3>1, <1>9
    <3>. QED BY <3>2, <2>3, <1>7
  <2>. QED BY <2>2, <2>3
<1>12. Range(w) = Range(wire) \cup Range(L)
  <2>1. DOMAIN w = 1 .. Len(w) /\ DOMAIN wire = 1 .. Len(wire) BY <1>1, <1>7, LenProperties
  <2>2. ASSUME NEW c \in Range(w) PROVE c \in Range(wire) \cup Range(L)
    <3>1. PICK i \in 1 .. Len(w) : c = w[i] BY <2>1 DEF Range
    <3>2. CASE i <= Len(wire)
      <4>1. i \in 1 .. Len(wire) /\ c = wire[i] BY <3>1, <3>2, <1>7
      <4>. QED BY <4>1, <2>1 DEF Range
    <3>3. CASE ~(i <= Len(wire))
      <4>1. i - Len(wire) \in 1 .. Len(L) /\ c = L[i - Len(wire)] BY <3>1, <3>3, <1>7
      <4>. QED BY <4>1, <1>8
    <3>. QED BY <3>2, <3>3
  <2>3. ASSUME NEW c \in Range(wire) PROVE c \in Range(w)
    <3>1. PICK i \in 1 .. Len(wire) : c = wire[i] BY <2>1 DEF Range
    <3>2. i \in 1 .. Len(w) /\ i <= Len(wire) BY <1>7
    <3>3. c = w[i] BY <3>1, <3>2, <1>7
    <3>. QED BY <3>2, <3>3, <2>1 DEF Range
  <2>4. ASSUME NEW c \in Range(L) PROVE c \in Range(w)
    <3>1. PICK i \in 1 .. Len(L) : c = L[i] BY <1>4 DEF Range
    <3>2. i + Len(wire) \in 1 .. Len(w) /\ ~(i + Len(wire) <= Len(wire)) /\ (i + Len(wire)) - Len(wire) = i
      BY <1>7
    <3>3. c = w[i + Len(wire)] BY <3>1, <3>2, <1>7
    <3>. QED BY <3>2, <3>3, <2>1 DEF Range
  <2>. QED BY <2>2, <2>3, <2>4
<1>. QED BY <1>7, <1>10, <1>11, <1>12

Shape == ChannelTypes /\ cmd_line \in Seq(SentBytes) /\ WireOK

(* A command line that grows by one byte, or is empty.                     *)
LEMMA LineRange ==
  ASSUME NEW S, NEW c \in Seq(S) PROVE Range(c) \subseteq S
BY LenProperties, ElementOfSeq DEF Range

(* Steps of the loop that leave the receiver and the buffers alone.        *)
LEMMA QuietShape ==
  ASSUME Shape, UNCHANGED <<host, sent, wire, rdr, cmd_line, lost>>,
         terminal_input_flag' \in {0, 1}, opened' \in Nat,
         events' \in 0 .. host.events, presses' \in 0 .. host.presses,
         pc' \in {"poll", "print", "key", "run", "flag", "menu"},
         menu' \in {"closed", "text", "leaving"} \cup Reading,
         (pc' = "menu") <=> (menu' # "closed")
  PROVE  Shape'
<1>1. SentBytes' = SentBytes BY DEF SentBytes
<1>2. WireOK' BY <1>1 DEF Shape, WireOK
<1>. QED BY <1>1, <1>2 DEF Shape, ChannelTypes

(* Steps that empty the receiver.                                          *)
LEMMA TakingShape ==
  ASSUME Shape, UNCHANGED <<host, sent, wire, events, presses>>, rdr' = NoByte,
         lost' \subseteq SentBytes, cmd_line' \in Seq(SentBytes), Len(cmd_line') < CMD_LINE_MAX,
         terminal_input_flag' \in {0, 1}, opened' \in Nat,
         pc' \in {"poll", "print", "key", "run", "flag", "menu"},
         menu' \in {"closed", "text", "leaving"} \cup Reading,
         (pc' = "menu") <=> (menu' # "closed")
  PROVE  Shape'
<1>1. SentBytes' = SentBytes BY DEF SentBytes
<1>2. WireOK' BY <1>1 DEF Shape, WireOK
<1>3. Range(cmd_line') \subseteq SentBytes BY LineRange
<1>4. sent \in Seq(Texts) /\ Len(sent) <= MaxLines /\ Range(wire) \subseteq SentBytes /\ host \in Hosts
      /\ events \in 0 .. host.events /\ presses \in 0 .. host.presses
  BY DEF Shape, ChannelTypes
<1>5. ChannelTypes' BY <1>1, <1>3, <1>4 DEF ChannelTypes
<1>. QED BY <1>1, <1>2, <1>5 DEF Shape

(* Steps of the wire.                                                      *)
LEMMA ArrivingShape ==
  ASSUME Shape, wire # << >>, rdr' = Head(wire), wire' = Tail(wire), lost' \subseteq SentBytes,
         UNCHANGED <<host, sent, cmd_line, terminal_input_flag, pc, menu, done,
                     opened, events, presses>>
  PROVE  Shape'
<1>1. SentBytes' = SentBytes BY DEF SentBytes
<1>2. sent \in Seq(Texts) /\ WireOK BY DEF Shape, ChannelTypes
<1>3. /\ Head(wire) \in SentBytes /\ Head(wire) # NoByte
      /\ Tail(wire) \in Seq(SentBytes) /\ Sorted(Tail(wire))
      /\ \A i \in 1 .. Len(Tail(wire)) : Before(Head(wire), Tail(wire)[i])
  BY <1>2, WireHead
<1>4. WireOK' BY <1>1, <1>3 DEF WireOK
<1>5. Range(wire') \subseteq SentBytes BY <1>3, LineRange
<1>6. ChannelTypes' BY <1>1, <1>3, <1>5 DEF Shape, ChannelTypes
<1>. QED BY <1>1, <1>4, <1>6 DEF Shape

(* A step of the host.                                                     *)
LEMMA SendingShape ==
  ASSUME Shape, NEW t \in host.texts, HostSend(t)
  PROVE  Shape' /\ t \in Texts
<1>1. /\ sent \in Seq(Texts) /\ WireOK /\ host \in Hosts /\ Len(sent) <= MaxLines
      /\ rdr \in SentBytes \cup {NoByte} /\ cmd_line \in Seq(SentBytes) /\ lost \subseteq SentBytes
  BY DEF Shape, ChannelTypes
<1>2. t \in Texts BY <1>1 DEF Texts
<1>3. /\ sent' = Append(sent, t) /\ wire' = wire \o Line(t, Len(sent) + 1) /\ Len(sent) < MaxLines
      /\ UNCHANGED <<host, rdr, cmd_line, terminal_input_flag, pc, menu, done,
                 lost, opened, events, presses>>
  BY DEF HostSend
<1>4. sent' \in Seq(Texts) /\ Len(sent') = Len(sent) + 1 /\ Len(sent) \in Nat /\ AllBytes(sent) \subseteq AllBytes(sent')
  BY <1>1, <1>2, <1>3, SendFacts
<1>5. Len(sent') <= MaxLines BY <1>3, <1>4, ChannelAssumption
<1>6. SentBytes = AllBytes(sent) BY SentBytesIs
<1>7. SentBytes' = AllBytes(sent') BY DEF SentBytes, AllBytes
<1>8. SentBytes \subseteq SentBytes' BY <1>4, <1>6, <1>7
<1>9. WireOK'
  <2>1. /\ wire' \in Seq(AllBytes(sent')) /\ Sorted(wire')
        /\ rdr # NoByte => \A i \in 1 .. Len(wire') : Before(rdr, wire'[i])
    BY <1>1, <1>2, <1>3, WireSend
  <2>. QED BY <2>1, <1>3, <1>7 DEF WireOK
<1>10. cmd_line' \in Seq(SentBytes')
  <2>1. \A i \in 1 .. Len(cmd_line) : cmd_line[i] \in SentBytes' BY <1>1, <1>8, ElementOfSeq
  <2>2. Len(cmd_line) \in Nat /\ cmd_line \in [1 .. Len(cmd_line) -> SentBytes']
    BY <1>1, <2>1, LenProperties
  <2>3. cmd_line \in Seq(SentBytes') BY <2>2, SeqDef
  <2>. QED BY <2>3, <1>3
<1>11. Range(wire') \subseteq SentBytes' /\ Range(cmd_line') \subseteq SentBytes'
  BY <1>9, <1>10, LineRange DEF WireOK
<1>12. ChannelTypes'
  <2>1. rdr' \in SentBytes' \cup {NoByte} /\ lost' \subseteq SentBytes' BY <1>1, <1>3, <1>8
  <2>. QED BY <2>1, <1>3, <1>4, <1>5, <1>11 DEF Shape, ChannelTypes
<1>. QED BY <1>2, <1>9, <1>10, <1>12 DEF Shape

(* Every step keeps the types and the order of the wire.                   *)
LEMMA ShapeStep ==
  ASSUME Shape, [ChannelNext]_channelVars
  PROVE  Shape'
<1>1. /\ sent \in Seq(Texts) /\ host \in Hosts /\ rdr \in SentBytes \cup {NoByte}
      /\ cmd_line \in Seq(SentBytes) /\ Len(cmd_line) < CMD_LINE_MAX /\ lost \subseteq SentBytes
      /\ terminal_input_flag \in {0, 1} /\ opened \in Nat
      /\ pc \in {"poll", "print", "key", "run", "flag", "menu"}
      /\ menu \in {"closed", "text", "leaving"} \cup Reading
      /\ (pc = "menu") <=> (menu # "closed")
      /\ events \in 0 .. host.events /\ presses \in 0 .. host.presses
  BY DEF Shape, ChannelTypes
<1>2. host.events \in Nat /\ host.presses \in Nat /\ CMD_LINE_MAX \in Nat /\ CMD_LINE_MAX > 1
  <2>1. {host.events, host.presses} \subseteq Nat BY <1>1, ChannelAssumption
  <2>2. CMD_LINE_MAX \in Nat \ {0, 1} BY ChannelAssumption
  <2>. QED BY <2>1, <2>2
<1>3. CASE UNCHANGED channelVars BY <1>3, <1>1, QuietShape DEF channelVars
<1>4. ASSUME NEW t \in host.texts, HostSend(t) PROVE Shape' BY <1>4, SendingShape
<1>5. CASE Arrive BY <1>1, <1>5, ArrivingShape DEF Arrive
<1>6. CASE Overrun
  <2>1. lost' \subseteq SentBytes BY <1>1, <1>6 DEF Overrun
  <2>. QED BY <2>1, <1>6, ArrivingShape DEF Overrun
<1>7. CASE Press
  <2>1. presses' \in 0 .. host.presses BY <1>1, <1>2, <1>7 DEF Press
  <2>. QED BY <2>1, <1>1, <1>7, QuietShape DEF Press
<1>8. CASE PollNothing BY <1>1, <1>8, QuietShape DEF PollNothing
<1>9. CASE PollEvent
  <2>1. events' \in 0 .. host.events BY <1>1, <1>2, <1>9 DEF PollEvent
  <2>. QED BY <2>1, <1>1, <1>9, QuietShape DEF PollEvent
<1>10. CASE EventPrinted BY <1>1, <1>10, QuietShape DEF EventPrinted
<1>11. CASE NoKey BY <1>1, <1>11, QuietShape DEF NoKey
<1>12. CASE MenuKey BY <1>1, <1>12, TakingShape DEF MenuKey
<1>13. CASE CommandKey
  <2>1. /\ pc = "key" /\ rdr \in SentBytes /\ rdr' = NoByte /\ cmd_channel_feed(rdr)
        /\ UNCHANGED <<host, sent, wire, terminal_input_flag, menu, opened, events, presses>>
    BY <1>1, <1>13 DEF CommandKey
  <2>2. Append(cmd_line, rdr) \in Seq(SentBytes) /\ Len(Append(cmd_line, rdr)) = Len(cmd_line) + 1
        /\ Len(cmd_line) \in Nat
    BY <1>1, <2>1, AppendProperties, LenProperties
  <2>3. cmd_line' \in Seq(SentBytes) /\ Len(cmd_line') < CMD_LINE_MAX
    <3>1. cmd_line' = cmd_line \/ (cmd_line' = Append(cmd_line, rdr) /\ Len(cmd_line) < CMD_LINE_MAX - 1)
      BY <2>1 DEF cmd_channel_feed, Room
    <3>2. CASE cmd_line' = cmd_line BY <1>1, <3>2
    <3>3. CASE cmd_line' = Append(cmd_line, rdr) /\ Len(cmd_line) < CMD_LINE_MAX - 1
      <4>1. Len(cmd_line) + 1 < CMD_LINE_MAX BY <1>2, <2>2, <3>3
      <4>. QED BY <2>2, <3>3, <4>1
    <3>. QED BY <3>1, <3>2, <3>3
  <2>4. lost' \subseteq SentBytes /\ pc' \in {"run", "flag"} BY <1>1, <2>1 DEF cmd_channel_feed
  <2>. QED BY <1>1, <2>1, <2>3, <2>4, TakingShape
<1>14. CASE HandlerReturns
  <2>1. cmd_line' = << >> /\ pc' = "flag" /\ pc = "run" BY <1>14 DEF HandlerReturns, LineAfter
  <2>2. SentBytes' = SentBytes BY <1>14 DEF HandlerReturns, SentBytes
  <2>3. WireOK' BY <1>14, <2>2 DEF Shape, HandlerReturns, WireOK
  <2>4. Range(<< >>) \subseteq SentBytes /\ Len(<< >>) < CMD_LINE_MAX /\ << >> \in Seq(SentBytes)
    BY <1>2 DEF Range
  <2>5. ChannelTypes' BY <1>1, <2>1, <2>2, <2>4, <1>14 DEF Shape, ChannelTypes, HandlerReturns
  <2>. QED BY <2>1, <2>2, <2>3, <2>4, <2>5 DEF Shape
<1>15. CASE NoMenu BY <1>1, <1>15, QuietShape DEF NoMenu
<1>16. CASE OpenMenu
  <2>1. lost' \subseteq SentBytes BY <1>1, <1>16 DEF OpenMenu, Discarded
  <2>. QED BY <2>1, <1>1, <1>16, TakingShape DEF OpenMenu
<1>17. CASE MenuPrompt
  <2>1. lost' \subseteq SentBytes BY <1>1, <1>17 DEF MenuPrompt, Discarded
  <2>. QED BY <2>1, <1>1, <1>17, TakingShape DEF MenuPrompt, Reading
<1>18. CASE MenuByte
  <2>1. menu' \in {"leaving"} \cup Reading BY <1>18 DEF MenuByte, AfterByte, FirstByte, AtEnd, Reading
  <2>2. lost' \subseteq SentBytes BY <1>1, <1>18 DEF MenuByte
  <2>. QED BY <2>1, <2>2, <1>1, <1>18, TakingShape DEF MenuByte, Reading
<1>19. CASE MenuReturns BY <1>1, <1>19, QuietShape DEF MenuReturns, FlagAfterMenu
<1>. QED BY <1>3, <1>4, <1>5, <1>6, <1>7, <1>8, <1>9, <1>10, <1>11, <1>12, <1>13, <1>14, <1>15,
            <1>16, <1>17, <1>18, <1>19 DEF ChannelNext, Loop

(* What a step does to the bytes.                                          *)
Lost(b) == OnWay' = OnWay \ {b} /\ lost' = lost \cup {b} /\ UNCHANGED <<sent, done>> /\ Ready' = Ready

(* Every step keeps what is known of the bytes.                            *)
LEMMA HistStep ==
  ASSUME Shape, ChannelHist, [ChannelNext]_channelVars
  PROVE  ChannelHist'
<1>1. sent \in Seq(Texts) /\ WireOK /\ rdr \in SentBytes \cup {NoByte}
  BY DEF Shape, ChannelTypes
<1>2. ASSUME rdr # NoByte PROVE Least(OnWay, rdr) /\ Range(wire) = OnWay \ {rdr}
  BY <1>1, <1>2, TakeRdr
<1>3. ASSUME rdr' = NoByte, wire' = wire, rdr # NoByte PROVE OnWay' = OnWay \ {rdr}
  <2>1. OnWay' = Range(wire) BY <1>3 DEF OnWay, Discarded
  <2>. QED BY <2>1, <1>2, <1>3
<1>4. ASSUME UNCHANGED <<sent, done, lost>>, OnWay' = OnWay, Ready' = Ready PROVE ChannelHist'
  BY <1>4 DEF ChannelHist
<1>5. ASSUME rdr # NoByte, Lost(rdr) PROVE ChannelHist'
  <2>1. Hist(sent, OnWay \ {rdr}, Ready, done, lost \cup {rdr})
    BY <1>2, <1>5, HistLose DEF ChannelHist
  <2>. QED BY <1>5, <2>1 DEF ChannelHist, Lost
<1>6. ASSUME wire # << >>, rdr' = Head(wire), wire' = Tail(wire) PROVE OnWay' = Range(wire)
  <2>1. Head(wire) # NoByte /\ Range(wire) = {Head(wire)} \cup Range(Tail(wire))
    BY <1>1, <1>6, WireHead
  <2>. QED BY <2>1, <1>6 DEF OnWay, Discarded
<1>7. ASSUME UNCHANGED <<sent, wire, rdr, cmd_line, done, lost>>, pc # "run", pc' # "run"
      PROVE  ChannelHist'
  BY <1>4, <1>7 DEF OnWay, Discarded, Ready
<1>8. ASSUME pc # "run", pc' # "run", rdr' = NoByte, lost' = lost \cup Discarded,
             UNCHANGED <<sent, wire, cmd_line, done>>
      PROVE  ChannelHist'
  <2>1. CASE rdr = NoByte BY <1>7, <1>8, <2>1 DEF Discarded
  <2>2. CASE rdr # NoByte
    <3>1. lost' = lost \cup {rdr} BY <1>8, <2>2 DEF Discarded
    <3>2. Ready' = Ready BY <1>8 DEF Ready
    <3>. QED BY <1>3, <1>5, <1>8, <2>2, <3>1, <3>2 DEF Lost
  <2>. QED BY <2>1, <2>2
<1>9. CASE UNCHANGED channelVars
  BY <1>4, <1>9 DEF channelVars, OnWay, Discarded, Ready
<1>10. ASSUME NEW t \in host.texts, HostSend(t) PROVE ChannelHist'
  <2>1. t \in Texts BY <1>10, SendingShape
  <2>2. /\ sent' = Append(sent, t) /\ wire' = wire \o Line(t, Len(sent) + 1)
        /\ UNCHANGED <<rdr, cmd_line, pc, done, lost>>
    BY <1>10 DEF HostSend
  <2>3. Range(wire') = Range(wire) \cup Range(Line(t, Len(sent) + 1))
    BY <1>1, <2>1, <2>2, WireSend
  <2>4. OnWay' = OnWay \cup Range(Line(t, Len(sent) + 1))
    BY <2>2, <2>3 DEF OnWay, Discarded
  <2>5. Hist(Append(sent, t), OnWay \cup Range(Line(t, Len(sent) + 1)), Ready, done, lost)
    BY <2>1, HistSend DEF ChannelHist
  <2>6. Ready' = Ready BY <2>2 DEF Ready
  <2>. QED BY <2>2, <2>4, <2>5, <2>6 DEF ChannelHist
<1>11. CASE Arrive
  <2>1. OnWay' = Range(wire) BY <1>6, <1>11 DEF Arrive
  <2>2. OnWay = Range(wire) BY <1>11 DEF Arrive, OnWay, Discarded
  <2>3. Ready' = Ready BY <1>11 DEF Arrive, Ready
  <2>. QED BY <1>4, <1>11, <2>1, <2>2, <2>3 DEF Arrive
<1>12. CASE Overrun
  <2>1. OnWay' = Range(wire) /\ rdr # NoByte BY <1>6, <1>12 DEF Overrun
  <2>2. Ready' = Ready BY <1>12 DEF Overrun, Ready
  <2>3. Lost(rdr) BY <1>2, <1>12, <2>1, <2>2 DEF Overrun, Lost
  <2>. QED BY <1>5, <2>1, <2>3
<1>13. CASE Press BY <1>4, <1>13 DEF Press, OnWay, Discarded, Ready
<1>14. CASE PollNothing BY <1>7, <1>14 DEF PollNothing
<1>15. CASE PollEvent BY <1>7, <1>15 DEF PollEvent
<1>16. CASE EventPrinted BY <1>7, <1>16 DEF EventPrinted
<1>17. CASE NoKey BY <1>7, <1>17 DEF NoKey
<1>18. CASE MenuKey
  <2>1. Ready' = Ready BY <1>18 DEF MenuKey, Ready
  <2>. QED BY <1>3, <1>5, <1>18, <2>1 DEF MenuKey, Lost
<1>19. CASE CommandKey
  <2>1. /\ pc = "key" /\ rdr # NoByte /\ rdr' = NoByte /\ cmd_channel_feed(rdr)
        /\ UNCHANGED <<sent, wire>>
    BY <1>19 DEF CommandKey
  <2>2. OnWay' = OnWay \ {rdr} /\ Least(OnWay, rdr) BY <1>2, <1>3, <2>1
  <2>3. Hist(sent, OnWay, cmd_line, done, lost) BY <2>1 DEF ChannelHist, Ready
  <2>4. CASE EndOfLine(rdr.ch) /\ cmd_line # << >> /\ done' = Append(done, cmd_line) /\ pc' = "run" /\ lost' = lost
    <3>1. Hist(sent, OnWay \ {rdr}, << >>, Append(done, cmd_line), lost)
      BY <2>2, <2>3, <2>4, HistDispatch DEF EndOfLine
    <3>2. Ready' = << >> BY <2>4 DEF Ready
    <3>. QED BY <2>1, <2>2, <2>4, <3>1, <3>2 DEF ChannelHist
  <2>5. CASE EndOfLine(rdr.ch) /\ cmd_line = << >> /\ pc' = "flag" /\ UNCHANGED <<cmd_line, done, lost>>
    <3>1. Hist(sent, OnWay \ {rdr}, << >>, done, lost)
      BY <2>2, <2>3, <2>5, HistSkip DEF EndOfLine
    <3>2. Ready' = << >> BY <2>5 DEF Ready
    <3>. QED BY <2>1, <2>2, <2>5, <3>1, <3>2 DEF ChannelHist
  <2>6. CASE ~EndOfLine(rdr.ch) /\ cmd_line' = Append(cmd_line, rdr) /\ pc' = "flag" /\ UNCHANGED <<done, lost>>
    <3>1. Hist(sent, OnWay \ {rdr}, Append(cmd_line, rdr), done, lost)
      BY <2>2, <2>3, <2>6, HistCollect DEF EndOfLine
    <3>2. Ready' = Append(cmd_line, rdr) BY <2>6 DEF Ready
    <3>. QED BY <2>1, <2>2, <2>6, <3>1, <3>2 DEF ChannelHist
  <2>7. CASE lost' = lost \cup {rdr} /\ pc' = "flag" /\ UNCHANGED <<cmd_line, done>>
    <3>1. Ready' = Ready BY <2>1, <2>7 DEF Ready
    <3>. QED BY <1>5, <2>1, <2>2, <2>7, <3>1 DEF Lost
  <2>. QED BY <2>1, <2>4, <2>5, <2>6, <2>7 DEF cmd_channel_feed
<1>20. CASE HandlerReturns
  <2>1. Ready = << >> /\ Ready' = << >> BY <1>20 DEF HandlerReturns, Ready, LineAfter
  <2>. QED BY <1>4, <1>20, <2>1 DEF HandlerReturns, OnWay, Discarded
<1>21. CASE NoMenu BY <1>7, <1>21 DEF NoMenu
<1>22. CASE OpenMenu BY <1>8, <1>22 DEF OpenMenu
<1>23. (menu # "closed") => pc # "run" BY DEF Shape, ChannelTypes
<1>24. CASE MenuPrompt BY <1>8, <1>23, <1>24 DEF MenuPrompt
<1>25. CASE MenuByte
  <2>1. Discarded = {rdr} BY <1>25 DEF MenuByte, Discarded
  <2>. QED BY <1>8, <1>23, <1>25, <2>1 DEF MenuByte, Reading
<1>26. CASE MenuReturns BY <1>7, <1>23, <1>26 DEF MenuReturns
<1>. QED BY <1>9, <1>10, <1>11, <1>12, <1>13, <1>14, <1>15, <1>16, <1>17, <1>18, <1>19, <1>20,
            <1>21, <1>22, <1>24, <1>25, <1>26 DEF ChannelNext, Loop

(* A lost 'q' counts, a second loss of the same byte does not happen.      *)
LEMMA QuitsGrow ==
  ASSUME NEW X, IsFiniteSet(X), NEW b
  PROVE  /\ IsFiniteSet(X \cup {b})
         /\ Cardinality(Quits(X)) \in Nat /\ Cardinality(Quits(X \cup {b})) \in Nat
         /\ Cardinality(Quits(X)) <= Cardinality(Quits(X \cup {b}))
         /\ b \notin X /\ b.ch = "q" =>
              Cardinality(Quits(X \cup {b})) = Cardinality(Quits(X)) + 1
<1>1. IsFiniteSet(X \cup {b}) BY FS_AddElement
<1>2. Quits(X) \subseteq X /\ Quits(X \cup {b}) \subseteq X \cup {b} /\ Quits(X) \subseteq Quits(X \cup {b})
  BY DEF Quits
<1>3. IsFiniteSet(Quits(X)) /\ IsFiniteSet(Quits(X \cup {b})) BY <1>1, <1>2, FS_Subset
<1>4. Cardinality(Quits(X)) \in Nat /\ Cardinality(Quits(X \cup {b})) \in Nat
  BY <1>3, FS_CardinalityType
<1>5. Cardinality(Quits(X)) <= Cardinality(Quits(X \cup {b})) BY <1>2, <1>3, FS_Subset
<1>6. ASSUME b \notin X, b.ch = "q"
      PROVE  Cardinality(Quits(X \cup {b})) = Cardinality(Quits(X)) + 1
  <2>1. Quits(X \cup {b}) = Quits(X) \cup {b} BY <1>6 DEF Quits
  <2>2. b \notin Quits(X) BY <1>6 DEF Quits
  <2>. QED BY <2>1, <2>2, <1>3, FS_AddElement
<1>. QED BY <1>1, <1>4, <1>5, <1>6

(* Every step keeps the count of the menu.                                 *)
LEMMA AskedStep ==
  ASSUME Shape, ChannelHist, Asked, [ChannelNext]_channelVars
  PROVE  Asked'
<1>1. /\ IsFiniteSet(lost) /\ opened \in Nat /\ terminal_input_flag \in {0, 1}
      /\ opened + Waiting <= presses + Cardinality(Quits(lost))
  BY DEF Asked, Shape, ChannelTypes
<1>2. presses \in Nat /\ Cardinality(Quits(lost)) \in Nat
  <2>1. host.presses \in Nat BY ChannelAssumption DEF Shape, ChannelTypes
  <2>2. presses \in Nat BY <2>1 DEF Shape, ChannelTypes
  <2>. QED BY <1>1, <2>2, QuitsGrow
<1>3. Waiting \in {0, 1} /\ Waiting' \in {0, 1} BY DEF Waiting
<1>4. ASSUME NEW b, lost' = lost \cup {b}
      PROVE  /\ IsFiniteSet(lost') /\ Cardinality(Quits(lost')) \in Nat
             /\ Cardinality(Quits(lost)) <= Cardinality(Quits(lost'))
             /\ b \notin lost /\ b.ch = "q" => Cardinality(Quits(lost')) = Cardinality(Quits(lost)) + 1
  BY <1>1, <1>4, QuitsGrow
<1>5. ASSUME lost' = lost \/ \E b : lost' = lost \cup {b}
      PROVE  /\ IsFiniteSet(lost') /\ Cardinality(Quits(lost')) \in Nat
             /\ Cardinality(Quits(lost)) <= Cardinality(Quits(lost'))
  <2>1. CASE lost' = lost BY <2>1, <1>1, <1>2
  <2>2. CASE \E b : lost' = lost \cup {b}
    <3>1. PICK b : lost' = lost \cup {b} BY <2>2
    <3>. QED BY <3>1, <1>4
  <2>. QED BY <1>5, <2>1, <2>2
<1>6. lost \cup Discarded = lost \/ lost \cup Discarded = lost \cup {rdr} BY DEF Discarded
<1>7. ASSUME lost' = lost \/ \E b : lost' = lost \cup {b}, opened' = opened, presses' = presses,
             Waiting' <= Waiting
      PROVE  Asked'
  <2>1. /\ IsFiniteSet(lost') /\ Cardinality(Quits(lost')) \in Nat
        /\ Cardinality(Quits(lost)) <= Cardinality(Quits(lost'))
    BY <1>5, <1>7
  <2>2. opened + Waiting' <= presses + Cardinality(Quits(lost')) BY <1>1, <1>2, <1>3, <1>7, <2>1
  <2>. QED BY <1>7, <2>1, <2>2 DEF Asked
<1>8. ASSUME UNCHANGED <<terminal_input_flag, opened, presses>>, pc = "menu" => pc' = "menu",
             lost' = lost \/ \E b : lost' = lost \cup {b}
      PROVE  Asked'
  <2>1. Waiting' <= Waiting BY <1>8 DEF Waiting
  <2>. QED BY <1>7, <1>8, <2>1
<1>9. CASE UNCHANGED channelVars BY <1>8, <1>9 DEF channelVars
<1>10. ASSUME NEW t \in host.texts, HostSend(t) PROVE Asked' BY <1>8, <1>10 DEF HostSend
<1>11. CASE Arrive BY <1>8, <1>11 DEF Arrive
<1>12. CASE Overrun BY <1>8, <1>12 DEF Overrun
<1>13. CASE Press
  <2>1. lost' = lost /\ opened' = opened /\ presses' = presses + 1 BY <1>13 DEF Press
  <2>2. opened + Waiting' <= (presses + 1) + Cardinality(Quits(lost)) BY <1>1, <1>2, <1>3
  <2>. QED BY <1>1, <2>1, <2>2 DEF Asked
<1>14. CASE PollNothing BY <1>8, <1>14 DEF PollNothing
<1>15. CASE PollEvent BY <1>8, <1>15 DEF PollEvent
<1>16. CASE EventPrinted BY <1>8, <1>16 DEF EventPrinted
<1>17. CASE NoKey BY <1>8, <1>17 DEF NoKey
<1>18. CASE MenuKey
  <2>1. rdr # NoByte /\ rdr.ch = "q" /\ lost' = lost \cup {rdr} /\ opened' = opened /\ presses' = presses
    BY <1>18 DEF MenuKey
  <2>2. rdr \in OnWay BY <2>1 DEF OnWay, Discarded
  <2>3. rdr \notin lost BY <2>2 DEF ChannelHist, Hist, HistTypes
  <2>4. IsFiniteSet(lost') /\ Cardinality(Quits(lost')) = Cardinality(Quits(lost)) + 1
    BY <1>4, <2>1, <2>3
  <2>5. opened + Waiting' <= presses + (Cardinality(Quits(lost)) + 1) BY <1>1, <1>2, <1>3
  <2>. QED BY <2>1, <2>4, <2>5 DEF Asked
<1>19. CASE CommandKey
  <2>1. lost' = lost \/ lost' = lost \cup {rdr} BY <1>19 DEF CommandKey, cmd_channel_feed
  <2>. QED BY <1>8, <1>19, <2>1 DEF CommandKey
<1>20. CASE HandlerReturns BY <1>8, <1>20 DEF HandlerReturns
<1>21. CASE NoMenu BY <1>8, <1>21 DEF NoMenu
<1>22. CASE OpenMenu
  <2>1. /\ lost' = lost \/ \E b : lost' = lost \cup {b}
        /\ opened' = opened + 1 /\ presses' = presses
    BY <1>6, <1>22 DEF OpenMenu
  <2>2. Waiting = 1 /\ Waiting' = 0 BY <1>22 DEF OpenMenu, Waiting
  <2>3. /\ IsFiniteSet(lost') /\ Cardinality(Quits(lost')) \in Nat
        /\ Cardinality(Quits(lost)) <= Cardinality(Quits(lost'))
    BY <1>5, <2>1
  <2>4. (opened + 1) + Waiting' <= presses + Cardinality(Quits(lost')) BY <1>1, <1>2, <2>2, <2>3
  <2>. QED BY <2>1, <2>3, <2>4 DEF Asked
<1>23. CASE MenuPrompt
  <2>1. lost' = lost \/ \E b : lost' = lost \cup {b} BY <1>6, <1>23 DEF MenuPrompt
  <2>. QED BY <1>8, <1>23, <2>1 DEF MenuPrompt
<1>24. CASE MenuByte BY <1>8, <1>24 DEF MenuByte
<1>25. CASE MenuReturns
  <2>1. Waiting' = 0 BY <1>25 DEF MenuReturns, FlagAfterMenu, Waiting
  <2>2. Waiting' <= Waiting BY <1>3, <2>1
  <2>. QED BY <1>7, <1>25, <2>2 DEF MenuReturns
<1>. QED BY <1>9, <1>10, <1>11, <1>12, <1>13, <1>14, <1>15, <1>16, <1>17, <1>18, <1>19, <1>20,
            <1>21, <1>22, <1>23, <1>24, <1>25 DEF ChannelNext, Loop

(* Nothing was sent yet.                                                   *)
LEMMA ChannelStart == ChannelInit => ChannelIInv
<1>. SUFFICES ASSUME ChannelInit PROVE ChannelIInv OBVIOUS
<1>1. /\ host \in Hosts /\ sent = << >> /\ wire = << >> /\ rdr = NoByte /\ cmd_line = << >>
      /\ terminal_input_flag = 0 /\ pc = "poll" /\ menu = "closed" /\ done = << >> /\ lost = {}
      /\ opened = 0 /\ events = 0 /\ presses = 0
  BY DEF ChannelInit
<1>2. /\ Len(<< >>) = 0 /\ 1 .. 0 = {} /\ Range(<< >>) = {}
  BY DEF Range
<1>3. ChannelTypes
  <2>1. host.events \in Nat /\ host.presses \in Nat
    <3>1. {host.events, host.presses} \subseteq Nat BY <1>1, ChannelAssumption
    <3>. QED BY <3>1
  <2>2. 0 \in 0 .. host.events /\ 0 \in 0 .. host.presses BY <2>1
  <2>3. sent \in Seq(Texts) /\ Len(sent) <= MaxLines BY <1>1, <1>2, ChannelAssumption
  <2>4. Len(cmd_line) < CMD_LINE_MAX BY <1>1, <1>2, ChannelAssumption
  <2>5. Range(wire) \subseteq SentBytes /\ Range(cmd_line) \subseteq SentBytes BY <1>1, <1>2
  <2>. QED BY <1>1, <2>2, <2>3, <2>4, <2>5 DEF ChannelTypes
<1>4. WireOK BY <1>1, <1>2 DEF WireOK, Sorted
<1>5. OnWay = {} /\ Ready = << >> BY <1>1, <1>2 DEF OnWay, Discarded, Ready
<1>6. Hist(<< >>, {}, << >>, << >>, {})
  <2>1. HistTypes(<< >>, {}, << >>, << >>, {}) BY DEF HistTypes
  <2>2. UpClosed(<< >>, {}) BY DEF UpClosed
  <2>3. Apart({}, << >>, << >>, {}) BY <1>2 DEF Apart, Fresh
  <2>4. InOrder(<< >>, << >>) BY <1>2 DEF InOrder, Sorted
  <2>5. Unended(<< >>, {}, << >>, {}) BY <1>2 DEF Unended
  <2>6. JoinedLines(<< >>, << >>, {}) BY <1>2 DEF JoinedLines
  <2>7. Collected(<< >>, {}, << >>, {}) BY <1>2 DEF Collected
  <2>8. Ran(<< >>, {}, << >>, {}) BY <1>2 DEF Ran
  <2>. QED BY <2>1, <2>2, <2>3, <2>4, <2>5, <2>6, <2>7, <2>8 DEF Hist
<1>7. ChannelHist BY <1>1, <1>5, <1>6 DEF ChannelHist
<1>8. Asked
  <2>1. Quits(lost) = {} BY <1>1 DEF Quits
  <2>2. IsFiniteSet(lost) /\ Cardinality(Quits(lost)) = 0 BY <1>1, <2>1, FS_EmptySet
  <2>3. Waiting = 0 BY <1>1 DEF Waiting
  <2>. QED BY <1>1, <2>2, <2>3 DEF Asked
<1>9. cmd_line \in Seq(SentBytes) BY <1>1
<1>. QED BY <1>3, <1>4, <1>7, <1>8, <1>9 DEF ChannelIInv

(* The invariant says what ChannelSound does.                              *)
LEMMA SoundFromHist ==
  ASSUME ChannelIInv
  PROVE  ChannelSound
<1>1. /\ sent \in Seq(Texts) /\ lost \subseteq AllBytes(sent) /\ done \in Seq(Seq(AllBytes(sent)))
      /\ Apart(OnWay, Ready, done, lost) /\ InOrder(Ready, done)
      /\ JoinedLines(sent, done, lost) /\ Ran(sent, OnWay, done, lost)
  BY DEF ChannelIInv, ChannelHist, Hist, HistTypes
<1>2. /\ DOMAIN sent = 1 .. Len(sent) /\ Len(sent) \in Nat
      /\ DOMAIN done = 1 .. Len(done) /\ Len(done) \in Nat
  BY <1>1, LenProperties
<1>3. ASSUME NEW k \in 1 .. Len(done)
      PROVE  /\ done[k] \in Seq(AllBytes(sent)) /\ DOMAIN done[k] = 1 .. Len(done[k])
             /\ \A i \in 1 .. Len(done[k]) : done[k][i] \in AllBytes(sent)
  <2>1. done[k] \in Seq(AllBytes(sent)) BY <1>1, ElementOfSeq
  <2>. QED BY <2>1, LenProperties, ElementOfSeq
<1>4. ASSUME NEW n PROVE Terminator(n) = LastByte(sent, n) BY DEF Terminator, LastByte
<1>5. ChannelTypes BY DEF ChannelIInv
<1>6. DispatchedInOrder
  <2>1. ASSUME NEW k \in DOMAIN done, NEW l \in DOMAIN done, NEW i \in DOMAIN done[k],
               NEW j \in DOMAIN done[l], k < l \/ (k = l /\ i < j)
        PROVE  Before(done[k][i], done[l][j])
    <3>1. k \in 1 .. Len(done) /\ l \in 1 .. Len(done) BY <1>2
    <3>2. i \in 1 .. Len(done[k]) /\ j \in 1 .. Len(done[l]) BY <1>3, <3>1
    <3>3. CASE k < l
      <4>1. Ahead(done[k], done[l]) BY <1>1, <3>1, <3>3 DEF InOrder
      <4>. QED BY <3>2, <4>1 DEF Ahead
    <3>4. CASE k = l /\ i < j
      <4>1. Sorted(done[k]) BY <1>1, <3>1 DEF InOrder
      <4>. QED BY <3>2, <3>4, <4>1 DEF Sorted
    <3>. QED BY <2>1, <3>3, <3>4
  <2>2. ASSUME NEW k \in DOMAIN done, NEW i \in DOMAIN done[k]
        PROVE  /\ done[k][i] \notin lost
               /\ done[k][i].line # Last(done[k]).line => ~Terminated(done[k][i].line)
    <3>1. k \in 1 .. Len(done) BY <1>2
    <3>2. i \in 1 .. Len(done[k]) /\ done[k][i] \in AllBytes(sent) BY <1>3, <3>1
    <3>3. done[k][i] \notin lost BY <1>1, <3>1, <3>2 DEF Apart, Fresh
    <3>4. IsByte(sent, done[k][i]) BY <1>1, <3>2, ByteFacts
    <3>5. done[k][i].line # 0 BY <3>4, <1>2 DEF IsByte
    <3>6. ASSUME done[k][i].line # Last(done[k]).line PROVE LastByte(sent, done[k][i].line) \in lost
      <4>1. Last(done[k]) = done[k][Len(done[k])] BY DEF Last
      <4>. QED BY <1>1, <3>1, <3>2, <3>6, <4>1 DEF JoinedLines
    <3>. QED BY <1>4, <3>3, <3>5, <3>6 DEF Terminated
  <2>. QED BY <2>1, <2>2 DEF DispatchedInOrder
<1>7. WholeLineRuns
  <2>1. SUFFICES ASSUME NEW n \in DOMAIN sent, Passed(n),
                        \A b \in Range(Line(sent[n], n)) : b \notin lost, Terminated(n - 1)
                 PROVE  Cardinality({k \in DOMAIN done : done[k] = Body(n)}) = 1
    BY DEF WholeLineRuns
  <2>2. n \in 1 .. Len(sent) BY <1>2
  <2>3. Len(sent[n]) \in Nat \ {0} BY <1>1, <2>2, TextOf
  <2>4. \A i \in 1 .. Len(sent[n]) + 1 : ByteAt(sent, n, i) = Line(sent[n], n)[i]
    BY DEF ByteAt, Line
  <2>5. Body(n) = TextBytes(sent, n)
    <3>1. \A i \in 1 .. Len(sent[n]) : i \in 1 .. Len(sent[n]) + 1 BY <2>3
    <3>. QED BY <2>4, <3>1 DEF Body, TextBytes
  <2>6. Intact(sent, n, lost)
    <3>1. ASSUME NEW i \in 1 .. Len(sent[n]) + 1 PROVE ByteAt(sent, n, i) \notin lost
      <4>1. Line(sent[n], n)[i] \in Range(Line(sent[n], n)) BY DEF Line, Range
      <4>. QED BY <2>1, <2>4, <4>1
    <3>2. ASSUME n > 1 PROVE LastByte(sent, n - 1) \notin lost
      <4>1. n - 1 # 0 BY <2>2, <3>2
      <4>. QED BY <2>1, <4>1, <1>4 DEF Terminated
    <3>. QED BY <3>1, <3>2 DEF Intact
  <2>7. LastByte(sent, n) \notin OnWay
    <3>1. LastByte(sent, n) # rdr /\ LastByte(sent, n) \notin Range(wire) BY <2>1, <1>4 DEF Passed
    <3>. QED BY <3>1 DEF OnWay, Discarded
  <2>8. PICK k \in 1 .. Len(done) : done[k] = TextBytes(sent, n) BY <1>1, <2>2, <2>6, <2>7 DEF Ran
  <2>9. ASSUME NEW l \in 1 .. Len(done), NEW m \in 1 .. Len(done), done[l] = TextBytes(sent, n),
               done[m] = TextBytes(sent, n), l < m
        PROVE  FALSE
    <3>1. Ahead(done[l], done[m]) BY <1>1, <2>9 DEF InOrder
    <3>2. DOMAIN done[l] = 1 .. Len(sent[n]) /\ DOMAIN done[l] = 1 .. Len(done[l])
      BY <1>3, <2>9 DEF TextBytes
    <3>3. 1 \in 1 .. Len(sent[n]) BY <2>3
    <3>4. 1 \in 1 .. Len(done[l]) /\ done[l] = done[m] BY <3>2, <3>3, <2>9
    <3>5. Before(done[l][1], done[l][1]) BY <3>1, <3>4 DEF Ahead
    <3>6. done[l][1] \in AllBytes(sent) BY <1>3, <3>4
    <3>. QED BY <1>1, <3>5, <3>6, OneWay
  <2>10. {l \in DOMAIN done : done[l] = Body(n)} = {k}
    <3>1. ASSUME NEW l \in DOMAIN done, done[l] = Body(n) PROVE l = k
      <4>1. l \in 1 .. Len(done) /\ done[l] = TextBytes(sent, n) BY <3>1, <1>2, <2>5
      <4>2. ~(l < k) /\ ~(k < l) BY <2>8, <2>9, <4>1
      <4>. QED BY <4>1, <4>2, <1>2
    <3>. QED BY <3>1, <2>5, <2>8, <1>2
  <2>. QED BY <2>10, FS_Singleton
<1>8. MenuOnRequest
  <2>1. opened + Waiting <= presses + Cardinality(Quits(lost)) /\ IsFiniteSet(lost)
    BY DEF ChannelIInv, Asked
  <2>2. Cardinality(Quits(lost)) \in Nat BY <2>1, QuitsGrow
  <2>3. host.presses \in Nat BY <1>5, ChannelAssumption DEF ChannelTypes
  <2>4. opened \in Nat /\ presses \in Nat BY <1>5, <2>3 DEF ChannelTypes
  <2>5. Waiting \in {0, 1} BY DEF Waiting
  <2>6. opened <= presses + Cardinality(Quits(lost)) BY <2>1, <2>2, <2>4, <2>5
  <2>. QED BY <2>6 DEF MenuOnRequest, Quits
<1>. QED BY <1>5, <1>6, <1>7, <1>8 DEF ChannelSound

(* Every state of the channel satisfies the inductive invariant.           *)
THEOREM ChannelInvariance == ChannelSpec => []ChannelIInv
<1>1. ChannelInit => ChannelIInv BY ChannelStart
<1>2. ChannelIInv /\ [ChannelNext]_channelVars => ChannelIInv'
  <2>. SUFFICES ASSUME ChannelIInv, [ChannelNext]_channelVars PROVE ChannelIInv' OBVIOUS
  <2>1. Shape /\ ChannelHist /\ Asked BY DEF ChannelIInv, Shape
  <2>2. Shape' BY <2>1, ShapeStep
  <2>3. ChannelHist' BY <2>1, HistStep
  <2>4. Asked' BY <2>1, AskedStep
  <2>. QED BY <2>2, <2>3, <2>4 DEF ChannelIInv, Shape
<1>. QED BY <1>1, <1>2, PTL DEF ChannelSpec

(* cmd_channel_feed and the main loop, for any lines of any host, any      *)
(* bytes overrun and any presses: the buffer holds what it has room for,   *)
(* lines that arrive whole are dispatched once and as they were sent, no   *)
(* byte is dispatched twice or out of order, and the menu opens no more    *)
(* often than it was asked for.                                            *)
THEOREM ChannelSoundCorrect == ChannelSpec => []ChannelSound
<1>1. ChannelIInv => ChannelSound BY SoundFromHist
<1>. QED BY <1>1, ChannelInvariance, PTL

-----------------------------------------------------------------------------
(* The abstract service.                                                   *)

(* What a host that waits for its answers meets: nothing is lost, at most  *)
(* the last line is on its way, and all others were dispatched.            *)
Served ==
  /\ lost = {} /\ terminal_input_flag = 0 /\ menu = "closed"
  /\ pc \in {"poll", "key", "run", "flag"}
  /\ \A n \in 1 .. Len(sent) : sent[n] \in host.texts
  /\ \A k \in 1 .. Len(done) : done[k] = TextBytes(sent, k)
  /\ OnWay = {} => Len(done) = Len(sent)
  /\ OnWay # {} =>
       Len(sent) = Len(done) + 1 /\ pc # "run" /\ \A b \in OnWay : b.line = Len(sent)

(* The line on its way, and the command line, when the loop reads a byte.  *)
LEMMA ServedByte ==
  ASSUME ChannelIInv, Calm, Served, rdr # NoByte
  PROVE  /\ rdr \in OnWay /\ Least(OnWay, rdr) /\ Len(sent) = Len(done) + 1 /\ pc # "run"
         /\ rdr.ch # "q"
         /\ rdr.ch # "CR" => Room /\ OnWay \ {rdr} # {}
         /\ rdr.ch = "CR" => /\ cmd_line = TextBytes(sent, Len(sent)) /\ cmd_line # << >>
                             /\ OnWay = {rdr}
<1>. DEFINE n == Len(sent)
<1>1. /\ sent \in Seq(Texts) /\ WireOK /\ rdr \in SentBytes /\ host \in Hosts
      /\ cmd_line \in Seq(SentBytes)
  BY DEF ChannelIInv, ChannelTypes
<1>2. Least(OnWay, rdr) BY <1>1, TakeRdr
<1>3. rdr \in OnWay BY <1>2 DEF Least
<1>4. n = Len(done) + 1 /\ pc # "run" /\ \A b \in OnWay : b.line = n BY <1>3 DEF Served
<1>5. Hist(sent, OnWay, cmd_line, done, lost) BY <1>4 DEF ChannelIInv, ChannelHist, Ready
<1>6. OnWay \subseteq AllBytes(sent) /\ UpClosed(sent, OnWay) BY <1>5 DEF Hist, HistTypes
<1>7. rdr \in AllBytes(sent) /\ rdr.line = n BY <1>3, <1>4, <1>6
<1>8. IsByte(sent, rdr) BY <1>1, <1>7, ByteFacts
<1>9. n \in 1 .. Len(sent) /\ rdr.at \in 1 .. Len(sent[n]) + 1 /\ rdr = ByteAt(sent, n, rdr.at)
      /\ (rdr.ch = "CR" <=> rdr.at = Len(sent[n]) + 1)
      /\ (rdr.ch = "CR" <=> rdr = LastByte(sent, n))
  BY <1>7, <1>8 DEF IsByte
<1>10. /\ sent[n] \in Texts /\ sent[n] \in Seq(Chars) /\ Len(sent[n]) \in Nat \ {0} /\ Len(sent) \in Nat
       /\ DOMAIN sent[n] = 1 .. Len(sent[n])
  BY <1>1, <1>9, TextOf, LenProperties
<1>11. sent[n] \in host.texts BY <1>9 DEF Served
<1>12. "q" \notin Range(sent[n]) /\ Len(sent[n]) < CMD_LINE_MAX BY <1>11 DEF Calm
<1>13. rdr.ch # "q"
  <2>1. rdr.ch = IF rdr.at <= Len(sent[n]) THEN sent[n][rdr.at] ELSE "CR"
    BY <1>9 DEF ByteAt
  <2>2. CASE rdr.at <= Len(sent[n])
    <3>1. rdr.at \in DOMAIN sent[n] BY <1>9, <1>10, <2>2
    <3>. QED BY <2>1, <2>2, <3>1, <1>12 DEF Range
  <2>3. CASE ~(rdr.at <= Len(sent[n])) BY <2>1, <2>3
  <2>. QED BY <2>2, <2>3
<1>14. Intact(sent, n, lost) BY DEF Served, Intact
<1>15. Begun(sent, n, OnWay)
  <2>1. SUFFICES ASSUME n > 1, LastByte(sent, n - 1) \in OnWay PROVE FALSE BY DEF Begun
  <2>2. LastByte(sent, n - 1).line = n - 1 BY DEF LastByte
  <2>. QED BY <2>1, <2>2, <1>4, <1>10
<1>16. LastByte(sent, n) \in OnWay
  <2>1. n \in rdr.line .. Len(sent) BY <1>7, <1>10
  <2>. QED BY <2>1, <1>1, <1>3, <1>6, LastPending
<1>17. Beginning(sent, n, cmd_line, OnWay)
  BY <1>5, <1>9, <1>14, <1>15, <1>16 DEF Hist, Collected
<1>18. Len(cmd_line) \in Nat BY <1>1, LenProperties
<1>19. Len(cmd_line) + 1 \in 1 .. Len(sent[n]) + 1 BY <1>10, <1>17, <1>18 DEF Beginning
<1>20. rdr.ch # "CR" => Room /\ OnWay \ {rdr} # {}
  <2>1. SUFFICES ASSUME rdr.ch # "CR" PROVE Room /\ OnWay \ {rdr} # {} OBVIOUS
  <2>2. rdr.at <= Len(sent[n]) BY <2>1, <1>9, <1>10
  <2>3. rdr.at \in 1 .. Len(cmd_line) + 1
    BY <1>1, <1>2, <1>6, <1>9, <1>15, <1>17, <1>19, NextIsOfLine DEF Beginning
  <2>4. rdr.at = Len(cmd_line) + 1
    <3>1. SUFFICES ASSUME rdr.at \in 1 .. Len(cmd_line) PROVE FALSE BY <1>18, <2>3
    <3>2. cmd_line[rdr.at] = rdr BY <3>1, <1>9, <1>17 DEF Beginning
    <3>3. cmd_line[rdr.at] \notin OnWay BY <3>1, <1>5 DEF Hist, Apart, Fresh
    <3>. QED BY <3>2, <3>3, <1>3
  <2>5. CMD_LINE_MAX \in Nat BY ChannelAssumption
  <2>6. Len(cmd_line) < CMD_LINE_MAX - 1 BY <2>2, <2>4, <2>5, <1>10, <1>12, <1>18
  <2>7. LastByte(sent, n) # rdr BY <2>1, <1>9
  <2>. QED BY <2>6, <2>7, <1>16 DEF Room
<1>21. ASSUME rdr.ch = "CR"
       PROVE  cmd_line = TextBytes(sent, n) /\ cmd_line # << >> /\ OnWay = {rdr}
  <2>1. LastByte(sent, n) = rdr BY <1>9, <1>21
  <2>2. cmd_line = TextBytes(sent, n) BY <1>2, <1>5, <1>9, <1>14, <2>1, WholeAtEnd
  <2>3. cmd_line # << >>
    <3>1. DOMAIN cmd_line = 1 .. Len(sent[n]) BY <2>2 DEF TextBytes
    <3>2. 1 \in 1 .. Len(sent[n]) BY <1>10
    <3>3. DOMAIN << >> = {} OBVIOUS
    <3>. QED BY <3>1, <3>2, <3>3
  <2>4. ASSUME NEW c \in OnWay, c # rdr PROVE FALSE
    <3>1. Before(rdr, c) /\ c.line = n BY <2>4, <1>2, <1>4 DEF Least
    <3>2. IsByte(sent, c) BY <1>1, <1>6, ByteFacts
    <3>3. c.at \in 1 .. Len(sent[n]) + 1 BY <3>1, <3>2 DEF IsByte
    <3>4. rdr.at < c.at BY <3>1, <1>7, <1>10 DEF Before
    <3>. QED BY <3>3, <3>4, <1>9, <1>10, <1>21
  <2>. QED BY <2>2, <2>3, <2>4, <1>3
<1>. QED BY <1>2, <1>3, <1>4, <1>13, <1>20, <1>21

(* What a step is for such a host.                                         *)
Submits ==
  \E t \in Texts : /\ Len(done) = Len(sent) /\ Len(sent) < MaxLines
                   /\ sent' = Append(sent, t) /\ done' = done
Executes ==
  /\ Len(sent) = Len(done) + 1 /\ sent' = sent
  /\ done' = Append(done, TextBytes(sent, Len(sent)))

(* A waiting host stays served, and what each step is for it.              *)
LEMMA ServedStep ==
  ASSUME ChannelIInv, Calm, Served, [ChannelNext]_channelVars
  PROVE  /\ Served' /\ host' = host
         /\ UNCHANGED <<sent, done>> \/ Submits \/ Executes
<1>1. /\ sent \in Seq(Texts) /\ WireOK /\ rdr \in SentBytes \cup {NoByte} /\ host \in Hosts
      /\ presses \in 0 .. host.presses /\ events \in 0 .. host.events
      /\ done \in Seq(Seq(AllBytes(sent)))
  BY DEF ChannelIInv, ChannelTypes, ChannelHist, Hist, HistTypes
<1>2. /\ lost = {} /\ terminal_input_flag = 0 /\ menu = "closed"
      /\ pc \in {"poll", "key", "run", "flag"}
      /\ \A n \in 1 .. Len(sent) : sent[n] \in host.texts
      /\ \A k \in 1 .. Len(done) : done[k] = TextBytes(sent, k)
      /\ OnWay = {} => Len(done) = Len(sent)
      /\ OnWay # {} =>
           Len(sent) = Len(done) + 1 /\ pc # "run" /\ \A b \in OnWay : b.line = Len(sent)
  BY DEF Served
<1>3. Len(sent) \in Nat /\ Len(done) \in Nat BY <1>1, LenProperties
<1>4. host.patient /\ presses = 0 /\ host.presses = 0 /\ events = 0 /\ host.events = 0
  BY <1>1 DEF Calm
<1>5. ASSUME UNCHANGED <<host, sent, done, lost, terminal_input_flag, menu>>, OnWay' = OnWay,
             pc' \in {"poll", "key", "flag"} \/ pc' = pc
      PROVE  Served'
  BY <1>2, <1>5 DEF Served
<1>6. CASE UNCHANGED channelVars
  <2>1. OnWay' = OnWay BY <1>6 DEF channelVars, OnWay, Discarded
  <2>. QED BY <1>5, <1>6, <2>1 DEF channelVars
<1>7. ASSUME NEW t \in host.texts, HostSend(t) PROVE Served' /\ host' = host /\ Submits
  <2>1. /\ Len(sent) < MaxLines /\ Answers = Len(sent) /\ sent' = Append(sent, t)
        /\ wire' = wire \o Line(t, Len(sent) + 1)
        /\ UNCHANGED <<host, rdr, terminal_input_flag, pc, menu, done, lost>>
    BY <1>4, <1>7 DEF HostSend
  <2>2. t \in Texts BY <1>1 DEF Texts
  <2>3. pc # "run" /\ Len(done) = Len(sent) BY <1>2, <1>3, <2>1 DEF Answers
  <2>4. OnWay = {} BY <1>2, <1>3, <2>3
  <2>5. Submits BY <2>1, <2>2, <2>3 DEF Submits
  <2>6. Range(wire') = Range(wire) \cup Range(Line(t, Len(sent) + 1)) BY <1>1, <2>1, <2>2, WireSend
  <2>7. OnWay' = Range(Line(t, Len(sent) + 1)) BY <2>1, <2>4, <2>6 DEF OnWay, Discarded
  <2>8. /\ Len(sent') = Len(sent) + 1 /\ sent'[Len(sent) + 1] = t
        /\ \A n \in 1 .. Len(sent) : sent'[n] = sent[n] /\ TextBytes(sent', n) = TextBytes(sent, n)
    BY <1>1, <2>1, <2>2, SendFacts
  <2>9. \A b \in OnWay' : b.line = Len(sent') BY <1>1, <2>2, <2>7, <2>8, NewByte
  <2>10. OnWay' # {}
    <3>1. Len(t) \in Nat BY <2>2, ChannelAssumption, LenProperties
    <3>2. 1 \in DOMAIN Line(t, Len(sent) + 1) BY <3>1 DEF Line
    <3>3. Line(t, Len(sent) + 1)[1] \in Range(Line(t, Len(sent) + 1)) BY <3>2 DEF Range
    <3>. QED BY <2>7, <3>3
  <2>11. \A n \in 1 .. Len(sent') : sent'[n] \in host.texts
    <3>1. \A n \in 1 .. Len(sent') : n \in 1 .. Len(sent) \/ n = Len(sent) + 1 BY <1>3, <2>8
    <3>. QED BY <1>2, <1>7, <2>8, <3>1
  <2>12. \A k \in 1 .. Len(done) : done[k] = TextBytes(sent', k) BY <1>2, <2>3, <2>8
  <2>13. Served' BY <1>2, <2>1, <2>3, <2>8, <2>9, <2>10, <2>11, <2>12 DEF Served
  <2>. QED BY <2>1, <2>5, <2>13
<1>8. CASE Arrive
  <2>1. Head(wire) # NoByte /\ Range(wire) = {Head(wire)} \cup Range(Tail(wire))
    BY <1>1, <1>8, WireHead DEF Arrive
  <2>2. OnWay' = OnWay BY <1>8, <2>1 DEF Arrive, OnWay, Discarded
  <2>. QED BY <1>5, <1>8, <2>2 DEF Arrive
<1>9. ~Overrun
  <2>1. rdr # NoByte => pc # "run" BY ServedByte
  <2>. QED BY <1>2, <2>1 DEF Overrun, Busy
<1>10. ~Press /\ ~PollEvent BY <1>4 DEF Press, PollEvent
<1>11. CASE PollNothing
  <2>1. OnWay' = OnWay BY <1>11 DEF PollNothing, OnWay, Discarded
  <2>. QED BY <1>5, <1>11, <2>1 DEF PollNothing
<1>12. ~EventPrinted BY <1>2 DEF EventPrinted
<1>13. CASE NoKey
  <2>1. OnWay' = OnWay BY <1>13 DEF NoKey, OnWay, Discarded
  <2>. QED BY <1>5, <1>13, <2>1 DEF NoKey
<1>14. ~MenuKey BY ServedByte DEF MenuKey
<1>15. CASE CommandKey
  <2>1. /\ pc = "key" /\ rdr # NoByte /\ rdr' = NoByte /\ cmd_channel_feed(rdr)
        /\ UNCHANGED <<host, sent, wire, terminal_input_flag, menu>>
    BY <1>15 DEF CommandKey
  <2>2. /\ Len(sent) = Len(done) + 1 /\ rdr \in OnWay
        /\ rdr.ch # "CR" => Room /\ OnWay \ {rdr} # {}
        /\ rdr.ch = "CR" => /\ cmd_line = TextBytes(sent, Len(sent)) /\ cmd_line # << >>
                            /\ OnWay = {rdr}
    BY <2>1, ServedByte
  <2>3. OnWay' = OnWay \ {rdr}
    <3>1. Range(wire) = OnWay \ {rdr} BY <1>1, <2>1, TakeRdr
    <3>2. OnWay' = Range(wire) BY <2>1 DEF OnWay, Discarded
    <3>. QED BY <3>1, <3>2
  <2>4. CASE rdr.ch # "CR"
    <3>1. pc' = "flag" /\ UNCHANGED <<done, lost>> BY <2>1, <2>2, <2>4 DEF cmd_channel_feed, EndOfLine
    <3>2. OnWay' # {} /\ \A b \in OnWay' : b.line = Len(sent) BY <1>2, <2>2, <2>3, <2>4
    <3>3. Served' BY <1>2, <2>1, <2>2, <3>1, <3>2 DEF Served
    <3>. QED BY <2>1, <3>1, <3>3
  <2>5. CASE rdr.ch = "CR"
    <3>1. pc' = "run" /\ lost' = lost /\ done' = Append(done, cmd_line)
      BY <2>1, <2>2, <2>5 DEF cmd_channel_feed, EndOfLine
    <3>2. OnWay' = {} BY <2>2, <2>3, <2>5
    <3>3. Executes BY <2>1, <2>2, <2>5, <3>1 DEF Executes
    <3>4. cmd_line \in Seq(AllBytes(sent)) BY SentBytesIs DEF ChannelIInv
    <3>5. Len(done') = Len(done) + 1 /\ done'[Len(done) + 1] = cmd_line /\ \A k \in 1 .. Len(done) : done'[k] = done[k]
      BY <1>1, <3>1, <3>4, AppendProperties
    <3>6. \A k \in 1 .. Len(done') : done'[k] = TextBytes(sent, k)
      <4>1. \A k \in 1 .. Len(done') : k \in 1 .. Len(done) \/ k = Len(done) + 1 BY <1>3, <3>5
      <4>. QED BY <4>1, <1>2, <2>2, <2>5, <3>5
    <3>7. Served' BY <1>2, <2>1, <2>2, <3>1, <3>2, <3>5, <3>6 DEF Served
    <3>. QED BY <2>1, <3>3, <3>7
  <2>. QED BY <2>4, <2>5
<1>16. CASE HandlerReturns
  <2>1. OnWay' = OnWay BY <1>16 DEF HandlerReturns, OnWay, Discarded
  <2>. QED BY <1>5, <1>16, <2>1 DEF HandlerReturns
<1>17. CASE NoMenu
  <2>1. OnWay' = OnWay BY <1>17 DEF NoMenu, OnWay, Discarded
  <2>. QED BY <1>5, <1>17, <2>1 DEF NoMenu
<1>18. ~OpenMenu /\ ~MenuPrompt /\ ~MenuByte /\ ~MenuReturns
  BY <1>2 DEF OpenMenu, MenuPrompt, MenuByte, Reading, MenuReturns
<1>. QED BY <1>6, <1>7, <1>8, <1>9, <1>10, <1>11, <1>12, <1>13, <1>14, <1>15, <1>16, <1>17, <1>18
         DEF ChannelNext, Loop, channelVars, Arrive, PollNothing, NoKey, HandlerReturns, NoMenu

(* The lines d executed, as texts, are the first of those sent.            *)
Heard(d) == [k \in DOMAIN d |-> [i \in DOMAIN d[k] |-> d[k][i].ch]]

(* Executed lines are texts, and equal to those sent.                      *)
LEMMA HeardFacts ==
  ASSUME NEW s \in Seq(Texts), NEW d \in Seq(Seq(AllBytes(s))), Len(d) <= Len(s),
         \A k \in 1 .. Len(d) : d[k] = TextBytes(s, k)
  PROVE  /\ Heard(d) \in Seq(Texts) /\ Len(Heard(d)) = Len(d)
         /\ \A k \in 1 .. Len(d) : Heard(d)[k] = s[k]
<1>1. DOMAIN d = 1 .. Len(d) /\ Len(d) \in Nat /\ Len(s) \in Nat BY LenProperties
<1>2. ASSUME NEW k \in 1 .. Len(d) PROVE Heard(d)[k] = s[k] /\ s[k] \in Texts
  <2>1. k \in 1 .. Len(s) BY <1>1
  <2>2. /\ s[k] \in Texts /\ s[k] \in Seq(Chars) /\ Len(s[k]) \in Nat
        /\ DOMAIN s[k] = 1 .. Len(s[k]) /\ s[k] = [i \in 1 .. Len(s[k]) |-> s[k][i]]
    BY <2>1, TextOf, LenProperties
  <2>3. Heard(d)[k] = [i \in DOMAIN d[k] |-> d[k][i].ch] BY <1>1 DEF Heard
  <2>4. DOMAIN d[k] = 1 .. Len(s[k]) BY DEF TextBytes
  <2>5. ASSUME NEW i \in 1 .. Len(s[k]) PROVE d[k][i].ch = s[k][i]
    <3>1. d[k][i] = ByteAt(s, k, i) BY DEF TextBytes
    <3>2. i <= Len(s[k]) BY <2>2
    <3>. QED BY <3>1, <3>2 DEF ByteAt
  <2>. QED BY <2>2, <2>3, <2>4, <2>5
<1>3. DOMAIN Heard(d) = 1 .. Len(d) /\ Heard(d) = [k \in 1 .. Len(d) |-> Heard(d)[k]]
  BY <1>1 DEF Heard
<1>4. Heard(d) \in [1 .. Len(d) -> Texts] BY <1>2, <1>3
<1>5. Heard(d) \in Seq(Texts)
  <2>1. \E n \in Nat : Heard(d) \in [1 .. n -> Texts] BY <1>1, <1>4
  <2>. QED BY <2>1, SeqDef
<1>6. Len(Heard(d)) = Len(d) BY <1>1, <1>3, <1>5, LenProperties
<1>. QED BY <1>2, <1>5, <1>6

(* Under Calm the invariant and Served describe both variables.            *)
LEMMA ServedFacts ==
  ASSUME ChannelIInv, Served
  PROVE  /\ sent \in Seq(Texts) /\ Len(sent) \in Nat /\ Len(done) \in Nat /\ Len(done) <= Len(sent)
         /\ Executed = Heard(done) /\ Executed \in Seq(Texts) /\ Len(Executed) = Len(done)
         /\ \A k \in 1 .. Len(done) : Executed[k] = sent[k]
<1>1. sent \in Seq(Texts) /\ done \in Seq(Seq(AllBytes(sent)))
  BY DEF ChannelIInv, ChannelHist, Hist, HistTypes
<1>2. Len(sent) \in Nat /\ Len(done) \in Nat BY <1>1, LenProperties
<1>3. Len(done) <= Len(sent) /\ \A k \in 1 .. Len(done) : done[k] = TextBytes(sent, k)
  BY <1>2 DEF Served
<1>4. Executed = Heard(done) BY DEF Executed, Heard
<1>. QED BY <1>1, <1>2, <1>3, <1>4, HeardFacts

(* The lines executed so far, and one more.                                *)
LEMMA ExecutesMaps ==
  ASSUME ChannelIInv, ChannelIInv', Served, Served', Executes
  PROVE  Executed' = Append(Executed, sent[Len(Executed) + 1])
<1>1. /\ sent \in Seq(Texts) /\ Len(sent) \in Nat /\ Len(done) \in Nat
      /\ Executed \in Seq(Texts) /\ Len(Executed) = Len(done)
      /\ \A k \in 1 .. Len(done) : Executed[k] = sent[k]
  BY ServedFacts
<1>2. sent' = sent /\ Len(sent) = Len(done) + 1 /\ Len(done') = Len(done) + 1
  <2>1. done \in Seq(Seq(AllBytes(sent))) BY DEF ChannelIInv, ChannelHist, Hist, HistTypes
  <2>2. done' \in Seq(Seq(AllBytes(sent'))) BY DEF ChannelIInv, ChannelHist, Hist, HistTypes
  <2>3. sent' = sent /\ Len(sent) = Len(done) + 1 /\ done' = Append(done, TextBytes(sent, Len(sent)))
    BY DEF Executes
  <2>4. Len(done') = Len(done) + 1 BY <2>1, <2>3
  <2>. QED BY <2>3, <2>4
<1>3. /\ Executed' \in Seq(Texts) /\ Len(Executed') = Len(done')
      /\ \A k \in 1 .. Len(done') : Executed'[k] = sent'[k]
  <2>1. sent' \in Seq(Texts) /\ done' \in Seq(Seq(AllBytes(sent')))
    BY DEF ChannelIInv, ChannelHist, Hist, HistTypes
  <2>2. \A k \in 1 .. Len(done') : done'[k] = TextBytes(sent', k) BY DEF Served
  <2>3. Len(done') <= Len(sent') BY <1>1, <1>2
  <2>4. Executed' = Heard(done') BY DEF Executed, Heard
  <2>. QED BY <2>1, <2>2, <2>3, <2>4, HeardFacts
<1>4. sent[Len(done) + 1] \in Texts
  <2>1. Len(done) + 1 \in 1 .. Len(sent) BY <1>1, <1>2
  <2>. QED BY <2>1, <1>1, ElementOfSeq
<1>. DEFINE A == Append(Executed, sent[Len(done) + 1])
<1>5. /\ A \in Seq(Texts) /\ Len(A) = Len(done) + 1 /\ A[Len(done) + 1] = sent[Len(done) + 1]
      /\ \A k \in 1 .. Len(done) : A[k] = Executed[k]
  BY <1>1, <1>4, AppendProperties
<1>6. ASSUME NEW k \in 1 .. Len(A) PROVE Executed'[k] = A[k]
  <2>1. k \in 1 .. Len(done) \/ k = Len(done) + 1 BY <1>1, <1>5
  <2>2. Executed'[k] = sent[k] BY <1>2, <1>3, <1>5
  <2>. QED BY <2>1, <2>2, <1>1, <1>5
<1>7. Len(Executed') = Len(A) BY <1>2, <1>3, <1>5
<1>. QED BY <1>1, <1>3, <1>5, <1>6, <1>7, SeqEqual

CalmInv == Calm => Served

(* A host that waits for its answers, without events, presses, 'q' and     *)
(* lines too long, loses nothing and has every line executed in turn.      *)
THEOREM CalmServed == ChannelSpec => []CalmInv
<1>1. ChannelInit => CalmInv
  <2>. SUFFICES ASSUME ChannelInit PROVE Served BY DEF CalmInv
  <2>1. Len(<< >>) = 0 /\ 1 .. 0 = {} /\ Range(<< >>) = {} BY DEF Range
  <2>2. OnWay = {} BY <2>1 DEF ChannelInit, OnWay, Discarded
  <2>. QED BY <2>1, <2>2 DEF ChannelInit, Served
<1>2. ChannelIInv /\ CalmInv /\ [ChannelNext]_channelVars => CalmInv'
  <2>. SUFFICES ASSUME ChannelIInv, CalmInv, [ChannelNext]_channelVars, Calm' PROVE Served'
    BY DEF CalmInv
  <2>1. host' = host
    BY DEF ChannelNext, channelVars, HostSend, Arrive, Overrun, Press, Loop, PollNothing, PollEvent,
           EventPrinted, NoKey, MenuKey, CommandKey, HandlerReturns, NoMenu, OpenMenu, MenuPrompt,
           MenuByte, MenuReturns
  <2>2. Calm BY <2>1 DEF Calm
  <2>. QED BY <2>2, ServedStep DEF CalmInv
<1>. QED BY <1>1, <1>2, ChannelInvariance, PTL DEF ChannelSpec

(* The channel takes only steps of the abstract service.                   *)
LEMMA ServiceStep ==
  ASSUME ChannelIInv, ChannelIInv', CalmInv, CalmInv', [ChannelNext]_channelVars
  PROVE  [Service!Next]_(Service!serviceVars)
<1>1. host' = host
  BY DEF ChannelNext, channelVars, HostSend, Arrive, Overrun, Press, Loop, PollNothing, PollEvent,
         EventPrinted, NoKey, MenuKey, CommandKey, HandlerReturns, NoMenu, OpenMenu, MenuPrompt,
         MenuByte, MenuReturns
<1>2. Calm' = Calm BY <1>1 DEF Calm
<1>3. CASE ~Calm
  <2>1. CalmSent' = CalmSent /\ CalmExecuted' = CalmExecuted BY <1>2, <1>3 DEF CalmSent, CalmExecuted
  <2>. QED BY <2>1 DEF Service!serviceVars
<1>4. CASE Calm
  <2>1. Served /\ Served' BY <1>2, <1>4 DEF CalmInv
  <2>2. /\ CalmSent = sent /\ CalmSent' = sent' /\ CalmExecuted = Executed /\ CalmExecuted' = Executed'
    BY <1>2, <1>4 DEF CalmSent, CalmExecuted
  <2>3. Len(Executed) = Len(done) /\ Len(sent) \in Nat /\ Len(done) \in Nat BY <2>1, ServedFacts
  <2>4. UNCHANGED <<sent, done>> \/ Submits \/ Executes BY <1>4, <2>1, ServedStep
  <2>5. CASE UNCHANGED <<sent, done>>
    <3>1. Executed' = Executed BY <2>5 DEF Executed
    <3>. QED BY <2>2, <2>5, <3>1 DEF Service!serviceVars
  <2>6. CASE Submits
    <3>1. PICK t \in Texts : /\ Len(done) = Len(sent) /\ Len(sent) < MaxLines
                             /\ sent' = Append(sent, t) /\ done' = done
      BY <2>6 DEF Submits
    <3>2. Executed' = Executed BY <3>1 DEF Executed
    <3>3. Service!Submit(t) BY <2>2, <2>3, <3>1, <3>2 DEF Service!Submit
    <3>. QED BY <3>3 DEF Service!Next
  <2>7. CASE Executes
    <3>1. Executed' = Append(Executed, sent[Len(Executed) + 1]) BY <2>1, <2>7, ExecutesMaps
    <3>2. sent' = sent /\ Len(Executed) < Len(sent) BY <2>3, <2>7 DEF Executes
    <3>3. Service!Execute BY <2>2, <3>1, <3>2 DEF Service!Execute
    <3>. QED BY <3>3 DEF Service!Next
  <2>. QED BY <2>4, <2>5, <2>6, <2>7
<1>. QED BY <1>3, <1>4

(* For every host and every number of lines the channel implements the     *)
(* safety part of CommandService: each line a waiting host sends is        *)
(* executed as it was sent, once and in order.                             *)
THEOREM ServiceSafetyCorrect ==
  ChannelSpec => Service!Init /\ [][Service!Next]_(Service!serviceVars)
<1>1. ChannelInit => Service!Init
  <2>. SUFFICES ASSUME ChannelInit PROVE CalmSent = << >> /\ CalmExecuted = << >>
    BY DEF Service!Init
  <2>1. sent = << >> /\ done = << >> BY DEF ChannelInit
  <2>2. Executed = << >>
    <3>1. DOMAIN << >> = {} OBVIOUS
    <3>. QED BY <2>1, <3>1 DEF Executed
  <2>. QED BY <2>1, <2>2 DEF CalmSent, CalmExecuted
<1>2. ChannelIInv /\ ChannelIInv' /\ CalmInv /\ CalmInv' /\ [ChannelNext]_channelVars
        => [Service!Next]_(Service!serviceVars)
  BY ServiceStep
<1>. QED BY <1>1, <1>2, ChannelInvariance, CalmServed, PTL DEF ChannelSpec
==============================================================================
