-------------------------------- MODULE Panel --------------------------------
(***************************************************************************)
(* The desktop panel (TmsControlPanel) talking to the board: Form1's jobs  *)
(* on the UI thread, SerialManager's lock, pending command and line        *)
(* collector, the receiving thread that fills it, and the board that       *)
(* answers from its interface list.                                        *)
(*                                                                         *)
(* A job is one asynchronous handler of Form1: it runs its commands one by *)
(* one through SendCommandAsync and most of them refresh the list at the   *)
(* end.  Between two awaits the UI thread is not interrupted, so the steps *)
(* between them are one action; the receiving thread and the time-outs may *)
(* come between any two actions.                                           *)
(*                                                                         *)
(* Every line carries own: it belongs to the command that is pending.  The *)
(* code has no such field, which is what ResponseIsOwn is about.           *)
(***************************************************************************)
EXTENDS Naturals, Sequences, FiniteSets, SequencesExt

CONSTANTS
  Sessions,      \* the sessions to explore, see below
  MaxId,         \* interfaces the board can make; 1 is the physical one
  NONE

AllKinds == {"add", "del", "edit", "ping", "pingt", "send"}
Pings == {"PING", "PINGT"}
POLL == "poll"   \* the refresh that the timer, or connecting, starts

(* A session says which handlers of the user may be under way at once      *)
(* (jobs), which there are (kinds), how many are started (clicks), and how *)
(* often an answer is late, a line to the board lost, text typed past the  *)
(* lock, and the port closed.                                              *)
Jobs == UNION {s.jobs : s \in Sessions}
Tasks == Jobs \cup {POLL}

ASSUME PanelAssumption ==
  /\ POLL \notin Jobs /\ NONE \notin Tasks
  /\ MaxId \in Nat \ {0}
  /\ \A s \in Sessions :
       /\ {s.clicks, s.late, s.lost, s.raws, s.cuts} \subseteq Nat
       /\ s.kinds \subseteq AllKinds

VARIABLES
  session,       \* one of Sessions, for good
  open,          \* _port is open
  job,           \* for each task its state and the commands it has left
  holder,        \* who has _cmdLock
  tcs,           \* _pendingTcs and what it was completed with
  collecting,    \* _collectName # null
  collectLines,  \* _collectLines
  refreshBusy,
  shown,         \* the cards: position and interface, as last displayed
  signature,     \* _lastSignature, as the cards it was made from
  pingCts,       \* the handler whose token source is _pingCts
  cancelled,     \* the handlers whose token has been cancelled
  inputOn,       \* txtInput.Enabled
  toBoard, toPanel,
  netifs,        \* the board's netif_list
  nextId,
  past,          \* every listing the board could have given so far
  hits,          \* interface meant and interface changed, per command
  started, late, lostLines, raws, cuts       \* bounds

view == <<shown, signature>>
ping == <<pingCts, cancelled, inputOn>>
panel == <<open, job, holder, tcs, refreshBusy, view, ping>>
reader == <<collecting, collectLines>>
board == <<netifs, nextId, past, hits>>
bounds == <<session, started, late, lostLines, raws, cuts>>
vars == <<panel, reader, toBoard, toPanel, board, bounds>>

LIST == [op |-> "LIST"]
Listing(ns) == [i \in DOMAIN ns |-> [idx |-> i, id |-> ns[i]]]

Idle == [st |-> "idle", cmds |-> << >>]
NoTcs == [st |-> "none", ok |-> FALSE, lines |-> << >>, own |-> TRUE,
          op |-> "NONE"]
Pending == [NoTcs EXCEPT !.st = "pending"]
Failed == [NoTcs EXCEPT !.st = "failed"]

Init ==
  /\ session \in Sessions
  /\ open = FALSE
  /\ job = [j \in Tasks |-> Idle]
  /\ holder = NONE /\ tcs = NoTcs
  /\ collecting = FALSE /\ collectLines = << >>
  /\ refreshBusy = FALSE /\ shown = << >> /\ signature = << >>
  /\ pingCts = NONE /\ cancelled = {} /\ inputOn = FALSE
  /\ toBoard = << >> /\ toPanel = << >>
  /\ netifs = <<1>> /\ nextId = 2
  /\ past = {Listing(<<1>>)} /\ hits = {}
  /\ started = 0 /\ late = 0 /\ lostLines = 0 /\ raws = 0 /\ cuts = 0

-----------------------------------------------------------------------------
(* Form1: what the user and the timer start.                               *)

Queued(cmds) == [st |-> "queue", cmds |-> cmds]

(* The commands of a handler.  Delete and edit take the index of the card, *)
(* target is the interface that card shows.  "send" is any of UDP SEND,    *)
(* SCAN and ARPRESET; two stand for the attempts of a ping, and for the    *)
(* fields of an edit.  PINGT is a PING of "ping -t", which is sent again   *)
(* and again.                                                              *)
PingPrograms ==
  {<<[op |-> "PING"], [op |-> "PING"]>> : k \in session.kinds \cap {"ping"}}
  \cup {<<[op |-> "PINGT"]>> : k \in session.kinds \cap {"pingt"}}

Programs ==
  {<<[op |-> "ADD"]>> : k \in session.kinds \cap {"add"}}
  \cup {<<[op |-> "SEND"]>> : k \in session.kinds \cap {"send"}}
  \cup (IF shown = << >> THEN {} ELSE PingPrograms)
  \cup {<<[op |-> "DEL", idx |-> c.idx, target |-> c.id]>> :
          c \in IF "del" \in session.kinds THEN Range(shown) ELSE {}}
  \cup {<<[op |-> "SET", idx |-> c.idx, target |-> c.id],
          [op |-> "SET", idx |-> c.idx, target |-> c.id]>> :
          c \in IF "edit" \in session.kinds THEN Range(shown) ELSE {}}

(* A click, or a line typed in the terminal.  A ping makes itself the one  *)
(* that can be stopped, and turns the terminal input off.                  *)
StartPing(j) == pingCts' = j /\ cancelled' = cancelled \ {j} /\ inputOn' = FALSE

StartJob(j, prog) ==
  /\ open /\ job[j] = Idle /\ started < session.clicks
  /\ IF prog[1].op \in Pings THEN inputOn /\ StartPing(j) ELSE UNCHANGED ping
  /\ job' = [job EXCEPT ![j] = Queued(prog)]
  /\ started' = started + 1
  /\ UNCHANGED <<session, open, holder, tcs, refreshBusy, view, reader, toBoard,
                 toPanel, board, late, lostLines, raws, cuts>>

(* btnStop.                                                                *)
Cancelled == IF pingCts = NONE THEN cancelled ELSE cancelled \cup {pingCts}

StopPing ==
  /\ pingCts # NONE /\ cancelled' = Cancelled
  /\ UNCHANGED <<open, job, holder, tcs, refreshBusy, view, pingCts, inputOn,
                 reader, toBoard, toPanel, board, bounds>>

(* RefreshNetifsAsync up to its first await, for any task.                 *)
RefreshGuard(o, busy) == o /\ ~busy

(* PollTickAsync.  The two seconds between ticks are enough for the board  *)
(* to answer all that is under way, but for session.late times.            *)
Quiet == toBoard = << >> /\ toPanel = << >>

PollTick ==
  /\ open /\ pingCts = NONE /\ RefreshGuard(open, refreshBusy)
  /\ Quiet \/ late < session.late
  /\ late' = IF Quiet THEN late ELSE late + 1
  /\ refreshBusy' = TRUE
  /\ job' = [job EXCEPT ![POLL] = Queued(<<LIST>>)]
  /\ UNCHANGED <<session, open, holder, tcs, view, ping, reader, toBoard, toPanel,
                 board, started, lostLines, raws, cuts>>

(* BtnConnect_Click: connecting, with a first, forced, refresh, ...        *)
Connect ==
  /\ ~open
  /\ open' = TRUE
  /\ refreshBusy' = TRUE
  /\ job' = IF refreshBusy THEN job
            ELSE [job EXCEPT ![POLL] = Queued(<<LIST>>)]
  /\ signature' = << >>
  /\ inputOn' = TRUE
  /\ UNCHANGED <<holder, tcs, shown, pingCts, cancelled, reader, toBoard, toPanel,
                 board, bounds>>

(* ... and disconnecting: the ping and the pending command are cancelled,  *)
(* the cards go.                                                           *)
Disconnect ==
  /\ open /\ cuts < session.cuts
  /\ cuts' = cuts + 1
  /\ open' = FALSE
  /\ tcs' = IF tcs.st = "pending" THEN Failed ELSE tcs
  /\ collecting' = FALSE
  /\ shown' = << >> /\ signature' = << >>
  /\ cancelled' = Cancelled /\ inputOn' = FALSE
  /\ toPanel' = << >>
  /\ UNCHANGED <<session, job, holder, refreshBusy, pingCts, collectLines, toBoard,
                 board, started, late, lostLines, raws>>

(* RunTerminalInput, text that is no ping: written without the lock.       *)
SendText ==
  /\ inputOn /\ raws < session.raws
  /\ raws' = raws + 1
  /\ toBoard' = Append(toBoard, [own |-> FALSE, cmd |-> [op |-> "RAW"]])
  /\ UNCHANGED <<session, panel, reader, toPanel, board, started, late, lostLines,
                 cuts>>

-----------------------------------------------------------------------------
(* SerialManager.SendCommandAsync.                                         *)

(* From the lock to the await of tcs.Task.  SendTextInternal writes        *)
(* nothing when the port has been closed meanwhile.                        *)
LockFreeMut == TRUE
LockFree == holder = NONE

Send(j) ==
  /\ job[j].st = "queue" /\ LockFree
  /\ holder' = j
  /\ tcs' = Pending
  /\ collecting' = FALSE
  /\ job' = [job EXCEPT ![j].st = "sent"]
  /\ toBoard' = IF open
                THEN Append(toBoard, [own |-> TRUE, cmd |-> Head(job[j].cmds)])
                ELSE toBoard
  /\ UNCHANGED <<open, refreshBusy, view, ping, collectLines, toPanel, board,
                 bounds>>

(* The time-out: nothing of the command is left to come, or it is late.    *)
OwnUnderway ==
  \E l \in Range(toBoard) \cup Range(toPanel) : l.own

TimeoutLost ==
  /\ tcs.st = "pending" /\ ~OwnUnderway
  /\ tcs' = Failed
  /\ UNCHANGED <<open, job, holder, refreshBusy, view, ping, reader, toBoard,
                 toPanel, board, bounds>>

TimeoutLate ==
  /\ tcs.st = "pending" /\ OwnUnderway /\ late < session.late
  /\ late' = late + 1
  /\ tcs' = Failed
  /\ UNCHANGED <<session, open, job, holder, refreshBusy, view, ping, reader,
                 toBoard, toPanel, board, started, lostLines, raws, cuts>>

Disown(s) == [i \in DOMAIN s |-> [s[i] EXCEPT !.own = FALSE]]

(* The cards after a refresh: the new list, if there is one and it is not  *)
(* what the cards were made from.                                          *)
RebuildMut == tcs.ok /\ signature = << >>
Rebuild == tcs.ok /\ tcs.lines # signature

(* The await of a command is over: finally, and for a refresh the rest of  *)
(* RefreshNetifsAsync.                                                     *)
Resume(j) ==
  /\ holder = j /\ tcs.st \in {"done", "failed"}
  /\ holder' = NONE
  /\ tcs' = NoTcs
  /\ toBoard' = Disown(toBoard) /\ toPanel' = Disown(toPanel)
  /\ IF Head(job[j].cmds) = LIST
     THEN /\ refreshBusy' = FALSE
          /\ job' = [job EXCEPT ![j] = Idle]
          /\ shown' = IF Rebuild THEN tcs.lines ELSE shown
          /\ signature' = IF Rebuild THEN tcs.lines ELSE signature
     ELSE /\ job' = [job EXCEPT ![j].st = IF tcs.ok THEN "ok" ELSE "broken"]
          /\ UNCHANGED <<refreshBusy, view>>
  /\ UNCHANGED <<open, ping, reader, board, bounds>>

(* RunCommandAsync, Card_EditRequested, RunPingAsync and the others after  *)
(* a command: the next one if this went well and the ping has not been     *)
(* stopped, the same again for ping -t.                                    *)
Stopped(j) == Head(job[j].cmds).op \in Pings /\ j \in cancelled

NextCmdsMut(j) ==
  IF job[j].st # "ok" THEN << >>
  ELSE IF Head(job[j].cmds).op = "PINGT" THEN job[j].cmds ELSE Tail(job[j].cmds)
NextCmds(j) ==
  IF job[j].st # "ok" \/ Stopped(j) THEN << >>
  ELSE IF Head(job[j].cmds).op = "PINGT" THEN job[j].cmds ELSE Tail(job[j].cmds)

(* In the end a ping gives the terminal input back.  Where the command may *)
(* have changed the list, ForceRefreshAsync follows: it forgets the        *)
(* signature, and does no more while another refresh is under way.         *)
Continue(j) ==
  LET op == Head(job[j].cmds).op
      more == NextCmds(j) # << >> /\ open
      force == ~more /\ op \notin Pings \cup {"SEND"}
      refresh == force /\ RefreshGuard(open, refreshBusy) IN
  /\ job[j].st \in {"ok", "broken"}
  /\ job' = [job EXCEPT ![j] = IF more THEN Queued(NextCmds(j))
                               ELSE IF refresh THEN Queued(<<LIST>>)
                               ELSE Idle]
  /\ refreshBusy' = (refreshBusy \/ refresh)
  /\ signature' = IF force THEN << >> ELSE signature
  /\ IF ~more /\ op \in Pings THEN pingCts' = NONE /\ inputOn' = open
                               ELSE UNCHANGED <<pingCts, inputOn>>
  /\ UNCHANGED <<open, holder, tcs, shown, cancelled, reader, toBoard, toPanel,
                 board, bounds>>

-----------------------------------------------------------------------------
(* SerialManager.ProcessLine, in the receiving thread.                     *)

Complete(l, lines) ==
  tcs' = IF tcs.st # "pending" THEN tcs
         ELSE [st |-> "done", ok |-> l.ok, lines |-> lines, own |-> l.own,
               op |-> l.op]

LinesAtBeginMut == collectLines
LinesAtBegin == << >>

ProcessLine ==
  /\ open /\ toPanel # << >>
  /\ toPanel' = Tail(toPanel)
  /\ LET l == Head(toPanel) IN
     \/ /\ l.kind = "BEGIN"
        /\ collecting' = TRUE /\ collectLines' = LinesAtBegin
        /\ UNCHANGED tcs
     \/ /\ l.kind = "NETIF"
        /\ collectLines' = IF collecting
                           THEN Append(collectLines, l.card)
                           ELSE collectLines
        /\ UNCHANGED <<collecting, tcs>>
     \/ /\ l.kind = "END"
        /\ Complete(l, collectLines)
        /\ collecting' = FALSE
        /\ UNCHANGED collectLines
     \/ /\ l.kind = "ERR"
        /\ Complete(l, << >>)
        /\ UNCHANGED reader
  /\ UNCHANGED <<open, job, holder, refreshBusy, view, ping, toBoard, board,
                 bounds>>

-----------------------------------------------------------------------------
(* The board: a command runs to its end before the next line is read.      *)

Frame(l, cards, ok) ==
  <<[kind |-> "BEGIN", own |-> l.own]>>
    \o [i \in DOMAIN cards |->
          [kind |-> "NETIF", own |-> l.own, card |-> cards[i]]]
    \o <<[kind |-> "END", op |-> l.cmd.op, ok |-> ok, own |-> l.own]>>

(* What it writes while the port is closed is gone.                        *)
Answer(lines) == toPanel' = IF open THEN toPanel \o lines ELSE toPanel
Reply(cards, ok) == Answer(Frame(Head(toBoard), cards, ok))

(* cmd_netif_by_index.                                                     *)
Exists(c) == c.idx \in DOMAIN netifs
Changed(c) == hits' = hits \cup {<<c.target, netifs[c.idx]>>}

cmd_netif_list(c) ==
  /\ c.op = "LIST"
  /\ Reply(Listing(netifs), TRUE)
  /\ UNCHANGED board

(* netif_add puts the interface at the head of the list.                   *)
cmd_netif_add(c) ==
  /\ c.op = "ADD"
  /\ Reply(<< >>, nextId <= MaxId)
  /\ IF nextId <= MaxId
     THEN /\ netifs' = <<nextId>> \o netifs /\ nextId' = nextId + 1
          /\ past' = past \cup {Listing(netifs')}
     ELSE UNCHANGED <<netifs, nextId, past>>
  /\ UNCHANGED hits

(* net_if_remove refuses the physical interface.                           *)
cmd_netif_del(c) ==
  LET ok == Exists(c) /\ netifs[c.idx] # 1 IN
  /\ c.op = "DEL"
  /\ Reply(<< >>, ok)
  /\ IF ok
     THEN /\ netifs' = RemoveAt(netifs, c.idx)
          /\ past' = past \cup {Listing(netifs')}
          /\ Changed(c)
     ELSE UNCHANGED <<netifs, past, hits>>
  /\ UNCHANGED nextId

cmd_netif_set(c) ==
  /\ c.op = "SET"
  /\ Reply(<< >>, Exists(c))
  /\ IF Exists(c) THEN Changed(c) ELSE UNCHANGED hits
  /\ UNCHANGED <<netifs, nextId, past>>

(* cmd_ping, cmd_scan, cmd_arp_reset, cmd_udp_send: they may fail.         *)
cmd_other(c) ==
  /\ c.op \in Pings \cup {"SEND"}
  /\ \E ok \in BOOLEAN : Reply(<< >>, ok)
  /\ UNCHANGED board

(* cmd_dispatch, for what is not a command.                                *)
UnknownCommand(c) ==
  /\ c.op = "RAW"
  /\ Answer(<<[kind |-> "ERR", op |-> "RAW", ok |-> FALSE, own |-> FALSE]>>)
  /\ UNCHANGED board

cmd_dispatch ==
  /\ toBoard # << >>
  /\ toBoard' = Tail(toBoard)
  /\ LET c == Head(toBoard).cmd IN
       \/ cmd_netif_list(c) \/ cmd_netif_add(c) \/ cmd_netif_del(c)
       \/ cmd_netif_set(c) \/ cmd_other(c) \/ UnknownCommand(c)
  /\ UNCHANGED <<panel, reader, bounds>>

(* A line the menu takes, or that lost its terminator (CommandChannel).    *)
LineLost ==
  /\ toBoard # << >> /\ lostLines < session.lost
  /\ lostLines' = lostLines + 1
  /\ toBoard' = Tail(toBoard)
  /\ UNCHANGED <<session, panel, reader, toPanel, board, started, late, raws, cuts>>

-----------------------------------------------------------------------------
Click == \E j \in session.jobs : \E p \in Programs : StartJob(j, p)
Step(j) == Send(j) \/ Resume(j) \/ Continue(j)

Next ==
  \/ Click \/ StopPing \/ PollTick \/ Connect \/ Disconnect \/ SendText
  \/ \E j \in Tasks : Step(j)
  \/ TimeoutLost \/ TimeoutLate
  \/ ProcessLine \/ cmd_dispatch \/ LineLost

(* The timer keeps ticking, time-outs expire, the lock goes to each waiter *)
(* in its turn, the board and the receiving thread run.                    *)
Fairness ==
  /\ WF_vars(PollTick) /\ WF_vars(TimeoutLost)
  /\ \A j \in Tasks : SF_vars(Send(j)) /\ WF_vars(Resume(j) \/ Continue(j))
  /\ WF_vars(ProcessLine) /\ WF_vars(cmd_dispatch)

Spec == Init /\ [][Next]_vars /\ Fairness

-----------------------------------------------------------------------------
(* Properties.                                                             *)

TypeOK ==
  /\ session \in Sessions
  /\ {open, collecting, refreshBusy, inputOn} \subseteq BOOLEAN
  /\ pingCts \in Jobs \cup {NONE} /\ cancelled \subseteq Jobs
  /\ \A j \in Tasks : job[j].st \in {"idle", "queue", "sent", "ok", "broken"}
  /\ holder \in Tasks \cup {NONE}
  /\ tcs.st \in {"none", "pending", "done", "failed"}
  /\ holder = NONE <=> tcs.st = "none"
  /\ \A j \in Tasks : job[j].st = "sent" <=> holder = j
  /\ nextId \in 2 .. MaxId + 1 /\ Range(netifs) \subseteq 1 .. MaxId
  /\ refreshBusy <=> \E j \in Tasks : job[j].cmds = <<LIST>>
  /\ Cardinality({j \in Tasks : job[j].cmds = <<LIST>>}) <= 1

(* SendCommandAsync returns the answer to its own command, complete, as    *)
(* long as no command timed out with its answer still to come, none was    *)
(* cancelled, and no text was sent past the lock: lines that get lost on   *)
(* the way to the board do not mix up the answers.                         *)
ResponseIsOwn ==
  (late = 0 /\ cuts = 0 /\ raws = 0 /\ tcs.st = "done") =>
    /\ tcs.own /\ tcs.op = Head(job[holder].cmds).op
    /\ tcs.op = "LIST" => tcs.lines \in past

(* Whatever was lost, late, cancelled or typed in between, the cards show  *)
(* the beginning of a list that the board had: never two lists mixed.      *)
ShownIsPrefix ==
  \E p \in past : IsPrefix(shown, p)

(* The signature is that of the cards or none: a refresh that leaves the   *)
(* cards alone does so because they show what it brought, or because what  *)
(* it brought was empty.                                                   *)
SignatureTrue == signature \in {<< >>, shown}

(* With it: _cmdLock has a holder exactly while a command is pending, and  *)
(* one refresh at most is under way.                                       *)
CardsSound == TypeOK /\ ShownIsPrefix /\ SignatureTrue

(* A ping -t that nobody has stopped.                                      *)
Endless(j) ==
  job[j].st # "idle" /\ Head(job[j].cmds).op = "PINGT" /\ j \notin cancelled

(* Every handler ends and gives the lock back, whatever happens to its     *)
(* commands, next to a ping -t that goes on for ever too; and ping -t ends *)
(* when it is stopped.                                                     *)
JobsEnd ==
  \A j \in Jobs : (job[j].st # "idle" /\ ~Endless(j)) ~> job[j].st = "idle"

(* README.md: "The list refreshes itself (~2s) so adding or removing an    *)
(* interface shows up without any manual refresh": once the panel stays    *)
(* connected, and no ping -t goes on for ever, the cards agree with the    *)
(* board in the end.  While a ping runs the timer does not refresh.        *)
Watching == open /\ \A j \in Jobs : ~Endless(j)

ListConverges == <>[]Watching => <>[](shown = Listing(netifs))

(* The same without reservation does not hold: after a change whose forced *)
(* refresh is lost the cards stay as they were while ping -t runs.         *)
ListConvergesAlways == <>[]open => <>[](shown = Listing(netifs))

(* SerialManager.cs: the lock is there so that "a new command does not go  *)
(* out before the previous one has ended"; then an answer belongs to the   *)
(* command that waits for it.                                              *)
OwnAnswerAlways == tcs.st = "done" => tcs.own

(* Form1.cs: several commands in a row for one card are no problem because *)
(* "the netif indices stay the same".                                      *)
IndexStays == \A h \in hits : h[1] = h[2]
===============================================================================
