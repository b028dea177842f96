---------------------------- MODULE CommandChannel ----------------------------
(***************************************************************************)
(* The serial port of the board: the main loop (lwip_main.c) that polls    *)
(* the sockets, reads one byte a pass and opens the menu; the command      *)
(* channel it feeds (cmd_channel_feed, cmd_dispatch); the button.          *)
(*                                                                         *)
(* The receiver holds one byte (rdr, external: HL_sci).  A pass that       *)
(* prints nothing and runs no handler takes far less than the millisecond  *)
(* of a byte at 9600 baud, so the next byte finds rdr free.  It may find   *)
(* rdr full, and overwrite it, while the loop is in a Busy phase: printing *)
(* an event, inside a handler or inside the menu, which is as quick only   *)
(* between emptying the receiver and reading the first byte of a line.     *)
(*                                                                         *)
(* A byte carries the line it belongs to and its place there.  The code    *)
(* sees only ch; the other two let the properties tell bytes apart.        *)
(***************************************************************************)
EXTENDS Naturals, Sequences, FiniteSets, SequencesExt

CONSTANTS
  Hosts,         \* the hosts and operators to explore, see below
  Digits,        \* the characters that choose a menu entry
  Ping,          \* the character that stands for the word "ping "
  CtrlC,
  CMD_LINE_MAX,  \* size of cmd_line, one element of which is for the NUL
  MaxLines,
  NoByte

(* A host sends lines out of texts (without their terminator), waits for   *)
(* each answer if it is patient, and at most so many datagrams are         *)
(* reported, and presses of the button made, meanwhile.                    *)
Texts == UNION {h.texts : h \in Hosts}
Chars == {"CR"} \cup UNION {Range(t) : t \in Texts}

ASSUME ChannelAssumption ==
  /\ CMD_LINE_MAX \in Nat \ {0, 1}
  /\ MaxLines \in Nat
  /\ NoByte \notin [ch : Chars, line : Nat, at : Nat]
  /\ "CR" \notin Digits \cup {Ping, CtrlC} /\ Ping \notin Digits
  /\ \A h \in Hosts : h.patient \in BOOLEAN /\ {h.events, h.presses} \subseteq Nat
  /\ \A t \in Texts : t \in Seq(Chars) /\ t # << >> /\ "CR" \notin Range(t)

VARIABLES
  host,                 \* one of Hosts, for good
  sent,                 \* the lines sent so far
  wire,                 \* bytes on their way to the board
  rdr,                  \* the receiver's byte, or NoByte
  cmd_line,             \* cmd_line[0 .. cmd_line_len - 1]
  terminal_input_flag,
  pc,                   \* where the main loop is
  menu,                 \* how far the operator has come in the menu
  done,                 \* the contents of cmd_line at each cmd_dispatch
  lost,                 \* bytes that were never put in cmd_line
  opened,               \* how often the menu was opened
  events, presses       \* bounds

channelVars == <<host, sent, wire, rdr, cmd_line, terminal_input_flag, pc, menu,
          done, lost, opened, events, presses>>

Line(t, n) ==
  [i \in 1 .. Len(t) + 1 |->
     [ch |-> IF i <= Len(t) THEN t[i] ELSE "CR", line |-> n, at |-> i]]

SentBytes == UNION {Range(Line(sent[n], n)) : n \in DOMAIN sent}

ChannelInit ==
  /\ host \in Hosts
  /\ sent = << >> /\ wire = << >> /\ rdr = NoByte
  /\ cmd_line = << >> /\ terminal_input_flag = 0
  /\ pc = "poll" /\ menu = "closed"
  /\ done = << >> /\ lost = {}
  /\ opened = 0 /\ events = 0 /\ presses = 0

-----------------------------------------------------------------------------
(* The host.                                                               *)

(* Every dispatched line is answered, by an #END or an #ERR line, when its *)
(* handler returns.                                                        *)
Answers == IF pc = "run" THEN Len(done) - 1 ELSE Len(done)

(* SendCommandAsync: the line and its '\r' in one write.                   *)
HostSend(t) ==
  /\ Len(sent) < MaxLines
  /\ ~host.patient \/ Answers = Len(sent)
  /\ sent' = Append(sent, t)
  /\ wire' = wire \o Line(t, Len(sent) + 1)
  /\ UNCHANGED <<host, rdr, cmd_line, terminal_input_flag, pc, menu, done,
                 lost, opened, events, presses>>

-----------------------------------------------------------------------------
(* The receiver.                                                           *)

Busy == pc \in {"print", "run", "menu"} /\ menu # "empty"

Arrive ==
  /\ wire # << >> /\ rdr = NoByte
  /\ rdr' = Head(wire) /\ wire' = Tail(wire)
  /\ UNCHANGED <<host, sent, cmd_line, terminal_input_flag, pc, menu, done, lost,
                 opened, events, presses>>

Overrun ==
  /\ wire # << >> /\ rdr # NoByte /\ Busy
  /\ lost' = lost \cup {rdr}
  /\ rdr' = Head(wire) /\ wire' = Tail(wire)
  /\ UNCHANGED <<host, sent, cmd_line, terminal_input_flag, pc, menu, done,
                 opened, events, presses>>

-----------------------------------------------------------------------------
(* gioNotification, in interrupt context at any moment.  The debounce only *)
(* drops presses, and presses bounds how many are left.                    *)
Press ==
  /\ presses < host.presses
  /\ presses' = presses + 1
  /\ terminal_input_flag' = 1
  /\ UNCHANGED <<host, sent, wire, rdr, cmd_line, pc, menu, done, lost, opened,
                 events>>

-----------------------------------------------------------------------------
(* The main loop.                                                          *)

(* The polling pass: nothing to read, or a datagram printed as #EVT.       *)
PollNothing ==
  /\ pc = "poll" /\ pc' = "key"
  /\ UNCHANGED <<host, sent, wire, rdr, cmd_line, terminal_input_flag, menu, done,
                 lost, opened, events, presses>>

PollEvent ==
  /\ pc = "poll" /\ events < host.events
  /\ pc' = "print" /\ events' = events + 1
  /\ UNCHANGED <<host, sent, wire, rdr, cmd_line, terminal_input_flag, menu, done,
                 lost, opened, presses>>

EventPrinted ==
  /\ pc = "print" /\ pc' = "poll"
  /\ UNCHANGED <<host, sent, wire, rdr, cmd_line, terminal_input_flag, menu, done,
                 lost, opened, events, presses>>

NoKey ==
  /\ pc = "key" /\ rdr = NoByte
  /\ pc' = "flag"
  /\ UNCHANGED <<host, sent, wire, rdr, cmd_line, terminal_input_flag, menu, done,
                 lost, opened, events, presses>>

MenuKey ==
  /\ pc = "key" /\ rdr # NoByte /\ rdr.ch = "q"
  /\ rdr' = NoByte /\ lost' = lost \cup {rdr}
  /\ terminal_input_flag' = 1
  /\ pc' = "flag"
  /\ UNCHANGED <<host, sent, wire, cmd_line, menu, done, opened, events, presses>>

(* cmd_channel_feed: a terminator dispatches what is there, unless nothing *)
(* is; any other byte is appended while there is room.                     *)
RoomMutShort == Len(cmd_line) < CMD_LINE_MAX - 2
Room == Len(cmd_line) < CMD_LINE_MAX - 1

EndOfLine(ch) == ch = "CR"

cmd_channel_feed(b) ==
  \/ /\ EndOfLine(b.ch) /\ cmd_line # << >>
     /\ done' = Append(done, cmd_line)
     /\ pc' = "run"
     /\ UNCHANGED <<cmd_line, lost>>
  \/ /\ EndOfLine(b.ch) /\ cmd_line = << >>
     /\ pc' = "flag"
     /\ UNCHANGED <<cmd_line, done, lost>>
  \/ /\ ~EndOfLine(b.ch) /\ Room
     /\ cmd_line' = Append(cmd_line, b)
     /\ pc' = "flag"
     /\ UNCHANGED <<done, lost>>
  \/ /\ ~EndOfLine(b.ch) /\ ~Room
     /\ lost' = lost \cup {b}
     /\ pc' = "flag"
     /\ UNCHANGED <<cmd_line, done>>

CommandKey ==
  /\ pc = "key" /\ rdr # NoByte /\ rdr.ch # "q"
  /\ cmd_channel_feed(rdr)
  /\ rdr' = NoByte
  /\ UNCHANGED <<host, sent, wire, terminal_input_flag, menu, opened, events,
                 presses>>

(* cmd_dispatch returns, the answer written, and cmd_line_len is reset.    *)
LineAfterMut == cmd_line
LineAfter == << >>

HandlerReturns ==
  /\ pc = "run" /\ pc' = "flag"
  /\ cmd_line' = LineAfter
  /\ UNCHANGED <<host, sent, wire, rdr, terminal_input_flag, menu, done, lost,
                 opened, events, presses>>

NoMenu ==
  /\ pc = "flag" /\ terminal_input_flag = 0
  /\ pc' = "poll"
  /\ UNCHANGED <<host, sent, wire, rdr, cmd_line, terminal_input_flag, menu, done,
                 lost, opened, events, presses>>

-----------------------------------------------------------------------------
(* read_terminal_line.  Bytes waiting are discarded before the text of the *)
(* menu and again by fetch_input after it.                                 *)
Discarded == IF rdr = NoByte THEN {} ELSE {rdr}

OpenMenu ==
  /\ pc = "flag" /\ terminal_input_flag = 1
  /\ pc' = "menu" /\ menu' = "text"
  /\ rdr' = NoByte /\ lost' = lost \cup Discarded
  /\ opened' = opened + 1
  /\ UNCHANGED <<host, sent, wire, cmd_line, terminal_input_flag, done, events,
                 presses>>

MenuPrompt ==
  /\ menu = "text" /\ menu' = "empty"
  /\ rdr' = NoByte /\ lost' = lost \cup Discarded
  /\ UNCHANGED <<host, sent, wire, cmd_line, terminal_input_flag, pc, done,
                 opened, events, presses>>

(* A byte the menu reads.  An empty line and one that starts with neither  *)
(* a digit nor "ping " end the menu; a digit may lead to further prompts.  *)
(* A ping to a good address asks for the interface to use and then runs to *)
(* its end or, with -t, until a pause reads Ctrl+C.  Before each of these  *)
(* prompts waiting bytes are thrown away.  Editing keys, which could take  *)
(* the first character back, are in LineEdit and in no text here.          *)
FirstByte(ch) ==
  CASE ch = "CR" -> "leaving"
    [] ch \in Digits -> "digit"
    [] ch = Ping -> "ping"
    [] OTHER -> "letter"

AtEnd(ch, next) == IF ch = "CR" THEN next ELSE {menu}

AfterByteMut(ch) ==
  CASE menu = "empty" -> {FirstByte(ch)}
    [] menu \in {"letter", "digit"} -> AtEnd(ch, {"inner", "leaving"})
    [] menu = "ping" -> AtEnd(ch, {"from", "leaving"})
    [] menu = "inner" -> {"inner", "leaving"}
    [] menu = "from" -> {"from", "pinging", "leaving"}
    [] menu = "pinging" -> {IF ch = CtrlC THEN "leaving" ELSE "pinging"}
AfterByte(ch) ==
  CASE menu = "empty" -> {FirstByte(ch)}
    [] menu = "letter" -> AtEnd(ch, {"leaving"})
    [] menu = "digit" -> AtEnd(ch, {"inner", "leaving"})
    [] menu = "ping" -> AtEnd(ch, {"from", "leaving"})
    [] menu = "inner" -> {"inner", "leaving"}
    [] menu = "from" -> {"from", "pinging", "leaving"}
    [] menu = "pinging" -> {IF ch = CtrlC THEN "leaving" ELSE "pinging"}

Reading == {"empty", "letter", "digit", "ping", "inner", "from", "pinging"}

MenuByte ==
  /\ menu \in Reading /\ rdr # NoByte
  /\ menu' \in AfterByte(rdr.ch)
  /\ rdr' = NoByte /\ lost' = lost \cup {rdr}
  /\ UNCHANGED <<host, sent, wire, cmd_line, terminal_input_flag, pc, done,
                 opened, events, presses>>

(* The return, and the store that also forgets a press during the menu.    *)
FlagAfterMenu == 0

MenuReturns ==
  /\ menu = "leaving" /\ menu' = "closed"
  /\ terminal_input_flag' = FlagAfterMenu
  /\ pc' = "poll"
  /\ UNCHANGED <<host, sent, wire, rdr, cmd_line, done, lost, opened, events,
                 presses>>

-----------------------------------------------------------------------------
Loop ==
  \/ PollNothing \/ PollEvent \/ EventPrinted
  \/ NoKey \/ MenuKey \/ CommandKey \/ HandlerReturns
  \/ NoMenu \/ OpenMenu \/ MenuPrompt \/ MenuByte \/ MenuReturns

ChannelNext == (\E t \in host.texts : HostSend(t)) \/ Arrive \/ Overrun \/ Press \/ Loop

(* The loop runs whenever it does not wait for a byte, and the line        *)
(* carries what was written to it.                                         *)
ChannelFairness == WF_channelVars(Loop) /\ WF_channelVars(Arrive \/ Overrun)

ChannelSpec == ChannelInit /\ [][ChannelNext]_channelVars /\ ChannelFairness

-----------------------------------------------------------------------------
(* Properties.                                                             *)

ChannelTypes ==
  /\ sent \in Seq(Texts) /\ Len(sent) <= MaxLines
  /\ Range(wire) \subseteq SentBytes
  /\ rdr \in SentBytes \cup {NoByte}
  /\ Range(cmd_line) \subseteq SentBytes /\ Len(cmd_line) < CMD_LINE_MAX
  /\ terminal_input_flag \in {0, 1}
  /\ pc \in {"poll", "print", "key", "run", "flag", "menu"}
  /\ menu \in {"closed", "text", "leaving"} \cup Reading
  /\ (pc = "menu") <=> (menu # "closed")
  /\ lost \subseteq SentBytes /\ opened \in Nat
  /\ host \in Hosts
  /\ events \in 0 .. host.events /\ presses \in 0 .. host.presses

(* The text of a line, tagged.                                             *)
Body(n) == [i \in 1 .. Len(sent[n]) |-> Line(sent[n], n)[i]]

Terminator(n) == [ch |-> "CR", line |-> n, at |-> Len(sent[n]) + 1]

(* The channel has read a line to its end, or lost the end.                *)
Passed(n) == Terminator(n) # rdr /\ Terminator(n) \notin Range(wire)

Terminated(n) == n = 0 \/ Terminator(n) \notin lost

(* cmd_channel_feed recovers by itself: whatever happened to the lines     *)
(* before, a line that lost no byte and that follows a terminator that was *)
(* read is dispatched once, as it was sent.                                *)
WholeLineRuns ==
  \A n \in DOMAIN sent :
    /\ Passed(n)
    /\ \A b \in Range(Line(sent[n], n)) : b \notin lost
    /\ Terminated(n - 1)
    => Cardinality({k \in DOMAIN done : done[k] = Body(n)}) = 1

(* What cmd_dispatch is given: one line's bytes, or those of several lines *)
(* of which only the last was terminated.  No byte is dispatched twice,    *)
(* none overtakes another, and none is dispatched that the channel lost.   *)
Before(b, c) == b.line < c.line \/ (b.line = c.line /\ b.at < c.at)

DispatchedInOrder ==
  /\ \A k, l \in DOMAIN done : \A i \in DOMAIN done[k], j \in DOMAIN done[l] :
       k < l \/ (k = l /\ i < j) => Before(done[k][i], done[l][j])
  /\ \A k \in DOMAIN done : \A i \in DOMAIN done[k] :
       LET b == done[k][i] IN
       /\ b \notin lost
       /\ b.line # Last(done[k]).line => ~Terminated(b.line)

(* The menu opens no more often than it was asked for, with a 'q' or a     *)
(* press: the flag the interrupt sets is consumed once, and a press while  *)
(* the menu is open does not open it a second time.                        *)
MenuOnRequest ==
  opened <= presses + Cardinality({b \in lost : b.ch = "q"})

(* What the channel keeps whatever the host sends and the receiver loses:  *)
(* its buffer is never overrun (cmd_channel_feed), whole lines run, the    *)
(* order is kept, and the menu opens on request.                           *)
ChannelSound ==
  ChannelTypes /\ WholeLineRuns /\ DispatchedInOrder /\ MenuOnRequest

(* What the board has still to read.                                       *)
Unread == (IF rdr = NoByte THEN << >> ELSE <<rdr>>) \o wire

(* A menu opened by chance does not hold the main loop for good: if the    *)
(* first byte after its prompt is neither a digit nor begins a ping, the   *)
(* rest of what has been sent makes it return, whatever else is in it,     *)
(* digits, 'q' and pings included, and whichever bytes are overwritten.    *)
(* Every command of the protocol begins like this, but the prompt may meet *)
(* it further on: see CommandsLeaveMenu.                                   *)
CommandAhead ==
  /\ Unread # << >>
  /\ \/ menu = "letter"
     \/ menu = "empty" /\ Head(Unread).ch \notin Digits \cup {Ping}

MenuIsLeft == CommandAhead ~> pc = "poll"

(* The same of every host whose lines begin like commands does not hold:   *)
(* the menu throws away what arrives before its prompt, and what is left   *)
(* of a command may begin with a digit.                                    *)
OnlyCommands == \A t \in host.texts : Head(t) \notin Digits \cup {Ping}

CommandsLeaveMenu ==
  OnlyCommands /\ menu = "empty" /\ Unread # << >> ~> pc = "poll"

(* What a host that waits for its answers sees, without events, presses,   *)
(* 'q' and lines too long: the abstract service.                           *)
Calm ==
  /\ host.patient /\ host.events = 0 /\ host.presses = 0
  /\ \A t \in host.texts : "q" \notin Range(t) /\ Len(t) < CMD_LINE_MAX

Executed ==
  [k \in DOMAIN done |-> [i \in DOMAIN done[k] |-> done[k][i].ch]]

CalmSent == IF Calm THEN sent ELSE << >>
CalmExecuted == IF Calm THEN Executed ELSE << >>

Service == INSTANCE CommandService WITH sent <- CalmSent, executed <- CalmExecuted

ImplementsService == Service!Spec

(* README.md: the channel "never blocks the main loop".  If so, the loop   *)
(* would be back at the receiver before the next byte is complete.         *)
NeverBlocksLoop == [][Overrun => pc # "run"]_channelVars

(* README.md: "a line terminated by CR is dispatched as a command".        *)
OneCommandPerLine ==
  \A k \in DOMAIN done : \A i, j \in DOMAIN done[k] :
    done[k][i].line = done[k][j].line

(* README.md: CMD_LINE_MAX is the "longest accepted protocol command       *)
(* line".                                                                  *)
LongestLineAccepted ==
  \A k \in DOMAIN done :
    LET n == Last(done[k]).line IN
    Len(sent[n]) <= CMD_LINE_MAX => Len(done[k]) = Len(sent[n])
===============================================================================
