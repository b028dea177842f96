# TLA+ model of the multi-address UDP board

The program runs on a TMS570LC43x. One Ethernet port carries several IP
addresses: a physical interface and up to seven *alias* interfaces that share
its driver. UDP sockets are opened on an interface through a serial command
channel, an interactive serial menu, or a Windows control panel that speaks the
command channel. Two contexts share all state on the board: the **main loop**
(`EMAC_LwIP_Main`), and the **EMAC receive interrupt**, which runs lwIP's
`udp_input` and the receive callback of the registry to completion. There is no
operating system; `SYS_ARCH_PROTECT` switches interrupts off.

## Inventory

| Part | State | Operations | What makes it correct |
|---|---|---|---|
| Socket registry `src/UDP_source.c` | `s_listeners[16]`: in_use, pcb, netif, u8 generation, counters, one-entry mailbox | add_listener, remove_listener, remove_all_on_netif, netif_ip_changed, data_send, poll_rx, the receive callback, three queries | every pcb has one owner; stale ids are refused; no datagram reaches the wrong socket or survives its socket; an open socket can send; every datagram is read, counted or freed |
| Interface manager `src/net_manager.c` | none of its own | net_if_add, net_if_remove | sockets go before their interface; the result tells what happened |
| Alias pool `ports/hdk/lwiplib.c` | `alias_list[7]`, `netif_list` | lwIPAliasAdd, lwIPAliasRemove, lwIPNetifAdd | a pool entry is used exactly while its netif is listed |
| lwIP UDP `core/udp.c` | memp pool of pcbs, list `udp_pcbs` | udp_new, udp_bind, udp_recv, udp_remove, udp_input, udp_sendto | no two linked pcbs compete for a unicast datagram |
| Main loop `lwip_main.c` | the command line being collected, the menu flag | polls all sockets, reads one serial byte, opens the menu | every stored datagram is read; the loop never blocks |
| Command channel, menu `terminal_interface.c` | line buffer, the indices shown last | 11 commands, 7 menu entries, ping, scan | each line is executed once, with one framed answer |
| Ping `ping.c` | one raw pcb, sequence number, a reply flag set in the interrupt | ping_send, ping_recv, ping_wait_reply, scan_network | a reply is attributed to its own request |
| EMAC driver `hdkif.c` | transmit and receive descriptor rings shared with the EMAC | transmit, the two interrupt handlers | a descriptor and its pbuf are reused only when the EMAC is done |
| ARP filter `netif_alias_filter.c` | none | chooses the interface for a frame | a frame for an address of the board reaches the interface that has it, and no other |
| ARP table `netif/etharp.c` | entries, each with its queue of one packet, shared with the interrupt | output, update, answer, cleanup; the scan reads it | one entry per host; a packet waits, goes to the right host, or is freed |
| lwIP heap `core/mem.c` | blocks, `lfree` | mem_malloc, mem_free | blocks in use do not overlap; free neighbours are merged; the list stays whole |
| Control panel `TmsControlPanel/*.cs` | one pending command, response lines, cards per interface | connect, send, receive, refresh, edit, delete | an answer completes the command it belongs to |
| Locator `locator.c` | one pcb on 0.0.0.0:23 | LocatorReceive | keeps port 23 for itself |
| Button interrupt | a flag | sets it; the loop clears it | a press opens the menu once |

Hard behaviours: the receive interrupt between any two unprotected stores of
the main loop, in the registry, the pcb list, the ARP table and the heap; the
EMAC's DMA beside the driver; reuse of slots, pcbs and generations over long
sequences; failures half way through a change (bind errors, full pools); answers
that come late on the serial line and on the network; a serial receiver of one
byte that nobody reads while a command runs; interface numbers that shift
between the panel's listing and its next command.

How the parts meet: the panel sends lines to the command channel; the channel,
or the menu, calls the interface manager, the registry, ping and the scan; these
call lwIP, which hands packets to the driver; the driver's interrupts call lwIP
back, through the alias filter, up to the registry's receive callback. Each
module takes one of these seams as a whole and the rest as its environment.

## Modules

| Module | Models |
|---|---|
| `LwipNetif` | the interface list, the alias pool, the addresses |
| `LwipUdp` (extends LwipNetif) | the pcb pool, the linked pcbs, bind, recv, remove, matching |
| `UdpSource` (extends LwipUdp) | the registry, the cascade of net_manager.c, the main loop's polling and commands, the receive interrupt |
| `UdpSourceProofs` | theorems about UdpSource, checked by TLAPS |
| `MCUdpSource` | constants for TLC |
| `Ping` | the echo client of ping.c, the interrupt that takes replies, and the four loops that call it, with wait_or_ctrlc |
| `LineEdit` | abstract: what a line editor promises, the text on each side of the cursor |
| `FetchInput` | fetch_input, byte by byte, with the terminal it repairs; implements `LineEdit` |
| `OperatorProofs` | theorems about FetchInput and Ping |
| `CommandService` | abstract: each line executed as sent, once, in order, eventually |
| `CommandChannel`, `MCCommandChannel` | the main loop at the serial port, cmd_channel_feed, the menu taking over, the button; implements `CommandService` for a host that waits |
| `BoardConfig` | abstract: the configuration of the board, the requests an operator can make, and which change and answer each may have |
| `NetifList` | netif_list in its order, what netif_add and netif_remove do to it |
| `Terminal`, `MCTerminal` (extend NetifList) | the commands and the menu of terminal_interface.c by number, position and prompt; implements `BoardConfig` |
| `Panel`, `MCPanel` | SerialManager and the jobs of Form1 against the board's interface list |
| `SerialProofs` | theorems about Panel and CommandChannel, the two ends of the serial line |
| `AliasFilter` (extends NetifList) | netif_alias_route_filter, and lwIPAliasAdd and lwIPAliasRemove step by step under it |
| `NetifListProofs` | theorems about AliasFilter and Terminal |
| `Etharp`, `MCEtharp` | the ARP table, calls of the main loop access by access, the interrupt, the scan and the reset |
| `EtharpProofs` | theorems about Etharp |
| `UdpPcbList` | udp_pcbs link by link: the move to the front in the interrupt against udp_bind |
| `UdpPcbListProofs` | theorems about UdpPcbList |
| `LwipMem` | mem_malloc, mem_free and plug_holes store by store, and the two interrupts that use them |
| `LwipMemProofs` | theorems about LwipMem |
| `TxQueue` | abstract: packets go out once, whole, in order, and are released |
| `HdkifTx` | the transmit descriptor ring, its interrupt, the DMA; implements `TxQueue` while the ring has room |
| `HdkifRx` | the receive descriptor chain, its interrupt, the pool it is refilled from |
| `MCHdkif` | the two sides of the driver for TLC, one per behaviour |
| `HdkifProofs` | theorems about both sides, over MCHdkif |

State in the model is the state of the code, one function per struct field.
In `UdpSource`, `pc` is where the main loop stands: `"poll"` is the polling pass
(a command runs when `todo` is empty), the steps of `AddSteps` are the stores of
`udp_source_add_listener`, `"ipset"` and `"rebind"` the two halves of an
address change, `"cascade"` the point between the two critical sections of
`net_if_remove`. `cur` holds the locals of the running call. A message in a
mailbox carries the slot it was meant for and how often that slot had been
closed, so that a property can tell a misdelivered or outlived message.

In every module an action is as large as another context can observe: a
protected section is one step (or several with `Protected` set), an unprotected
one is one step per store that an interrupt reads. Stores no interrupt reads
(the counters, `pcb` and `netif` before `in_use`) are merged with their
neighbour. The compiler is assumed to keep the order of the stores that are in
different functions, which the calls to `udp_bind` and `udp_recv` in another
translation unit force.

In `Ping` a request is named by its age, 0 being the one built last; `wire`
holds the ages whose reply may still arrive, as often as the network likes. The
sequence number a reply carries is computed from its age (`Seqno`), so that
`ping_recv` compares what the code compares, the wrap of the `u16_t` included.
The protected section of `ping_send` is one step; the assignment of `s_seq`
before it, the reset of `s_waiting` after a failed output, and the end of the
polling loop are steps of their own, since the interrupt may fall between them.
`rdr` is the one-byte receive register of the serial port: a byte that was not
read is overwritten by the next.

In `FetchInput` one byte is one step, also inside an escape sequence, because
`sciReceive` blocks there. `screen` and `col` belong to the terminal: what is
printed overwrites, `ESC [ K` erases to the end. `buf` keeps the leftovers of
earlier lines, as the array in the code does.

In `CommandChannel` a byte carries the line it belongs to and its place there;
the code sees only the character. `Arrive` needs the receive register empty,
`Overrun` overwrites it and happens only while the loop prints, runs a handler
or is in the menu: at 9600 baud every other pass is much shorter than a byte.

In `Terminal` a call into the registry is one step, since the interrupt's part
in it is `UdpSource`'s subject. Keys are distances from '0', so that the unsigned
wrap of the index is computed. The menu is a chain of prompts in `pc`; `chosen`
records the interface that was selected first. `request` is what was asked for last,
in the operator's terms: the interface and the socket that the listing shows under
the number, the address and the port as typed. The code has no such variable; it is
what `BoardConfig` compares the change and the answer with.

In `Panel` a job is one asynchronous handler of Form1. What runs between two
awaits on the UI thread is one action; the receiving thread, the time-outs, the
timer and the board come between any two. `own` on a line says whether it belongs
to the pending command. A `PollTick` finds the line quiet, because the interval
is longer than the answer to a listing. `ping -t` is a job whose command comes back
until the user stops it; while `pingCts` is set the timer does not refresh.
`signature` is `_lastSignature`, as the cards it was built from.

`Etharp`, `UdpPcbList` and `LwipMem` have a history variable (`raced` and
`linkRaced`, `walkRaced`) that is set when an interrupt changes what a call of
the main loop has already looked at. Their properties state what holds without
such a race, or whatever happens; what a race does is under "Where the code departs from its comments".
`LwipMem` follows the first race only: after it the content of stale headers
matters, which is data.

In `HdkifTx` and `HdkifRx` the DMA is external and takes a frame at a time; the
DMA may reach the end of a chain (EOQ) before or after the driver links to it.
That the DMA reads the link and writes EOQ is one step: a link stored between the
two is not modelled.

## Runs

| Run | Shows |
|---|---|
| `registry_safety` | pcb ownership, exclusive bindings, the cascade, rebinding, mailbox accounting, no message outlives its socket, datagrams go to their own mailbox and pbufs are freed outside the one window of add_listener |
| `registry_life` | types; a stale id is refused for fewer than GenMod closings, across the wrap; every stored datagram is read or discarded |
| `ping` | an answer is the reply to the request just sent, never to an earlier one, until the sequence number comes round; a late reply is not consumed; every bounded ping returns whatever the network does; Ctrl+C that is not overwritten stops `ping -t` |
| `fetch_input` | no write outside the buffer, the terminal shows the buffer and the cursor, and the shifting buffer implements `LineEdit` |
| `channel` | whatever the host, a button and an overrun do: a line that ran is whole unless the receiver lost a byte or the menu took one, lines run in order, the menu opens on request only, and is left when what its prompt reads begins like a command (a ping from the menu, which waits for an interface or for Ctrl+C, is modelled); for a host that waits for its answers: `CommandService` |
| `terminal` | every command and every path through the menu is carried out as it was asked for and answered OK, or refused for a reason without a change, up to the two exceptions `BoardConfig` states; one failed bind does not keep other sockets from moving; every open socket can be named; the menu's keys and the channel's numbers mean the same interface |
| `panel` | without a late answer a response is the pending command's; the list shown is one the board had; every job ends, `ping -t` when it is stopped; unless one goes on for ever the list shown becomes the board's |
| `alias_filter` | frames reach the interface with their address, and none that is not listed, between any two steps of adding and removing |
| `arp` | without a race: one entry per host, no packet to the wrong host, queued packets belong to pending entries, a stable entry has the MAC address its host announced, a reset forgets, the scan reports only hosts that have spoken, and each that answers in time; always: the types of the table and its queues |
| `pcb_list` | the list ends and has no pcb twice; without a race every bound pcb is on it and keys are distinct; udp_bind returns |
| `driver` | transmit, until a packet comes for which the ring has no room: the ring stays intact, the DMA sees whole packets, and the driver implements `TxQueue`; receive: no pbuf is lost, the chain is complete, reception restarts after EOQ, and the chain runs dry only after a failed allocation |
| `heap` | as long as no interrupt falls into a call the heap is sound, blocks are apart, an allocation fails only when no free block is large enough; calls return |

Where a run has one invariant for a module (`EditorSound`, `ChannelSound`,
`NumbersSound`, `CardsSound`, `FilterSound`, `TableSound`, `PcbsSound`, `TxSound`,
`RxSound`, `HeapKept`) it is a conjunction of named parts, the type invariant among
them, each with its own comment in the module.

Bounds: two slots and two pcbs beside the locator's let two sockets compete for
a port, an address and slot 0; one alias beside the physical interface gives a
rebinding conflict; `MaxArrivals` counts the datagrams that reach a pcb, and two
fill a mailbox and overflow it; `MaxCloses` bounds the closings of one slot.
`GenMod` is 256 in the code; in `registry_life` it is 3 with four closings of a
slot, so that a generation comes round and goes on. The free pcbs are
interchangeable (`PcbSymmetry`), except in `registry_life`, which has a liveness
property and uses no symmetry. In `Ping`, `SeqMod` 3 with `MaxAge` 4 lets a reply
outlive the wrap of the sequence number; `PING_ATTEMPT_COUNT` 2 gives a first and a last attempt. In
`FetchInput`, `max_len` 4 fills the buffer with three characters, enough for a
cursor at both ends and between two, and of the three characters two also occur
in escape sequences.

In `CommandChannel` a `CMD_LINE_MAX` of 4 is filled by short lines; three lines
let a byte of the first end up in the third. `Hosts` is a set of ways to use the
channel, one of which a behaviour takes for good: one that does not wait and has a
'q' in a line (`Faulty`), one whose commands, with a digit in them, keep coming while
a menu is open (`Commanding`), an operator who pings from the menu (`Pinging`), one
that waits for every answer (`Waiting`). The properties that need a particular host
say so. `Panel` does
the same with `Sessions`: two handlers that compete for the lock; one handler
after another with every fault, a late answer, a lost line, a pulled cable; raw text
typed while commands are pending; pings, with and without an end, next to another
handler and a lost line; and pings that a disconnection cuts off. In `Terminal` two
addresses and 0.0.0.0 are the least for sockets to be apart, in one place, and in the
way of each other at different addresses; three slots are the least for a failing
bind between two that succeed; `PortMod` 4 leaves two ports beside the locator's, and
the number 5 is out of range. In `Etharp` two entries, three hosts beside the board's
own number and two interfaces force recycling without a race, and the scan cleans the
table after every second target instead of every tenth; a behaviour is one of three
sessions: two packets with replies and resets, one packet with replies and a scan, or
a scan with resets and a host that goes off. `AliasFilter` has addresses of 3 bits and netmasks of two
lengths, so that one network lies inside another. `UdpPcbList` has three pcbs
beside the locator's, a front, a middle and an end; `MaxMoves` and `MaxOpens`
bound what happens, and when both are used up nothing more does. `HdkifTx` has
four descriptors for three packets of one or two, so that the ring may be just full
and a packet may come for which it has no room. `HdkifRx` has 4
descriptors, a pool of 6 and lets 5 be kept, so that refilling fails; a behaviour
of `MCHdkif` explores one side and leaves the other at rest, since they share no
state. `LwipMem` has room for two or three packets of three sizes, with a split, a
near fit and an exact fit.

Deadlock is not checked where the system may stop: a menu that waits for an
operator when all lines are sent, a receive chain that has run dry, and the
bounded `UdpPcbList`.

Fairness: `WF_vars(Main)`. The main loop is the only thread, and none of the
operations modelled waits for anything. While the operator has the interactive
menu open the loop stands still; the assumption is that it is left. Nothing is
assumed of the interrupt. `Ping` assumes `WF_vars(Steps)`: the loop that pings
is the main loop, its waits end by the free-running counter, and `wait_or_ctrlc`
looks at the register at least once in its second. Nothing is assumed of the
network or the operator. `CommandChannel` assumes the loop and the wire go on
(`WF` of Loop and of Arrive or Overrun), not the button or the host. `Panel`
assumes the UI thread, the board and the timer go on, and strong fairness of
`Send`: SemaphoreSlim lets a waiting job in eventually. `HdkifTx` assumes the DMA
goes on, and strong fairness of the interrupts, which are served whenever they
are enabled often enough. `HdkifRx` and `LwipMem` assume that an interrupt, or a
call, that has begun goes on.

## Proofs

Eight modules hold theorems. Each one is about every value of the constants that
the ASSUMEs of its component allow, and all of an argument's leaves are checked by
TLAPS. Every inductive invariant named below was checked by TLC on the
instance of the component's run before it was proved. What the ASSUMEs say beyond
types: the locator's pcb is one of the pool, no model value stands for two things
(`NoMsg`, `NoByte`, `NULL`, `NONE`, `POLL`), the physical interface has an address, tables
and sequence numbers are not empty, and the pool of pcbs is finite, which the
arrays of the code are.

**`UdpSourceProofs`**, for any slots, pcbs, aliases, addresses, ports and
generations:

- `TypeCorrect` (`TypeOK`) and `OwnershipCorrect` (`PcbOwnership`). Types alone are
  not inductive: a message is typed only if the pcb that `udp_input` picked has an
  owner, which is the ownership of pcbs; ownership needs to know that the slot
  `add_listener` found is still free and that its pcb is not the locator's, which
  is `CallState`. The induction is over `IInv == TypeOK /\ PcbOwnership /\
  CallState`; everything below builds on it.
- `LeakOnlyWhileOpeningCorrect`, `StoredForOwnerCorrect`: action properties.
- `NoOrphanSocketCorrect`, by `Listed`: the interface of a call under way is listed
  too, and the cascade has closed its sockets before the alias goes.
- `NoDoubleBindCorrect`: a step either binds one pcb, and then udp_bind has compared
  it with every other, or leaves the bindings of the linked pcbs alone.
- `StaleIdRejectedCorrect`, by `GenerationCounts`: the byte in a slot is the number
  of its closings modulo `GenMod`; the rest is that numbers less than `GenMod`
  apart have different remainders.
- `NoMessageFromThePastCorrect`, by `MailboxOfOpen`: closing a slot empties its
  mailbox in the protected section that closes it, and the interrupt tags what it
  stores with the closings so far.
- `AccountingCorrect`: inductive as it stands, over `IInv`: the callback, the poll and
  the store of add_listener that ends the window each move both sides alike.
- `LiveSocketCanSendCorrect`, by `SendInv`: outside a clash the addresses of the
  listed interfaces are distinct (`AddressesApart`), every open socket is bound to
  its interface's address unless the change under way still owes it a rebinding
  (`BoundToInterface`), and the change knows its slot (`MoveState`). A rebinding
  cannot be refused, because the pcb that would refuse it is bound to an address
  that belongs to another interface.

**`OperatorProofs`**, what the operator at the serial line uses:

- For every `max_len`, `EditorSoundCorrect`, with `Filled` added (what lies before
  `len` are characters, so that what is printed again is what was typed); and
  `ImplementsLineEditCorrect`, the refinement: the lemmas `LeftShorter` to
  `RightLonger` say what inserting, deleting and moving in the array do to the text
  left and right of the cursor, and each step is then a step of `LineEdit` or none.
- For every width of the sequence number, number of attempts and delay,
  `PingTypesCorrect`, `AnswerIsOwnCorrect`, `LateReplyNotTakenCorrect`. `AnswerIsOwn` is about
  what was returned; the induction needs `Armed`: a request is awaited only from the
  protected section of `ping_send` to the end of the call, never together with a
  valid reply, and a reply that is valid then is the request's own. `SeqnoOfOwn` is
  the arithmetic: among the last `SeqMod` requests only the newest has the number
  `ping_recv` compares with.

**`NetifListProofs`**, what is built on the order of the interface list. `Prepended`
and `Removed` say what netif_add and netif_remove do to a list without repetitions
whose last is the physical interface, for both parts:

- For any aliases, addresses and masks, `FilterSoundCorrect`. The induction needs
  `Adding` (what a half-made alias has and has not) and `FlagsFull` (a listed
  interface is up and has a link, so the filter never skips it).
- For any aliases, slots, addresses, ports and inputs, `NumbersSoundCorrect` and
  `ImplementsConfigCorrect`, over one inductive invariant, `BoardSound`: no two open
  sockets have one port at addresses that overlap, equal or one of them 0.0.0.0
  (`Apart`), none has the locator's port (`Ported`) and none outlives its interface
  (`On`). One lemma per call (`AddKept` to `SetIpKept`) shows that it keeps
  `BoardSound` and carries out the request as `BoardConfig` says (`Kept`). That a
  refusal for want of a slot has its reason is `SocketCount`: with `Apart` the open
  sockets are as many as the slots in use. A
  socket's number is how many of its interface's slots lie below it; that the numbers
  up to the count are all taken (`RankTaken`) is the pigeonhole principle. The pass
  of udp_source_netif_ip_changed is a recursive function; `PassSound` says what it
  has done after k slots, and goes from one to the next by `RebindSound`. It needs
  `Ported`: a socket on the locator's port would stay behind although no socket has
  its port at the new address. The keys of the menu are a char read as an unsigned
  word; the ASSUME says that they are fewer than the words (`KeyIndex`).

**`EtharpProofs`**, for any table size, hosts, interfaces and packets:
`TableSoundCorrect`, `ScanFindsCorrect`, `ResetForgetsCorrect`. `IInv` has the
types, which hold whatever the interrupt does, and `Calm`, which holds until it
changes the table inside a call: the notes of the search (`NoteTrue`) describe the
part of the table it has passed, the slot a call has in hand is its own
(`SlotTrue`), a packet in hand is in no queue (`InHand`), a target of the scan that
answered is in the table (`TargetListed`), a reset has cleaned what it has passed
(`StillToClean`). The sweep of etharp_find_entry in the interrupt is a recursive
function; the lemmas about it go by the least slot at which they would fail.

**`UdpPcbListProofs`**, for any finite pool: `PcbsSoundCorrect`. The linked list is
the sequence that `Chain` says `next` runs through, and `Shape` is that there is
one without repetitions. `BindState` says how much of it the walk of udp_bind has
passed, `PassedApart` that no key it has passed is the wanted one. `Pushed`,
`Removed` and `Suffix` are the three changes of a list; `Reach` and `ListedIs` tie
the witness to what following `next` gives, so that the theorem speaks of the
pointers.

**`SerialProofs`**, of `Panel`, for any sessions, handlers and interfaces:

- `CardsSoundCorrect`. `PingOK` has the signature of the cards. `JobOK`, `Locked` and `Refreshing` are the two locks: who
  waits for the lock, and who refreshes. That two listings are never mixed, after
  any cancellation, rests on `Framed`: a card on the way has the cards before it in
  front of it, back to its BEGIN line, as far as they are not collected already.
- `ResponseIsOwnCorrect`. `OwnOnly`: as long as nothing was late, cancelled or typed
  past the lock, the pending command, or the rest of its answer together with what
  is collected of it, is all there is on the line, and otherwise the line is empty.

Of `CommandChannel`, for any hosts and lines, any size of `cmd_line`, any overruns,
menus and presses:

- `ChannelSoundCorrect`. A property about whole lines is not inductive, as bytes of a
  line are on the wire, in the receiver, in `cmd_line`, dispatched and lost at the
  same time. `Hist` relates these places: what is on its way (`OnWay`) is the end of
  all that was sent (`UpClosed`), the rest is in one place each (`Apart`) and in
  order (`InOrder`); once `cmd_line` holds a byte, every terminator after it that is
  not on its way is lost (`Unended`); a line that has begun and lost nothing is in
  `cmd_line` up to the next byte (`Collected`). `Hist` is an operator of the five
  places, with one lemma for each thing that can happen to the next byte (lost,
  appended, a terminator with or without a line before it) and one for a new line;
  the actions of the loop, the menu and the receiver are cases of these.
- `ServiceSafetyCorrect`: the steps of the channel are steps of `CommandService`.
  `Served` says what a host that waits meets: nothing is lost, only the last line is
  on its way, and the loop is in no handler while it is.

**`HdkifProofs`**, for any number of descriptors, pbufs and packets:

- `RxSoundCorrect`, `DryOnlyAfterFailureCorrect`. The flags and links of a chain say
  little by themselves; `RxIInv` says that there is one list of all the descriptors,
  those that are owed a pbuf first, and a place `c` in it where the DMA stands: whole
  frames before it, descriptors the DMA may fill from it on, EOQ at the end exactly
  when it has come there. A refill turns the list (`RxTurned`). `RxDead` is the state
  of `FailureHandled` below, in which the handler reads through NULL.
- `TxSoundCorrect`, `TxQueueRefined`. `TxIInv`: from `next_bd_to_process` on, round
  the ring, there are u used descriptors with whole packets, then free ones; flags,
  buffers and links say of each its place in its packet; the DMA has one packet, the
  one started last. `TxQueueRefined` is the part of `ImplementsTxQueue` without
  fairness. hdkif_output has no limit; `overrun` is set when a packet has more pbufs
  than there are free descriptors, and from then on nothing is claimed (see
  `NeverDropped`).

**`LwipMemProofs`**, for every size of the heap, of a header and of the requests:
`HeapKeptCorrect` and `FailsOnlyWhenFullCorrect`. `HeapKept` speaks of the heap
between the stores of a call as well, where it is not whole: `Sound` has the blocks
as a set that fills the heap end to end, and says for each place in mem_malloc and
mem_free what is not true yet (the rest is a block without a back link, two free
neighbours are not merged, `lfree` is too high). One lemma per store shows what it
does to `Sound`; the whole calls of the interrupts (`MallocSound`, `FreeSound`) go
through the same lemmas. An interrupt inside a call changes the heap (`MallocShows`,
`FreeShows`), so it is a race, and the invariant says nothing after one. `List`,
`FirstFit` and `NextFree` are recursive functions; what they return is shown from the
last block at which it would fail (`ListIs`, `SearchEnds`).

Only model-checked: the liveness properties, and with them the fairness part of the
refinements whose abstract specification has one, which this prover cannot treat.
Every invariant the runs check is proved.

## Where the code departs from its comments

Each definition below states what a comment, a document or an assertion of the
repository says, and does not hold of the model. To see the behaviour, put it in
the place of the properties of the run's configuration (those with an arrow are
PROPERTYs, the others INVARIANTs).

| Definition | Run | What the code does, and what is said of it |
|---|---|---|
| `PbufAlwaysFreed` | registry_safety | udp_rx_callback returns without pbuf_free when in_use is 0, and udp_source_add_listener calls udp_recv (line 127) before it sets in_use (line 130) without disabling interrupts: a datagram in between is never freed. src/lwip-1.4.1/src/core/udp.c:402 says "now the recv function is responsible for freeing p". (src/src/UDP_source.c:255) |
| `OnlyOwnDatagrams` | registry_safety | udp_recv stores pcb->recv and then pcb->recv_arg on a pcb udp_bind has already linked, with interrupts enabled; a datagram in between calls the callback with argument 0, and slot 0, if open, stores it. src/lwip-1.4.1/src/core/udp.c:924 says "This callback will be called when receiving a datagram for the pcb." and :928 "@param recv_arg additional argument to pass to the callback function". (src/lwip-1.4.1/src/core/udp.c:934) |
| `IpChangeRebindsAll` | registry_safety | udp_source_netif_ip_changed ignores the result of udp_bind, which fails when another socket already has the port on the new address: the socket keeps the old address. src/include/UDP_source.h:65 says "o netif'teki tum soketleri yeni adrese yeniden baglar" (it rebinds all sockets of that netif to the new address). (src/src/UDP_source.c:79) |
| `OldIdsInvalid` | registry_life | generation_count is a u8_t: after 256 closings of a slot (`GenMod`, 3 in the run) its first id resolves again. src/include/UDP_source.h:12 says "Slot her kapatildiginda nesil artar, boylece eski tanitici gecersiz sayilir" and src/README.md:245 "an old (stale) id is detected and rejected". (src/src/UDP_source.c:59) |
| `RefusedAliasNotListed` | registry_safety | lwIPAliasAdd returns the address of the alias it added, which is 0 for 0.0.0.0, and net_if_add (src/src/net_manager.c:24) reports ERR_MEM although the interface is listed and a pool entry taken. src/lwip-1.4.1/ports/hdk/lwiplib.c:468 says "Sanal IP adresi (basarili), 0 (hata)" (the address on success, 0 on error). (src/lwip-1.4.1/ports/hdk/lwiplib.c:512) |
| `CtrlCStops` → | ping | Ctrl+C is looked for only in wait_or_ctrlc, between two pings; typed while a reply is awaited it stays in the one-byte receive register, and another key overwrites it: the loop goes on. src/src/terminal_interface.c:945 tells the operator "(Ctrl+C to stop)". (src/src/terminal_interface.c:894) |
| `OpensOnSelected` → | terminal | Options 4 and 5 of "Configure Netif" declare a second n and call terminal_select_netif again: the interface chosen first has no effect, and the socket may be opened on another. src/README.md:274 says "Select a netif, then edit **IP / netmask / gateway**, or open/delete a socket on it." (src/src/terminal_interface.c:206) |
| `OpensTypedPort` → | terminal | The menu converts the line with (u16_t) atoi and has no range check, unlike cmd_sock_open: 65537 opens port 1, and 0 or text reaches udp_bind as 0, which picks a port; both answer success. The prompt at src/src/terminal_interface.c:211 says "Input new socket port:". (src/src/terminal_interface.c:215) |
| `NeverShared` | heap | NO_SYS is 1, so sys_mutex_lock is empty (src/lwip-1.4.1/src/include/lwip/sys.h:58), and LWIP_ALLOW_MEM_FREE_FROM_OTHER_CONTEXT is left at 0: mem_malloc runs with interrupts on and unprotected while the receive interrupt allocates (locator.c:107, icmp.c:300) and the transmit interrupt frees (hdkif.c:853). Both may be given the same block. The comment at src/lwip-1.4.1/src/core/mem.c:520 says "protect the heap from concurrent access"; src/lwip-1.4.1/doc/rawapi.txt:45 says the allocation functions may be "called from multiple threads (not ISR!)". (src/lwip-1.4.1/src/core/mem.c:520) |
| `LfreeIsFree` | heap | Between the test of cur->used and lfree = cur the receive interrupt may allocate the block cur points to. src/lwip-1.4.1/src/core/mem.c:610 asserts "mem_malloc: !lfree->used". (src/lwip-1.4.1/src/core/mem.c:609) |
| `SteeredAlways` | alias_filter | The broadcast test uses the physical interface's netmask and comes before the search: an alias in a wider network whose address ends in the physical network's broadcast bits (NETIF ADD and NETIF SET take any address and mask) never gets its frames, and its ARP requests stay unanswered. src/README.md:224 says "incoming packets are steered to the correct netif by `netif_alias_route_filter` (walks `netif_list` matching the destination IP)". (src/src/netif_alias_filter.c:62) |
| `AnnouncedWhenUp` | alias_filter | hdkif_alias_init copies the physical interface's flags with NETIF_FLAG_UP, so netif_set_up finds the alias up and returns without the announcement: hosts that remember the address at another MAC keep sending there. src/lwip-1.4.1/src/core/netif.c:466 says "For Ethernet network interfaces, we would like to send a "gratuitous ARP"". (src/lwip-1.4.1/ports/hdk/lwiplib.c:453) |
| `CacheProtected` | arp | The main loop calls etharp_output with interrupts on (udp_source_data_send), and etharp_find_entry stores the address in an entry that is still marked empty: an ARP message for the board taken before that store uses the same entry for its sender and marks it stable, and the store then puts the other host's address on it. As entries never expire, that host's packets go to the wrong MAC address until it speaks. src/lwip-1.4.1/src/netif/etharp.c:1269 says of ethernet_input "Using this function instead of directly calling ip_input [...] the ARP cache is protected from concurrent access." (src/lwip-1.4.1/src/netif/etharp.c:397) |
| `NoQueueOnStable` | arp | Between the test of the state and the store into arp_table[i].q the receive interrupt may take the host's answer: the packet is then queued on an entry that is already stable and stays there until the host sends another ARP message. src/lwip-1.4.1/src/netif/etharp.c:367 says "no queued packets should exist on stable entries", and the next line asserts it. (src/lwip-1.4.1/src/netif/etharp.c:1142) |
| `ScanPrintsAnswering` → | arp | etharp_find_addr returns any stable entry, also one from before the request, and stable entries never expire: a host that spoke earlier is printed although it does not answer, until the cleaning after every tenth target, which spares the entries other interfaces learned. src/src/ping.c:207 says "cevap veren host'lari terminale basar" (prints the hosts that answer). (src/src/ping.c:235) |
| `ResetEmpties` → | arp | etharp_query does not store the interface in a pending entry, only etharp_update_arp_entry does: etharp_cleanup_netif compares a NULL or an old interface and leaves the entry, with the packet queued on it. src/README.md:138 says of ARPRESET "Clear the ARP cache on all interfaces". (src/lwip-1.4.1/src/netif/etharp.c:584) |
| `MovedIsFound` | pcb_list | udp_source_add_listener calls udp_bind with interrupts on. When udp_input, in the receive interrupt, moves a pcb to the front after pcb->next = udp_pcbs was stored, the store udp_pcbs = pcb drops the moved pcb from the list: its socket receives nothing any more. src/lwip-1.4.1/src/core/udp.c:272 says udp_input moves the pcb "to the front of udp_pcbs so that is found faster next time". (src/lwip-1.4.1/src/core/udp.c:826) |
| `DoubleBindRefused` | pcb_list | The walk of udp_bind, with interrupts on, does not meet a pcb that udp_input moves from behind it to the front of the list, and binds its address and port a second time. src/lwip-1.4.1/src/core/udp.c:760 says "ERR_USE. The specified ipaddr and port are already bound to by another UDP PCB." (src/lwip-1.4.1/src/core/udp.c:777) |
| `FailureHandled` | driver, as `Rx!FailureHandled` | After a failed pbuf_alloc the handler goes on, asking next time for all it owes at once; when the chain is used up before that succeeds, active_head becomes NULL and the loop at line 676 reads curr_bd->flags_pktlen through it. One pbuf more than the pool has to spare, held or lost for good (the leak of udp_rx_callback loses one per datagram), is enough: from then on every allocation fails, whatever is free. src/lwip-1.4.1/ports/hdk/netif/hdkif.c:742 says "Care should be taken even if the allocation fails." (src/lwip-1.4.1/ports/hdk/netif/hdkif.c:749) |
| `NeverDropped` | driver, as `Tx!NeverDropped` | hdkif_transmit takes the descriptors from free_head on without looking whether hdkif_tx_inthandler has given them back, and there is no queue: when more descriptors are filled than the ring has before a transmit interrupt is taken, as inside one long receive interrupt, the packet recorded there is never released. src/lwip-1.4.1/ports/hdk/netif/hdkif.c:344 says "Otherwise, the packet will be queued in a pbuf queue." (src/lwip-1.4.1/ports/hdk/netif/hdkif.c:289) |
| `NeverBlocksLoop` → | channel | cmd_channel_feed calls cmd_dispatch, whose handlers run to their end (PING up to its time-out, SCAN some 13 s) and write their answer byte by byte before the loop reads the receiver again; two bytes that arrive meanwhile leave one. src/README.md:124 says "It never blocks the main loop", src/include/terminal_interface.h:31 "Bloklamaz" (does not block). (src/src/terminal_interface.c:1377) |
| `OneCommandPerLine` | channel | Every 'q' opens the menu, also one in the data of UDP SEND: the menu takes the rest of the line, and the bytes before the 'q' stay in cmd_line and are dispatched with the next line. src/README.md:123 says "a line terminated by CR (`\r`) is dispatched as a command", and :139 of UDP SEND "Send a UDP payload from that socket". (src/example/hdk/src/lwip_main.c:233) |
| `LongestLineAccepted` | channel | cmd_line keeps one element for the terminator, so 127 characters is the longest line; of one with 128 the last is dropped and the rest executed. src/README.md:299 says of CMD_LINE_MAX "Longest accepted protocol command line (default 128)". (src/src/terminal_interface.c:1383) |
| `CommandsLeaveMenu` → | channel | The menu throws away what arrives before its prompt, and fetch_input starts with what comes then: what is left of a command line may begin with a digit and choose a menu entry, whose prompts hold the loop. src/README.md:124 says of the command channel "It never blocks the main loop". (src/src/terminal_interface.c:656) |
| `ListConvergesAlways` → | panel | PollTickAsync returns while `_pingCts` is set: when the forced refresh after a change is lost, the cards stay as they were for as long as `ping -t` runs. src/README.md:81 says "The list refreshes itself (~2s) so adding or removing an interface shows up without any manual refresh". (src/TmsControlPanel/Form1.cs:172) |
| `OwnAnswerAlways` | panel | ProcessLine completes whatever command is pending at any #END line, without looking at its name: after a time-out, which releases the lock while the board still works, the late end marker answers the next command, with the lines collected for the old one. src/TmsControlPanel/SerialManager.cs:93 takes the lock so that "önceki komut bitmeden yenisi gitmesin" (a new command does not go out before the previous one has ended). (src/TmsControlPanel/SerialManager.cs:189) |
| `IndexStays` | panel | Each SET of an edit carries the index the card had; netif_add puts a new interface at the head of the list, so an ADD that runs between two of them (or before the first) moves the edit to another interface. src/TmsControlPanel/Form1.cs:356 says "netif indeksleri sabit kaldığı için sorun olmaz" (no problem, as the netif indices stay the same). (src/TmsControlPanel/Form1.cs:362) |

## Plan

The parts of the inventory are modelled and their invariants proved. What would come
next: `Etharp` and `UdpPcbList` composed with `LwipMem`, to follow a packet through
all three.

## Not modelled

Most of the repository by volume is third-party or generated and not run by this
program: lwIP's TCP, DHCP, IGMP, DNS, SNMP, PPP, netconn and socket layers, the
HTTP server and its file data, and the HALCoGen drivers and register headers. The
modules cover the program's own sources and the parts of lwIP it runs.

Left out of what is modelled, each because no property is about it: packet
contents, checksums and header code; layout and wording of the terminal and the
panel's windows; the bring-up of PHY, MDIO and EMAC, which runs once before the
loop. IP reassembly and fragmentation are compiled out.

Abstractions a reader should know of:

- `LwipUdp` takes udp_bind and the list as atomic; `UdpPcbList` is about what that
  leaves out, and the two are not composed.
- `HdkifRx` counts in pool elements, not bytes; each DMA step takes a whole frame.
- `Etharp`: nothing ages, as the program never calls etharp_tmr; broadcast and
  multicast frames and a failing etharp_request are left out; the walk of the
  lookup, and each entry of a cleanup, is one step; the hint cache is any stable
  entry.
- `AliasFilter`: short frames and other ethertypes go to the physical interface
  and are not distinguished.
- `LwipMem`: a merge of two blocks is one step; mem_trim is not called on these
  paths.
- `Panel`: two commands stand for a ping's attempts and for the fields of an edit; a
  `ping -t` has no bound. The 15 s for which raw text keeps the timer from polling are
  a delay, which the model does not have.
- `CommandChannel`: one character stands for the word "ping "; the prompts behind a
  digit take any number of bytes; the editing keys of fetch_input are in `FetchInput`
  only.
- `Terminal`: netmask and gateway are not state; an address that is not readable
  is an error answer.
