--------------------------------- MODULE Ping ---------------------------------
(***************************************************************************)
(* The ICMP echo client (src/ping.c) and the loops that call it: one       *)
(* attempt for the PING command, PING_ATTEMPT_COUNT for the menu and for   *)
(* "ping <ip>", and an endless loop for "ping <ip> -t" that Ctrl+C stops.  *)
(*                                                                         *)
(* ping_recv runs in the EMAC interrupt, at any moment outside the         *)
(* protected sections.  The network may lose a reply, delay it over any    *)
(* number of later requests and deliver it more than once: while a request *)
(* is on the wire its reply may arrive again and again.                    *)
(*                                                                         *)
(* Requests are named by their age: 0 is the one ping_send built last, and *)
(* building another makes every one older.                                 *)
(***************************************************************************)
EXTENDS Integers

CONSTANTS
  SeqMod,              \* values of the u16_t s_seq: 65536
  PING_ATTEMPT_COUNT,
  MaxAge,              \* bound: requests after which a reply is lost for good
  None

ASSUME PingAssumption ==
  /\ SeqMod \in Nat \ {0}
  /\ PING_ATTEMPT_COUNT \in Nat \ {0}
  /\ MaxAge \in Nat
  /\ None \notin Int

Ages == 0 .. MaxAge

VARIABLES
  s_ping_pcb,     \* has the raw pcb been made, with ping_recv as its callback?
  s_seq,
  s_waiting, s_reply_valid,
  s_result,       \* the age of the request whose reply s_result holds
  pc,             \* where the main loop stands
  caller,         \* the loop that runs, or None
  attempt,        \* its index
  rdr,            \* the receive register of the serial port
  wire,           \* the ages of the requests whose replies may still come
  answer          \* what the last ping_wait_reply returned: an age, or None

pingVars == <<s_ping_pcb, s_seq, s_waiting, s_reply_valid, s_result>>
callVars == <<pc, caller, attempt, rdr>>
vars == <<pingVars, callVars, wire, answer>>

Callers == {"cmd", "menu", "term", "cont"}
Keys == {"ctrlc", "other"}
PCs == {"idle", "call", "built", "failed", "wait", "expired", "pause", "listen"}

TypeOK ==
  /\ s_ping_pcb \in BOOLEAN /\ s_waiting \in BOOLEAN /\ s_reply_valid \in BOOLEAN
  /\ s_seq \in 0 .. SeqMod - 1
  /\ s_result \in Ages \cup {None}
  /\ pc \in PCs
  /\ caller \in Callers \cup {None}
  /\ attempt \in 0 .. PING_ATTEMPT_COUNT
  /\ rdr \in Keys \cup {None}
  /\ wire \in SUBSET Ages
  /\ answer \in Ages \cup {None}

Init ==
  /\ s_ping_pcb = FALSE /\ s_waiting = FALSE /\ s_reply_valid = FALSE
  /\ s_seq = 0
  /\ s_result = None
  /\ pc = "idle" /\ caller = None /\ attempt = 0 /\ rdr = None
  /\ wire = {} /\ answer = None

-----------------------------------------------------------------------------
(* The callers.                                                            *)

Start(c) ==
  /\ pc = "idle"
  /\ pc' = "call" /\ caller' = c /\ attempt' = 0
  /\ UNCHANGED <<pingVars, rdr, wire, answer>>

Return == pc' = "idle" /\ caller' = None /\ attempt' = 0 /\ rdr' = None

Attempts(c) == IF c = "cmd" THEN 1 ELSE PING_ATTEMPT_COUNT

(* What follows an attempt: the menu gives up at an error, "ping" does not;*)
(* "ping -t" always pauses and goes on.                                    *)
AfterAttempt(failed) ==
  IF caller = "cont"
    THEN pc' = "pause" /\ UNCHANGED <<caller, attempt, rdr>>
    ELSE IF (failed /\ caller = "menu") \/ attempt + 1 >= Attempts(caller)
           THEN Return
           ELSE pc' = "call" /\ attempt' = attempt + 1 /\ UNCHANGED <<caller, rdr>>

(* wait_or_ctrlc: reads whatever comes for a second, and stops at Ctrl+C.  *)
StopsAtMut(b) == FALSE                 \* the byte is read and forgotten
StopsAt(b) == b = "ctrlc"

PauseRead ==
  /\ pc \in {"pause", "listen"} /\ rdr # None
  /\ IF StopsAt(rdr)
       THEN Return
       ELSE pc' = "listen" /\ rdr' = None /\ UNCHANGED <<caller, attempt>>
  /\ UNCHANGED <<pingVars, wire, answer>>

(* The register is looked at once before the second can be over.           *)
PauseEmpty ==
  /\ pc = "pause" /\ rdr = None
  /\ pc' = "listen"
  /\ UNCHANGED <<pingVars, caller, attempt, rdr, wire, answer>>

(* The second is over, whatever came after the last look.                  *)
PauseOver ==
  /\ pc = "listen"
  /\ pc' = "call"
  /\ UNCHANGED <<pingVars, caller, attempt, rdr, wire, answer>>

-----------------------------------------------------------------------------
(* ping_send.                                                              *)

(* raw_new or pbuf_alloc returns NULL: ERR_MEM, nothing sent.              *)
SendNoMem ==
  /\ pc = "call"
  /\ s_ping_pcb' \in {s_ping_pcb, TRUE}
  /\ AfterAttempt(TRUE)
  /\ UNCHANGED <<s_seq, s_waiting, s_reply_valid, s_result, wire, answer>>

Older(A) == {a + 1 : a \in A} \cap Ages

NextSeq == (s_seq + 1) % SeqMod

(* The packet is built and s_seq moves on, before the protected section.   *)
SendBuild ==
  /\ pc = "call"
  /\ s_ping_pcb' = TRUE
  /\ s_seq' = NextSeq
  /\ wire' = Older(wire)
  /\ s_result' = IF s_result \in Ages /\ s_result + 1 \in Ages THEN s_result + 1 ELSE None
  /\ pc' = "built"
  /\ UNCHANGED <<s_waiting, s_reply_valid, caller, attempt, rdr, answer>>

ValidAtSendMut == s_reply_valid        \* an unread reply is left in place
ValidAtSend == FALSE

(* The protected section: arm, then ip_output_if, which may fail.          *)
SendOutput ==
  /\ pc = "built"
  /\ s_reply_valid' = ValidAtSend
  /\ s_waiting' = TRUE
  /\ \/ pc' = "wait" /\ wire' = wire \cup {0}
     \/ pc' = "failed" /\ UNCHANGED wire
  /\ UNCHANGED <<s_ping_pcb, s_seq, s_result, caller, attempt, rdr, answer>>

SendFailed ==
  /\ pc = "failed"
  /\ s_waiting' = FALSE
  /\ AfterAttempt(TRUE)
  /\ UNCHANGED <<s_ping_pcb, s_seq, s_reply_valid, s_result, wire, answer>>

-----------------------------------------------------------------------------
(* ping_wait_reply: polls s_reply_valid until the time is over.            *)

WaitReply ==
  /\ pc = "wait" /\ s_reply_valid
  /\ answer' = s_result
  /\ s_reply_valid' = FALSE
  /\ AfterAttempt(FALSE)
  /\ UNCHANGED <<s_ping_pcb, s_seq, s_waiting, s_result, wire>>

TimeOverMut == FALSE                   \* the loop waits for ever
TimeOver == TRUE                       \* at any moment, as seen from here

WaitExpires ==
  /\ pc = "wait" /\ TimeOver
  /\ pc' = "expired"
  /\ UNCHANGED <<pingVars, caller, attempt, rdr, wire, answer>>

WaitingAfterTimeoutMut == s_waiting    \* the timeout leaves the request armed
WaitingAfterTimeout == FALSE

WaitTimeout ==
  /\ pc = "expired"
  /\ s_waiting' = WaitingAfterTimeout
  /\ answer' = None
  /\ AfterAttempt(FALSE)
  /\ UNCHANGED <<s_ping_pcb, s_seq, s_reply_valid, s_result, wire>>

-----------------------------------------------------------------------------
(* The interrupt, and the operator.                                        *)

Seqno(a) == (s_seq - a) % SeqMod

(* The reply to the request of age a arrives.  What does not match goes    *)
(* back to the stack and changes nothing here.                             *)
ping_recv(a) ==
  /\ s_ping_pcb
  /\ s_waiting /\ ~s_reply_valid
  /\ Seqno(a) = s_seq
  /\ s_result' = a
  /\ s_waiting' = FALSE
  /\ s_reply_valid' = TRUE
  /\ UNCHANGED <<s_ping_pcb, s_seq, callVars, wire, answer>>

(* A byte arrives while "ping -t" runs; one that was not read is lost.     *)
TypeKey(b) ==
  /\ caller = "cont"
  /\ rdr' = b
  /\ UNCHANGED <<pingVars, pc, caller, attempt, wire, answer>>

Steps ==
  \/ SendNoMem \/ SendBuild \/ SendOutput \/ SendFailed
  \/ WaitReply \/ WaitExpires \/ WaitTimeout
  \/ PauseRead \/ PauseEmpty \/ PauseOver

Next ==
  \/ \E c \in Callers : Start(c)
  \/ Steps
  \/ \E a \in wire : ping_recv(a)
  \/ \E b \in Keys : TypeKey(b)

Spec == Init /\ [][Next]_vars

(* A ping that was started runs on, and time passes.  Nothing is assumed   *)
(* of the network, or of the operator.                                     *)
FairSpec == Spec /\ WF_vars(Steps)

-----------------------------------------------------------------------------
(* A reply that ping_wait_reply returns is the reply to the request just   *)
(* sent, never that of an earlier one that came late or twice, unless      *)
(* SeqMod requests lie between them.                                       *)
AnswerIsOwn == answer # None => answer = 0 \/ answer >= SeqMod

(* A reply that comes after ping_wait_reply has given up is not consumed.  *)
LateReplyNotTaken ==
  [][~s_reply_valid /\ s_reply_valid' => pc \in {"failed", "wait", "expired"}]_vars

(* Every ping but the endless one returns, whatever the network does.      *)
PingReturns == caller \in {"cmd", "menu", "term"} ~> caller = None

(* Ctrl+C ends "ping -t" unless another key overwrites it.                 *)
CtrlCHeard == caller = "cont" /\ rdr = "ctrlc" ~> caller # "cont" \/ rdr = "other"

-----------------------------------------------------------------------------
(* "Ctrl+C to stop" (terminal_interface.c:945): whoever has typed it sees  *)
(* the loop stop.                                                          *)
CtrlCStops == caller = "cont" /\ rdr = "ctrlc" ~> caller # "cont"
===============================================================================
