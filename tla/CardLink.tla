------------------------------ MODULE CardLink ------------------------------
(***************************************************************************)
(* The link between the Supercard's MIPS processor and the Nintendo DS's   *)
(* ARM9 processor.  The ARM9 is the master of the card bus: it sends one   *)
(* command at a time and polls a FIFO until the reply is there.  The MIPS  *)
(* processor can only pulse the card line, which interrupts the ARM9; the  *)
(* ARM9 then asks for the send queue until a reply says that it is empty.  *)
(*                                                                         *)
(* Each action runs with interrupts off on the processor that performs it: *)
(* a critical section, an interrupt handler, or a stretch of the main loop *)
(* between two points where an interrupt can be taken.                     *)
(***************************************************************************)
EXTENDS Naturals, FiniteSets

CONSTANTS
    MaxMore,       \* bound: packets of a stream behind the announced one
    LagMax,        \* VBLANK_LAG_MAX: frames the ARM9 polls for a reply
    Notices,       \* commands raised by the ARM9's other interrupts
    Faults,        \* which fatal reports the application may make
    LatePoke,      \* may the MIPS poke again while the ARM9 is saying hello?
    EarlyVBlank    \* may a VBlank come before the MIPS has input and time?

Streams == {"AUDIO", "VIDEO"}
Kinds == {"EXCEPTION", "ASSERT", "REQUESTS", "AUDIO", "TEXT", "VIDEO"}
Sends == Kinds \cup {"END"}

\* Bit numbers of the PENDING_SEND_ masks: the lowest is sent first.
SendBit == [EXCEPTION |-> 0, ASSERT |-> 1, REQUESTS |-> 2, AUDIO |-> 3,
            TEXT |-> 29, VIDEO |-> 30, END |-> 31]

\* The ARM9 has the same discipline for the commands it has yet to send.
NoticeBit == [VBLANK |-> 0, VIDEO_DISPLAYED |-> 1, AUDIO_CONSUMED |-> 2,
              AUDIO_STATUS |-> 3, INPUT |-> 4, RTC |-> 5, QUEUE |-> 31]
Commands == DOMAIN NoticeBit

\* Mutant: the bits are scanned in no particular order.
AnyBit(S, bit) == S
Lowest(S, bit) == {k \in S : \A j \in S : bit[k] <= bit[j]}

None == "none"

\* A reply: what it holds, and whether it says that the queue is empty (only a
\* reply to SEND_QUEUE can say that it is not).
Reply(kind, end) == [kind |-> kind, end |-> end]
Empty == Reply("EMPTY", TRUE)
Replies == [kind : Kinds \cup {"EMPTY", "NONE", "ACK", "HELLO"}, end : BOOLEAN]

ASSUME BoundsAssumption == MaxMore \in Nat /\ LagMax \in Nat
ASSUME NoticesAssumption ==
    Notices \subseteq {"VIDEO_DISPLAYED", "AUDIO_CONSUMED", "AUDIO_STATUS"}
ASSUME FaultsAssumption == Faults \subseteq {"EXCEPTION", "ASSERT"}
ASSUME TimingAssumption == LatePoke \in BOOLEAN /\ EarlyVBlank \in BOOLEAN

VARIABLES
    app,      \* MIPS application: "poke", "await", "run" or "halted"
    mLink,    \* MIPS link_status, which also selects current_protocol
    recvs,    \* MIPS pending_recvs
    sends,    \* MIPS pending_sends
    more,     \* packets of a stream still behind the announced one
    edge,     \* the card line interrupt is latched on the ARM9
    cmd,      \* command on the bus that the MIPS has yet to handle
    fifo,     \* the reply in the card FIFO
    arm,      \* ARM9 program point
    aLink,    \* ARM9 link_status
    asends,   \* ARM9 pending_sends
    ipc,      \* readings asked of the ARM7 and not yet received
    lag       \* VBlanks since the command on the bus was sent

mipsVars == <<app, mLink, recvs, sends, more>>
armVars == <<arm, aLink, asends, ipc, lag>>
vars == <<app, mLink, recvs, sends, more, edge, cmd, fifo,
          arm, aLink, asends, ipc, lag>>

TypeOK ==
    /\ app \in {"poke", "await", "run", "halted"}
    /\ mLink \in {"NONE", "PENDING_RECV", "ESTABLISHED"}
    /\ recvs \subseteq {"INPUT", "RTC"}
    /\ sends \subseteq Sends
    /\ more \in [Streams -> 0..MaxMore]
    /\ edge \in BOOLEAN
    /\ cmd \in Commands \cup {"HELLO", None}
    /\ fifo \in Replies
    /\ arm \in {"boot", "await", "hello", "loop", "wait", "body",
                "halt", "sleep", "stopped"}
    /\ aLink \in {"NONE", "ESTABLISHED", "ERROR", "FATAL"}
    /\ asends \subseteq Commands
    /\ ipc \subseteq {"INPUT", "RTC"}
    /\ lag \in 0..(LagMax + 1)

Init ==
    /\ app = "poke"
    /\ mLink = "NONE"
    /\ recvs = {"INPUT", "RTC"}
    /\ sends = {}
    /\ more = [s \in Streams |-> 0]
    /\ edge = FALSE
    /\ cmd = None
    /\ fifo = Empty
    /\ arm = "boot"
    /\ aLink = "NONE"
    /\ asends = {}
    /\ ipc = {}
    /\ lag = 0

-----------------------------------------------------------------------------
(* The MIPS send queue. *)

\* Mutants: the end marker is forgotten; the card line is not pulsed.
AddWithoutEnd(pending, S) ==
    /\ sends' = pending \cup S
    /\ edge' = (edge \/ pending = {})
AddWithoutPulse(pending, S) ==
    /\ sends' = pending \cup S \cup {"END"}
    /\ UNCHANGED edge

\* _add_pending_send, given what is pending: the first thing to send pulses the
\* card line and brings the end marker.
AddPendingSend(pending, S) ==
    \/ /\ pending = {}
       /\ sends' = S \cup {"END"}
       /\ edge' = TRUE
    \/ /\ pending # {}
       /\ sends' = pending \cup S
       /\ UNCHANGED edge

(* The MIPS application. *)

\* One round of the loop of _ds2_ds_init that pokes the DS.  A DS that has not
\* enabled its card line interrupt may or may not latch the edge.
Poke ==
    /\ app = "poke" /\ mLink = "NONE"
    /\ arm = "hello" => LatePoke
    /\ IF arm = "boot" THEN edge' \in {edge, TRUE} ELSE edge' = TRUE
    /\ UNCHANGED <<mipsVars, cmd, fifo, armVars>>

EndPoke ==
    /\ app = "poke" /\ mLink # "NONE"
    /\ app' = "await"
    /\ UNCHANGED <<mLink, recvs, sends, more, edge, cmd, fifo, armVars>>

EndInit ==
    /\ app = "await" /\ mLink = "ESTABLISHED"
    /\ app' = "run"
    /\ UNCHANGED <<mLink, recvs, sends, more, edge, cmd, fifo, armVars>>

\* DS2_SetScreenSwap, DS2_SetScreenBacklights, DS2_StartAudio and the other
\* functions that fill in the requests packet.
SubmitRequests ==
    /\ app = "run"
    /\ AddPendingSend(sends, {"REQUESTS"})
    /\ UNCHANGED <<app, mLink, recvs, more, cmd, fifo, armVars>>

\* DS2_SubmitAudio: n more packets' worth of samples are in the ring.
SubmitAudio(n) ==
    LET announced == IF "AUDIO" \in sends THEN 0 ELSE 1
    IN  /\ app = "run"
        /\ more["AUDIO"] + n - announced <= MaxMore
        /\ AddPendingSend(sends, {"AUDIO"})
        /\ more' = [more EXCEPT !["AUDIO"] = @ + n - announced]
        /\ UNCHANGED <<app, mLink, recvs, cmd, fifo, armVars>>

\* DS2_StopAudio: the rest of the ring is not sent.
StopAudio ==
    /\ app = "run"
    /\ AddPendingSend(sends \ {"AUDIO"}, {"REQUESTS"})
    /\ more' = [more EXCEPT !["AUDIO"] = 0]
    /\ UNCHANGED <<app, mLink, recvs, cmd, fifo, armVars>>

\* _text_enqueue, which waits until the previous text has been taken.
SubmitText ==
    /\ app = "run" /\ "TEXT" \notin sends
    /\ AddPendingSend(sends, {"TEXT"})
    /\ UNCHANGED <<app, mLink, recvs, more, cmd, fifo, armVars>>

\* video_enqueue: an update of n packets.  The first is prepared at once if no
\* other entry is in the queue.
SubmitVideo(n) ==
    /\ app = "run"
    /\ more["VIDEO"] + n <= MaxMore
    /\ IF more["VIDEO"] = 0
       THEN /\ AddPendingSend(sends, {"VIDEO"})
            /\ more' = [more EXCEPT !["VIDEO"] = n - 1]
       ELSE /\ more' = [more EXCEPT !["VIDEO"] = @ + n]
            /\ UNCHANGED <<sends, edge>>
    /\ UNCHANGED <<app, mLink, recvs, cmd, fifo, armVars>>

\* _assert_fail and _unhandled_exception: the application never comes back.
Fault(k) ==
    /\ app = "run" /\ k \in Faults
    /\ AddPendingSend(sends, {k})
    /\ app' = "halted"
    /\ UNCHANGED <<mLink, recvs, more, cmd, fifo, armVars>>

AppStep ==
    \/ SubmitRequests \/ StopAudio \/ SubmitText
    \/ \E n \in 1..MaxMore : SubmitAudio(n) \/ SubmitVideo(n)
    \/ \E k \in Faults : Fault(k)

-----------------------------------------------------------------------------
(* The MIPS card command interrupt, by the protocol in force. *)

LinkEstablishmentProtocol ==
    /\ mLink = "NONE" /\ cmd # None
    /\ cmd' = None
    /\ IF cmd = "HELLO"
       THEN fifo' = Reply("HELLO", TRUE) /\ mLink' = "PENDING_RECV"
       ELSE UNCHANGED <<fifo, mLink>>
    /\ UNCHANGED <<app, recvs, sends, more, edge, armVars>>

\* Only INPUT and RTC are replied to.
PendingRecvProtocol ==
    /\ mLink = "PENDING_RECV" /\ cmd # None
    /\ cmd' = None
    /\ fifo' = IF cmd \in {"INPUT", "RTC"} THEN Reply("ACK", TRUE) ELSE Empty
    /\ recvs' = recvs \ {cmd}
    /\ mLink' = IF recvs' = {} THEN "ESTABLISHED" ELSE mLink
    /\ UNCHANGED <<app, sends, more, edge, armVars>>

\* Every command but SEND_QUEUE is acknowledged; what it carries is the
\* business of the modules on video, audio and input.
MainProtocol ==
    /\ mLink = "ESTABLISHED" /\ cmd \notin {None, "QUEUE"}
    /\ cmd' = None
    /\ fifo' = Reply("ACK", TRUE)
    /\ UNCHANGED <<mipsVars, edge, armVars>>

\* CARD_COMMAND_SEND_QUEUE with nothing pending: no case of the switch.
SendNothing ==
    /\ mLink = "ESTABLISHED" /\ cmd = "QUEUE" /\ sends = {}
    /\ cmd' = None
    /\ fifo' = Empty
    /\ UNCHANGED <<mipsVars, edge, armVars>>

\* Mutant: the rest of the queue is kept behind a report that ends it.
SendFaultAndGoOn(k) ==
    /\ mLink = "ESTABLISHED" /\ cmd = "QUEUE"
    /\ k \in {"EXCEPTION", "ASSERT"} \cap Lowest(sends, SendBit)
    /\ cmd' = None
    /\ fifo' = Reply(k, TRUE)
    /\ sends' = sends \ {k}
    /\ UNCHANGED <<app, mLink, recvs, more, edge, armVars>>

\* _send_assert and _send_exception end the queue and forget the rest of it.
SendFault(k) ==
    /\ mLink = "ESTABLISHED" /\ cmd = "QUEUE"
    /\ k \in {"EXCEPTION", "ASSERT"} \cap Lowest(sends, SendBit)
    /\ cmd' = None
    /\ fifo' = Reply(k, TRUE)
    /\ sends' = {}
    /\ UNCHANGED <<app, mLink, recvs, more, edge, armVars>>

\* _send_requests and _text_dequeue.
SendOnce(k) ==
    /\ mLink = "ESTABLISHED" /\ cmd = "QUEUE"
    /\ k \in {"REQUESTS", "TEXT"} \cap Lowest(sends, SendBit)
    /\ cmd' = None
    /\ fifo' = Reply(k, FALSE)
    /\ sends' = sends \ {k}
    /\ UNCHANGED <<app, mLink, recvs, more, edge, armVars>>

\* Mutants: a stream is always, or never, announced again.
AlwaysMore(k) == TRUE
NeverMore(k) == FALSE

\* There is another packet of the stream to send.
HasMore(k) == more[k] > 0

\* _audio_dequeue and _video_dequeue: the stream is announced again while it
\* has packets left; _add_pending_send then runs inside the handler.
SendStream(k) ==
    /\ mLink = "ESTABLISHED" /\ cmd = "QUEUE"
    /\ k \in Streams \cap Lowest(sends, SendBit)
    /\ cmd' = None
    /\ fifo' = Reply(k, FALSE)
    /\ \/ /\ HasMore(k)
          /\ more' = [more EXCEPT ![k] = @ - 1]
          /\ AddPendingSend(sends \ {k}, {k})
       \/ /\ ~HasMore(k)
          /\ sends' = sends \ {k}
          /\ UNCHANGED <<more, edge>>
    /\ UNCHANGED <<app, mLink, recvs, armVars>>

\* _send_end.
SendEnd ==
    /\ mLink = "ESTABLISHED" /\ cmd = "QUEUE"
    /\ "END" \in Lowest(sends, SendBit)
    /\ cmd' = None
    /\ fifo' = Reply("NONE", TRUE)
    /\ sends' = sends \ {"END"}
    /\ UNCHANGED <<app, mLink, recvs, more, edge, armVars>>

MipsIrq ==
    \/ LinkEstablishmentProtocol \/ PendingRecvProtocol \/ MainProtocol
    \/ SendNothing \/ SendEnd
    \/ \E k \in Kinds : SendFault(k) \/ SendOnce(k) \/ SendStream(k)

-----------------------------------------------------------------------------
(* ARM9 interrupts.  They are taken wherever IME is on; any of them ends    *)
(* swiIntrWait.                                                             *)

ImeOn == arm \in {"await", "loop", "wait", "body", "halt", "sleep"}
Running == ImeOn /\ arm # "await" /\ aLink = "ESTABLISHED"
Resumed == IF arm = "halt" THEN "loop" ELSE arm

Raise(S) ==
    /\ asends' = asends \cup S
    /\ arm' = Resumed

\* card_line_handler before the link exists.  link_establishment_protocol
\* runs inside the handler and sends HELLO.
HelloIrq ==
    /\ arm = "await" /\ aLink = "NONE" /\ edge
    /\ edge' = FALSE
    /\ cmd' = "HELLO" /\ fifo' = Empty
    /\ arm' = "hello"
    /\ UNCHANGED <<mipsVars, aLink, asends, ipc, lag>>

\* card_line_handler once the link exists.
CardLineIrq ==
    /\ ImeOn /\ aLink = "ESTABLISHED" /\ edge
    /\ edge' = FALSE
    /\ Raise({"QUEUE"})
    /\ UNCHANGED <<mipsVars, cmd, fifo, aLink, ipc, lag>>

\* Mutant: frames are not counted.
FrozenLag == lag

\* vblank_count - command_vblank.
NextLag == IF arm = "wait" /\ lag <= LagMax THEN lag + 1 ELSE lag

\* vblank_handler.  The next frame after LagMax only starts within an exchange
\* if the MIPS has let the command go unanswered.
VBlankIrq ==
    /\ Running
    /\ EarlyVBlank \/ mLink = "ESTABLISHED"
    /\ arm = "wait" /\ lag >= LagMax => cmd = None /\ fifo = Empty
    /\ Raise({"VBLANK"})
    /\ ipc' = {"INPUT", "RTC"}
    /\ lag' = NextLag
    /\ UNCHANGED <<mipsVars, edge, cmd, fifo, aLink>>

\* fifo_value_handler and fifo_datamsg_handler: a reading from the ARM7.
ReadingIrq(r) ==
    /\ Running /\ r \in ipc
    /\ ipc' = ipc \ {r}
    /\ Raise({r})
    /\ UNCHANGED <<mipsVars, edge, cmd, fifo, aLink, lag>>

\* A flip applied or a stretch of audio consumed: neither happens before the
\* application has sent a frame or samples.
NoticeIrq(n) ==
    /\ Running /\ n \in Notices
    /\ app \in {"run", "halted"}
    /\ Raise({n})
    /\ UNCHANGED <<mipsVars, edge, cmd, fifo, aLink, ipc, lag>>

ArmIrq ==
    \/ HelloIrq \/ CardLineIrq \/ VBlankIrq
    \/ \E r \in ipc : ReadingIrq(r)
    \/ \E n \in Notices : NoticeIrq(n)

-----------------------------------------------------------------------------
(* The ARM9 main program. *)

EnableCardLine ==
    /\ arm = "boot"
    /\ arm' = "await"
    /\ UNCHANGED <<mipsVars, edge, cmd, fifo, aLink, asends, ipc, lag>>

\* The rest of link_establishment_protocol, and the return from the handler.
EndHello ==
    /\ arm = "hello" /\ fifo # Empty
    /\ fifo' = Empty
    /\ aLink' = "ESTABLISHED"
    /\ arm' = "await"
    /\ UNCHANGED <<mipsVars, edge, cmd, asends, ipc, lag>>

\* Mutant: no first readings are asked for.
StartLoopSilently ==
    /\ arm = "await" /\ aLink = "ESTABLISHED"
    /\ arm' = "loop"
    /\ UNCHANGED <<mipsVars, edge, cmd, fifo, aLink, asends, ipc, lag>>

\* The other interrupts are enabled and the first readings asked for.
StartLoop ==
    /\ arm = "await" /\ aLink = "ESTABLISHED"
    /\ arm' = "loop"
    /\ ipc' = {"INPUT", "RTC"}
    /\ UNCHANGED <<mipsVars, edge, cmd, fifo, aLink, asends, lag>>

\* take_pending_send, and the command goes out.
SendCommand(c) ==
    /\ arm = "loop" /\ aLink = "ESTABLISHED"
    /\ c \in Lowest(asends, NoticeBit)
    /\ asends' = asends \ {c}
    /\ cmd' = c /\ fifo' = Empty /\ lag' = 0
    /\ arm' = "wait"
    /\ UNCHANGED <<mipsVars, edge, aLink, ipc>>

\* Nothing to send: IME is on again, then swiIntrWait(0, IRQ_ALL), which an
\* interrupt taken between the two ends at once.
Idle ==
    /\ arm = "loop" /\ aLink = "ESTABLISHED" /\ asends = {}
    /\ arm' = "halt"
    /\ UNCHANGED <<mipsVars, edge, cmd, fifo, aLink, asends, ipc, lag>>

\* card_ignore_reply of a 4-byte reply.
EndCommand ==
    /\ arm = "wait" /\ fifo # Empty /\ fifo.kind = "ACK"
    /\ fifo' = Empty
    /\ arm' = "loop"
    /\ UNCHANGED <<mipsVars, edge, cmd, aLink, asends, ipc, lag>>

\* Mutants: the end of the queue is never noticed, or always assumed.
GoesOn == {"QUEUE"}
EndsHere == {}

\* What the header of the reply leaves the ARM9 to send.
Continuation == IF fifo.end THEN {} ELSE {"QUEUE"}

\* process_send_queue up to the point where the kind of data is looked at: with
\* IME off, the queue is to be asked for again unless the reply ends it.
ReadHeader ==
    /\ arm = "wait" /\ fifo # Empty /\ fifo.kind # "ACK"
    /\ asends' = asends \cup Continuation
    /\ arm' = "body"
    /\ UNCHANGED <<mipsVars, edge, cmd, fifo, aLink, ipc, lag>>

\* process_send_queue from there.  A requests packet may put the ARM9 to sleep
\* and may start or stop audio; an assertion or an exception ends the link.
ReadBody ==
    /\ arm = "body"
    /\ fifo' = Empty
    /\ CASE fifo.kind \in {"ASSERT", "EXCEPTION"} ->
              /\ aLink' = "ERROR" /\ arm' = "stopped" /\ UNCHANGED asends
         [] fifo.kind = "REQUESTS" ->
              /\ arm' \in {"loop", "sleep"}
              /\ \E status \in SUBSET (Notices \cap {"AUDIO_STATUS"}) :
                    asends' = asends \cup status
              /\ UNCHANGED aLink
         [] OTHER -> arm' = "loop" /\ UNCHANGED <<aLink, asends>>
    /\ UNCHANGED <<mipsVars, edge, cmd, ipc, lag>>

\* The lid is open again.
Awake ==
    /\ arm = "sleep"
    /\ arm' = "loop"
    /\ UNCHANGED <<mipsVars, edge, cmd, fifo, aLink, asends, ipc, lag>>

\* lag_check: fatal_link_error.
LagError ==
    /\ arm = "wait" /\ fifo = Empty /\ lag > LagMax
    /\ aLink' = "FATAL" /\ arm' = "stopped"
    /\ UNCHANGED <<mipsVars, edge, cmd, fifo, asends, ipc, lag>>

ArmStep ==
    \/ EnableCardLine \/ EndHello \/ StartLoop
    \/ (\E c \in Commands : SendCommand(c)) \/ Idle
    \/ EndCommand \/ ReadHeader \/ ReadBody \/ LagError

-----------------------------------------------------------------------------
MipsInit == Poke \/ EndPoke \/ EndInit

Next == MipsInit \/ AppStep \/ MipsIrq \/ ArmIrq \/ ArmStep \/ Awake

\* Both processors keep running, their pending interrupts are taken, the ARM7
\* answers, and VBlanks go on for as long as the screen does.  A main loop that
\* reaches its lowest priority again and again serves it.
Fairness ==
    /\ WF_vars(MipsInit)
    /\ WF_vars(MipsIrq)
    /\ WF_vars(ArmStep)
    /\ WF_vars(HelloIrq)
    /\ WF_vars(CardLineIrq)
    /\ WF_vars(VBlankIrq)
    /\ WF_vars(ReadingIrq("INPUT"))
    /\ WF_vars(ReadingIrq("RTC"))
    /\ SF_vars(SendCommand("QUEUE"))

Spec == Init /\ [][Next]_vars /\ Fairness

-----------------------------------------------------------------------------
(* Safety. *)

\* Everything that will make the ARM9 ask for the send queue once more: an edge
\* to be taken, the flag of its main loop, a SEND_QUEUE on the bus, a reply
\* that does not end the queue.
Asking ==
    (IF edge THEN {"edge"} ELSE {})
    \cup (IF "QUEUE" \in asends THEN {"flag"} ELSE {})
    \cup (IF cmd = "QUEUE" THEN {"command"} ELSE {})
    \cup (IF arm = "wait" /\ ~fifo.end THEN {"reply"} ELSE {})

\* While the link is up on both sides, the ARM9 is about to ask for the queue
\* exactly once if the MIPS has something pending and not at all if it has not:
\* neither can pending data be forgotten ("the queue is forever stuck",
\* globals.h) nor an empty queue asked for.
AskedOnce ==
    mLink = "ESTABLISHED" /\ aLink = "ESTABLISHED" =>
        /\ sends = {} => Asking = {}
        /\ sends # {} => \E t \in Asking : Asking = {t}

\* The end marker is pending with anything else, so that the handler never
\* pulses the card line from inside an exchange.
EndIsLast == sends # {} => "END" \in sends

\* "We must read its command and reply to it" (main.c): a command that the MIPS
\* has handled has left a reply for the ARM9.
EveryCommandAnswered == arm \in {"wait", "hello"} => cmd # None \/ fifo # Empty

-----------------------------------------------------------------------------
(* Liveness.  A DS that is asleep takes nothing, and the main loop reaches    *)
(* its lowest priority only if its own notices leave it the time to.          *)

Asleep == arm = "sleep"
Unstarved == []<>(Asleep \/ arm = "stopped"
                     \/ (arm = "loop" /\ asends \subseteq {"QUEUE"}))

\* The link comes up, whichever pokes the DS has dropped, and the application
\* gets to run.
LinkUp == <>(app = "run" /\ aLink = "ESTABLISHED")

\* Once the application leaves the queue alone, all of it reaches the DS.
QueueDrains ==
    Unstarved /\ <>[][~AppStep]_vars =>
        \/ <>[](/\ sends = {} /\ fifo.kind \notin Kinds
                /\ app = "run" => \A s \in Streams : more[s] = 0)
        \/ <>[]Asleep

\* However much else it submits, a packet of requests gets through.
RequestsTaken ==
    Unstarved => ("REQUESTS" \in sends ~> "REQUESTS" \notin sends \/ []Asleep)

\* An assertion failure or an exception puts an end to the link on the ARM9.
FaultReported == Unstarved => (app = "halted" ~> aLink = "ERROR" \/ []Asleep)

\* The link comes up, and what the application submits gets through it.
GetsThrough == LinkUp /\ QueueDrains /\ RequestsTaken

\* A command that gets no reply stops the DS with an error on its screen, and
\* is not waited for forever.
UnansweredIsFatal == ~EveryCommandAnswered ~> aLink = "FATAL"

-----------------------------------------------------------------------------
(* The link as a priority queue.                                              *)

SQ == INSTANCE SendQueue WITH
        Rank <- SendBit,
        Fatal <- {"EXCEPTION", "ASSERT"},
        pending <- sends \ {"END"},
        transit <- IF fifo.kind \in Kinds THEN fifo.kind ELSE None,
        closed <- aLink = "ERROR"

\* What the application submits reaches the DS in order of priority, each piece
\* once, and nothing after a fatal report.
ImplementsSendQueue == SQ!Spec
=============================================================================
