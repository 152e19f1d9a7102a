---------------------------- MODULE AudioStream ----------------------------
(***************************************************************************)
(* Audio from the application to the sound hardware.  The MIPS processor   *)
(* and the ARM9 have a ring buffer each, of the same length.  Samples move *)
(* from one to the other in packets of the send queue; the ARM9 reports    *)
(* how many it has played, and when the stream has started or stopped.     *)
(*                                                                         *)
(* The link is the one of CardLink, reduced to what it does for audio:     *)
(* one exchange at a time, notices of the ARM9 first, requests before      *)
(* samples.                                                                *)
(***************************************************************************)
EXTENDS Naturals, Sequences

CONSTANTS
    Size,       \* snd_samples and audio_buffer_samples: the buffer size, plus 1
    PacketMax,  \* samples in 508 bytes
    Length,     \* samples that the ARM9's mixer asks for at once
    MaxSubmit   \* bound: samples in one call of DS2_SubmitAudio

ASSUME SizeAssumption == Size \in Nat \ {0, 1}
ASSUME BurstAssumption ==
    PacketMax \in Nat \ {0} /\ Length \in Nat \ {0} /\ MaxSubmit \in Nat \ {0}

\* Samples are numbered in the order of their submission.  The numbers wrap
\* later than the rings do: a stale sample never passes for a fresh one.
Numbers == Size + 1
Junk == Numbers
Samples == 0..Numbers
Indices == 0..(Size - 1)
Unwritten == [i \in Indices |-> Junk]

VARIABLES
    pc,        \* MIPS application: the wait that it is in
    todo,      \* samples that DS2_SubmitAudio has yet to put in the ring
    seen,      \* its copy of snd_read
    status,    \* snd_status
    sndRead, sndSend, sndWrite,
    buffer,    \* snd_buffer
    announced, \* PENDING_SEND_AUDIO
    requests,  \* start_audio and stop_audio of the pending request packet
    arm,       \* ARM9: the exchange that it is in
    note,      \* the count or the status in the command being sent
    order,     \* the requests being received
    wire,      \* the samples being received
    notices,   \* PENDING_SEND_AUDIO_CONSUMED and _STATUS of the ARM9
    started,   \* audio_started; the mixer calls audio_update
    armRead, armWrite,
    armBuffer, \* audio_buffer
    consumed,  \* audio_consumed
    \* The rest is for the properties alone.
    submitted, \* number of the next sample to be put in the ring
    played     \* number of the next sample to be played

appVars == <<pc, todo, seen>>
ringVars == <<sndRead, sndSend, sndWrite, buffer>>
mipsVars == <<appVars, status, ringVars, announced, requests, submitted>>
streamVars == <<started, armRead, armWrite, armBuffer, consumed, played>>
armVars == <<arm, note, order, wire, notices, streamVars>>
vars == <<mipsVars, armVars>>

TypeOK ==
    /\ pc \in {"idle", "restart", "start", "stop", "submit", "fill", "full"}
    /\ todo \in 0..MaxSubmit /\ seen \in Indices
    /\ status \in {"STOPPED", "STARTING", "STARTED", "STOPPING"}
    /\ sndRead \in Indices /\ sndSend \in Indices /\ sndWrite \in Indices
    /\ buffer \in [Indices -> Samples]
    /\ announced \in BOOLEAN
    /\ requests \subseteq {"start", "stop"}
    /\ arm \in {"loop", "consumed", "status", "ask", "requests", "audio",
                "error"}
    /\ note \in Indices
    /\ order \subseteq {"start", "stop"}
    /\ wire \in Seq(Samples) /\ Len(wire) <= PacketMax
    /\ notices \subseteq {"CONSUMED", "STATUS"}
    /\ started \in BOOLEAN
    /\ armRead \in Indices /\ armWrite \in Indices
    /\ armBuffer \in [Indices -> Samples]
    /\ consumed \in 0..(Size - 1)

Init ==
    /\ pc = "idle" /\ todo = 0 /\ seen = 0
    /\ status = "STOPPED"
    /\ sndRead = 0 /\ sndSend = 0 /\ sndWrite = 0 /\ buffer = Unwritten
    /\ announced = FALSE /\ requests = {}
    /\ arm = "loop" /\ note = 0 /\ order = {} /\ wire = <<>>
    /\ notices = {}
    /\ started = FALSE
    /\ armRead = 0 /\ armWrite = 0 /\ armBuffer = Unwritten
    /\ consumed = 0
    /\ submitted = 0 /\ played = 0

-----------------------------------------------------------------------------
(* Rings. *)

Smaller(a, b) == IF a < b THEN a ELSE b

\* _add_wrap_fast and add_wrap_fast.
AddWrap(index, increment) ==
    IF index + increment >= Size THEN index + increment - Size
                                 ELSE index + increment

Fullness(read, write) ==
    IF write >= read THEN write - read ELSE Size - (read - write)

\* n samples of a ring, copied in two parts if they wrap around its end.
Copy(ring, read, n) ==
    [i \in 1..n |-> IF read + i <= Size THEN ring[read + i - 1]
                                        ELSE ring[read + i - 1 - Size]]

\* A ring after the samples s have been copied in at an index.
Store(ring, write, s) ==
    [i \in Indices |->
        LET k == Fullness(write, i) + 1
        IN  IF k <= Len(s) THEN s[k] ELSE ring[i]]

-----------------------------------------------------------------------------
(* The MIPS application. *)

\* Mutant: the gap of one sample that tells full from empty is not kept.
NoGap(read, write) ==
    IF write >= read THEN Size - write ELSE read - write - 1

\* Samples that can be put in the ring in one piece; a second piece may follow
\* where the first ends at the end of the ring.
Room(read, write) ==
    IF write >= read THEN Size - write - (IF read = 0 THEN 1 ELSE 0)
                     ELSE read - write - 1

\* DS2_StartAudio waits for an earlier start, then stops that stream; it then
\* waits until the stream has stopped.
CallStart ==
    /\ pc = "idle"
    /\ pc' = "restart"
    /\ UNCHANGED <<todo, seen, status, ringVars, announced, requests,
                   submitted, armVars>>

\* Mutant: samples announced earlier stay announced.
StopNoisily ==
    /\ status' = "STOPPING"
    /\ requests' = requests \cup {"stop"}
    /\ buffer' = Unwritten
    /\ UNCHANGED announced

\* The critical section of DS2_StopAudio: the ring is freed.
StopNow ==
    /\ status' = "STOPPING"
    /\ requests' = requests \cup {"stop"}
    /\ buffer' = Unwritten
    /\ announced' = FALSE

Restart ==
    /\ pc = "restart" /\ status # "STARTING"
    /\ IF status = "STARTED"
       THEN StopNow
       ELSE UNCHANGED <<status, requests, buffer, announced>>
    /\ pc' = "start"
    /\ UNCHANGED <<todo, seen, sndRead, sndSend, sndWrite, submitted, armVars>>

\* The critical section of DS2_StartAudio, if there is memory for the ring.
Start ==
    /\ pc = "start" /\ status # "STOPPING"
    /\ status' = "STARTING"
    /\ requests' = requests \cup {"start"}
    /\ sndRead' = 0 /\ sndSend' = 0 /\ sndWrite' = 0
    /\ submitted' = 0
    /\ pc' = "idle"
    /\ UNCHANGED <<todo, seen, buffer, announced, armVars>>

\* ENOMEM.
StartFails ==
    /\ pc = "start" /\ status # "STOPPING"
    /\ pc' = "idle"
    /\ UNCHANGED <<todo, seen, status, ringVars, announced, requests,
                   submitted, armVars>>

CallStop ==
    /\ pc = "idle"
    /\ pc' = "stop"
    /\ UNCHANGED <<todo, seen, status, ringVars, announced, requests,
                   submitted, armVars>>

\* DS2_StopAudio.
Stop ==
    /\ pc = "stop" /\ status # "STARTING"
    /\ IF status = "STARTED"
       THEN StopNow
       ELSE UNCHANGED <<status, requests, buffer, announced>>
    /\ pc' = "idle"
    /\ UNCHANGED <<todo, seen, sndRead, sndSend, sndWrite, submitted, armVars>>

CallSubmit(n) ==
    /\ pc = "idle"
    /\ pc' = "submit" /\ todo' = n
    /\ UNCHANGED <<seen, status, ringVars, announced, requests, submitted,
                   armVars>>

\* DS2_SubmitAudio waits for a start, and fails with EFAULT without a stream.
Submit ==
    /\ pc = "submit" /\ status # "STARTING"
    /\ IF status = "STARTED"
       THEN pc' = "fill" /\ UNCHANGED todo
       ELSE pc' = "idle" /\ todo' = 0
    /\ UNCHANGED <<seen, status, ringVars, announced, requests, submitted,
                   armVars>>

\* The loop of DS2_SubmitAudio, in its critical section, until the ring is full
\* or all samples are in.
Fill ==
    LET one == Smaller(todo, Room(sndRead, sndWrite))
        two == Smaller(todo - one, Room(sndRead, AddWrap(sndWrite, one)))
        n == one + two
    IN  /\ pc = "fill"
        /\ buffer' = Store(buffer, sndWrite,
                           [i \in 1..n |-> (submitted + i - 1) % Numbers])
        /\ sndWrite' = AddWrap(AddWrap(sndWrite, one), two)
        /\ submitted' = (submitted + n) % Numbers
        /\ announced' = (announced \/ n > 0)
        /\ todo' = todo - n
        /\ IF n = todo
           THEN pc' = "idle" /\ UNCHANGED seen
           ELSE pc' = "full" /\ seen' = sndRead
        /\ UNCHANGED <<status, sndRead, sndSend, requests, armVars>>

\* Some samples have been played since.
Drained ==
    /\ pc = "full" /\ sndRead # seen
    /\ pc' = "fill"
    /\ UNCHANGED <<todo, seen, status, ringVars, announced, requests,
                   submitted, armVars>>

InCall == Restart \/ Start \/ StartFails \/ Stop \/ Submit \/ Fill \/ Drained
AppStep == CallStart \/ CallStop \/ (\E n \in 1..MaxSubmit : CallSubmit(n))
           \/ InCall

-----------------------------------------------------------------------------
(* The card command interrupt of the MIPS. *)

\* CARD_COMMAND_AUDIO_CONSUMED: _audio_consumed.
AudioConsumed ==
    /\ arm = "consumed"
    /\ sndRead' = AddWrap(sndRead, note)
    /\ arm' = "loop" /\ note' = 0
    /\ UNCHANGED <<appVars, status, sndSend, sndWrite, buffer, announced,
                   requests, submitted, order, wire, notices, streamVars>>

\* CARD_COMMAND_AUDIO_STATUS.
AudioStatus ==
    /\ arm = "status"
    /\ status' = IF note # 0 THEN "STARTED" ELSE "STOPPED"
    /\ arm' = "loop" /\ note' = 0
    /\ UNCHANGED <<appVars, ringVars, announced, requests, submitted, order,
                   wire, notices, streamVars>>

\* _send_requests.
SendRequests ==
    /\ arm = "ask" /\ requests # {}
    /\ order' = requests
    /\ requests' = {}
    /\ arm' = "requests"
    /\ UNCHANGED <<appVars, status, ringVars, announced, submitted, note,
                   wire, notices, streamVars>>

\* Mutant: packets are always full.
FullPackets == PacketMax

\* _audio_encoding_0: what to send, of a ring that is known not to be empty.
ToSend ==
    Smaller(IF sndSend < sndWrite THEN sndWrite - sndSend
                                  ELSE Size - (sndSend - sndWrite),
            PacketMax)

\* _audio_dequeue.
AudioDequeue ==
    /\ arm = "ask" /\ requests = {} /\ announced
    /\ wire' = Copy(buffer, sndSend, ToSend)
    /\ sndSend' = AddWrap(sndSend, ToSend)
    /\ announced' = (sndSend' # sndWrite)
    /\ arm' = "audio"
    /\ UNCHANGED <<appVars, status, sndRead, sndWrite, buffer, requests,
                   submitted, note, order, notices, streamVars>>

MipsIrq == AudioConsumed \/ AudioStatus \/ SendRequests \/ AudioDequeue

-----------------------------------------------------------------------------
(* The ARM9. *)

\* audio_update, called by the mixer in an interrupt.
AudioUpdate ==
    LET n == Smaller(Fullness(armRead, armWrite), Length)
    IN  /\ started /\ arm # "error"
        /\ armRead # armWrite
        /\ armRead' = AddWrap(armRead, n)
        /\ consumed' = consumed + n
        /\ notices' = notices \cup {"CONSUMED"}
        /\ played' = (played + n) % Numbers
        /\ UNCHANGED <<mipsVars, arm, note, order, wire, started, armWrite,
                       armBuffer>>

\* Mutant: what was reported is reported again.
ReportAgain ==
    /\ arm = "loop" /\ "CONSUMED" \in notices
    /\ notices' = notices \ {"CONSUMED"}
    /\ note' = consumed
    /\ arm' = "consumed"
    /\ UNCHANGED <<mipsVars, order, wire, streamVars>>

\* PENDING_SEND_AUDIO_CONSUMED in main: count and reset with IME off.
SendConsumed ==
    /\ arm = "loop" /\ "CONSUMED" \in notices
    /\ notices' = notices \ {"CONSUMED"}
    /\ note' = consumed /\ consumed' = 0
    /\ arm' = "consumed"
    /\ UNCHANGED <<mipsVars, order, wire, started, armRead, armWrite,
                   armBuffer, played>>

\* PENDING_SEND_AUDIO_STATUS in main.
SendStatus ==
    /\ arm = "loop" /\ notices = {"STATUS"}
    /\ notices' = {}
    /\ note' = IF started THEN 1 ELSE 0
    /\ arm' = "status"
    /\ UNCHANGED <<mipsVars, order, wire, streamVars>>

\* PENDING_SEND_QUEUE in main.
Ask ==
    /\ arm = "loop" /\ notices = {}
    /\ announced \/ requests # {}
    /\ arm' = "ask"
    /\ UNCHANGED <<mipsVars, note, order, wire, notices, streamVars>>

\* Mutant: audio_stop leaves the count as it is.
CountKept == consumed

\* What audio_stop leaves of the count of samples to report.
CountLeft == 0

\* Mutant: the end of a stream is not reported.
StartedOnly == IF "start" \in order THEN {"STATUS"} ELSE {}

\* The last lines of audio_start and audio_stop.
StatusChanged == {"STATUS"}

\* process_requests: audio_stop, then audio_start, which would stop an earlier
\* stream and starts over with an unwritten ring.
ProcessRequests ==
    LET stops == "stop" \in order \/ started
    IN  /\ arm = "requests"
        /\ started' = ("start" \in order)
        /\ notices' = (IF stops THEN notices \ {"CONSUMED"} ELSE notices)
                    \cup StatusChanged
        /\ consumed' = IF stops THEN CountLeft ELSE consumed
        /\ armBuffer' = Unwritten
        /\ IF "start" \in order
           THEN armRead' = 0 /\ armWrite' = 0 /\ played' = 0
           ELSE UNCHANGED <<armRead, armWrite, played>>
        /\ arm' = "loop" /\ order' = {}
        /\ UNCHANGED <<mipsVars, note, wire>>

\* The check of audio_encoding_0, for a piece of n samples at an index.
Overrun(write, n) ==
    \/ armRead = 0 /\ write + n = Size
    \/ armRead # 0 /\ write < armRead /\ write + n >= armRead

\* audio_encoding_0: in a piece up to the end of the ring, and another.
ReadAudio ==
    LET one == Smaller(Size - armWrite, Len(wire))
        two == Len(wire) - one
    IN  /\ arm = "audio"
        /\ IF Overrun(armWrite, one) \/ (two > 0 /\ Overrun(0, two))
           THEN arm' = "error" /\ UNCHANGED <<armBuffer, armWrite>>
           ELSE /\ arm' = "loop"
                /\ armBuffer' = Store(armBuffer, armWrite, wire)
                /\ armWrite' = AddWrap(AddWrap(armWrite, one), two)
        /\ wire' = <<>>
        /\ UNCHANGED <<mipsVars, note, order, notices, started, armRead,
                       consumed, played>>

ArmStep == SendConsumed \/ SendStatus \/ Ask \/ ProcessRequests \/ ReadAudio

Next == AppStep \/ MipsIrq \/ ArmStep \/ AudioUpdate

\* Both processors run on, and the mixer asks for samples while it is started.
Fairness == WF_vars(InCall) /\ WF_vars(MipsIrq) /\ WF_vars(ArmStep)
            /\ WF_vars(AudioUpdate)

Spec == Init /\ [][Next]_vars /\ Fairness

-----------------------------------------------------------------------------
(* Safety. *)

\* "Supercard sent enough audio to cause a buffer overrun that behaves like an
\* underrun" (audio_encoding_0.c of the ARM9) cannot happen: the two rings have
\* one length, and the MIPS takes back room only for what was reported played.
NoOverrun == arm # "error"

\* The samples that the mixer will find are those of this stream, in the order
\* of their submission, however often the two rings have wrapped.
PlaysInOrder ==
    started => Copy(armBuffer, armRead, Fullness(armRead, armWrite))
                 = [i \in 1..Fullness(armRead, armWrite) |->
                       (played + i - 1) % Numbers]

\* Every sample that takes up room in the ring of the MIPS is in one place: yet
\* to be sent, on the wire, in the ring of the ARM9, or played and yet to be
\* reported; and nothing of an old stream is left when a new one starts.  Samples
\* are announced exactly while there are some to send: _audio_encoding_0 takes an
\* empty ring for a full one, and a stopped stream has no ring.
SamplesAccountedFor ==
    /\ announced <=> status = "STARTED" /\ sndSend # sndWrite
    /\ status = "STARTED" =>
          Fullness(sndRead, sndWrite) =
              Fullness(sndSend, sndWrite) + Len(wire)
              + Fullness(armRead, armWrite) + consumed
              + (IF arm = "consumed" THEN note ELSE 0)
    /\ status = "STARTING" =>
          /\ consumed = 0 /\ "CONSUMED" \notin notices
          /\ arm \notin {"consumed", "audio"}

-----------------------------------------------------------------------------
(* Liveness. *)

\* A call returns: a start or stop is answered, and a full ring drains.
CallsReturn == pc # "idle" ~> pc = "idle"
=============================================================================
