----------------------------- MODULE VideoQueue ------------------------------
(***************************************************************************)
(* Screen updates, from the application to the Nintendo DS's screens.  The *)
(* MIPS side keeps a queue of screens to send and prepares one packet at a *)
(* time; the handler of SEND_QUEUE sends that packet and prepares the next. *)
(* The ARM9 draws packets into one of three Main Screen buffers or into    *)
(* the Sub Screen, and flips between the Main Screen buffers at VBlank.    *)
(*                                                                         *)
(* How the ARM9 comes to ask for the queue is the business of CardLink: it *)
(* asks while video is announced.                                          *)
(***************************************************************************)
EXTENDS Naturals, Sequences

CONSTANTS
    FullScreen,   \* bound: packets in a whole screen
    Compress,     \* DS2_UseVideoCompression
    Patient       \* does the application leave the queue alone while the last
                  \* packet of a screen is prepared but not yet sent?

ASSUME VideoAssumption ==
    FullScreen \in Nat \ {0} /\ Compress \in BOOLEAN /\ Patient \in BOOLEAN

Buffers == 0..2            \* MAIN_BUFFER_COUNT
Sub == 3                   \* the Sub Screen, which has one buffer
Screens == Buffers \cup {Sub}

\* Mutant: no wrap around.
Beyond(b) == b + 1
After(b) == (b + 1) % 3

VARIABLES
    call,      \* the video update function that the application is in
    pc,        \* "idle", or what that function is about to do
    current,   \* vid_main_current: the buffer the application draws in
    shown,     \* vid_main_displayed: the buffer the DS has last told of
    wasFlip,   \* vid_last_was_flip
    wasPal,    \* vid_main_was_palette
    busy,      \* screens whose busy flag is set
    queue,     \* vid_queue
    ready,     \* the prepared packet: vid_header_1, vid_header_2, vid_next_ptr
    announced, \* PENDING_SEND_VIDEO is in pending_sends
    arm,       \* ARM9: "loop", "tell", "ask" or "draw"
    wire,      \* the packet being read by the ARM9
    note,      \* the index in the VIDEO_DISPLAYED command being sent
    told,      \* PENDING_SEND_VIDEO_DISPLAYED is in the ARM9's pending_sends
    display,   \* video_main_current
    last,      \* video_main_last
    flips,     \* flip_target_buffer, the first pending_flip_count elements
    usesPal    \* video_main_use_palette

appVars == <<call, pc, current, wasFlip, wasPal>>
queueVars == <<busy, queue, ready, announced>>
armVars == <<arm, wire, note, told, display, last, flips, usesPal>>
vars == <<appVars, shown, queueVars, armVars>>

Calls == [screen : {"main", "sub"}, flip : BOOLEAN, whole : BOOLEAN]
NoCall == [screen |-> "none", flip |-> FALSE, whole |-> FALSE]

\* "hidden" tells, for the properties alone, that the code waited for the DS to
\* show another buffer before it sent this one; "part" that rows were left out.
Entries == [screen : Screens, left : 1..FullScreen, palette : BOOLEAN,
            paletteSent : BOOLEAN, hidden : BOOLEAN, part : BOOLEAN]
Packets == [screen : Screens, body : {"palette", "indexed", "pixels"},
            end : BOOLEAN, copied : BOOLEAN, hidden : BOOLEAN, part : BOOLEAN]
NoPacket == [screen |-> Sub, body |-> "none", end |-> FALSE, copied |-> TRUE,
             hidden |-> FALSE, part |-> FALSE]

TypeOK ==
    /\ call \in Calls \cup {NoCall}
    /\ pc \in {"idle", "busy", "shown", "enqueue"}
    /\ current \in Buffers /\ shown \in Buffers
    /\ wasFlip \in BOOLEAN
    /\ wasPal \in [Buffers -> BOOLEAN]
    /\ busy \subseteq Screens
    /\ queue \in Seq(Entries)
    /\ ready \in Packets \cup {NoPacket}
    /\ announced \in BOOLEAN
    /\ arm \in {"loop", "tell", "ask", "draw"}
    /\ wire \in Packets \cup {NoPacket}
    /\ note \in Buffers
    /\ told \in BOOLEAN
    /\ display \in Buffers /\ last \in Buffers
    /\ flips \in Seq(Buffers)
    /\ usesPal \in [Buffers -> BOOLEAN]

Init ==
    /\ call = NoCall /\ pc = "idle"
    /\ current = 0 /\ shown = 0
    /\ wasFlip = FALSE
    /\ wasPal = [b \in Buffers |-> FALSE]
    /\ busy = {} /\ queue = <<>> /\ ready = NoPacket /\ announced = FALSE
    /\ arm = "loop" /\ wire = NoPacket /\ note = 0 /\ told = FALSE
    /\ display = 0 /\ last = 0 /\ flips = <<>>
    /\ usesPal = [b \in Buffers |-> FALSE]

-----------------------------------------------------------------------------
(* The packet queue on the MIPS side. *)

\* Mutant: the end of a frame is sent straight from the screen buffer too.
OnlyIndexedCopied(e) == e.palette

\* The packet is made in vid_next_data, not sent straight from the screen buffer.
Copied(e) == e.palette \/ e.left = 1

\* What _video_encoding_0, _video_encoding_1 or _send_palette makes of the head
\* of the queue.  The end of a screen and indexed pixels are copied aside;
\* other packets are sent straight from the screen buffer or the palette.
HeadPacket(e) ==
    IF e.palette /\ ~e.paletteSent
    THEN [screen |-> e.screen, body |-> "palette", end |-> FALSE,
          copied |-> FALSE, hidden |-> e.hidden, part |-> e.part]
    ELSE [screen |-> e.screen,
          body |-> IF e.palette THEN "indexed" ELSE "pixels",
          end |-> e.left = 1,
          copied |-> Copied(e),
          hidden |-> e.hidden, part |-> e.part]

\* What is left of the head afterwards; nothing if that was its last packet.
Remainder(e) ==
    IF e.palette /\ ~e.paletteSent THEN <<[e EXCEPT !.paletteSent = TRUE]>>
    ELSE IF e.left > 1 THEN <<[e EXCEPT !.left = @ - 1]>>
    ELSE <<>>

\* Mutant: the screens of the queue take turns.
DequeueInTurn(q, b) ==
    LET rest == Remainder(Head(q))
    IN  /\ announced' = TRUE
        /\ ready' = HeadPacket(Head(q))
        /\ queue' = Tail(q) \o rest
        /\ busy' = IF rest = <<>> THEN b \ {Head(q).screen} ELSE b

\* _video_dequeue, with the queue q and the busy flags b.
Dequeue(q, b) ==
    LET rest == Remainder(Head(q))
    IN  /\ announced' = TRUE
        /\ ready' = HeadPacket(Head(q))
        /\ queue' = rest \o Tail(q)
        /\ busy' = IF rest = <<>> THEN b \ {Head(q).screen} ELSE b

-----------------------------------------------------------------------------
(* The application: video_enqueue. *)

Target(c) == IF c.screen = "main" THEN current ELSE Sub

\* DS2_UpdateScreen, DS2_FlipMainScreen and their Part variants; the Sub Screen
\* cannot be flipped.
Call(c) ==
    /\ pc = "idle"
    /\ c.screen = "sub" => ~c.flip
    /\ call' = c
    /\ pc' = "busy"
    /\ UNCHANGED <<current, shown, wasFlip, wasPal, queueVars, armVars>>

\* Mutant: the transfer is not waited for.
NotWaitedFor(s) == TRUE

\* The transfer of this very screen has ended.
Free(s) == s \notin busy

NotBusy ==
    /\ pc = "busy" /\ Free(Target(call))
    /\ pc' = IF call.screen = "main" /\ wasFlip THEN "shown" ELSE "enqueue"
    /\ UNCHANGED <<call, current, shown, wasFlip, wasPal, queueVars, armVars>>

\* Mutant: the DS is not waited for.
Anyway == TRUE

\* After a flip: the DS shows another buffer than the one to flip to, or the
\* buffer just before the one to update.
Hidden == IF call.flip THEN shown # current ELSE After(shown) = current

NotShown ==
    /\ pc = "shown"
    /\ Hidden
    /\ pc' = "enqueue"
    /\ UNCHANGED <<call, current, shown, wasFlip, wasPal, queueVars, armVars>>

\* The rest of video_enqueue, ending with its critical section.  Whether the
\* screen has few enough colours for a palette is up to its contents.
Enqueue(palette, rows) ==
    LET whole == call.whole \/ wasPal[current] \/ palette
        entry == [screen |-> Target(call),
                  left |-> IF whole THEN FullScreen ELSE rows,
                  palette |-> palette, paletteSent |-> FALSE,
                  hidden |-> call.screen = "main" /\ wasFlip,
                  part |-> ~whole]
        tail == Append(queue, entry)
    IN  /\ pc = "enqueue"
        /\ palette => Compress /\ call.screen = "main" /\ call.flip /\ wasFlip
        /\ Patient => ~announced \/ queue # <<>>
        /\ wasPal' = [wasPal EXCEPT ![current] = palette]
        /\ IF Len(tail) = 1
           THEN Dequeue(tail, busy \cup {entry.screen})
           ELSE /\ queue' = tail
                /\ busy' = busy \cup {entry.screen}
                /\ UNCHANGED <<ready, announced>>
        /\ current' = IF call.flip THEN After(current) ELSE current
        /\ wasFlip' = IF call.screen = "main" THEN call.flip ELSE wasFlip
        /\ call' = NoCall /\ pc' = "idle"
        /\ UNCHANGED <<shown, armVars>>

AppStep ==
    \/ \E c \in Calls : Call(c)
    \/ NotBusy \/ NotShown
    \/ \E palette \in BOOLEAN, rows \in 1..FullScreen : Enqueue(palette, rows)

-----------------------------------------------------------------------------
(* The card command interrupt of the MIPS. *)

\* PENDING_SEND_VIDEO in _main_protocol.
SendVideo ==
    /\ arm = "ask"
    /\ arm' = "draw"
    /\ wire' = ready
    /\ IF queue = <<>>
       THEN announced' = FALSE /\ UNCHANGED <<busy, queue, ready>>
       ELSE Dequeue(queue, busy)
    /\ UNCHANGED <<appVars, shown, note, told, display, last, flips, usesPal>>

\* _video_displayed.
Displayed ==
    /\ arm = "tell"
    /\ shown' = note
    /\ arm' = "loop"
    /\ UNCHANGED <<appVars, queueVars, wire, note, told, display, last, flips,
                   usesPal>>

MipsIrq == SendVideo \/ Displayed

-----------------------------------------------------------------------------
(* The ARM9. *)

\* PENDING_SEND_VIDEO_DISPLAYED: the index is read with IME off.
Tell ==
    /\ arm = "loop" /\ told
    /\ told' = FALSE
    /\ note' = display
    /\ arm' = "tell"
    /\ UNCHANGED <<appVars, shown, queueVars, wire, display, last, flips,
                   usesPal>>

\* PENDING_SEND_QUEUE, which comes after VIDEO_DISPLAYED.
Ask ==
    /\ arm = "loop" /\ ~told /\ announced
    /\ arm' = "ask"
    /\ UNCHANGED <<appVars, shown, queueVars, wire, note, told, display, last,
                   flips, usesPal>>

\* add_pending_flip.
AddPendingFlip(b) ==
    IF b # last /\ Len(flips) < 3
    THEN flips' = Append(flips, b) /\ last' = b
    ELSE UNCHANGED <<flips, last>>

\* The video case of process_send_queue.  Interrupts stay on while the pixels
\* are read into video memory.
Draw ==
    /\ arm = "draw"
    /\ arm' = "loop"
    /\ wire' = NoPacket
    /\ IF wire.screen = Sub
       THEN UNCHANGED <<usesPal, flips, last>>
       ELSE /\ usesPal' = [usesPal EXCEPT ![wire.screen] = wire.body # "pixels"]
            /\ IF wire.end THEN AddPendingFlip(wire.screen)
                           ELSE UNCHANGED <<flips, last>>
    /\ UNCHANGED <<appVars, shown, queueVars, note, told, display>>

\* Mutant: the MIPS is not told of the flip.
FlipSilently ==
    /\ flips # <<>>
    /\ display' = Head(flips)
    /\ flips' = Tail(flips)
    /\ UNCHANGED <<appVars, shown, queueVars, arm, wire, note, told, last,
                   usesPal>>

\* apply_pending_flip, in vblank_handler.
VBlank ==
    /\ flips # <<>>
    /\ display' = Head(flips)
    /\ flips' = Tail(flips)
    /\ told' = TRUE
    /\ UNCHANGED <<appVars, shown, queueVars, arm, wire, note, last, usesPal>>

ArmStep == Tell \/ Ask \/ Draw

Next == AppStep \/ MipsIrq \/ ArmStep \/ VBlank

\* Both processors keep running and VBlanks keep coming; an application is not
\* obliged to call anything.
Fairness ==
    /\ WF_vars(NotBusy) /\ WF_vars(NotShown)
    /\ WF_vars(\E palette \in BOOLEAN, rows \in 1..FullScreen :
                   Enqueue(palette, rows))
    /\ WF_vars(MipsIrq) /\ WF_vars(ArmStep) /\ WF_vars(VBlank)

Spec == Init /\ [][Next]_vars /\ Fairness

-----------------------------------------------------------------------------
(* Safety. *)

\* vid_queue has room for one entry per screen, and video_enqueue relies on the
\* busy flags alone never to write past its end: a screen is in the queue, once,
\* exactly while its flag is set.
OneEntryPerScreen ==
    /\ \A s \in Screens :
          s \in busy <=> \E i \in DOMAIN queue : queue[i].screen = s
    /\ \A i, j \in DOMAIN queue : queue[i].screen = queue[j].screen => i = j

\* "The screen is no longer considered busy and the application could write into
\* them right away" (globals.h): pixels that are to be sent straight from a
\* screen buffer belong to a screen that is busy.
SourceIsBusy == announced /\ ~ready.copied => ready.screen \in busy

\* "It will appear immediately and tear the screen" (video.c): a frame for which
\* the code waited is never drawn into the buffer being displayed; and the ARM9
\* has room for every flip that the MIPS asks for, and never discards one that
\* would change the screen.
FlipsAreSafe ==
    /\ arm = "draw" /\ wire.hidden => wire.screen # display
    /\ Len(flips) < 3

\* "A palette frame can't be updated partially" (globals.h): a part of a frame
\* is never drawn as pixels over a buffer that holds palette indices.
NoPartOverPalette ==
    arm = "draw" /\ wire.screen \in Buffers /\ wire.body = "pixels" /\ wire.part
        => ~usesPal[wire.screen]

-----------------------------------------------------------------------------
(* Liveness.                                                                  *)

\* A video update function returns.
CallsReturn == pc # "idle" ~> pc = "idle"

\* The MIPS ends up knowing which buffer is displayed.
ShownCatchesUp == [](display # shown => <>(display = shown \/ flips # <<>>))

\* Calls return, and both sides come to agree on what is displayed.
ScreensSettle == CallsReturn /\ ShownCatchesUp
=============================================================================
