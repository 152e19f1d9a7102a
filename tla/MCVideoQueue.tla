---------------------------- MODULE MCVideoQueue ----------------------------
(***************************************************************************)
(* VideoQueue for TLC: what is still to be drawn, spelt out as a sequence  *)
(* of packets for the four entries that vid_queue can hold.                *)
(***************************************************************************)
EXTENDS VideoQueue

\* The packets that _video_dequeue will make of an entry.
PacketsOf(e) ==
    LET pixels == [e EXCEPT !.paletteSent = TRUE]
    IN  (IF e.palette /\ ~e.paletteSent THEN <<HeadPacket(e)>> ELSE <<>>)
        \o [i \in 1..e.left |->
               HeadPacket([pixels EXCEPT !.left = e.left + 1 - i])]

Queued(i) == IF i \in DOMAIN queue THEN PacketsOf(queue[i]) ELSE <<>>

Undrawn ==
    (IF arm = "draw" THEN <<wire>> ELSE <<>>)
    \o (IF announced THEN <<ready>> ELSE <<>>)
    \o Queued(1) \o Queued(2) \o Queued(3) \o Queued(4)

Extends(s, t) == Len(t) <= Len(s) /\ SubSeq(s, 1, Len(t)) = t

\* "Begins to send the active screen of the given engine to the Nintendo DS"
\* (video.txt): an update adds its packets at the end of what is to be drawn,
\* drawing takes the first, and nothing else touches the rest.
DrawnInOrder ==
    [][ \/ Extends(Undrawn', Undrawn)
        \/ Undrawn # <<>> /\ Undrawn' = Tail(Undrawn) ]_vars
=============================================================================
